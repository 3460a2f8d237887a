--------------------------- MODULE TemplateRender ---------------------------
(***************************************************************************)
(* The renderer of the generator's templates                               *)
(* (src/generator/trees/domain/tree.py, Scope and Template): values,       *)
(* sections that repeat or stand for a flag, inverted sections, and tags   *)
(* that are alone on their line and take the line with them.               *)
(*                                                                         *)
(* A template is a sequence of tokens, each a mark and a name: a tag is    *)
(* one token, as is a line's end, a blank, and a stretch of other text.    *)
(* The renderer works on positions, copying and recursing into what is     *)
(* between two tags; the reference below it works on the tokens' nesting.  *)
(***************************************************************************)
EXTENDS Naturals, Sequences, SequencesExt, FiniteSets

CONSTANTS
    Tokens,   \* the tokens of a template
    MaxLen,   \* the longest template
    Repeats   \* how often the listed section repeats

VARIABLES
    template,  \* the tokens written so far
    scope      \* what the template is rendered with

vars == <<template, scope>>

\* Marks: "#" opens a section, "^" an inverted one, "/" closes, "=" is a
\* value; "n" ends a line, "b" is a blank, "x" other text.
Mark(token) == token[1]
Name(token) == token[2]
Tag(token) == Mark(token) \in {"#", "^", "/", "="}
Newline(token) == Mark(token) = "n"
Blank(token) == Mark(token) \in {"n", "b"}

\* A scope lists the section "list", holds the flag "flag", and binds the
\* value "item": to nothing written outside of the list, and inside to the
\* number of the entry.
Scopes == [list : Repeats, flag : BOOLEAN, item : {0}]

\* The scopes of the sections within.
Entered == [list : Repeats, flag : BOOLEAN, item : Nat]

-----------------------------------------------------------------------------
(* The scope.                                                              *)

Bound == {"list", "flag"}

\* A mutant: every entry is rendered in the scope of the whole.
EnterOutside(in, name) ==
    IF name = "list" THEN [i \in 1..in.list |-> in]
    ELSE IF in.flag THEN <<in>> ELSE <<>>

\* The scopes a section is rendered in, once each.
Enter(in, name) ==
    IF name = "list" THEN [i \in 1..in.list |-> [in EXCEPT !.item = i]]
    ELSE IF in.flag THEN <<in>> ELSE <<>>

Skip(in, name) ==
    IF name = "list" THEN (IF in.list = 0 THEN <<in>> ELSE <<>>)
    ELSE IF in.flag THEN <<>> ELSE <<in>>

\* A mutant: a value nobody bound is written as its tag.
WrittenAsItIs(in) == IF in.item = 0 THEN <<"=", "item">> ELSE <<"item", in.item>>

Written(in) == <<"item", in.item>>

-----------------------------------------------------------------------------
(* The renderer.                                                           *)

Failed == [failed |-> TRUE, out |-> <<>>]
Text(out) == [failed |-> FALSE, out |-> out]

\* The first tag at a position or after it, 0 if there is none.
TagFrom(text, position) ==
    LET tags == {i \in position..Len(text) : Tag(text[i])}
    IN  IF tags = {} THEN 0 ELSE CHOOSE i \in tags : \A j \in tags : i <= j

\* Tags of a section's name that open and close it between two positions.
Opens(text, name, from, to) ==
    Cardinality({i \in from..to : Mark(text[i]) \in {"#", "^"} /\ Name(text[i]) = name})
Closes(text, name, from, to) ==
    Cardinality({i \in from..to : Mark(text[i]) = "/" /\ Name(text[i]) = name})

\* Mutants: the first closing tag of the name closes the section; a section
\* nobody closes ends where the template does.
FirstClose(text, open) ==
    LET ends == {i \in (open + 1)..Len(text) : Mark(text[i]) = "/" /\ Name(text[i]) = Name(text[open])}
    IN  IF ends = {} THEN 0 ELSE CHOOSE i \in ends : \A j \in ends : i <= j

CloseOrEnd(text, open) ==
    LET ends == {i \in (open + 1)..Len(text) : Mark(text[i]) = "/" /\ Name(text[i]) = Name(text[open])}
    IN  IF ends = {} THEN Len(text) ELSE CHOOSE i \in ends : \A j \in ends : i <= j

\* Where an open section closes, counting the sections of its name between.
CloseOf(text, open) ==
    LET name == Name(text[open])
        ends == {i \in (open + 1)..Len(text) :
                    /\ Mark(text[i]) = "/" /\ Name(text[i]) = name
                    /\ Closes(text, name, open, i) = Opens(text, name, open, i)}
    IN  IF ends = {} THEN 0 ELSE CHOOSE i \in ends : \A j \in ends : i <= j

LineStart(text, position) ==
    LET ends == {i \in 1..(position - 1) : Newline(text[i])}
    IN  IF ends = {} THEN 1 ELSE 1 + CHOOSE i \in ends : \A j \in ends : i >= j

\* A mutant: the end of a line is not part of it.
StopBeforeItsEnd(text, position) ==
    LET ends == {i \in (position + 1)..Len(text) : Newline(text[i])}
    IN  IF ends = {} THEN Len(text) + 1 ELSE (CHOOSE i \in ends : \A j \in ends : i <= j) - 1

LineStop(text, position) ==
    LET ends == {i \in (position + 1)..Len(text) : Newline(text[i])}
    IN  IF ends = {} THEN Len(text) + 1 ELSE CHOOSE i \in ends : \A j \in ends : i <= j

\* A tag is alone on its line, as far as the line is not rendered already.
AloneOnItsLine(text, position, from) ==
    /\ LineStart(text, position) >= from
    /\ \A i \in LineStart(text, position)..(LineStop(text, position) - 1) : i # position => Blank(text[i])

\* Renders a text from a position on, in a scope: what comes before the next
\* tag, then the value or the section, then the rest.
RenderFrom[text \in Seq(Tokens), in \in Entered, position \in Nat \ {0}] ==
    LET tag == TagFrom(text, position) IN
    IF tag = 0 THEN Text(SubSeq(text, position, Len(text)))
    ELSE IF Mark(text[tag]) = "=" THEN
        LET rest == RenderFrom[text, in, tag + 1] IN
        IF rest.failed THEN Failed
        ELSE Text(SubSeq(text, position, tag - 1) \o <<Written(in)>> \o rest.out)
    ELSE IF Mark(text[tag]) = "/" \/ CloseOf(text, tag) = 0 \/ Name(text[tag]) \notin Bound THEN Failed
    ELSE
        LET close == CloseOf(text, tag)
            openAlone == AloneOnItsLine(text, tag, position)
            closeAlone == AloneOnItsLine(text, close, tag + 1)
            before == SubSeq(text, position, (IF openAlone THEN LineStart(text, tag) ELSE tag) - 1)
            inner == SubSeq(text, IF openAlone THEN LineStop(text, tag) + 1 ELSE tag + 1,
                                  (IF closeAlone THEN LineStart(text, close) ELSE close) - 1)
            name == Name(text[tag])
            entered == IF Mark(text[tag]) = "#" THEN Enter(in, name) ELSE Skip(in, name)
            parts == [i \in DOMAIN entered |-> RenderFrom[inner, entered[i], 1]]
            rest == RenderFrom[text, in, IF closeAlone THEN LineStop(text, close) + 1 ELSE close + 1]
        IN  IF rest.failed \/ \E i \in DOMAIN parts : parts[i].failed THEN Failed
            ELSE Text(before \o FlattenSeq([i \in DOMAIN parts |-> parts[i].out]) \o rest.out)

Render(text, in) == RenderFrom[text, in, 1]

-----------------------------------------------------------------------------
(* Templates are written token by token.                                   *)

TypeOK ==
    /\ template \in Seq(Tokens) /\ Len(template) <= MaxLen
    /\ scope \in Scopes
    /\ LET rendered == Render(template, scope) IN
       rendered.failed \/ \A i \in DOMAIN rendered.out : rendered.out[i][1] \in {"x", "b", "n", "item"}

Init == template = <<>> /\ scope \in Scopes

Write ==
    /\ Len(template) < MaxLen
    /\ \E token \in Tokens : template' = Append(template, token)
    /\ UNCHANGED scope

Next == Write

Spec == Init /\ [][Next]_vars

-----------------------------------------------------------------------------
(* The reference.                                                          *)

\* A template nests: reading its tags from the left, each closing tag closes
\* the section opened last, and none is left open.
Nesting[text \in Seq(Tokens), open \in Seq({Name(token) : token \in Tokens})] ==
    IF text = <<>> THEN open = <<>>
    ELSE IF Mark(Head(text)) \in {"#", "^"} THEN Nesting[Tail(text), <<Name(Head(text))>> \o open]
    ELSE IF Mark(Head(text)) = "/" THEN open # <<>> /\ Head(open) = Name(Head(text)) /\ Nesting[Tail(text), Tail(open)]
    ELSE Nesting[Tail(text), open]

Nests(text) == Nesting[text, <<>>]

\* The tokens of a template that nests, each as often as the sections around
\* it say and with the values of the entry it is in.
Expanded[text \in Seq(Tokens), in \in Entered] ==
    IF text = <<>> THEN <<>>
    ELSE LET token == Head(text)
             listed == Name(token) = "list"
             holds == IF listed THEN in.list > 0 ELSE in.flag
         IN  IF Mark(token) \in {"#", "^"}
             THEN LET close == CHOOSE i \in 2..Len(text) :
                                  Mark(text[i]) = "/" /\ Nests(SubSeq(text, 2, i - 1))
                      body == SubSeq(text, 2, close - 1)
                      entries == IF Mark(token) = "^" THEN (IF holds THEN {} ELSE {in.item})
                                 ELSE IF listed THEN 1..in.list
                                 ELSE IF holds THEN {in.item} ELSE {}
                      once == [item \in entries |-> Expanded[body, [in EXCEPT !.item = item]]]
                  IN  FlattenSeq([k \in 1..Cardinality(entries) |-> once[SetToSortSeq(entries, <)[k]]])
                        \o Expanded[SubSeq(text, close + 1, Len(text)), in]
             ELSE <<IF Mark(token) = "=" THEN <<"item", in.item>> ELSE token>> \o Expanded[Tail(text), in]

\* Each section tag of a template has a line of its own.
WholeLines(text) ==
    \A i \in DOMAIN text : Mark(text[i]) \in {"#", "^", "/"} =>
        /\ i = 1 \/ Newline(text[i - 1])
        /\ i < Len(text) /\ Newline(text[i + 1])

\* The line ends of those lines left out.
WithoutTagLines(text) ==
    LET kept == {i \in DOMAIN text : ~(Newline(text[i]) /\ i > 1 /\ Mark(text[i - 1]) \in {"#", "^", "/"})}
    IN  [k \in 1..Cardinality(kept) |->
            text[CHOOSE i \in kept : Cardinality({j \in kept : j <= i}) = k]]

-----------------------------------------------------------------------------
(* Properties.                                                             *)

Visible(token) == ~Newline(token) /\ ~Blank(token)

\* A template that nests is rendered, and all of its text but line ends and
\* blanks comes out, in order, as often as the sections around it say and
\* with the values of their entries: the renderer's arithmetic on positions
\* never loses a piece or renders one twice.
TextIsExpanded ==
    Nests(template) =>
        LET rendered == Render(template, scope) IN
        /\ ~rendered.failed
        /\ SelectSeq(rendered.out, Visible) = SelectSeq(Expanded[template, scope], Visible)

\* "A section alone on its line takes its line with it" (test_tree.py:117):
\* a template whose section tags have lines of their own comes out as the
\* other lines, whole, each as often as the sections around it say.
LinesAreExpanded ==
    Nests(template) /\ WholeLines(template) =>
        Render(template, scope).out = Expanded[WithoutTagLines(template), scope]

\* Where every section is entered, a template that does not nest is refused:
\* though the renderer only pairs tags of one name, each piece between two of
\* them is rendered in turn (test_tree.py:231).
TemplateErrorsAreRefused ==
    (/\ scope.list > 0 /\ scope.flag
     /\ \A i \in DOMAIN template : Mark(template[i]) # "^"
     /\ ~Nests(template))
        => Render(template, scope).failed

=============================================================================
