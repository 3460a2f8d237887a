---------------------------- MODULE OutcomeMatch ----------------------------
(***************************************************************************)
(* The rules of the Python analyzer on outcomes, the closed enums a domain *)
(* object answers with (src/tessercheck-py/tessercheck/domain/checks.py),  *)
(* and the gate of the runtime that refuses an outcome class when it is    *)
(* defined (src/tesser-py/tesser/domain/outcome.py).                       *)
(*                                                                         *)
(* One outcome class, a domain object that answers with it, and two        *)
(* readers of the answer: a method of an application service and a method  *)
(* of another domain object.  Authors edit the class and the readers, and  *)
(* add members to the outcome; a tree that loads and that the rules and    *)
(* the type checker accept is deployed, the object's answer changes, and   *)
(* the readers decide.  A domain object may be asked in one call and       *)
(* decide in a later one, when it kept the answer.                         *)
(***************************************************************************)
EXTENDS Naturals, SequencesExt

CONSTANTS
    First, Added,  \* the members of the outcome at first, and those added later
    MaxEdits       \* edits from the tree in order

VARIABLES
    tree,       \* the source tree
    edits,      \* edits made so far
    running,    \* it is deployed
    now,        \* what the object would answer now
    asked,      \* reader -> the answers it holds, at most one
    last        \* the last decision: whose, the answer, what the object would answer, the members named

vars == <<tree, edits, running, now, asked, last>>

Members == First \cup Added

Readers == {"service", "domain"}

\* An arm names members, takes anything (a capture), or compares with a text.
Arm(kind, names, guarded) == [kind |-> kind, names |-> names, guarded |-> guarded]

Arms == [kind : {"members"}, names : (SUBSET Members) \ {{}}, guarded : BOOLEAN]
          \cup [kind : {"anything", "text"}, names : {{}}, guarded : BOOLEAN]

\* How a reader comes by the answer it decides on: the call itself, a local
\* bound to it once, a local bound to something else too, a function it is
\* passed to, a field of self the object's own answer or another's is kept on.
Holdings == {"call", "name", "rebound", "passed", "keptOwn", "keptOther"}

\* The last case of a match: assert_never of typing, a wildcard, a function
\* of that name of the module's own, or none.
Closers == {"never", "wild", "own", "none"}

Reader ==
    [held : Holdings, reads : {"match", "member", "truth", "drop"},
     arms : [1..2 -> Arms], closer : Closers]

Class ==
    [bases : {<<"Outcome">>, <<"str", "Outcome">>, <<"AnOutcome">>},
     wrapped : {"bare", "decorator", "metaclass"},
     body : SUBSET {"annotated", "valued", "behaviour"}]

Sound ==
    LET half == CHOOSE s \in SUBSET First : s # {} /\ (Cardinality(First) > 1 => s # First)
        r == [held |-> "name", reads |-> "match", closer |-> "never",
              arms |-> <<Arm("members", half, FALSE),
                         Arm("members", IF half = First THEN First ELSE First \ half, FALSE)>>]
    IN  [class |-> [bases |-> <<"Outcome">>, wrapped |-> "bare", body |-> {}],
         members |-> First,
         readers |-> [who \in Readers |-> r]]

-----------------------------------------------------------------------------
(* The rules.                                                              *)

\* Mutants: a class may mix a base in; an answer may be passed on; a match may
\* close on a function named assert_never.
MixedIn(c) == c.wrapped = "bare" /\ c.body \subseteq {"annotated"} /\ "Outcome" \in Range(c.bases)

PassedOn(r) == r.held # "keptOwn"

ClosesOnAName(r) == r.closer \in {"never", "own"}

\* A class statement alone, of ts.Outcome alone, of members that are enum.auto().
\* An annotation on a member is not looked at.
ClosedSet(c) ==
    /\ c.bases = <<"Outcome">>
    /\ c.wrapped = "bare"
    /\ c.body \subseteq {"annotated"}

\* A match is one on an outcome when an arm names a member.
OnAnOutcome(r) == \E i \in DOMAIN r.arms : r.arms[i].kind = "members"

ClosesOnAssertNever(r) == r.closer = "never"

\* A parameter that takes an outcome and a field that keeps an answer of the
\* class's own are found; what another object answered is not followed.
NeitherPassedNorKept(r) == r.held \notin {"passed", "keptOwn"}

\* Everywhere: a member is named only in a match, whose arms before the closer
\* all name members, unguarded.
UseAccepted(r) ==
    /\ NeitherPassedNorKept(r)
    /\ r.reads # "member"
    /\ r.reads = "match" /\ OnAnOutcome(r) =>
           /\ \A i \in DOMAIN r.arms : r.arms[i].kind = "members" /\ ~r.arms[i].guarded
           /\ ClosesOnAssertNever(r)

\* In a service: it branches by a match only, on what a domain object answered,
\* by the call or by a local bound to nothing else.
BodyAccepted(r) ==
    /\ r.reads # "truth"
    /\ r.reads = "match" => r.held \in {"call", "name"} /\ OnAnOutcome(r)

Accepted(t) ==
    /\ ClosedSet(t.class)
    /\ \A who \in Readers : UseAccepted(t.readers[who])
    /\ BodyAccepted(t.readers["service"])

\* The type checker: what reaches assert_never must have no member left.
TypeChecks(t) ==
    \A who \in Readers :
        LET r == t.readers[who]
            taken == {i \in DOMAIN r.arms : ~r.arms[i].guarded}
        IN  r.reads = "match" /\ r.closer = "never" =>
                \/ t.members \subseteq UNION {r.arms[i].names : i \in taken}
                \/ \E i \in taken : r.arms[i].kind = "anything"

\* The gate at the definition of the class.
Loads(c) ==
    /\ c.bases = <<"Outcome">>
    /\ c.wrapped # "metaclass"
    /\ c.body = {}

-----------------------------------------------------------------------------
Init ==
    /\ tree = Sound
    /\ edits = 0
    /\ running = FALSE
    /\ now \in First
    /\ asked = [who \in Readers |-> {}]
    /\ last = {}

Edit(t) ==
    /\ ~running
    /\ edits < MaxEdits
    /\ tree' = t
    /\ edits' = edits + 1
    /\ UNCHANGED <<running, now, asked, last>>

EditClass == \E c \in Class : c # tree.class /\ Edit([tree EXCEPT !.class = c])

AddMember == \E m \in Added \ tree.members : Edit([tree EXCEPT !.members = @ \cup {m}])

\* A service has no answers of its own to keep; a local of a domain method that
\* is bound to something else too is of another type; a member is always true,
\* so that a domain method testing one decides nothing.
Held(who) == IF who = "service" THEN Holdings \ {"keptOwn"} ELSE Holdings \ {"rebound"}

Reads(who) == {"match", "member", "drop"} \cup (IF who = "service" THEN {"truth"} ELSE {})

\* One thing about a reader at a time.
EditReader ==
    \E who \in Readers :
        LET r == tree.readers[who]
            EditTo(s) == s # r /\ Edit([tree EXCEPT !.readers[who] = s])
        IN  \/ \E h \in Held(who) : EditTo([r EXCEPT !.held = h])
            \/ \E c \in Closers : EditTo([r EXCEPT !.closer = c])
            \/ \E x \in Reads(who) : EditTo([r EXCEPT !.reads = x])
            \/ \E i \in 1..2 : \E a \in Arms : EditTo([r EXCEPT !.arms[i] = a])

Deploy ==
    /\ ~running
    /\ Accepted(tree) /\ TypeChecks(tree) /\ Loads(tree.class)
    /\ running' = TRUE
    /\ UNCHANGED <<tree, edits, now, asked, last>>

\* A mutant: an object answers with a member no class has.
ChangeToAny ==
    /\ running
    /\ now' \in Members \ {now}
    /\ UNCHANGED <<tree, edits, running, asked, last>>

\* The object's state changes, and with it the answer.
Change ==
    /\ running
    /\ now' \in tree.members \ {now}
    /\ UNCHANGED <<tree, edits, running, asked, last>>

\* The readers that decide on what is not answered then and there; a local that
\* is bound to something else too may hold any answer of before.
Later(who) == tree.readers[who].held \in {"passed", "keptOwn", "keptOther", "rebound"}

Ask(who) ==
    /\ running
    /\ asked[who] = {}
    /\ Later(who)
    /\ asked' = [asked EXCEPT ![who] = {now}]
    /\ UNCHANGED <<tree, edits, running, now, last>>

\* The members named by what the reader does on an answer.  A guard may hold or
\* not; a member compared with outside a match is one name, whoever is added.
NamedFor(r, m) ==
    CASE r.reads = "match" ->
           LET takes == {i \in DOMAIN r.arms : m \in r.arms[i].names \/ r.arms[i].kind = "anything"}
               by(i) == {j \in takes : j < i /\ ~r.arms[j].guarded} = {}
           IN  {r.arms[i].names : i \in {j \in takes : by(j)}}
                 \cup (IF \A i \in takes : r.arms[i].guarded THEN {{}} ELSE {})
      [] r.reads = "member" -> {r.arms[1].names}
      [] OTHER -> {{}}

Decide(who) ==
    /\ running
    /\ tree.readers[who].reads # "drop"
    /\ \E m \in (IF Later(who) THEN asked[who] ELSE {now}) :
           \E named \in NamedFor(tree.readers[who], m) :
               last' = {[who |-> who, answer |-> m, current |-> now, named |-> named]}
    /\ asked' = [asked EXCEPT ![who] = {}]
    /\ UNCHANGED <<tree, edits, running, now>>

Next ==
    \/ EditClass
    \/ AddMember
    \/ EditReader
    \/ Deploy
    \/ Change
    \/ \E who \in Readers : Ask(who) \/ Decide(who)

Spec == Init /\ [][Next]_vars

-----------------------------------------------------------------------------
(* The type invariant of the class rules' and the runtime's state
   (checks.py, outcome.py): one tree, one current answer among its members,
   at most one answer held by a reader. *)
TypeOK ==
    /\ tree.class \in Class
    /\ tree.members \in SUBSET Members
    /\ DOMAIN tree.readers = Readers /\ Range(tree.readers) \subseteq Reader
    /\ edits \in 0..MaxEdits
    /\ running \in BOOLEAN
    /\ now \in tree.members
    /\ \A who \in Readers : asked[who] \subseteq tree.members /\ Cardinality(asked[who]) <= 1
    /\ Cardinality(last) <= 1

(* Of the outcome classes the class rules accept, the runtime's gate lets be
   defined those without an annotated member, and no other: an annotation is
   where the two disagree (outcome_violations against _gate and
   __init_subclass__). *)
AcceptedOutcomesLoad ==
    Accepted(tree) => (Loads(tree.class) <=> "annotated" \notin tree.class.body)

(* A member added to an outcome is silent in one place only: in a tree the rules
   and the type checker accept, whatever decides on an answer runs an arm that
   names that very member, but for a match of a domain object none of whose arms
   names a member, which no rule takes for a match on an outcome
   (outcome_use_violations and Body.violations). *)
NoSilentMember ==
    \A d \in last :
        \/ d.answer \in d.named
        \/ d.who = "domain" /\ ~OnAnOutcome(tree.readers["domain"])

(* A decision is made on what the object answers at that moment, never on an
   answer that lived past the call it was given in, but for a domain object that
   kept another object's answer on self, which the rule on kept outcomes does
   not follow (outcome_use_violations). *)
DecidesOnTheAnswer ==
    \A d \in last :
        \/ d.answer = d.current
        \/ d.who = "domain" /\ tree.readers["domain"].held = "keptOther"
=============================================================================
