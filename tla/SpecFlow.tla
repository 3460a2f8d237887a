------------------------------ MODULE SpecFlow ------------------------------
(***************************************************************************)
(* The two flow rules of the Python analyzer                               *)
(* (src/tessercheck-py/tessercheck/domain/checks.py): a spec is only read  *)
(* where it initializes its own object and never kept                      *)
(* (spec_use_violations), and a record, which a spec is too, is never      *)
(* changed after construction (record_write_violations).                   *)
(*                                                                         *)
(* Both look at one function at a time, without regard to the order of its *)
(* statements, and compute which names hold a spec.  Here authors write    *)
(* the function, statement after statement, the rules judge it, and an     *)
(* accepted one runs: any statement may be in a branch that is not taken,  *)
(* and the whole may be in a loop.                                         *)
(***************************************************************************)
EXTENDS Naturals, SequencesExt

CONSTANTS
    MaxStatements,  \* the length of the function
    MaxRounds       \* rounds of the loop it is in

VARIABLES
    where,      \* the constructor of the object that takes the spec, or any other function
    body,       \* the function's statements
    pc,         \* 0 until it runs, then the statement to run next
    round,      \* the rounds of the loop made
    env,        \* name -> what it holds
    did         \* what was done to specs so far

vars == <<where, body, pc, round, env, did>>

\* The parameter, annotated as a spec, and two locals.
Param == "spec"

Locals == {"x", "y"}

Names == {Param} \cup Locals

\* What a statement may bind a name to: what another name holds, the child
\* spec that a spec carries, a spec made by a class, a helper or a mapper, what
\* a method call answers, or anything else.
Sources == [from : {"name", "child"}, of : Names]
             \cup [from : {"made", "answer", "else"}, of : {Param}]

Statements == [does : {"bind"}, name : Locals, value : Sources]
                \cup [does : {"write", "read", "keep"}, name : Names]

Bindings(b) == {b[i] : i \in {j \in DOMAIN b : b[j].does = "bind"}}

-----------------------------------------------------------------------------
(* The analysis.                                                           *)

\* What is a spec (typed, spec_use_violations): what a name that holds one
\* holds, a child, a call of a maker; a method is a maker by its name alone, when
\* all methods of that name return the same.
Typed(v, held) ==
    \/ v.from \in {"name", "child"} /\ v.of \in held
    \/ v.from \in {"made", "answer"}

\* What is a record (record_write_violations): a method call is not followed.
Shaped(v, held) ==
    \/ v.from \in {"name", "child"} /\ v.of \in held
    \/ v.from = "made"

\* Every name some binding makes a holder; after as many rounds as there are
\* locals nothing is added.
GrowTyped(b, held) == held \cup {s.name : s \in {t \in Bindings(b) : Typed(t.value, held)}}

GrowShaped(b, held) == held \cup {s.name : s \in {t \in Bindings(b) : Shaped(t.value, held)}}

\* Mutants: only the parameter is followed; one look at each binding.
OnlyTheParameter(b) == {Param}

OneLook(b) == GrowShaped(b, {Param})

\* The names that hold a spec: less those that some binding makes hold
\* something else.
HeldSpecs(b) ==
    LET grown == GrowTyped(b, GrowTyped(b, {Param}))
    IN  grown \ {s.name : s \in {t \in Bindings(b) : ~Typed(t.value, grown)}}

\* The names that hold a record: less those again, and less those that only
\* hold a record by one of them.
Shrink(b, held) == held \ {s.name : s \in {t \in Bindings(b) : ~Shaped(t.value, held)}}

HeldRecords(b) == Shrink(b, Shrink(b, GrowShaped(b, GrowShaped(b, {Param}))))

Reads(b) ==
    {s.name : s \in {t \in Range(b) : t.does = "read"}}
      \cup {s.value.of : s \in {t \in Bindings(b) : t.value.from = "child"}}

Keeps(b) == {s.name : s \in {t \in Range(b) : t.does = "keep"}}

Writes(b) == {s.name : s \in {t \in Range(b) : t.does = "write"}}

\* A mutant: the constructor that may read a spec may keep it.
ReadOrKeptByItsObject(b, w) == w = "taker" \/ (Reads(b) \cup Keeps(b)) \cap HeldSpecs(b) = {}

\* TB083 on specs.  The constructor that takes the spec is licensed to read it.
UsedByItsObject(b, w) ==
    /\ w = "taker" \/ Reads(b) \cap HeldSpecs(b) = {}
    /\ Keeps(b) \cap HeldSpecs(b) = {}

\* TB083 on records.
NeverWritten(b) == Writes(b) \cap HeldRecords(b) = {}

Accepted(b, w) == UsedByItsObject(b, w) /\ NeverWritten(b)

-----------------------------------------------------------------------------
(* What no rule asks, and what they find rests on.                         *)

\* One type for each local that all its bindings have.
Typeable(b) ==
    \E specs \in SUBSET Locals :
        \A s \in Bindings(b) :
            (s.name \in specs) = (s.value.from # "else" /\ (s.value.from \in {"made", "answer"} \/ s.value.of \in specs \cup {Param}))

\* The names an answer reaches: at once, and by one that it has reached.
Answered(b) == {s.name : s \in {t \in Bindings(b) : t.value.from = "answer"}}

Reached(b, names) ==
    names \cup {s.name : s \in {t \in Bindings(b) : t.value.from \in {"name", "child"} /\ t.value.of \in names}}

FromAnswers(b) == Reached(b, Reached(b, Answered(b)))

\* The names a statement uses.
Uses(s) ==
    IF s.does = "bind" THEN (IF s.value.from \in {"name", "child"} THEN {s.value.of} ELSE {}) ELSE {s.name}

\* The names that get a value: bound to one that does not need them.
GrowBound(b, names) == names \cup {s.name : s \in {t \in Bindings(b) : Uses(t) \subseteq names}}

Bound(b) == GrowBound(b, GrowBound(b, {Param}))

\* Every name that is used gets a value somewhere, and values of one type.
Settled(b) == UNION {Uses(s) : s \in Range(b)} \subseteq Bound(b) /\ Typeable(b)

-----------------------------------------------------------------------------
Init ==
    /\ where \in {"taker", "elsewhere"}
    /\ body = <<>>
    /\ pc = 0
    /\ round = 1
    /\ env = [n \in Names |-> IF n = Param THEN "spec" ELSE "unbound"]
    /\ did = {}

WriteStatement ==
    /\ pc = 0
    /\ Len(body) < MaxStatements
    /\ \E s \in Statements : body' = Append(body, s)
    /\ UNCHANGED <<where, pc, round, env, did>>

Call ==
    /\ pc = 0
    /\ body # <<>>
    /\ Accepted(body, where)
    /\ pc' = 1
    /\ UNCHANGED <<where, body, round, env, did>>

Value(v) ==
    CASE v.from = "name" -> env[v.of]
      [] v.from = "else" -> "else"
      [] OTHER -> "spec"

Effect(s) ==
    (IF s.does = "bind"
       THEN IF s.value.from = "child" /\ env[s.value.of] = "spec" THEN {"read"} ELSE {}
       ELSE IF env[s.name] = "spec" THEN {s.does} ELSE {})

\* A name that is not bound yet stops the function.
Defined(s) ==
    IF s.does = "bind"
      THEN /\ s.value.from \in {"name", "child"} => env[s.value.of] # "unbound"
           /\ s.value.from = "child" => env[s.value.of] = "spec"
      ELSE env[s.name] # "unbound"

Execute ==
    /\ pc \in DOMAIN body
    /\ Defined(body[pc])
    /\ did' = did \cup Effect(body[pc])
    /\ env' = IF body[pc].does = "bind" THEN [env EXCEPT ![body[pc].name] = Value(body[pc].value)] ELSE env
    /\ pc' = pc + 1
    /\ UNCHANGED <<where, body, round>>

NotTaken ==
    /\ pc \in DOMAIN body
    /\ pc' = pc + 1
    /\ UNCHANGED <<where, body, round, env, did>>

Again ==
    /\ pc = Len(body) + 1
    /\ round < MaxRounds
    /\ pc' = 1
    /\ round' = round + 1
    /\ UNCHANGED <<where, body, env, did>>

Next ==
    \/ WriteStatement
    \/ Call
    \/ Execute
    \/ NotTaken
    \/ Again

Spec == Init /\ [][Next]_vars

-----------------------------------------------------------------------------
(* A record is never changed after construction (record_write_violations):
   an accepted function writes no spec, in whatever order its statements run,
   under any chain of names, if each name it uses gets values, all of one type,
   and none it writes to can hold what a method answered, which the rule does
   not follow. *)
RecordsStand == Settled(body) /\ FromAnswers(body) \cap Writes(body) = {} => "write" \notin did

(* A spec is only read where it initializes its own object
   (spec_use_violations): an accepted function that is not the constructor
   that takes it reads no spec, under any chain of names, if each name it uses
   gets values, all of one type. *)
SpecsReadByTheirObject == where = "elsewhere" /\ Settled(body) => "read" \notin did

(* A spec is never kept, by its object neither (spec_use_violations): it
   initializes its object and is done, if each name the function uses gets
   values, all of one type. *)
SpecsAreDone == Settled(body) => "keep" \notin did
=============================================================================
