------------------------------ MODULE TreeRuns ------------------------------
(***************************************************************************)
(* Runs of the generator's command line against one output directory       *)
(* (src/generator/trees, src/generator/srv/cli): a run reads the spec file *)
(* and looks at the directory, judges the two, and writes the tree file by *)
(* file.  Nothing is locked and nothing is renamed into place.  Authors    *)
(* edit the spec between runs and during them, runs die part way, and a    *)
(* person may remove the directory when no run is under way.  What a spec  *)
(* is made into is GeneratedTree's.                                        *)
(***************************************************************************)
EXTENDS Naturals, Sequences, FiniteSets

CONSTANTS
    Runs,      \* runs of the command
    Specs,     \* specs without problems
    Paths,     \* the paths of a tree, in the order they are written
    Together   \* runs may be under way at once

VARIABLES
    specFile,  \* what the spec file holds: a spec, or Faulty
    root,      \* the output directory: "none", "file" (a file of that name), "dir"
    files,     \* path -> what is there: Absent, a text, or a file opened and not yet filled
    pc,        \* run -> where it is
    spec,      \* run -> the spec it read
    target,    \* run -> the output directory as it saw it
    at,        \* run -> the file it is at
    answered   \* the run whose answer names the files there, at most one

vars == <<specFile, root, files, pc, spec, target, at, answered>>

Path == {Paths[i] : i \in DOMAIN Paths}

Faulty == "faulty"
Absent == [is |-> "absent", of |-> "nobody"]
Text(of) == [is |-> "text", of |-> of]
Opened(run) == [is |-> "opened", of |-> run]
Theirs == Text("somebody")

Working == {"reads", "looks", "judges", "makes", "opens", "fills"}

TypeOK ==
    /\ specFile \in Specs \cup {Faulty}
    /\ root \in {"none", "file", "dir"}
    /\ files \in [Path -> {Absent, Theirs} \cup {Text(s) : s \in Specs} \cup {Opened(r) : r \in Runs}]
    /\ (\E p \in Path : files[p] # Absent) => root = "dir"
    /\ pc \in [Runs -> Working \cup {"idle", "usage", "refused", "answered", "dead"}]
    /\ spec \in [Runs -> Specs \cup {Faulty}]
    /\ target \in [Runs -> {"absent", "empty", "occupied"}]
    /\ at \in [Runs -> 1..Len(Paths)]
    /\ answered \subseteq Runs /\ Cardinality(answered) <= 1

Init ==
    /\ specFile \in Specs \cup {Faulty}
    /\ root \in {"none", "file", "dir"}
    /\ files \in [Path -> {Absent, Theirs}]
    /\ (\E p \in Path : files[p] # Absent) => root = "dir"
    /\ pc = [r \in Runs |-> "idle"]
    /\ spec = [r \in Runs |-> Faulty]
    /\ target = [r \in Runs |-> "absent"]
    /\ at = [r \in Runs |-> 1]
    /\ answered = {}

-----------------------------------------------------------------------------
(* A run.                                                                  *)

UnderWay == {r \in Runs : pc[r] \in Working}

\* The command is called; too few or too many arguments end it.
Generate(r) ==
    /\ pc[r] = "idle"
    /\ Together \/ UnderWay = {}
    /\ \E step \in {"reads", "usage"} : pc' = [pc EXCEPT ![r] = step]
    /\ UNCHANGED <<specFile, root, files, spec, target, at, answered>>

ReadSpec(r) ==
    /\ pc[r] = "reads"
    /\ spec' = [spec EXCEPT ![r] = specFile]
    /\ pc' = [pc EXCEPT ![r] = "looks"]
    /\ UNCHANGED <<specFile, root, files, target, at, answered>>

\* A mutant: a directory whose last file is not there counts as empty.
TargetByItsLast ==
    IF root = "none" THEN "absent"
    ELSE IF root = "dir" /\ files[Paths[Len(Paths)]] = Absent THEN "empty"
    ELSE "occupied"

TargetState ==
    IF root = "none" THEN "absent"
    ELSE IF root = "dir" /\ \A p \in Path : files[p] = Absent THEN "empty"
    ELSE "occupied"

ReadTarget(r) ==
    /\ pc[r] = "looks"
    /\ target' = [target EXCEPT ![r] = TargetState]
    /\ pc' = [pc EXCEPT ![r] = "judges"]
    /\ UNCHANGED <<specFile, root, files, spec, at, answered>>

\* A mutant: the directory is not judged.
JudgeTheSpec(r) ==
    /\ pc[r] = "judges"
    /\ pc' = [pc EXCEPT ![r] = IF spec[r] = Faulty THEN "refused" ELSE "makes"]
    /\ UNCHANGED <<specFile, root, files, spec, target, at, answered>>

\* A spec with problems, or an output directory that was not empty, is
\* answered with its problems.
Judge(r) ==
    /\ pc[r] = "judges"
    /\ pc' = [pc EXCEPT ![r] = IF spec[r] = Faulty \/ target[r] = "occupied" THEN "refused" ELSE "makes"]
    /\ UNCHANGED <<specFile, root, files, spec, target, at, answered>>

\* The file's directory, with its parents; a file of the directory's name
\* ends the run.
MakeParent(r) ==
    /\ pc[r] = "makes"
    /\ root' = IF root = "none" THEN "dir" ELSE root
    /\ pc' = [pc EXCEPT ![r] = IF root = "file" THEN "dead" ELSE "opens"]
    /\ UNCHANGED <<specFile, files, spec, target, at, answered>>

\* write_text empties what is there before it writes.
OpenFile(r) ==
    /\ pc[r] = "opens"
    /\ files' = [files EXCEPT ![Paths[at[r]]] = Opened(r)]
    /\ pc' = [pc EXCEPT ![r] = "fills"]
    /\ UNCHANGED <<specFile, root, spec, target, at, answered>>

\* Mutants: the last file is left out; the count runs past the last file.
FillAllButOne(r) ==
    /\ pc[r] = "fills"
    /\ files' = [files EXCEPT ![Paths[at[r]]] = Text(spec[r])]
    /\ IF at[r] + 1 >= Len(Paths)
       THEN pc' = [pc EXCEPT ![r] = "answered"] /\ answered' = {r} /\ UNCHANGED at
       ELSE pc' = [pc EXCEPT ![r] = "makes"] /\ at' = [at EXCEPT ![r] = @ + 1] /\ UNCHANGED answered
    /\ UNCHANGED <<specFile, root, spec, target>>

FillAndCount(r) ==
    /\ pc[r] = "fills"
    /\ files' = [files EXCEPT ![Paths[at[r]]] = Text(spec[r])]
    /\ IF at[r] = Len(Paths)
       THEN pc' = [pc EXCEPT ![r] = "answered"] /\ answered' = {r}
       ELSE pc' = [pc EXCEPT ![r] = "makes"] /\ UNCHANGED answered
    /\ at' = [at EXCEPT ![r] = @ + 1]
    /\ UNCHANGED <<specFile, root, spec, target>>

FillFile(r) ==
    /\ pc[r] = "fills"
    /\ files' = [files EXCEPT ![Paths[at[r]]] = Text(spec[r])]
    /\ IF at[r] = Len(Paths)
       THEN pc' = [pc EXCEPT ![r] = "answered"] /\ answered' = {r} /\ UNCHANGED at
       ELSE pc' = [pc EXCEPT ![r] = "makes"] /\ at' = [at EXCEPT ![r] = @ + 1] /\ UNCHANGED answered
    /\ UNCHANGED <<specFile, root, spec, target>>

\* A run is killed, or a call to the filesystem fails and ends it.
Die(r) ==
    /\ pc[r] \in Working
    /\ pc' = [pc EXCEPT ![r] = "dead"]
    /\ UNCHANGED <<specFile, root, files, spec, target, at, answered>>

-----------------------------------------------------------------------------
(* People.                                                                 *)

EditSpec ==
    /\ \E s \in Specs \cup {Faulty} : specFile' = s
    /\ UNCHANGED <<root, files, pc, spec, target, at, answered>>

RemoveTree ==
    /\ UnderWay = {}
    /\ root' = "none"
    /\ files' = [p \in Path |-> Absent]
    /\ answered' = {}
    /\ UNCHANGED <<specFile, pc, spec, target, at>>

RunStep(r) ==
    \/ Generate(r) \/ ReadSpec(r) \/ ReadTarget(r) \/ Judge(r)
    \/ MakeParent(r) \/ OpenFile(r) \/ FillFile(r) \/ Die(r)

Next == (\E r \in Runs : RunStep(r)) \/ EditSpec \/ RemoveTree

Spec == Init /\ [][Next]_vars

-----------------------------------------------------------------------------
(* Properties.                                                             *)

\* A run that answered with the paths it wrote left the whole tree of the
\* spec it read there, and until somebody removes it no later run has made
\* anything else of it (tree_service.py:109, filesystem_tree_writer.py:12).
AnsweredTreeIsWhole ==
    \A r \in answered : \A p \in Path : files[p] = Text(spec[r])

\* What stands in an output directory was written by one run, or stood there
\* before every run: a tree a dead run left half written is not gone on with
\* by a run of another spec, or of the same.
Writer(p) == IF files[p].is = "opened" THEN spec[files[p].of] ELSE files[p].of

OneSpecPerTree ==
    \A p, q \in Path : files[p] # Absent /\ files[q] # Absent => Writer(p) = Writer(q)

\* No run touches a file that was there before it: a file changes only as its
\* own run fills it, or when somebody removes the tree.
NothingIsOverwritten ==
    [][\A p \in Path :
          files[p] \notin {Absent, files'[p]} =>
              \/ RemoveTree
              \/ \E r \in Runs : files[p] = Opened(r) /\ files'[p] = Text(spec[r])]_vars

=============================================================================
