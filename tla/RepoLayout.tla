----------------------------- MODULE RepoLayout -----------------------------
(***************************************************************************)
(* The layout app (src/layout) and the script it is step 0 of              *)
(* (src/scripts/verify): the app compares the directories of the           *)
(* repository with manifest.json, the arms of the script, the jobs of CI,  *)
(* the .tesser-root files and the Python floor; the script then asks it    *)
(* for the trees and runs the arm of each.                                 *)
(*                                                                         *)
(* Authors edit a repository in order; the script is run on what is there. *)
(* A directory stands at the top, below examples/, or deeper: below        *)
(* another directory of the top. What a tree's own gates find is left out. *)
(***************************************************************************)
EXTENDS Naturals, Sequences, SequencesExt, FiniteSets

CONSTANTS
    Paths,      \* directories, each with the place it stands in and its name
    Ordered,    \* the repositories the authors start from
    MaxEdits,   \* edits from one
    Plain,      \* scripts/verify is written as the app reads it
    Shallow     \* no row of the manifest is deeper than examples/

VARIABLES
    repo,    \* what is on disk
    edits,   \* edits made so far
    pc,      \* of the script: "idle", "check", "trees", "list", "run", "end"
    trees,   \* the names the app answered and the script has still to run
    ran,     \* what it ran: a directory, and whether tessercheck ran on it
    failed,  \* why trees failed: "unknown" to the script, or "gone" from disk
    result,  \* "none", "red" (a problem), "empty", "failed" or "green"
    meddled  \* the manifest was edited while the script ran

vars == <<repo, edits, pc, trees, ran, failed, result, meddled>>

Names == {p.name : p \in Paths}

States == {"read", "missing", "unreadable", "malformed", "misshapen"}
FileStates == {"read", "missing", "unreadable"}

\* A function of the script: where it works, whether it runs tessercheck
\* there, and whether its text names tessercheck.
Functions == [name : Names, path : Paths, checks : BOOLEAN, mentions : BOOLEAN]

\* An arm of the case of run_tree: a name, and the function it calls.
Arms == [tree : Names, calls : Names]

Repositories ==
    [manifest : States, verify : FileStates, workflow : FileStates,
     disk : [Paths -> {"none", "directory", "link"}],
     rows : [Paths -> {"none", "app", "ungated", "typo"}],
     arms : Seq(Arms), functions : Seq(Functions), jobs : SUBSET Names, pin : {"floor", "below"},
     declared : [Paths -> {"none", "app", "other", "unreadable"}], required : SUBSET Paths,
     python : [Paths -> {"none", "stated", "undeclared", "below", "unreadable"}],
     target : [Paths -> {"none", "stated", "below"}]]

ASSUME LayoutAssumption ==
    /\ \A p \in Paths : p.place \in {"top", "examples", "deep"}
    /\ Ordered \subseteq Repositories
    /\ Shallow => \A r \in Ordered, p \in Paths : r.rows[p] # "none" => p.place # "deep"
    /\ MaxEdits \in Nat

-----------------------------------------------------------------------------
(* What the reader sees.                                                   *)

\* A directory and what is in it is walked, through a link nothing is.
Walked(p) == repo.disk[p] = "directory"

Entries(place) == {p \in Paths : p.place = place /\ repo.disk[p] # "none"}

Declarations == {p \in Paths : Walked(p) /\ repo.declared[p] # "none"}

Requirements == {p \in Paths : Walked(p) /\ p \in repo.required}

\* A pyproject with a project table states a version of Python or does not;
\* a target version is looked at only where one is stated.
Floors ==
    {<<p, "requires-python", repo.python[p]>> : p \in {q \in Paths : Walked(q) /\ repo.python[q] # "none"}}
      \cup {<<p, "target-version", repo.target[p]>> : p \in
               {q \in Paths : Walked(q) /\ repo.python[q] # "unreadable" /\ repo.target[q] # "none"}}

-----------------------------------------------------------------------------
(* The rules.                                                              *)

Apps == {p \in Paths : repo.rows[p] = "app"}

\* A mutant: a row whose directory is gone is no problem.
RowsOfGoneDirectories ==
    LET rows(place) == {p \in Paths : p.place = place /\ repo.rows[p] # "none"} IN
    {<<"unknown kind", p>> : p \in {q \in Paths : repo.rows[q] \notin {"none", "app", "ungated"}}}
      \cup {<<"unregistered", p>> : p \in UNION {Entries(place) \ rows(place) : place \in {"top", "examples"}}}
      \cup {<<"link", p>> : p \in {q \in Entries("top") \cup Entries("examples") : repo.disk[q] = "link"}}

RowProblems ==
    LET rows(place) == {p \in Paths : p.place = place /\ repo.rows[p] # "none"} IN
    {<<"unknown kind", p>> : p \in {q \in Paths : repo.rows[q] \notin {"none", "app", "ungated"}}}
      \cup {<<"unregistered", p>> : p \in UNION {Entries(place) \ rows(place) : place \in {"top", "examples"}}}
      \cup {<<"no directory", p>> : p \in UNION {rows(place) \ Entries(place) : place \in {"top", "examples"}}}
      \cup {<<"link", p>> : p \in {q \in Entries("top") \cup Entries("examples") : repo.disk[q] = "link"}}

\* The arm the app finds for a name is the last of the text, the function of
\* a name the first, and it runs tessercheck if its text names it.
ArmOf(name) ==
    LET found == {i \in DOMAIN repo.arms : repo.arms[i].tree = name}
    IN  IF repo.verify # "read" \/ found = {} THEN {}
        ELSE {repo.arms[CHOOSE i \in found : \A j \in found : i >= j].calls}

Runs(name) ==
    {i \in DOMAIN repo.functions :
        /\ repo.functions[i].name \in ArmOf(name)
        /\ \A j \in 1..(i - 1) : repo.functions[j].name # repo.functions[i].name}

Checked == {p \in Apps : \E i \in Runs(p.name) : repo.functions[i].mentions}

GateProblems ==
    {<<"file unavailable", "verify">> : s \in {repo.verify} \ {"read"}}
      \cup {<<"file unavailable", "workflow">> : s \in {repo.workflow} \ {"read"}}
      \cup {<<"shared name", p>> : p \in {q \in Apps : \E o \in Apps \ {q} : o.name = q.name}}
      \cup {<<"no arm", p>> : p \in {q \in Apps : ArmOf(q.name) = {}}}
      \cup {<<"no job", p>> : p \in {q \in Apps : repo.workflow # "read" \/ q.name \notin repo.jobs}}

\* A mutant: a declaration that nothing checks is no problem.
CheckedDeclarations ==
    {<<"declaration missing", p>> : p \in Checked \ Declarations}
      \cup {<<"declaration not app", p>> : p \in {q \in Declarations \cap Checked : repo.declared[q] # "app"}}

DeclarationProblems ==
    {<<"declaration unchecked", p>> : p \in Declarations \ Checked}
      \cup {<<"declaration missing", p>> : p \in Checked \ Declarations}
      \cup {<<"declaration not app", p>> : p \in {q \in Declarations \cap Checked : repo.declared[q] # "app"}}

RequirementProblems == {<<"requirements outside app", p>> : p \in Requirements \ Apps}

FloorProblems ==
    {<<"floor", floor>> : floor \in {f \in Floors : f[3] # "stated"}}
      \cup {<<"pin", "workflow">> : pin \in {repo.pin : s \in {repo.workflow} \cap {"read"}} \ {"floor"}}

Problems ==
    IF repo.manifest # "read" THEN {<<repo.manifest, "manifest">>}
    ELSE RowProblems \cup GateProblems \cup DeclarationProblems \cup RequirementProblems \cup FloorProblems

\* The names of the rows of apps; a manifest that cannot be read has none.
Trees == IF repo.manifest # "read" THEN {} ELSE {p.name : p \in Apps}

-----------------------------------------------------------------------------
(* The script.                                                             *)

TypeOK ==
    /\ repo \in Repositories
    /\ edits \in 0..MaxEdits /\ meddled \in BOOLEAN
    /\ pc \in {"idle", "check", "trees", "list", "run", "end"}
    /\ trees \subseteq Names
    /\ ran \subseteq [path : Paths, checked : BOOLEAN]
    /\ failed \subseteq {"unknown", "gone"}
    /\ result \in {"none", "red", "empty", "failed", "green"}
    /\ (result # "none") = (pc = "end")

Init ==
    /\ repo \in Ordered
    /\ edits = 0
    /\ pc = "idle"
    /\ trees = {}
    /\ ran = {}
    /\ failed = {}
    /\ result = "none"
    /\ meddled = FALSE

\* In a script that is Plain a name has one arm and one function, a function
\* whose text names tessercheck runs it and works in the app's directory, and
\* an arm calls a function there is.
WrittenPlainly ==
    /\ \A i, j \in DOMAIN repo.arms : repo.arms[i].tree = repo.arms[j].tree => i = j
    /\ \A i, j \in DOMAIN repo.functions : repo.functions[i].name = repo.functions[j].name => i = j
    /\ \A i \in DOMAIN repo.functions : repo.functions[i].mentions = repo.functions[i].checks
    /\ \A p \in Apps : \A i \in Runs(p.name) : repo.functions[i].path = p
    /\ \A i \in DOMAIN repo.arms : \E j \in DOMAIN repo.functions : repo.functions[j].name = repo.arms[i].calls

Begin ==
    /\ pc = "idle"
    /\ Plain => WrittenPlainly
    /\ pc' = "check"
    /\ UNCHANGED <<repo, edits, trees, ran, failed, result, meddled>>

End(how) == pc' = "end" /\ result' = how

\* A mutant: the script goes on after step 0 has failed.
CheckAndGoOn ==
    /\ pc \in {"check", "trees"}
    /\ pc' = (IF pc = "check" THEN "trees" ELSE "list")
    /\ result' = (IF Problems # {} THEN "red" ELSE result)
    /\ UNCHANGED <<repo, edits, trees, ran, failed, meddled>>

\* Step 0, and the check the app makes once more before it lists the trees.
Check ==
    /\ pc \in {"check", "trees"}
    /\ IF Problems # {} THEN End("red")
       ELSE pc' = (IF pc = "check" THEN "trees" ELSE "list") /\ UNCHANGED result
    /\ UNCHANGED <<repo, edits, trees, ran, failed, meddled>>

\* Mutants: a list of no trees is run like any other, or only complained of.
ListWhateverThereIs ==
    /\ pc = "list"
    /\ trees' = Trees
    /\ IF Trees = {} THEN End("green") ELSE pc' = "run" /\ UNCHANGED result
    /\ UNCHANGED <<repo, edits, ran, failed, meddled>>

ComplainOfNoTrees ==
    /\ pc = "list"
    /\ trees' = Trees
    /\ pc' = "run" /\ result' = (IF Trees = {} THEN "empty" ELSE result)
    /\ UNCHANGED <<repo, edits, ran, failed, meddled>>

\* The repository is read again for the list; a list of no trees ends it.
ListTrees ==
    /\ pc = "list"
    /\ trees' = Trees
    /\ IF Trees = {} THEN End("empty") ELSE pc' = "run" /\ UNCHANGED result
    /\ UNCHANGED <<repo, edits, ran, failed, meddled>>

\* The shell takes the first arm of a name, and the last function of one.
BashArm(name) ==
    LET found == {i \in DOMAIN repo.arms : repo.arms[i].tree = name}
    IN  IF found = {} THEN {} ELSE {repo.arms[CHOOSE i \in found : \A j \in found : i <= j].calls}

BashFunction(name) ==
    {i \in DOMAIN repo.functions :
        /\ repo.functions[i].name \in BashArm(name)
        /\ \A j \in (i + 1)..Len(repo.functions) : repo.functions[j].name # repo.functions[i].name}

\* Each tree of the list is run, and a failed one does not stop the next.
RunTree ==
    /\ pc = "run"
    /\ \E name \in trees :
        /\ trees' = trees \ {name}
        /\ LET found == {repo.functions[i] : i \in BashFunction(name)}
               there == {f \in found : repo.disk[f.path] # "none"}
           IN  /\ ran' = ran \cup {[path |-> f.path, checked |-> f.checks] : f \in there}
               /\ failed' = failed \cup (IF found = {} THEN {"unknown"} ELSE IF there = {} THEN {"gone"} ELSE {})
        /\ IF trees' # {} THEN UNCHANGED <<pc, result>>
           ELSE End(IF failed' = {} THEN "green" ELSE "failed")
    /\ UNCHANGED <<repo, edits, meddled>>

-----------------------------------------------------------------------------
(* The authors.                                                            *)

Edited(next) ==
    /\ edits < MaxEdits
    /\ edits' = edits + 1
    /\ repo' = next
    /\ meddled' = (meddled \/ pc # "idle")
    /\ UNCHANGED <<pc, trees, ran, failed, result>>

\* The manifest is edited while the script runs, too.
EditManifest ==
    /\ pc # "end"
    /\ \/ \E p \in Paths : \E kind \in {"none", "app", "ungated", "typo"} :
            /\ Shallow => p.place # "deep"
            /\ Edited([repo EXCEPT !.rows[p] = kind])
       \/ \E state \in States : Edited([repo EXCEPT !.manifest = state])

\* A directory comes, with or without what makes it a Python tree, becomes a
\* link or goes.
EditDisk ==
    /\ pc = "idle"
    /\ \E p \in Paths :
        \/ \E form \in {"none", "directory", "link"} : Edited([repo EXCEPT !.disk[p] = form])
        \/ \E required \in {repo.required \cup {p}, repo.required \ {p}} : Edited([repo EXCEPT !.required = required])
        \/ \E declared \in {"none", "app", "other", "unreadable"} : Edited([repo EXCEPT !.declared[p] = declared])
        \/ \E stated \in {"none", "stated", "undeclared", "below", "unreadable"} :
             Edited([repo EXCEPT !.python[p] = stated])
        \/ \E stated \in {"none", "stated", "below"} : Edited([repo EXCEPT !.target[p] = stated])

EditScript ==
    /\ pc = "idle"
    /\ \/ \E arm \in Arms : Len(repo.arms) < 3 /\ Edited([repo EXCEPT !.arms = Append(@, arm)])
       \/ \E i \in DOMAIN repo.arms : Edited([repo EXCEPT !.arms = RemoveAt(@, i)])
       \/ \E function \in Functions : Len(repo.functions) < 3 /\ Edited([repo EXCEPT !.functions = Append(@, function)])
       \/ \E i \in DOMAIN repo.functions : \E function \in Functions :
             Edited([repo EXCEPT !.functions[i] = function])
       \/ \E state \in FileStates : Edited([repo EXCEPT !.verify = state])

EditWorkflow ==
    /\ pc = "idle"
    /\ \/ \E name \in Names : \E jobs \in {repo.jobs \cup {name}, repo.jobs \ {name}} : Edited([repo EXCEPT !.jobs = jobs])
       \/ \E state \in FileStates : Edited([repo EXCEPT !.workflow = state])
       \/ \E pin \in {"floor", "below"} : Edited([repo EXCEPT !.pin = pin])

Edit == EditManifest \/ EditDisk \/ EditScript \/ EditWorkflow

Next == Begin \/ Check \/ ListTrees \/ RunTree \/ Edit

Spec == Init /\ [][Next]_vars

-----------------------------------------------------------------------------
(* Properties.                                                             *)

\* "An app row is the claim that scripts/verify runs that tree": when the
\* script ends green, every Python tree of the repository was run in its own
\* directory, every directory that declares itself to tessercheck was checked
\* by it, and CI has a job for each.
EveryTreeRuns ==
    result = "green" =>
        /\ \A p \in Requirements : (\E r \in ran : r.path = p) /\ p.name \in repo.jobs
        /\ \A p \in Declarations : \E r \in ran : r.path = p /\ r.checked

\* A repository the app finds no problem with runs to the end of the script:
\* no tree of the list is unknown to it, none has no directory.
NoTreeIsUnknown == failed = {}

\* The script never passes without running anything, also when the manifest
\* is edited or breaks between the check and the list: an empty list would
\* report all green (scripts/verify:39-42).
NeverGreenOnNothing == result = "green" => ran # {}

\* A green scripts/verify ran every tree and knew every tree of its list, if
\* nobody edited the manifest behind its back, and ran something even then.
GreenMeansRun ==
    /\ TypeOK
    /\ NeverGreenOnNothing
    /\ Plain /\ Shallow /\ ~meddled => EveryTreeRuns /\ NoTreeIsUnknown

=============================================================================
