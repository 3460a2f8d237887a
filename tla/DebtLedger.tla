----------------------------- MODULE DebtLedger -----------------------------
(***************************************************************************)
(* The ledger of tolerated findings of the Python analyzer: markers in the *)
(* checked text (tesser:debt, tesser:debt-file), the check of a whole tree *)
(* or of one file of it, and the two commands that rewrite the tree they   *)
(* have checked (mark_debt, apply_renames) while somebody may be editing   *)
(* it: each reads the files one by one, checks what it read, writes the    *)
(* rewritten files one by one and reads the tree again for its answer.     *)
(*                                                                         *)
(* A rule is a code that a line earns by what it says; which rule that is  *)
(* does not matter here.  What the markers do to findings, and what the    *)
(* commands do to the lines, is all there.                                 *)
(***************************************************************************)
EXTENDS Naturals, FiniteSets

CONSTANTS
    LastFile,   \* the modules of the tree, in the order of their paths, are 1 .. LastFile
    LastLine,   \* the lines of a module are 1 .. LastLine
    Codes,      \* the codes of the rules that find something on a line
    Renameable, \* the codes whose finding carries the rename that repairs it
    Leans,      \* <<f, c, g>>: rule c speaks on f only of what it reads in g
    Taken,      \* <<f, l>>: the name a rename there would give is taken
    Links,      \* the files that are symbolic links: read, never written
    Rows,       \* the lines that an editor writes
    Starts,     \* the trees an editor begins with
    MaxEdits,   \* bound: edits
    MaxRuns     \* bound: commands

Files == 1 .. LastFile
Lines == 1 .. LastLine

VARIABLES
    disk,   \* the tree as it is: its declaration and its files
    run,    \* the command under way
    edits,  \* how often the tree was edited
    runs    \* how many commands were begun

vars == <<disk, run, edits, runs>>

-----------------------------------------------------------------------------
(* The text of a line, as far as the ledger reads it. *)

NoMark == [scope |-> "none", form |-> "parsed", codes |-> {}]

Marks ==
    {NoMark}
    \cup [scope : {"line", "file"}, form : {"parsed"}, codes : SUBSET Codes]
    \cup [scope : {"line", "file"}, form : {"malformed"}, codes : {{}}]

(* A shut line takes no marker: it is blank, inside a string, ends in a    *)
(* backslash, or already ends in a comment of another kind.                *)
RowType == [seat : {"open", "shut"}, faults : SUBSET Codes, mark : Marks]

FileType == [parses : BOOLEAN, uses : BOOLEAN, rows : [Lines -> RowType]]

(* The declaration: readable and recognised or not, with one line that     *)
(* declares an imported package or without.                                *)
Declarations == [app : BOOLEAN, imports : BOOLEAN]

Trees == [declared : Declarations, files : [Files -> FileType]]

DebtAssumption ==
    /\ LastFile \in Nat /\ LastFile > 1 /\ LastLine \in Nat /\ {MaxEdits, MaxRuns} \subseteq Nat
    /\ Codes \cap {"TB043", "TB044", "TB090"} = {} /\ Renameable \subseteq Codes
    /\ Rows \subseteq RowType /\ Starts \subseteq Trees

Root == 0 \* the path of the declaration

Finding(f, l, c) == [path |-> f, line |-> l, code |-> c]

-----------------------------------------------------------------------------
(* The check.  A tree is [declared, files]; scope is the set of the files  *)
(* asked for, Files for the whole tree.                                    *)

(* What the rules say of line l of f: nothing unless f parses, and a rule  *)
(* that reads another file says nothing when that file does not parse.     *)
Faults(tree, f, l) ==
    {c \in tree.files[f].rows[l].faults :
        /\ tree.files[f].parses
        /\ \A g \in Files : <<f, c, g>> \in Leans => tree.files[g].parses}

(* A mutant: the files that do not parse are reported whatever is asked.   *)
FoundAllBroken(tree, scope) ==
    {Finding(f, 1, "TB043") : f \in {g \in Files : ~tree.files[g].parses}}
    \cup {Finding(p[1], p[2], p[3]) :
            p \in {q \in scope \X Lines \X Codes : q[3] \in Faults(tree, q[1], q[2])}}

Found(tree, scope) ==
    {Finding(f, 1, "TB043") : f \in {g \in scope : ~tree.files[g].parses}}
    \cup {Finding(p[1], p[2], p[3]) :
            p \in {q \in scope \X Lines \X Codes : q[3] \in Faults(tree, q[1], q[2])}}

(* An import that is declared and that nothing uses: only the whole tree   *)
(* can tell.                                                               *)
Idle(tree) ==
    tree.declared.imports /\ \A f \in Files : tree.files[f].parses => ~tree.files[f].uses

Unused(tree, scope) ==
    IF scope = Files /\ Idle(tree) THEN {Finding(Root, 1, "TB044")} ELSE {}

(* The marker m on line l of the file of finding v hides v.                *)
Hides(m, l, v) ==
    /\ m.scope # "none" /\ m.form = "parsed"
    /\ m.scope = "file" => m.codes # {}
    /\ m.codes # {} => v.code \in m.codes
    /\ m.scope = "file" \/ v.line = l

Markers(tree, f) ==
    {l \in Lines : tree.files[f].parses /\ tree.files[f].rows[l].mark.scope # "none"}

Hidden(tree, v) ==
    /\ v.path \in Files
    /\ \E l \in Markers(tree, v.path) : Hides(tree.files[v.path].rows[l].mark, l, v)

(* A marker that hides nothing is itself a finding, and nothing hides it.  *)
Dead(tree, scope) ==
    {Finding(p[1], p[2], "TB090") :
        p \in {q \in scope \X Lines :
            /\ q[2] \in Markers(tree, q[1])
            /\ \A v \in Found(tree, scope) :
                  v.path = q[1] => ~Hides(tree.files[q[1]].rows[q[2]].mark, q[2], v)}}

Violations(tree, scope) ==
    IF ~tree.declared.app THEN {Finding(Root, 1, "TB044")}
    ELSE {v \in Found(tree, scope) \cup Unused(tree, scope) : ~Hidden(tree, v)}
         \cup Dead(tree, scope)

-----------------------------------------------------------------------------
(* The two rewritings, computed from the tree that was read. *)

Unmarkable == {"TB043", "TB044", "TB090"}

(* The codes of the findings on a line that a marker can carry.            *)
Named(found, f, l) ==
    {v.code : v \in {w \in found : w.path = f /\ w.line = l /\ w.code \notin Unmarkable}}

(* A mutant: no marker is merged into another.                             *)
TakesFirstMark(row) == row.seat = "open" /\ row.mark.scope = "none"

TakesMark(row) ==
    row.seat = "open" /\ row.mark.scope # "file" /\ row.mark.form = "parsed"

(* Mutants: the codes of the marker there was are lost; a marker put on a  *)
(* line that cannot take it.                                               *)
MarkedAnew(row, codes) ==
    IF codes = {} \/ ~TakesMark(row) THEN row
    ELSE [row EXCEPT !.mark = [scope |-> "line", form |-> "parsed", codes |-> codes]]

MarkedAnyway(row, codes) ==
    IF codes = {} \/ row.seat = "shut" THEN row
    ELSE [row EXCEPT !.mark.codes = @ \cup codes]

Marked(row, codes) ==
    IF codes = {} \/ ~TakesMark(row) THEN row
    ELSE [row EXCEPT !.mark = [scope |-> "line", form |-> "parsed",
                               codes |-> row.mark.codes \cup codes]]

Marking(tree) ==
    LET found == Violations(tree, Files) IN
    [f \in Files |-> [tree.files[f] EXCEPT !.rows =
        [l \in Lines |-> Marked(tree.files[f].rows[l], Named(found, f, l))]]]

(* A mutant: a line that carries a marker is not repaired.                 *)
RenamedUnmarked(f, l, row, codes) ==
    IF <<f, l>> \in Taken \/ row.mark # NoMark THEN row
    ELSE [row EXCEPT !.faults = @ \ (codes \cap Renameable)]

(* A rename that finds its name taken leaves the line as it is.            *)
Renamed(f, l, row, codes) ==
    IF <<f, l>> \in Taken THEN row ELSE [row EXCEPT !.faults = @ \ (codes \cap Renameable)]

(* A mutant: what a marker hides is repaired as well.                      *)
RenamingAll(tree) ==
    [f \in Files |-> [tree.files[f] EXCEPT !.rows =
        [l \in Lines |-> Renamed(f, l, tree.files[f].rows[l],
                                 Named(Found(tree, Files), f, l))]]]

Renaming(tree) ==
    LET found == Violations(tree, Files) IN
    [f \in Files |-> [tree.files[f] EXCEPT !.rows =
        [l \in Lines |-> Renamed(f, l, tree.files[f].rows[l], Named(found, f, l))]]]

Rewriting(op, tree) == IF op = "mark" THEN Marking(tree) ELSE Renaming(tree)

-----------------------------------------------------------------------------
(* The commands and the editor. *)

Ops == {"mark", "rename"}

Nobody == [op |-> "none", phase |-> "idle", at |-> 1, calm |-> TRUE]

Init ==
    /\ disk \in Starts
    /\ run = Nobody /\ edits = 0 /\ runs = 0

(* mark_debt and apply_renames begin: the declaration is read.             *)
Begin(op) ==
    /\ run.phase = "idle" /\ runs < MaxRuns
    /\ run' = [op |-> op, phase |-> "read", at |-> 1, calm |-> TRUE, read |-> disk]
    /\ runs' = runs + 1
    /\ UNCHANGED <<disk, edits>>

(* The next file is read, as it is now.                                    *)
ReadFile ==
    /\ run.phase \in {"read", "reread"} /\ run.at \in Files
    /\ run' = [run EXCEPT !.read.files[run.at] = disk.files[run.at], !.at = @ + 1]
    /\ UNCHANGED <<disk, edits, runs>>

(* What was read is checked and rewritten, in memory.                      *)
Rewrite ==
    /\ run.phase = "read" /\ run.at > LastFile
    /\ run' = [op |-> run.op, phase |-> "write", at |-> 1, calm |-> run.calm,
               read |-> run.read, text |-> Rewriting(run.op, run.read)]
    /\ UNCHANGED <<disk, edits, runs>>

Writes(f) == f \notin Links /\ run.text[f] # run.read.files[f]

(* A mutant: the marks are put on the lines as they are by then.           *)
WriteFileInPlace ==
    /\ run.phase = "write" /\ run.at \in Files
    /\ disk' = IF ~Writes(run.at) THEN disk
               ELSE [disk EXCEPT !.files[run.at].rows =
                        [l \in Lines |-> [@[l] EXCEPT !.mark = run.text[run.at].rows[l].mark]]]
    /\ run' = [run EXCEPT !.at = @ + 1]
    /\ UNCHANGED <<edits, runs>>

(* The next file is written whole, when it changed and is no link.         *)
WriteFile ==
    /\ run.phase = "write" /\ run.at \in Files
    /\ disk' = IF Writes(run.at) THEN [disk EXCEPT !.files[run.at] = run.text[run.at]]
               ELSE disk
    /\ run' = [run EXCEPT !.at = @ + 1]
    /\ UNCHANGED <<edits, runs>>

(* The tree is read again, declaration first, for the answer.              *)
ReadAgain ==
    /\ run.phase = "write" /\ run.at > LastFile
    /\ run' = [op |-> run.op, phase |-> "reread", at |-> 1, calm |-> run.calm, read |-> disk]
    /\ UNCHANGED <<disk, edits, runs>>

(* The answer: what remains in the tree that was read again.               *)
Answer ==
    /\ run.phase = "reread" /\ run.at > LastFile
    /\ run' = [op |-> run.op, phase |-> "done", at |-> 1, calm |-> run.calm,
               remaining |-> Violations(run.read, Files)]
    /\ UNCHANGED <<disk, edits, runs>>

Leave ==
    /\ run.phase = "done"
    /\ run' = Nobody
    /\ UNCHANGED <<disk, edits, runs>>

(* Somebody edits the tree: a line, or whether a file parses, or what the  *)
(* declaration says.                                                       *)
Edited(tree) ==
    /\ edits < MaxEdits
    /\ disk' = tree /\ disk' # disk
    /\ edits' = edits + 1
    /\ run' = [run EXCEPT !.calm = FALSE]
    /\ UNCHANGED runs

EditLine(f, l) == \E row \in Rows : Edited([disk EXCEPT !.files[f].rows[l] = row])

EditSyntax(f) == Edited([disk EXCEPT !.files[f].parses = ~@])

EditUse(f) == Edited([disk EXCEPT !.files[f].uses = ~@])

EditDeclaration == \E d \in Declarations : Edited([disk EXCEPT !.declared = d])

Next ==
    \/ \E op \in Ops : Begin(op)
    \/ ReadFile \/ Rewrite \/ WriteFile \/ ReadAgain \/ Answer \/ Leave
    \/ \E f \in Files, l \in Lines : EditLine(f, l)
    \/ \E f \in Files : EditSyntax(f) \/ EditUse(f)
    \/ EditDeclaration

Spec == Init /\ [][Next]_vars

-----------------------------------------------------------------------------
(* Properties *)

(* The tree, and the texts a command holds, are texts; a command is in one *)
(* of its phases.                                                          *)
TypeOK ==
    /\ disk \in Trees
    /\ run.op \in Ops \cup {"none"} /\ run.at \in 1 .. LastFile + 1 /\ run.calm \in BOOLEAN
    /\ run.phase \in {"read", "write", "reread"} => run.read \in Trees
    /\ run.phase = "write" => run.text \in [Files -> FileType]
    /\ edits \in 0 .. MaxEdits /\ runs \in 0 .. MaxRuns

(* CHECK-ONE: what check_file and check_write answer for a file is what    *)
(* the check of the whole tree says of that file, in every tree that       *)
(* editing and the commands can lead to.  (The finding on the declaration  *)
(* that nothing uses an import is the whole tree's alone.)                 *)
ScopedAgrees ==
    disk.declared.app =>
        \A f \in Files : Violations(disk, {f}) = {v \in Violations(disk, Files) : v.path = f}

(* When mark_debt answers and nobody edited the tree meanwhile, what       *)
(* remains is what no marker can reach: a code that cannot be marked, a    *)
(* line that takes no marker, a file that is not written.                  *)
MarkingSettles ==
    run.phase = "done" /\ run.op = "mark" /\ run.calm =>
        \A v \in run.remaining :
            \/ v.code \in Unmarkable
            \/ v.path \in Links
            \/ LET row == disk.files[v.path].rows[v.line] IN
               row.seat = "shut" \/ row.mark.scope = "file" \/ row.mark.form = "malformed"

(* A second mark_debt, of the tree a first one leaves, would write no      *)
(* file: neither does a marker it wrote grow, nor does it die.             *)
MarkingIsIdempotent ==
    run.phase = "write" /\ run.op = "mark" =>
        LET marked == [run.read EXCEPT !.files = run.text] IN Marking(marked) = run.text

(* A marker that mark_debt writes stands on the line it was computed for:  *)
(* whoever edited the file since it was read, each code it adds is one     *)
(* that the line it now stands on earns.                                   *)
MarksLand ==
    run.phase = "write" /\ run.op = "mark" /\ disk' # disk /\ edits' = edits =>
        \A l \in Lines :
            disk'.files[run.at].rows[l].mark.codes
                \subseteq disk'.files[run.at].rows[l].faults
                          \cup run.read.files[run.at].rows[l].mark.codes

MarksLandOnTheirLines == [][MarksLand]_vars

(* Marking never brings to light what a marker hid, and hides nothing but  *)
(* what it found: in the tree read, the findings that the rules make are   *)
(* the same before and after, and those hidden before are hidden after.    *)
MarkingKeepsWhatIsHidden ==
    run.phase = "write" /\ run.op = "mark" =>
        LET marked == [run.read EXCEPT !.files = run.text] IN
        \A v \in Found(run.read, Files) : Hidden(run.read, v) => Hidden(marked, v)

(* When apply_renames answers and nobody edited the tree meanwhile, a      *)
(* finding that carries its rename remains only where the rename was       *)
(* refused or the file is not written; in particular a marker that hid the *)
(* fault of a line is never left without it.                               *)
RenamingSettles ==
    run.phase = "done" /\ run.op = "rename" /\ run.calm =>
        \A v \in run.remaining :
            v.code \in Renameable => v.path \in Links \/ <<v.path, v.line>> \in Taken

(* apply_renames leaves no marker dead that was not dead before: a finding *)
(* that a marker hides is not repaired behind the marker's back.           *)
RenamingKillsNoMarker ==
    run.phase = "write" /\ run.op = "rename" =>
        Dead([run.read EXCEPT !.files = run.text], Files) \subseteq Dead(run.read, Files)
=============================================================================
