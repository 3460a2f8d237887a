------------------------------ MODULE MCTooling ------------------------------
(***************************************************************************)
(* What stands around the analyzer's rules, side by side for TLC: the debt *)
(* ledger (twice: larger files under one command, smaller ones under two), *)
(* the hook (twice: its log and its guidance) and the layout check with    *)
(* scripts/verify.  In a behaviour one of them moves, the part; the others *)
(* rest.                                                                   *)
(***************************************************************************)
EXTENDS RepoLayout, TLC

CONSTANTS
    Long, Twins,       \* the ledgers: files of several lines; files of one line, with links
    Logging, Guiding,  \* the hooks: that write a log in parts; that load guidance too
    w1, w2, l1, l2     \* two hooks of writes and two of loads of guidance

VARIABLES
    part,
    disk, run, ledgerEdits, runs,                                       \* of the ledger
    conf, session, log, hook, worker, recorded, confEdits, pauses       \* of the hook

ledgerVars == <<disk, run, ledgerEdits, runs>>
hookVars   == <<conf, session, log, hook, worker, recorded, confEdits, pauses>>
layoutVars == vars
partVars   == <<part, ledgerVars, hookVars, layoutVars>>

-----------------------------------------------------------------------------
(* Texts for the ledger. *)

Unmarked == [scope |-> "none", form |-> "parsed", codes |-> {}]

Line(seat, faults, mark) == [seat |-> seat, faults |-> faults, mark |-> mark]

LineMark(codes) == [scope |-> "line", form |-> "parsed", codes |-> codes]

FileMark(codes) == [scope |-> "file", form |-> "parsed", codes |-> codes]

Malformed == [scope |-> "line", form |-> "malformed", codes |-> {}]

(* Clean and faulty lines, with markers for one fault of two, for all, for *)
(* none, malformed or for the file.                                        *)
Lines ==
    {Line("open", {}, Unmarked),
     Line("open", {"TB053", "TB020"}, Unmarked),
     Line("open", {"TB053", "TB020"}, LineMark({"TB053"})),
     Line("open", {"TB053", "TB020"}, LineMark({"TB020"})),
     Line("open", {"TB020"}, LineMark({})),
     Line("open", {"TB020"}, LineMark({"TB053"})),
     Line("open", {"TB020"}, Malformed),
     Line("shut", {"TB020"}, Unmarked),
     Line("shut", {}, FileMark({"TB020"}))}

OtherLines == {Line("open", {"TB053", "TB020"}, Unmarked), Line("open", {"TB020"}, LineMark({"TB020"}))}

Tree(first, second) ==
    [declared |-> [app |-> TRUE, imports |-> TRUE],
     files |-> <<[parses |-> TRUE, uses |-> TRUE, rows |-> first],
                 [parses |-> TRUE, uses |-> FALSE, rows |-> second]>>]

LongTrees == {Tree(first, <<line, line>>) : first \in [1..2 -> Lines], line \in OtherLines}

\* The same line in both files.
TwinTrees == {Tree(<<line>>, <<line>>) : line \in Lines}

Debt(of) ==
    INSTANCE DebtLedger WITH LastFile <- of.files, LastLine <- of.lines, MaxEdits <- of.edits,
        MaxRuns <- of.runs, Codes <- of.codes, Renameable <- of.renameable, Leans <- of.leans,
        Taken <- of.taken, Links <- of.links, Rows <- of.rows, Starts <- of.starts, edits <- ledgerEdits

\* One command on files of two lines, one edit.
LongFiles ==
    [files |-> 2, lines |-> 2, edits |-> 1, runs |-> 1, codes |-> {"TB020", "TB053"},
     renameable |-> {"TB053"}, leans |-> {<<2, "TB020", 1>>}, taken |-> {<<2, 1>>}, links |-> {},
     rows |-> Lines, starts |-> LongTrees]

\* Two commands on files of one line, one of them a link; two edits.
TwinFiles ==
    [LongFiles EXCEPT !.lines = 1, !.edits = 2, !.runs = 2, !.links = {2}, !.starts = TwinTrees]

ASSUME LedgersAreTexts == \A of \in {Long, Twins} : Debt(of)!DebtAssumption

-----------------------------------------------------------------------------
(* Hooks: write calls that append a part and a change of mode, or loads    *)
(* beside the writes.                                                      *)

Hooks(of) ==
    INSTANCE HookRuns WITH Writers <- of.writers, Loaders <- of.loaders, PartialWrites <- of.partial,
        MaxConfEdits <- of.edits, MaxPauses <- of.pauses

LoggingHooks == [writers |-> {w1, w2}, loaders |-> {}, partial |-> TRUE, edits |-> 1, pauses |-> 0]
GuidingHooks == [writers |-> {w1, w2}, loaders |-> {l1, l2}, partial |-> FALSE, edits |-> 0, pauses |-> 0]

ASSUME HooksAreApart == \A of \in {Logging, Guiding} : Hooks(of)!HookAssumption

\* What a session is told is its own: records are whole and no week passes.
ASSUME GuidanceIsWritten == ~Guiding.partial /\ Guiding.pauses = 0

-----------------------------------------------------------------------------
(* A repository: an app at the top, a directory of its name below          *)
(* examples/, an app there, and a directory deeper than that.              *)

One == [place |-> "top", name |-> "one"]
ExampleOne == [place |-> "examples", name |-> "one"]
Two == [place |-> "examples", name |-> "two"]
Deep == [place |-> "deep", name |-> "three"]

Directories == {One, ExampleOne, Two, Deep}

Gate(name, path, checks, mentions) ==
    [name |-> name, path |-> path, checks |-> checks, mentions |-> mentions]

InOrder ==
    [manifest |-> "read", verify |-> "read", workflow |-> "read",
     disk |-> [p \in Directories |-> IF p \in {One, Two} THEN "directory" ELSE "none"],
     rows |-> [p \in Directories |-> IF p \in {One, Two} THEN "app" ELSE "none"],
     arms |-> <<[tree |-> "one", calls |-> "one"], [tree |-> "two", calls |-> "two"]>>,
     functions |-> <<Gate("one", One, TRUE, TRUE), Gate("two", Two, FALSE, FALSE)>>,
     jobs |-> {"one", "two"},
     declared |-> [p \in Directories |-> IF p = One THEN "app" ELSE "none"],
     required |-> {One, Two},
     python |-> [p \in Directories |-> "none"],
     target |-> [p \in Directories |-> "none"],
     pin |-> "floor"]

\* The gates of a third tree are written before its directory is there.
Prepared ==
    [InOrder EXCEPT !.arms = Append(@, [tree |-> "three", calls |-> "three"]),
                    !.functions = Append(@, Gate("three", Deep, FALSE, FALSE)),
                    !.jobs = @ \cup {"three"}]

OrderedRepos == {InOrder, Prepared}

-----------------------------------------------------------------------------

LedgerRests ==
    LET clean == <<Line("open", {}, Unmarked)>>
    IN  Debt(Twins)!Init /\ disk = Tree(clean, clean)

HookRests == Hooks(Logging)!Init /\ conf = "advisory"

LayoutRests == Init /\ repo = InOrder

PartInit ==
    \/ part = "ledger" /\ Debt(Long)!Init /\ HookRests /\ LayoutRests
    \/ part = "twice" /\ Debt(Twins)!Init /\ HookRests /\ LayoutRests
    \/ part = "log" /\ Hooks(Logging)!Init /\ LedgerRests /\ LayoutRests
    \/ part = "guidance" /\ Hooks(Guiding)!Init /\ LedgerRests /\ LayoutRests
    \/ part = "layout" /\ Init /\ LedgerRests /\ HookRests

PartNext ==
    \/ part = "ledger" /\ Debt(Long)!Next /\ UNCHANGED <<part, hookVars, layoutVars>>
    \/ part = "twice" /\ Debt(Twins)!Next /\ UNCHANGED <<part, hookVars, layoutVars>>
    \/ part = "log" /\ Hooks(Logging)!Next /\ UNCHANGED <<part, ledgerVars, layoutVars>>
    \/ part = "guidance" /\ Hooks(Guiding)!Next /\ UNCHANGED <<part, ledgerVars, layoutVars>>
    \/ part = "layout" /\ Next /\ UNCHANGED <<part, ledgerVars, hookVars>>

PartSpec == PartInit /\ [][PartNext]_partVars

Alike == Permutations({w1, w2}) \cup Permutations({l1, l2})

-----------------------------------------------------------------------------

\* The ledger: what a check of one file answers is what the whole check says of
\* it; marking and renaming leave only what they cannot reach, a second marking
\* writes nothing, marking uncovers nothing, renaming kills no marker; and
\* whoever edited a file since mark_debt read it, a marker that mark_debt writes
\* names only what its line earns.
LedgerSettles ==
    /\ [](part = "ledger" =>
            /\ Debt(Long)!TypeOK
            /\ Debt(Long)!ScopedAgrees
            /\ Debt(Long)!MarkingSettles
            /\ Debt(Long)!MarkingIsIdempotent
            /\ Debt(Long)!MarkingKeepsWhatIsHidden)
    /\ [](part = "twice" =>
            /\ Debt(Twins)!MarkingSettles
            /\ Debt(Twins)!RenamingSettles
            /\ Debt(Twins)!RenamingKillsNoMarker)
    /\ [][part = "twice" => Debt(Twins)!MarksLand]_ledgerVars

\* The hook: it fails open, decides by one reading of the configuration, logs a
\* write once, however the pieces of the log mix, and gives in that line the
\* guidance the session recorded before.
HooksAreFaithful ==
    /\ [](part = "log" => Hooks(Logging)!FailsOpen /\ Hooks(Logging)!OneLinePerWrite)
    /\ [](part = "guidance" => Hooks(Guiding)!TypeOK /\ Hooks(Guiding)!GuidanceIsComplete /\ Hooks(Guiding)!OneLinePerWrite)
    /\ [][part = "log" => Hooks(Logging)!KeepsItsMode]_hookVars
==============================================================================
