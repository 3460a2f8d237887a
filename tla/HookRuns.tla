------------------------------ MODULE HookRuns ------------------------------
(***************************************************************************)
(* The post-write hook: one process for each tool event of an agent, any   *)
(* number of them at the same time.  An event that loads guidance appends  *)
(* a record to the session's file.  A write reads the configuration and    *)
(* the session's guidance, has a worker process check the file within a    *)
(* budget, appends a line to the log, prunes session files untouched for   *)
(* seven days and answers.  The agent may kill a hook at any moment.       *)
(*                                                                         *)
(* A file is the sequence of the pieces that write calls appended to it; a *)
(* piece is named for the hook that wrote it.                              *)
(***************************************************************************)
EXTENDS Naturals, Sequences, FiniteSets

CONSTANTS
    Writers,      \* the hooks started by a write
    Loaders,      \* the hooks started by a load of guidance, one event each
    PartialWrites, \* opening or writing a file may fail, before the first byte or after a part
    MaxConfEdits, \* bound: changes of the configuration
    MaxPauses     \* bound: times the session is left alone for seven days

Hooks == Writers \cup Loaders

HookAssumption == Writers \cap Loaders = {} /\ PartialWrites \in BOOLEAN /\ MaxPauses \in Nat

VARIABLES
    conf,      \* the mode that the configuration file gives
    session,   \* the session's file, or its absence
    log,       \* the pieces of the log
    hook,      \* each hook: where it is and what it holds
    worker,    \* each write's worker
    recorded,  \* the events whose record was written within seven days
    confEdits, pauses

vars == <<conf, session, log, hook, worker, recorded, confEdits, pauses>>

-----------------------------------------------------------------------------
Modes == {"advisory", "feedback", "disabled"}

Placements == {"governed", "skipped", "outside", "undeclared", "unknown"}

Piece(h, part) == [by |-> h, part |-> part]

(* The lines of a file: a piece that is no head ends in a line break.      *)
StartsLine(file, i) == i = 1 \/ file[i - 1].part # "head"

Readable(file, i) ==
    /\ StartsLine(file, i)
    /\ \/ file[i].part = "whole"
       \/ /\ file[i].part = "head" /\ i < Len(file)
          /\ file[i + 1] = Piece(file[i].by, "tail")

Lines(file) == {i \in 1 .. Len(file) : Readable(file, i)}

Above(file, i) == {j \in Lines(file) : j < i}

(* A mutant: the last record first.                                        *)
RecordsBackwards(file) ==
    LET count == Cardinality(Lines(file))
        line(k) == CHOOSE i \in Lines(file) : Cardinality(Above(file, i)) + k = count
    IN [k \in 1 .. count |-> file[line(k)].by]

(* The records of a file that can be read, in order: the k-th is on the    *)
(* line that has k - 1 above it.                                           *)
Records(file) ==
    LET line(k) == CHOOSE i \in Lines(file) : Cardinality(Above(file, i)) + 1 = k
    IN [k \in 1 .. Cardinality(Lines(file)) |-> file[line(k)].by]

(* The session's file: absent, or its pieces, whether it has been left     *)
(* alone for seven days, and which file it is, for those that opened it.   *)
Absent == [exists |-> FALSE, pieces |-> <<>>, old |-> FALSE]

Start == [pc |-> "waits", mode |-> "none", guidance |-> <<>>, recent |-> <<>>,
          placement |-> "unknown", status |-> "ok", said |-> "nothing",
          findings |-> FALSE, stale |-> FALSE, open |-> FALSE]

Init ==
    /\ conf \in Modes
    /\ session = Absent /\ log = <<>> /\ recorded = <<>>
    /\ hook = [h \in Hooks |-> Start]
    /\ worker = [h \in Writers |-> "none"]
    /\ confEdits = 0 /\ pauses = 0

At(h, pc) == hook[h].pc = pc

-----------------------------------------------------------------------------
(* A load of guidance. *)

(* A mutant: the file is opened without being created.                     *)
OpenSessionUnborn(h) ==
    /\ At(h, "waits")
    /\ hook' = [hook EXCEPT ![h].pc = "append", ![h].open = TRUE]
    /\ UNCHANGED <<conf, session, log, worker, recorded, confEdits, pauses>>

(* The session's file is opened, and created when there is none, or cannot *)
(* be: the hook ends without a word.                                       *)
OpenSession(h) ==
    /\ At(h, "waits")
    /\ \/ /\ hook' = [hook EXCEPT ![h].pc = "append", ![h].open = TRUE]
          /\ session' = [session EXCEPT !.exists = TRUE]
       \/ /\ PartialWrites
          /\ hook' = [hook EXCEPT ![h].pc = "ended", ![h].open = FALSE]
          /\ UNCHANGED session
    /\ UNCHANGED <<conf, log, worker, recorded, confEdits, pauses>>

(* A piece reaches the session's file, or a file that was unlinked since.  *)
Reaches(h, part) ==
    session' = IF hook[h].open
               THEN [session EXCEPT !.pieces = Append(@, Piece(h, part)), !.old = FALSE]
               ELSE session

Recorded(h) == recorded' = Append(recorded, h)

AppendEvent(h) ==
    /\ At(h, "append")
    /\ \/ /\ Reaches(h, "whole") /\ Recorded(h)
          /\ hook' = [hook EXCEPT ![h].pc = "ended", ![h].open = FALSE]
       \/ /\ PartialWrites /\ Reaches(h, "head")
          /\ hook' = [hook EXCEPT ![h].pc = "appendRest"]
          /\ UNCHANGED recorded
       \/ /\ PartialWrites
          /\ hook' = [hook EXCEPT ![h].pc = "ended", ![h].open = FALSE]
          /\ UNCHANGED <<session, recorded>>
    /\ UNCHANGED <<conf, log, worker, confEdits, pauses>>

(* The rest is written, or cannot be: the disk is full.                    *)
AppendEventRest(h) ==
    /\ At(h, "appendRest")
    /\ \/ Reaches(h, "tail") /\ Recorded(h)
       \/ UNCHANGED <<session, recorded>>
    /\ hook' = [hook EXCEPT ![h].pc = "ended", ![h].open = FALSE]
    /\ UNCHANGED <<conf, log, worker, confEdits, pauses>>

-----------------------------------------------------------------------------
(* A write. *)

(* The configuration is read, once.                                        *)
ReadConf(h) ==
    /\ At(h, "waits")
    /\ hook' = [hook EXCEPT ![h].pc = "guide", ![h].mode = conf]
    /\ UNCHANGED <<conf, session, log, worker, recorded, confEdits, pauses>>

(* The guidance of the session so far is read; the write is then analyzed, *)
(* unless the hook is disabled or no tree holds the file.                  *)
ReadGuidance(h) ==
    /\ At(h, "guide")
    /\ \E inTree \in BOOLEAN :
        LET analyzed == inTree /\ hook[h].mode # "disabled" IN
        /\ hook' = [hook EXCEPT
              ![h].guidance = Records(session.pieces),
              ![h].recent = recorded,
              ![h].placement = IF inTree THEN "unknown" ELSE "outside",
              ![h].status = IF hook[h].mode = "disabled" THEN "disabled" ELSE "ok",
              ![h].pc = IF analyzed THEN "analyze" ELSE "log"]
        /\ worker' = IF analyzed THEN [worker EXCEPT ![h] = "running"] ELSE worker
    /\ UNCHANGED <<conf, session, log, recorded, confEdits, pauses>>

(* HookRun.action, as the hook carries it out.                             *)
Said(mode, placement, findings) ==
    IF placement = "undeclared" THEN "advice"
    ELSE IF placement # "governed" \/ ~findings THEN "nothing"
    ELSE IF mode = "feedback" THEN "feedback" ELSE "advice"

(* What a worker can answer: findings only where the tree is not declared  *)
(* or the file governed.                                                   *)
Answers ==
    {a \in [placement : Placements \ {"unknown"}, findings : BOOLEAN] :
        /\ a.placement = "undeclared" => a.findings
        /\ a.findings => a.placement \in {"undeclared", "governed"}}

(* check_write: an answer and what the hook is to do about it.             *)
CheckWrite(mode) ==
    {[placement |-> a.placement, findings |-> a.findings,
      said |-> Said(mode, a.placement, a.findings)] : a \in Answers}

(* A mutant: the worker reads the configuration itself.                    *)
WorkerAnswersAnew(h) ==
    /\ At(h, "analyze") /\ worker[h] = "running"
    /\ worker' = [worker EXCEPT ![h] = "gone"]
    /\ \E a \in CheckWrite(conf) :
        hook' = [hook EXCEPT ![h].pc = "log", ![h].placement = a.placement,
                     ![h].findings = a.findings, ![h].mode = conf, ![h].said = a.said]
    /\ UNCHANGED <<conf, session, log, recorded, confEdits, pauses>>

WorkerAnswers(h) ==
    /\ At(h, "analyze") /\ worker[h] = "running"
    /\ worker' = [worker EXCEPT ![h] = "gone"]
    /\ \E a \in CheckWrite(hook[h].mode) :
        hook' = [hook EXCEPT ![h].pc = "log", ![h].placement = a.placement,
                     ![h].findings = a.findings, ![h].said = a.said]
    /\ UNCHANGED <<conf, session, log, recorded, confEdits, pauses>>

(* A mutant: a worker that fails is taken for findings.                    *)
WorkerFailsClosed(h) ==
    /\ At(h, "analyze") /\ worker[h] = "running"
    /\ worker' = [worker EXCEPT ![h] = "gone"]
    /\ hook' = [hook EXCEPT ![h].pc = "log", ![h].status = "error",
                    ![h].said = Said(hook[h].mode, "governed", TRUE)]
    /\ UNCHANGED <<conf, session, log, recorded, confEdits, pauses>>

(* The worker exits with an error, or its answer cannot be read.           *)
WorkerFails(h) ==
    /\ At(h, "analyze") /\ worker[h] = "running"
    /\ worker' = [worker EXCEPT ![h] = "gone"]
    /\ hook' = [hook EXCEPT ![h].pc = "log", ![h].status = "error"]
    /\ UNCHANGED <<conf, session, log, recorded, confEdits, pauses>>

(* A mutant: no budget.                                                    *)
NoTimeout(h) == FALSE /\ UNCHANGED vars

(* The budget is spent: the worker is killed.                              *)
Timeout(h) ==
    /\ At(h, "analyze") /\ worker[h] = "running"
    /\ worker' = [worker EXCEPT ![h] = "gone"]
    /\ hook' = [hook EXCEPT ![h].pc = "log", ![h].status = "timeout"]
    /\ UNCHANGED <<conf, session, log, recorded, confEdits, pauses>>

(* A mutant: the alarm is not set.                                         *)
NoAlarm(h) == FALSE /\ UNCHANGED vars

(* A worker whose hook was killed is ended by its own alarm, two seconds   *)
(* after the budget.                                                       *)
Alarm(h) ==
    /\ worker[h] = "running" /\ ~At(h, "analyze")
    /\ worker' = [worker EXCEPT ![h] = "gone"]
    /\ UNCHANGED <<conf, session, log, hook, recorded, confEdits, pauses>>

(* A mutant: a write that says nothing is not logged.                      *)
AppendLineIfSaid(h) ==
    /\ At(h, "log")
    /\ log' = IF hook[h].said = "nothing" THEN log ELSE Append(log, Piece(h, "whole"))
    /\ hook' = [hook EXCEPT ![h].pc = "look"]
    /\ UNCHANGED <<conf, session, worker, recorded, confEdits, pauses>>

(* The line is appended to the log: at once, a part and then the rest, or  *)
(* not at all, and the hook goes on.                                       *)
AppendLine(h) ==
    /\ At(h, "log")
    /\ \/ /\ log' = Append(log, Piece(h, "whole"))
          /\ hook' = [hook EXCEPT ![h].pc = "look"]
       \/ /\ PartialWrites /\ log' = Append(log, Piece(h, "head"))
          /\ hook' = [hook EXCEPT ![h].pc = "logRest"]
       \/ /\ PartialWrites /\ log' = log
          /\ hook' = [hook EXCEPT ![h].pc = "look"]
    /\ UNCHANGED <<conf, session, worker, recorded, confEdits, pauses>>

(* A mutant: after a part, all of it is written again.                     *)
AppendLineAgain(h) ==
    /\ At(h, "logRest")
    /\ log' = log \o <<Piece(h, "tail"), Piece(h, "whole")>>
    /\ hook' = [hook EXCEPT ![h].pc = "look"]
    /\ UNCHANGED <<conf, session, worker, recorded, confEdits, pauses>>

AppendLineRest(h) ==
    /\ At(h, "logRest")
    /\ log' \in {log, Append(log, Piece(h, "tail"))}
    /\ hook' = [hook EXCEPT ![h].pc = "look"]
    /\ UNCHANGED <<conf, session, worker, recorded, confEdits, pauses>>

(* Pruning looks at the session's file ...                                 *)
LookAtSession(h) ==
    /\ At(h, "look")
    /\ hook' = [hook EXCEPT ![h].pc = "prune", ![h].stale = session.exists /\ session.old]
    /\ UNCHANGED <<conf, session, log, worker, recorded, confEdits, pauses>>

(* ... and unlinks it when it was old: whoever holds it open keeps a file  *)
(* that nobody else will read.                                             *)
Prune(h) ==
    /\ At(h, "prune")
    /\ session' = IF hook[h].stale THEN Absent ELSE session
    /\ hook' = [k \in Hooks |->
          IF k = h THEN [hook[h] EXCEPT !.pc = "answer"]
          ELSE IF hook[h].stale THEN [hook[k] EXCEPT !.open = FALSE] ELSE hook[k]]
    /\ UNCHANGED <<conf, log, worker, recorded, confEdits, pauses>>

(* The answer reaches the agent.                                           *)
Answer(h) ==
    /\ At(h, "answer")
    /\ hook' = [hook EXCEPT ![h].pc = "ended"]
    /\ UNCHANGED <<conf, session, log, worker, recorded, confEdits, pauses>>

-----------------------------------------------------------------------------
(* The surroundings. *)

(* The agent loses patience and kills the hook.                            *)
Kill(h) ==
    /\ hook[h].pc \notin {"waits", "ended", "killed"}
    /\ hook' = [hook EXCEPT ![h].pc = "killed", ![h].open = FALSE]
    /\ UNCHANGED <<conf, session, log, worker, recorded, confEdits, pauses>>

EditConf(mode) ==
    /\ confEdits < MaxConfEdits /\ mode # conf
    /\ conf' = mode /\ confEdits' = confEdits + 1
    /\ UNCHANGED <<session, log, hook, worker, recorded, pauses>>

(* The session is left alone for seven days: no hook runs meanwhile.       *)
Pause ==
    /\ pauses < MaxPauses
    /\ \A h \in Hooks : hook[h].pc \in {"waits", "ended", "killed"}
    /\ \A h \in Writers : worker[h] # "running"
    /\ session' = [session EXCEPT !.old = session.exists]
    /\ recorded' = <<>> /\ pauses' = pauses + 1
    /\ UNCHANGED <<conf, log, hook, worker, confEdits>>

LoaderStep(h) == OpenSession(h) \/ AppendEvent(h) \/ AppendEventRest(h)

WriterStep(h) ==
    \/ ReadConf(h) \/ ReadGuidance(h)
    \/ Timeout(h)
    \/ AppendLine(h) \/ AppendLineRest(h)
    \/ LookAtSession(h) \/ Prune(h) \/ Answer(h)

WorkerStep(h) == WorkerAnswers(h) \/ WorkerFails(h)

Next ==
    \/ \E h \in Loaders : LoaderStep(h)
    \/ \E h \in Writers : WriterStep(h) \/ WorkerStep(h) \/ Alarm(h)
    \/ \E h \in Hooks : Kill(h)
    \/ \E mode \in Modes : EditConf(mode)
    \/ Pause

Spec == Init /\ [][Next]_vars

(* A process that can run does; a worker need not answer, the budget and   *)
(* the alarm are the operating system's.                                   *)
Fairness ==
    /\ \A h \in Loaders : WF_vars(LoaderStep(h))
    /\ \A h \in Writers : WF_vars(WriterStep(h)) /\ WF_vars(Alarm(h))

-----------------------------------------------------------------------------
(* Properties *)

(* Files are made of pieces, hooks are at one of their points and hold     *)
(* what they log.                                                          *)
TypeOK ==
    /\ conf \in Modes
    /\ session.pieces \in Seq([by : Loaders, part : {"whole", "head", "tail"}])
    /\ session.old => session.exists
    /\ log \in Seq([by : Writers, part : {"whole", "head", "tail"}])
    /\ worker \in [Writers -> {"none", "running", "gone"}]
    /\ \A h \in Hooks :
          /\ hook[h].mode \in Modes \cup {"none"}
          /\ hook[h].placement \in Placements
          /\ hook[h].status \in {"ok", "error", "timeout", "disabled"}
          /\ hook[h].open => session.exists

(* The hook fails open: a write whose worker did not answer, or was not    *)
(* asked, is logged as such and says nothing to the agent; and it never    *)
(* feeds back but on a governed file with findings.                        *)
FailsOpen ==
    \A h \in Writers : At(h, "ended") =>
        /\ hook[h].status # "ok" => hook[h].said = "nothing"
        /\ hook[h].said = "feedback" =>
              hook[h].placement = "governed" /\ hook[h].findings

(* One reading of the configuration decides: a write is analyzed, answered *)
(* and logged under the mode it was started with, whatever the file says   *)
(* by the time the worker answers.                                         *)
KeepsItsMode ==
    \A h \in Writers : hook[h].mode # "none" =>
        /\ hook'[h].mode = hook[h].mode
        /\ hook'[h].said = "feedback" => hook[h].mode = "feedback"

OneConfPerWrite == [][KeepsItsMode]_vars

(* A write leaves at most one line in the log, however its pieces mix with *)
(* those of others; and exactly one when write calls append all of it.     *)
OneLinePerWrite ==
    \A h \in Writers :
        LET lines == {k \in 1 .. Len(Records(log)) : Records(log)[k] = h} IN
        /\ Cardinality(lines) <= 1
        /\ ~PartialWrites /\ hook[h].pc \in {"look", "prune", "answer", "ended"} =>
              Cardinality(lines) = 1

(* The guidance in a write's line: every event that was recorded in the    *)
(* session so far, in order; only what is older than seven days may be     *)
(* missing.                                                                *)
GuidanceIsComplete ==
    \A h \in Writers :
        \E from \in 1 .. Len(hook[h].guidance) + 1 :
            hook[h].recent = SubSeq(hook[h].guidance, from, Len(hook[h].guidance))
=============================================================================
