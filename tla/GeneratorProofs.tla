-------------------------- MODULE GeneratorProofs --------------------------
(***************************************************************************)
(* What holds of the generator for any names and any document an author    *)
(* starts from, and for any number of runs, specs and files of a tree.     *)
(*                                                                         *)
(* The runs first: a run that writes has found nothing where it writes, so *)
(* what stands before the file it is at is its own spec's text, and what   *)
(* stands from there on is nothing.  Then the trees: a document without    *)
(* problems has, for every lookup the templates make, what is looked up.   *)
(***************************************************************************)
EXTENDS MCGenerator, FiniteSetTheorems, SequenceTheorems, TLAPS

-----------------------------------------------------------------------------
(* Runs of the command.                                                    *)

Places == 1..Len(TreePaths)
Writes == {"makes", "opens", "fills"}

RunTypes ==
    /\ specFile \in SpecFiles \cup {CommandRuns!Faulty}
    /\ root \in {"none", "file", "dir"}
    /\ files \in [CommandRuns!Path -> {CommandRuns!Absent, CommandRuns!Theirs}
                     \cup {CommandRuns!Text(s) : s \in SpecFiles} \cup {CommandRuns!Opened(r) : r \in Commands}]
    /\ (\E p \in CommandRuns!Path : files[p] # CommandRuns!Absent) => root = "dir"
    /\ pc \in [Commands -> CommandRuns!Working \cup {"idle", "usage", "refused", "answered", "dead"}]
    /\ spec \in [Commands -> SpecFiles \cup {CommandRuns!Faulty}]
    /\ target \in [Commands -> {"absent", "empty", "occupied"}]
    /\ at \in [Commands -> Places]
    /\ answered = {} \/ \E r \in Commands : answered = {r}

\* No two runs are under way at once.
OneAtATime ==
    \A r, s \in Commands : pc[r] \in CommandRuns!Working /\ pc[s] \in CommandRuns!Working => r = s

\* A run that has not begun to write is at its first file, and one that judges
\* has the directory before it as it saw it.
NotBegun == \A r \in Commands : pc[r] \in {"idle", "reads", "looks", "judges"} => at[r] = 1
SawWhatIs == \A r \in Commands : pc[r] = "judges" => target[r] = CommandRuns!TargetState

\* A run that writes has its own files behind it and nothing before it.
FileOf(r, i) ==
    IF i < at[r] THEN CommandRuns!Text(spec[r])
    ELSE IF i = at[r] /\ pc[r] = "fills" THEN CommandRuns!Opened(r)
    ELSE CommandRuns!Absent

WritesAlone ==
    \A r \in Commands : pc[r] \in Writes =>
        /\ spec[r] \in SpecFiles
        /\ root # "file" /\ (pc[r] # "makes" => root = "dir")
        /\ \A i \in Places : files[TreePaths[i]] = FileOf(r, i)

\* A file opened and not filled is of a run that fills it, or died of it.
OpenedByWriters ==
    \A r \in Commands : \A p \in CommandRuns!Path :
        files[p] = CommandRuns!Opened(r) => pc[r] \in {"fills", "dead"}

\* The run whose answer stands is over.
AnsweredRest == \A r \in answered : pc[r] = "answered"

RunsInv ==
    /\ RunTypes
    /\ OneAtATime
    /\ NotBegun
    /\ SawWhatIs
    /\ WritesAlone
    /\ OpenedByWriters
    /\ AnsweredRest
    /\ CommandRuns!AnsweredTreeIsWhole
    /\ CommandRuns!OneSpecPerTree

\* What the output directory's files hold tells the three kinds apart.
LEMMA FilesDiffer ==
    ASSUME NEW a, NEW b
    PROVE  /\ CommandRuns!Absent # CommandRuns!Text(a)
           /\ CommandRuns!Absent # CommandRuns!Opened(a)
           /\ CommandRuns!Text(a) # CommandRuns!Opened(b)
           /\ CommandRuns!Text(a) = CommandRuns!Text(b) => a = b
           /\ CommandRuns!Opened(a) = CommandRuns!Opened(b) => a = b
           /\ CommandRuns!Text(a).is = "text" /\ CommandRuns!Text(a).of = a
           /\ CommandRuns!Opened(a).is = "opened" /\ CommandRuns!Opened(a).of = a
  BY DEF CommandRuns!Absent, CommandRuns!Text, CommandRuns!Opened

LEMMA RunsCount == \A S : CommandRuns!Cardinality(S) = Cardinality(S)
  BY Zenon DEF Cardinality, CommandRuns!Cardinality

\* Every path of a tree has one place in the order of writing.
LEMMA PathsHavePlaces ==
    /\ CommandRuns!Path = {TreePaths[i] : i \in Places}
    /\ \A i, j \in Places : TreePaths[i] = TreePaths[j] => i = j
    /\ Len(TreePaths) \in Nat /\ Len(TreePaths) >= 1 /\ 1 \in Places
  BY PathsOfATree DEF CommandRuns!Path, Places

LEMMA RunsBegin == CommandRuns!Init => RunsInv
<1> SUFFICES ASSUME CommandRuns!Init PROVE RunsInv
  OBVIOUS
<1> USE DEF CommandRuns!Init
<1>1. RunTypes
  BY PathsHavePlaces DEF RunTypes, CommandRuns!Working
<1>2. OneAtATime /\ NotBegun /\ SawWhatIs /\ WritesAlone /\ AnsweredRest
  BY DEF OneAtATime, NotBegun, SawWhatIs, WritesAlone, AnsweredRest, CommandRuns!Working, Writes
<1>3. OpenedByWriters
  BY FilesDiffer DEF OpenedByWriters, CommandRuns!Theirs
<1>4. CommandRuns!AnsweredTreeIsWhole
  BY DEF CommandRuns!AnsweredTreeIsWhole
<1>5. CommandRuns!OneSpecPerTree
  BY FilesDiffer DEF CommandRuns!OneSpecPerTree, CommandRuns!Writer, CommandRuns!Theirs
<1> QED
  BY <1>1, <1>2, <1>3, <1>4, <1>5 DEF RunsInv

\* While a run is under way, no other is: what another run has is its own.
LEMMA OthersRest ==
    ASSUME RunsInv, NEW r \in Commands, pc[r] \in CommandRuns!Working, NEW s \in Commands, s # r
    PROVE  pc[s] \notin CommandRuns!Working
  BY DEF RunsInv, OneAtATime

\* A step of a run that touches neither the directory nor a file.
LEMMA QuietSteps ==
    ASSUME RunsInv, NEW r \in Commands, NEW step, pc' = [pc EXCEPT ![r] = step],
           UNCHANGED <<specFile, root, files, at, answered>>,
           \/ CommandRuns!Generate(r) /\ step \in {"reads", "usage"}
           \/ CommandRuns!ReadSpec(r) /\ step = "looks"
           \/ CommandRuns!ReadTarget(r) /\ step = "judges"
           \/ CommandRuns!Die(r) /\ step = "dead"
           \/ CommandRuns!Judge(r) /\ step \in {"refused", "makes"}
    PROVE  RunsInv'
<1> USE DEF CommandRuns!Generate, CommandRuns!ReadSpec, CommandRuns!ReadTarget, CommandRuns!Die, CommandRuns!Judge
<1>1. RunTypes'
  BY DEF RunsInv, RunTypes, CommandRuns!Working, CommandRuns!TargetState
<1>2. OneAtATime'
  BY DEF RunsInv, RunTypes, OneAtATime, CommandRuns!Working, CommandRuns!UnderWay
<1>3. NotBegun'
  BY DEF RunsInv, RunTypes, NotBegun
<1>4. SawWhatIs'
  BY OthersRest DEF RunsInv, RunTypes, SawWhatIs, CommandRuns!Working, CommandRuns!TargetState
<1>5. WritesAlone'
  <2> SUFFICES ASSUME NEW s \in Commands, pc'[s] \in Writes
               PROVE  /\ spec'[s] \in SpecFiles
                      /\ root # "file" /\ (pc'[s] # "makes" => root = "dir")
                      /\ \A i \in Places : files[TreePaths[i]] = FileOf(s, i)'
    BY DEF WritesAlone
  <2>1. CASE s # r
    <3>1. pc'[s] = pc[s] /\ spec'[s] = spec[s] /\ at'[s] = at[s]
      BY <2>1 DEF RunsInv, RunTypes
    <3> QED
      BY <3>1 DEF RunsInv, WritesAlone, FileOf
  <2>2. CASE s = r
    <3>1. CommandRuns!Judge(r) /\ step = "makes"
      BY <2>2 DEF RunsInv, RunTypes, Writes
    <3>2. target[r] = CommandRuns!TargetState /\ target[r] # "occupied" /\ at[r] = 1
      BY <3>1 DEF RunsInv, RunTypes, SawWhatIs, NotBegun
    <3>3. \A p \in CommandRuns!Path : files[p] = CommandRuns!Absent
      BY <3>2 DEF CommandRuns!TargetState, RunsInv, RunTypes
    <3>4. \A i \in Places : TreePaths[i] \in CommandRuns!Path /\ ~(i < 1)
      BY PathsHavePlaces DEF Places
    <3> QED
      BY <2>2, <3>1, <3>2, <3>3, <3>4
      DEF FileOf, RunsInv, RunTypes, CommandRuns!TargetState, CommandRuns!Faulty
  <2> QED
    BY <2>1, <2>2
<1>6. OpenedByWriters'
  BY DEF RunsInv, RunTypes, OpenedByWriters
<1>7. AnsweredRest'
  BY DEF RunsInv, RunTypes, AnsweredRest, CommandRuns!Working
<1>8. CommandRuns!AnsweredTreeIsWhole'
  <2>1. \A s \in answered : s # r
    BY DEF RunsInv, AnsweredRest, CommandRuns!Working
  <2> QED
    BY <2>1 DEF RunsInv, RunTypes, CommandRuns!AnsweredTreeIsWhole
<1>9. CommandRuns!OneSpecPerTree'
  <2>1. \A p \in CommandRuns!Path : files[p] # CommandRuns!Absent => CommandRuns!Writer(p)' = CommandRuns!Writer(p)
    <3> SUFFICES ASSUME NEW p \in CommandRuns!Path, files[p].is = "opened", spec' # spec
                 PROVE  spec'[files[p].of] = spec[files[p].of]
      BY DEF CommandRuns!Writer
    <3>1. PICK s \in Commands : files[p] = CommandRuns!Opened(s)
      BY FilesDiffer DEF RunsInv, RunTypes, CommandRuns!Theirs, CommandRuns!Absent
    <3>2. pc[s] \in {"fills", "dead"} /\ pc[r] = "reads"
      BY <3>1 DEF RunsInv, OpenedByWriters
    <3> QED
      BY <3>1, <3>2, FilesDiffer DEF RunsInv, RunTypes
  <2> QED
    BY <2>1 DEF RunsInv, CommandRuns!OneSpecPerTree
<1> QED
  BY <1>1, <1>2, <1>3, <1>4, <1>5, <1>6, <1>7, <1>8, <1>9 DEF RunsInv

\* A step of a run that writes: what the others have is theirs, and no answer
\* stands, for a whole tree has no place left that is absent or opened.
LEMMA NoAnswerStands ==
    ASSUME RunsInv, NEW r \in Commands, pc[r] \in Writes
    PROVE  answered = {} /\ at[r] \in Places /\ TreePaths[at[r]] \in CommandRuns!Path
<1>1. at[r] \in Places /\ TreePaths[at[r]] \in CommandRuns!Path
  BY PathsHavePlaces DEF RunsInv, RunTypes
<1>2. files[TreePaths[at[r]]] \in {CommandRuns!Absent, CommandRuns!Opened(r)}
  <2>1. ~(at[r] < at[r])
    BY <1>1 DEF Places
  <2> QED
    BY <1>1, <2>1 DEF RunsInv, WritesAlone, FileOf
<1>3. \A s \in answered : FALSE
  BY <1>1, <1>2, FilesDiffer DEF RunsInv, CommandRuns!AnsweredTreeIsWhole
<1> QED
  BY <1>1, <1>3

LEMMA MakingTheParent ==
    ASSUME RunsInv, NEW r \in Commands, CommandRuns!MakeParent(r)
    PROVE  RunsInv'
<1> USE DEF CommandRuns!MakeParent
<1>0. pc[r] \in Writes /\ pc[r] \in CommandRuns!Working /\ root # "file" /\ pc' = [pc EXCEPT ![r] = "opens"] /\ root' = "dir"
  BY DEF Writes, CommandRuns!Working, RunsInv, RunTypes, WritesAlone
<1>1. RunTypes'
  BY <1>0 DEF RunsInv, RunTypes, CommandRuns!Working
<1>2. OneAtATime' /\ NotBegun' /\ AnsweredRest'
  BY <1>0, NoAnswerStands DEF RunsInv, RunTypes, OneAtATime, NotBegun, AnsweredRest
<1>3. SawWhatIs'
  BY <1>0, OthersRest DEF RunsInv, RunTypes, SawWhatIs, CommandRuns!Working
<1>4. WritesAlone'
  BY <1>0, OthersRest DEF RunsInv, RunTypes, WritesAlone, FileOf, Writes, CommandRuns!Working
<1>5. OpenedByWriters'
  BY <1>0 DEF RunsInv, RunTypes, OpenedByWriters
<1>6. CommandRuns!AnsweredTreeIsWhole'
  BY <1>0, NoAnswerStands DEF CommandRuns!AnsweredTreeIsWhole
<1>7. CommandRuns!OneSpecPerTree'
  BY DEF RunsInv, CommandRuns!OneSpecPerTree, CommandRuns!Writer
<1> QED
  BY <1>1, <1>2, <1>3, <1>4, <1>5, <1>6, <1>7 DEF RunsInv

\* A file is opened where nothing is, and is the run's.
LEMMA OpeningAFile ==
    ASSUME RunsInv, NEW r \in Commands, CommandRuns!OpenFile(r)
    PROVE  RunsInv'
<1> USE DEF CommandRuns!OpenFile
<1>0. pc[r] \in Writes /\ pc[r] \in CommandRuns!Working /\ root = "dir"
  BY DEF Writes, CommandRuns!Working, RunsInv, WritesAlone
<1>1. at[r] \in Places /\ TreePaths[at[r]] \in CommandRuns!Path /\ answered = {}
  BY <1>0, NoAnswerStands
<1>2. RunTypes'
  BY <1>0, <1>1 DEF RunsInv, RunTypes, CommandRuns!Working
<1>3. OneAtATime' /\ NotBegun' /\ AnsweredRest'
  BY <1>0, <1>1 DEF RunsInv, RunTypes, OneAtATime, NotBegun, AnsweredRest
<1>4. SawWhatIs'
  BY <1>0, OthersRest DEF RunsInv, RunTypes, SawWhatIs, CommandRuns!Working
<1>5. WritesAlone'
  <2> SUFFICES ASSUME NEW s \in Commands, pc'[s] \in Writes, NEW i \in Places
               PROVE  /\ spec'[s] \in SpecFiles
                      /\ root' # "file" /\ (pc'[s] # "makes" => root' = "dir")
                      /\ files'[TreePaths[i]] = FileOf(s, i)'
    BY PathsHavePlaces DEF WritesAlone
  <2>1. s = r /\ pc'[r] = "fills"
    BY <1>0, OthersRest DEF RunsInv, RunTypes, Writes, CommandRuns!Working
  <2>2. TreePaths[i] \in CommandRuns!Path /\ (TreePaths[i] = TreePaths[at[r]] <=> i = at[r])
    BY <1>1, PathsHavePlaces
  <2>3. files'[TreePaths[i]] = IF i = at[r] THEN CommandRuns!Opened(r) ELSE files[TreePaths[i]]
    BY <1>1, <2>2 DEF RunsInv, RunTypes
  <2>4. ~(at[r] < at[r])
    BY <1>1 DEF Places
  <2> QED
    BY <1>0, <2>1, <2>3, <2>4 DEF RunsInv, WritesAlone, FileOf
<1>6. OpenedByWriters'
  BY <1>1, FilesDiffer DEF RunsInv, RunTypes, OpenedByWriters
<1>7. CommandRuns!AnsweredTreeIsWhole'
  BY <1>1 DEF CommandRuns!AnsweredTreeIsWhole
<1>8. CommandRuns!OneSpecPerTree'
  <2> SUFFICES ASSUME NEW p \in CommandRuns!Path, files'[p] # CommandRuns!Absent
               PROVE  CommandRuns!Writer(p)' = spec[r]
    BY DEF CommandRuns!OneSpecPerTree
  <2>1. PICK i \in Places : p = TreePaths[i]
    BY PathsHavePlaces
  <2>2. WritesAlone'
    BY <1>5
  <2>3. pc'[r] = "fills" /\ files'[p] = FileOf(r, i)'
    BY <2>1, <2>2 DEF WritesAlone, Writes, RunsInv, RunTypes
  <2>4. files'[p] \in {CommandRuns!Text(spec[r]), CommandRuns!Opened(r)}
    BY <2>3 DEF FileOf
  <2> QED
    BY <2>4, FilesDiffer DEF CommandRuns!Writer
<1> QED
  BY <1>2, <1>3, <1>4, <1>5, <1>6, <1>7, <1>8 DEF RunsInv

\* The file is filled; the last one answers.
LEMMA FillingAFile ==
    ASSUME RunsInv, NEW r \in Commands, CommandRuns!FillFile(r)
    PROVE  RunsInv'
<1> USE DEF CommandRuns!FillFile
<1>0. pc[r] \in Writes /\ pc[r] \in CommandRuns!Working /\ root = "dir" /\ spec[r] \in SpecFiles
  BY DEF Writes, CommandRuns!Working, RunsInv, WritesAlone
<1>1. at[r] \in Places /\ TreePaths[at[r]] \in CommandRuns!Path /\ answered = {}
  BY <1>0, NoAnswerStands
<1>a. at[r] # Len(TreePaths) => at[r] + 1 \in Places
  BY <1>1, PathsHavePlaces DEF Places
<1>2. RunTypes'
  BY <1>0, <1>1, <1>a DEF RunsInv, RunTypes, CommandRuns!Working
<1>3. OneAtATime'
  BY <1>0 DEF RunsInv, RunTypes, OneAtATime
<1>4. NotBegun'
  BY <1>0, OthersRest DEF RunsInv, RunTypes, NotBegun
<1>b. AnsweredRest'
  BY <1>1 DEF RunsInv, RunTypes, AnsweredRest
<1>5. SawWhatIs'
  BY <1>0, OthersRest DEF RunsInv, RunTypes, SawWhatIs, CommandRuns!Working
<1>6. \A i \in Places : files'[TreePaths[i]] = IF i <= at[r] THEN CommandRuns!Text(spec[r]) ELSE CommandRuns!Absent
  <2> TAKE i \in Places
  <2>1. TreePaths[i] \in CommandRuns!Path /\ (TreePaths[i] = TreePaths[at[r]] <=> i = at[r])
    BY <1>1, PathsHavePlaces
  <2>2. files'[TreePaths[i]] = IF i = at[r] THEN CommandRuns!Text(spec[r]) ELSE files[TreePaths[i]]
    BY <1>1, <2>1 DEF RunsInv, RunTypes
  <2>3. i <= at[r] <=> i < at[r] \/ i = at[r]
    BY <1>1 DEF Places
  <2> QED
    BY <1>0, <2>2, <2>3 DEF RunsInv, WritesAlone, FileOf
<1>7. WritesAlone'
  <2> SUFFICES ASSUME NEW s \in Commands, pc'[s] \in Writes, NEW i \in Places
               PROVE  /\ spec'[s] \in SpecFiles
                      /\ root' # "file" /\ (pc'[s] # "makes" => root' = "dir")
                      /\ files'[TreePaths[i]] = FileOf(s, i)'
    BY PathsHavePlaces DEF WritesAlone
  <2>1. s = r /\ pc'[r] = "makes" /\ at'[r] = at[r] + 1
    BY <1>0, OthersRest DEF RunsInv, RunTypes, Writes, CommandRuns!Working
  <2>2. i < at[r] + 1 <=> i <= at[r]
    BY <1>1 DEF Places
  <2> QED
    BY <1>0, <1>6, <2>1, <2>2 DEF FileOf
<1>8. OpenedByWriters'
  <2> SUFFICES ASSUME NEW p \in CommandRuns!Path, NEW s \in Commands, files'[p] = CommandRuns!Opened(s)
               PROVE  FALSE
    BY DEF OpenedByWriters
  <2>1. PICK i \in Places : p = TreePaths[i]
    BY PathsHavePlaces
  <2> QED
    BY <1>6, <2>1, FilesDiffer
<1>9. CommandRuns!AnsweredTreeIsWhole'
  <2> SUFFICES ASSUME NEW s \in answered', NEW p \in CommandRuns!Path
               PROVE  files'[p] = CommandRuns!Text(spec'[s])
    BY DEF CommandRuns!AnsweredTreeIsWhole
  <2>1. s = r /\ at[r] = Len(TreePaths)
    BY <1>1
  <2>2. PICK i \in Places : p = TreePaths[i]
    BY PathsHavePlaces
  <2>3. i <= Len(TreePaths)
    BY <2>2 DEF Places
  <2> QED
    BY <1>6, <2>1, <2>2, <2>3
<1>10. CommandRuns!OneSpecPerTree'
  <2> SUFFICES ASSUME NEW p \in CommandRuns!Path, files'[p] # CommandRuns!Absent
               PROVE  CommandRuns!Writer(p)' = spec[r]
    BY DEF CommandRuns!OneSpecPerTree
  <2>1. PICK i \in Places : p = TreePaths[i]
    BY PathsHavePlaces
  <2>2. files'[p] = CommandRuns!Text(spec[r])
    BY <1>6, <2>1
  <2> QED
    BY <2>2, FilesDiffer DEF CommandRuns!Writer
<1> QED
  BY <1>2, <1>3, <1>4, <1>b, <1>5, <1>7, <1>8, <1>9, <1>10 DEF RunsInv

LEMMA PeopleStep ==
    ASSUME RunsInv, CommandRuns!EditSpec \/ CommandRuns!RemoveTree
    PROVE  RunsInv'
<1>1. CASE CommandRuns!EditSpec
  BY <1>1 DEF CommandRuns!EditSpec, RunsInv, RunTypes, OneAtATime, NotBegun, SawWhatIs, WritesAlone, FileOf,
              OpenedByWriters, AnsweredRest, CommandRuns!AnsweredTreeIsWhole, CommandRuns!OneSpecPerTree,
              CommandRuns!Writer, CommandRuns!TargetState
<1>2. CASE CommandRuns!RemoveTree
  <2> USE <1>2 DEF CommandRuns!RemoveTree
  <2>1. \A r \in Commands : pc[r] \notin CommandRuns!Working
    BY DEF CommandRuns!UnderWay
  <2>2. RunTypes' /\ OneAtATime' /\ NotBegun' /\ AnsweredRest'
    BY DEF RunsInv, RunTypes, OneAtATime, NotBegun, AnsweredRest
  <2>3. SawWhatIs' /\ WritesAlone'
    BY <2>1 DEF SawWhatIs, WritesAlone, Writes, CommandRuns!Working
  <2>4. OpenedByWriters' /\ CommandRuns!AnsweredTreeIsWhole' /\ CommandRuns!OneSpecPerTree'
    BY FilesDiffer DEF OpenedByWriters, CommandRuns!AnsweredTreeIsWhole, CommandRuns!OneSpecPerTree
  <2> QED
    BY <2>2, <2>3, <2>4 DEF RunsInv
<1> QED
  BY <1>1, <1>2

LEMMA RunsGoOn == RunsInv /\ CommandRuns!Next => RunsInv'
<1> SUFFICES ASSUME RunsInv, CommandRuns!Next PROVE RunsInv'
  OBVIOUS
<1>1. CASE \E r \in Commands : CommandRuns!RunStep(r)
  <2>1. PICK r \in Commands : CommandRuns!RunStep(r)
    BY <1>1
  <2>2. CASE CommandRuns!Generate(r)
    <3>1. PICK step \in {"reads", "usage"} : pc' = [pc EXCEPT ![r] = step]
      BY <2>2 DEF CommandRuns!Generate
    <3> QED
      BY <2>2, <3>1, QuietSteps DEF CommandRuns!Generate
  <2>3. CASE CommandRuns!ReadSpec(r)
    BY <2>3, QuietSteps DEF CommandRuns!ReadSpec
  <2>4. CASE CommandRuns!ReadTarget(r)
    BY <2>4, QuietSteps DEF CommandRuns!ReadTarget
  <2>5. CASE CommandRuns!Judge(r)
    <3>1. PICK step \in {"refused", "makes"} : pc' = [pc EXCEPT ![r] = step]
      BY <2>5 DEF CommandRuns!Judge
    <3> QED
      BY <2>5, <3>1, QuietSteps DEF CommandRuns!Judge
  <2>6. CASE CommandRuns!Die(r)
    BY <2>6, QuietSteps DEF CommandRuns!Die
  <2> QED
    BY <2>1, <2>2, <2>3, <2>4, <2>5, <2>6, MakingTheParent, OpeningAFile, FillingAFile DEF CommandRuns!RunStep
<1> QED
  BY <1>1, PeopleStep DEF CommandRuns!Next

\* A file that is there changes only as the run that opened it fills it.
LEMMA NothingIsTouched ==
    ASSUME RunsInv, CommandRuns!Next, NEW p \in CommandRuns!Path, files[p] \notin {CommandRuns!Absent, files'[p]}
    PROVE  \/ CommandRuns!RemoveTree
           \/ \E r \in Commands : files[p] = CommandRuns!Opened(r) /\ files'[p] = CommandRuns!Text(spec[r])
<1>1. CASE CommandRuns!EditSpec
  BY <1>1 DEF CommandRuns!EditSpec
<1>2. ASSUME NEW r \in Commands, CommandRuns!RunStep(r)
      PROVE  files[p] = CommandRuns!Opened(r) /\ files'[p] = CommandRuns!Text(spec[r])
  <2>1. CommandRuns!OpenFile(r) \/ CommandRuns!FillFile(r)
    BY <1>2 DEF CommandRuns!RunStep, CommandRuns!Generate, CommandRuns!ReadSpec, CommandRuns!ReadTarget,
                CommandRuns!Judge, CommandRuns!MakeParent, CommandRuns!Die
  <2>2. pc[r] \in {"opens", "fills"} /\ p = TreePaths[at[r]] /\ at[r] \in Places
    BY <2>1 DEF CommandRuns!OpenFile, CommandRuns!FillFile, RunsInv, RunTypes
  <2>3. files[p] = FileOf(r, at[r]) /\ ~(at[r] < at[r])
    BY <2>2 DEF RunsInv, WritesAlone, Writes, Places
  <2>4. pc[r] = "fills" /\ files[p] = CommandRuns!Opened(r)
    BY <2>2, <2>3 DEF FileOf
  <2> QED
    BY <2>1, <2>2, <2>4 DEF CommandRuns!OpenFile, CommandRuns!FillFile, RunsInv, RunTypes
<1> QED
  BY <1>1, <1>2 DEF CommandRuns!Next

\* Of runs that are killed anywhere, edited under and started again, an answer
\* names a whole tree, a tree is of one spec, and no run touches a file that
\* was there before it (tree_service.py, filesystem_tree_writer.py).
THEOREM TreesAreWhole == PartSpec => RunsLeaveWholeTrees
<1> DEFINE Inv == part = "runs" => RunsInv
<1>1. PartInit => Inv
  BY RunsBegin DEF PartInit
<1>2. Inv /\ [PartNext]_<<part, treeVars, runVars, renderVars>> => Inv'
  <2> SUFFICES ASSUME Inv, [PartNext]_<<part, treeVars, runVars, renderVars>>, part' = "runs" PROVE RunsInv'
    OBVIOUS
  <2>1. CASE CommandRuns!Next /\ part = "runs"
    BY <2>1, RunsGoOn
  <2>2. CASE UNCHANGED <<part, runVars>>
    BY <2>2 DEF runVars, RunsInv, RunTypes, OneAtATime, NotBegun, SawWhatIs, WritesAlone, FileOf,
                OpenedByWriters, AnsweredRest, CommandRuns!AnsweredTreeIsWhole, CommandRuns!OneSpecPerTree,
                CommandRuns!Writer, CommandRuns!TargetState
  <2> QED
    BY <2>1, <2>2 DEF PartNext
<1>3. Inv => (part = "runs" => /\ CommandRuns!TypeOK
                               /\ CommandRuns!AnsweredTreeIsWhole
                               /\ CommandRuns!OneSpecPerTree)
  <2> SUFFICES ASSUME RunsInv PROVE CommandRuns!TypeOK
    BY DEF RunsInv
  <2>1. answered \subseteq Commands
    BY DEF RunsInv, RunTypes
  <2>2. CommandRuns!Cardinality(answered) \in {0, 1}
    <3>1. CommandRuns!Cardinality(answered) = Cardinality(answered)
      BY RunsCount
    <3>2. CASE answered = {}
      BY <3>1, <3>2, FS_EmptySet
    <3>3. CASE answered # {}
      <4>1. PICK r \in Commands : answered = {r}
        BY <3>3 DEF RunsInv, RunTypes
      <4>2. Cardinality({r}) = 1
        BY FS_Singleton
      <4> QED
        BY <3>1, <4>1, <4>2
    <3> QED
      BY <3>2, <3>3
  <2>3. \A n \in {0, 1} : n <= 1
    OBVIOUS
  <2>4. CommandRuns!Cardinality(answered) <= 1
    BY <2>2, <2>3
  <2> QED
    BY <2>1, <2>4 DEF CommandRuns!TypeOK, RunsInv, RunTypes, Places
<1>4. Inv /\ [PartNext]_<<part, treeVars, runVars, renderVars>> =>
        [\A p \in CommandRuns!Path :
            files[p] \notin {CommandRuns!Absent, files'[p]} =>
                \/ CommandRuns!RemoveTree
                \/ \E r \in Commands : files[p] = CommandRuns!Opened(r) /\ files'[p] = CommandRuns!Text(spec[r])
        ]_(CommandRuns!vars)
  <2> SUFFICES ASSUME Inv, [PartNext]_<<part, treeVars, runVars, renderVars>>, ~ UNCHANGED CommandRuns!vars
               PROVE  RunsInv /\ CommandRuns!Next
    BY NothingIsTouched
  <2> QED
    BY DEF PartNext, runVars, CommandRuns!vars
<1> QED
  BY <1>1, <1>2, <1>3, <1>4, PTL DEF PartSpec, RunsLeaveWholeTrees, CommandRuns!NothingIsOverwritten

-----------------------------------------------------------------------------
(* What a spec without problems has.                                       *)

\* A field of a spec without problems is named and typed, and met by nothing.
LEMMA FieldsFit ==
    ASSUME NEW s, FieldProblems(s) = {}
    PROVE  /\ s.fields # <<>>
           /\ \A i \in DOMAIN s.fields :
                /\ s.fields[i].name \in Names
                /\ s.fields[i].name # s.text["identity"]
                /\ s.fields[i].name \notin Reserved
                /\ s.fields[i].kind \in Types
                /\ Capitalized(s.fields[i].name) \notin Taken(s)
<1>1. s.fields # <<>>
  BY DEF FieldProblems
<1>2. ASSUME NEW i \in DOMAIN s.fields, NEW p \in {"shape", "identity", "reserved", "type", "class"},
             \/ p = "shape" /\ s.fields[i].name \notin Names
             \/ p = "identity" /\ s.fields[i].name = s.text["identity"]
             \/ p = "reserved" /\ s.fields[i].name \in Reserved
             \/ p = "type" /\ s.fields[i].kind \notin Types
             \/ p = "class" /\ Capitalized(s.fields[i].name) \in Taken(s)
      PROVE  FALSE
  <2> DEFINE Of(j) ==
        LET field == s.fields[j] IN
        {<<problem, field.name>> : problem \in
            {q \in {"shape", "identity", "reserved", "type", "class"} :
                \/ q = "shape" /\ field.name \notin Names
                \/ q = "identity" /\ field.name = s.text["identity"]
                \/ q = "reserved" /\ field.name \in Reserved
                \/ q = "type" /\ field.kind \notin Types
                \/ q = "class" /\ Capitalized(field.name) \in Taken(s)}}
  <2>1. <<p, s.fields[i].name>> \in Of(i)
    BY <1>2
  <2>2. FieldProblems(s) = (IF s.fields = <<>> THEN {<<"no fields">>} ELSE {}) \cup UNION {Of(j) : j \in DOMAIN s.fields}
    BY DEF FieldProblems
  <2> HIDE DEF Of
  <2> QED
    BY <2>1, <2>2
<1>3. ASSUME NEW i \in DOMAIN s.fields
      PROVE  /\ s.fields[i].name \in Names
             /\ s.fields[i].name # s.text["identity"]
             /\ s.fields[i].name \notin Reserved
             /\ s.fields[i].kind \in Types
             /\ Capitalized(s.fields[i].name) \notin Taken(s)
  BY <1>2
<1> QED
  BY <1>1, <1>3

\* The kinds of a spec whose fields fit: one for every field and a str for the
\* identity.
LEMMA KindsFit ==
    ASSUME NEW s, FieldProblems(s) = {}
    PROVE  /\ DOMAIN FieldKinds(s) = FieldNames(s) \cup {s.text["identity"]}
           /\ s.text["identity"] \notin FieldNames(s)
           /\ FieldKinds(s)[s.text["identity"]] = "str"
           /\ \A name \in DOMAIN FieldKinds(s) : FieldKinds(s)[name] \in Types
<1>1. s.text["identity"] \notin FieldNames(s)
  BY FieldsFit DEF FieldNames
<1>2. DOMAIN FieldKinds(s) = FieldNames(s) \cup {s.text["identity"]}
  BY DEF FieldKinds
<1>3. FieldKinds(s)[s.text["identity"]] = "str"
  BY <1>1 DEF FieldKinds
<1>4. ASSUME NEW name \in FieldNames(s) PROVE FieldKinds(s)[name] \in Types
  <2> DEFINE i == CHOOSE i \in DOMAIN s.fields : s.fields[i].name = name
  <2>1. i \in DOMAIN s.fields
    BY DEF FieldNames
  <2>2. FieldKinds(s)[name] = s.fields[i].kind
    BY DEF FieldKinds
  <2> QED
    BY <2>1, <2>2, FieldsFit
<1> QED
  BY <1>1, <1>2, <1>3, <1>4 DEF Types

\* The samples of a spec are those of its fields.
LEMMA SamplesFit ==
    ASSUME NEW s, SampleProblems(s) = {}
    PROVE  /\ DOMAIN s.samples = DOMAIN FieldKinds(s)
           /\ \A name \in DOMAIN FieldKinds(s) : ValuesProblems(s, name) = {}
<1>1. ASSUME NEW name \in DOMAIN s.samples, name \notin DOMAIN FieldKinds(s) PROVE FALSE
  <2>1. <<"neither", name>> \in SampleProblems(s)
    BY <1>1 DEF SampleProblems
  <2> QED
    BY <2>1
<1>2. ASSUME NEW name \in DOMAIN FieldKinds(s), name \notin DOMAIN s.samples PROVE FALSE
  <2>1. <<"no samples", name>> \in SampleProblems(s)
    BY <1>2 DEF SampleProblems
  <2> QED
    BY <2>1
<1>3. ASSUME NEW name \in DOMAIN FieldKinds(s), NEW problem \in ValuesProblems(s, name) PROVE FALSE
  <2>1. name \in DOMAIN FieldKinds(s) \cap DOMAIN s.samples
    BY <1>2
  <2> DEFINE Of(n) == {<<p, n>> : p \in ValuesProblems(s, n)}
  <2>2. <<problem, name>> \in Of(name)
    OBVIOUS
  <2>3. UNION {Of(n) : n \in DOMAIN FieldKinds(s) \cap DOMAIN s.samples} \subseteq SampleProblems(s)
    BY Zenon DEF SampleProblems
  <2> HIDE DEF Of
  <2> QED
    BY <2>1, <2>2, <2>3
<1> QED
  BY <1>1, <1>2, <1>3

LEMMA ListsAreSequences ==
    SampleLists \cup RandomLists \subseteq Seq({Ada, Grace, Spaced, Quoted, One, Two, TextOne, Neither})
  BY DEF SampleLists, RandomLists

\* No whole number an author writes is a text that ends a literal.
LEMMA NumbersAreClean ==
    /\ \A list \in SampleLists : \A i \in DOMAIN list : list[i].kind = "int" => list[i].text # "quote"
    /\ \A list \in RandomLists : \A i \in DOMAIN list : list[i].kind = "int" => list[i].text # "quote"
<1> DEFINE Values == {Ada, Grace, Spaced, Quoted, One, Two, TextOne, Neither}
<1>0. \A k, t : Value(k, t).kind = k /\ Value(k, t).text = t
  BY DEF Value
<1>1. \A value \in Values : value.kind = "int" => value.text # "quote"
  <2>1. \A value \in {Ada, Grace, Spaced, Quoted, TextOne, Neither} : value.kind \in {"str", "other"}
    BY <1>0, Zenon DEF Ada, Grace, Spaced, Quoted, TextOne, Neither
  <2>2. One.text = "1" /\ Two.text = "2"
    BY <1>0 DEF One, Two
  <2> QED
    BY <2>1, <2>2
<1> HIDE DEF Values
<1>2. SampleLists \cup RandomLists \subseteq Seq(Values)
  BY ListsAreSequences DEF Values
<1> QED
  BY <1>1, <1>2

\* The values of a name without problems: two of its kind, that differ and end
\* no literal, and that a URL takes when they are the identity's.
LEMMA ValuesFit ==
    ASSUME NEW s, NEW name, s.samples[name] \in SampleLists, FieldKinds(s)[name] \in Types,
           ValuesProblems(s, name) = {}
    PROVE  /\ Len(s.samples[name]) = 2
           /\ \A i \in {1, 2} :
                /\ s.samples[name][i].kind = FieldKinds(s)[name]
                /\ s.samples[name][i].text # "quote"
                /\ name = s.text["identity"] => s.samples[name][i].text \notin {"a b", ""}
           /\ s.samples[name][1].text # s.samples[name][2].text
<1> DEFINE values == s.samples[name]
           texts == {values[i].text : i \in DOMAIN values}
<1>1. Len(values) = 2
  BY DEF ValuesProblems, SampleCount
<1>2. DOMAIN values = {1, 2}
  <2>1. values \in Seq({Ada, Grace, Spaced, Quoted, One, Two, TextOne, Neither})
    BY ListsAreSequences
  <2> QED
    BY <1>1, <2>1
<1>3. \A i \in {1, 2} : values[i].kind = FieldKinds(s)[name]
  BY <1>2 DEF ValuesProblems
<1>4. \A i \in {1, 2} : IF values[i].kind = "str" /\ ~SampleText(values[i]) THEN FALSE
                        ELSE name = s.text["identity"] => IdentityText(values[i])
  BY <1>2 DEF ValuesProblems
<1>5. \A i \in {1, 2} : values[i].text # "quote"
  BY <1>2, <1>3, <1>4, NumbersAreClean DEF Types, SampleText
<1>6. \A i \in {1, 2} : name = s.text["identity"] => values[i].text \notin {"a b", ""}
  BY <1>3, <1>4 DEF IdentityText
<1>7. values[1].text # values[2].text
  <2> SUFFICES ASSUME values[1].text = values[2].text PROVE FALSE
    OBVIOUS
  <2>1. texts = {values[1].text}
    BY <1>2
  <2>2. Cardinality(texts) = 1
    BY <2>1, FS_Singleton
  <2>3. Cardinality(texts) = Len(values)
    BY Zenon DEF ValuesProblems
  <2> QED
    BY <1>1, <2>2, <2>3
<1> QED
  BY <1>1, <1>3, <1>5, <1>6, <1>7

\* The answers of a spec: at least one, each of a field, none twice.
LEMMA AnswersFit ==
    ASSUME NEW s, AnswerProblems(s) = {}
    PROVE  s.answers # <<>> /\ ToSet(s.answers) \subseteq DOMAIN FieldKinds(s) /\ Distinct(s.answers)
<1>1. s.answers # <<>>
  BY DEF AnswerProblems
<1>2. ASSUME NEW name \in ToSet(s.answers), name \notin DOMAIN FieldKinds(s) PROVE FALSE
  <2>1. <<"unanswerable", name>> \in AnswerProblems(s)
    BY <1>2 DEF AnswerProblems
  <2> QED
    BY <2>1
<1>3. ASSUME NEW i \in DOMAIN s.answers, NEW j \in DOMAIN s.answers, s.answers[i] = s.answers[j], i # j PROVE FALSE
  <2>1. <<"answered twice", s.answers[i]>> \in AnswerProblems(s)
    BY <1>3 DEF AnswerProblems
  <2> QED
    BY <2>1
<1> QED
  BY <1>1, <1>2, <1>3 DEF Distinct

\* The acceptance test of a spec asserts on an answer that is not the identity,
\* with values to draw that are of its kind.
LEMMA AssertionFits ==
    ASSUME NEW s, AssertionProblems(s) = {}, s.text["asserted"] # "", s.text["asserted"] \in DOMAIN FieldKinds(s),
           FieldKinds(s)[s.text["asserted"]] \in Types, s.random \in RandomLists
    PROVE  /\ s.text["asserted"] # s.text["identity"] /\ s.text["asserted"] \in ToSet(s.answers)
           /\ s.random # <<>>
           /\ \A i \in DOMAIN s.random :
                s.random[i].kind = FieldKinds(s)[s.text["asserted"]] /\ s.random[i].text # "quote"
<1>1. ASSUME NEW q \in {"asserted", "no random", "random kind", "random text"},
             \/ q = "asserted" /\ (s.text["asserted"] = s.text["identity"] \/ s.text["asserted"] \notin ToSet(s.answers))
             \/ q = "no random" /\ s.random = <<>>
             \/ q = "random kind" /\ \E i \in DOMAIN s.random : s.random[i].kind # FieldKinds(s)[s.text["asserted"]]
             \/ q = "random text" /\ \E i \in DOMAIN s.random : s.random[i].kind = "str" /\ ~SampleText(s.random[i])
      PROVE  FALSE
  <2>1. <<q>> \in AssertionProblems(s)
    BY <1>1 DEF AssertionProblems
  <2> QED
    BY <2>1
<1>2. s.text["asserted"] # s.text["identity"] /\ s.text["asserted"] \in ToSet(s.answers) /\ s.random # <<>>
  BY <1>1
<1>3. ASSUME NEW i \in DOMAIN s.random
      PROVE  s.random[i].kind = FieldKinds(s)[s.text["asserted"]]
  BY <1>1
<1>4. ASSUME NEW i \in DOMAIN s.random
      PROVE  s.random[i].text # "quote"
  <2>1. s.random[i].kind = "str" => SampleText(s.random[i])
    BY <1>1
  <2> QED
    BY <2>1, <1>3, NumbersAreClean DEF SampleText, Types
<1> QED
  BY <1>2, <1>3, <1>4

\* No two operations of a spec have one name.
LEMMA OperationsFit ==
    ASSUME NEW s, OperationProblems(s) = {}, NEW k \in OperationKeys, NEW o \in OperationKeys, k # o, s.text[k] # ""
    PROVE  s.text[k] # s.text[o]
<1> SUFFICES ASSUME s.text[k] = s.text[o] PROVE FALSE
  OBVIOUS
<1>1. <<"named twice", s.text[k]>> \in OperationProblems(s)
  BY DEF OperationProblems
<1> QED
  BY <1>1

\* Every scalar of a spec has the shape its place asks for.
LEMMA ScalarsFit ==
    ASSUME NEW s, ShapeProblems(s) = {}
    PROVE  /\ \A key \in Scalars \ {"engine", "database"} : s.text[key] \in Shape(key)
           /\ s.text["engine"] = "restate" /\ s.text["database"] = "postgres"
           /\ s.text["context"] \notin Reserved
<1>1. ASSUME NEW key \in Scalars \ {"engine", "database"}, s.text[key] \notin Shape(key) PROVE FALSE
  <2>1. <<"shape", key>> \in ShapeProblems(s)
    BY <1>1 DEF ShapeProblems
  <2> QED
    BY <2>1
<1>2. ASSUME NEW key \in {"engine", "database"},
             \/ key = "engine" /\ s.text[key] # "restate"
             \/ key = "database" /\ s.text[key] # "postgres"
      PROVE  FALSE
  <2>1. <<"no templates", key>> \in ShapeProblems(s)
    BY <1>2 DEF ShapeProblems
  <2> QED
    BY <2>1
<1>3. ASSUME s.text["context"] \in Reserved PROVE FALSE
  <2>1. <<"reserved", "context">> \in ShapeProblems(s)
    BY <1>3 DEF ShapeProblems
  <2> QED
    BY <2>1
<1>4. s.text["engine"] = "restate" /\ s.text["database"] = "postgres"
  BY <1>2
<1> QED
  BY <1>1, <1>3, <1>4

-----------------------------------------------------------------------------
(* The document, read and rendered.                                        *)

\* What is read of a document without problems is what stands in it.
LEMMA ReadAsStated ==
    ASSUME IsDocument(doc), Problems(ReadGeneration) = {}
    PROVE  /\ doc.extra = {} /\ doc.plain = {}
           /\ ReadGeneration.fields = doc.fields
           /\ ReadGeneration.samples = doc.samples
           /\ ReadGeneration.random = doc.random
           /\ \A key \in Scalars :
                ReadGeneration.text[key] = IF doc.keys[key] = NotText THEN "" ELSE doc.keys[key]
<1>1. ReadGeneration.state = "read"
  BY DEF Problems
<1>2. \A key \in ReadGeneration.unknown : <<"unknown", key>> \in Problems(ReadGeneration)
  BY <1>1 DEF Problems
<1>3. doc.extra \cup doc.plain = {}
  BY <1>2 DEF ReadGeneration, UnknownKeys
<1> QED
  BY <1>3 DEF ReadGeneration, TextOf, Stated

LEMMA ProblemsAreOfAKind ==
    ASSUME NEW s, Problems(s) = {}
    PROVE  /\ ShapeProblems(s) = {} /\ FieldProblems(s) = {} /\ SampleProblems(s) = {}
           /\ AnswerProblems(s) = {} /\ AssertionProblems(s) = {} /\ OperationProblems(s) = {}
  BY DEF Problems

\* What a spec that is sound has: what the lemmas above say of one without
\* problems that an author's document is read as.
Sound(s) ==
    /\ \A key \in Scalars \ {"engine", "database"} : s.text[key] \in Shape(key)
    /\ s.text["engine"] = "restate" /\ s.text["database"] = "postgres"
    /\ s.text["context"] \notin Reserved
    /\ s.fields # <<>>
    /\ s.fields \in Seq(Fields)
    /\ \A i, j \in DOMAIN s.fields : s.fields[i].name = s.fields[j].name => i = j
    /\ DOMAIN FieldKinds(s) = FieldNames(s) \cup {s.text["identity"]}
    /\ s.text["identity"] \notin FieldNames(s)
    /\ \A i \in DOMAIN s.fields : Capitalized(s.fields[i].name) \notin Taken(s)
    /\ \A name \in DOMAIN FieldKinds(s) :
         /\ FieldKinds(s)[name] \in Types
         /\ Len(s.samples[name]) = 2
         /\ \A i \in {1, 2} :
              /\ s.samples[name][i].kind = FieldKinds(s)[name]
              /\ s.samples[name][i].text # "quote"
              /\ name = s.text["identity"] => s.samples[name][i].text \notin {"a b", ""}
         /\ s.samples[name][1].text # s.samples[name][2].text
    /\ DOMAIN s.samples = DOMAIN FieldKinds(s)
    /\ s.answers # <<>> /\ ToSet(s.answers) \subseteq DOMAIN FieldKinds(s) /\ Distinct(s.answers)
    /\ s.text["asserted"] # s.text["identity"] /\ s.text["asserted"] \in ToSet(s.answers)
    /\ s.random \in RandomLists /\ s.random # <<>>
    /\ \A i \in DOMAIN s.random :
         s.random[i].kind = FieldKinds(s)[s.text["asserted"]] /\ s.random[i].text # "quote"
    /\ \A k, o \in OperationKeys : s.text[k] = s.text[o] => k = o

LEMMA NoProblemsAreSound ==
    ASSUME IsDocument(doc), Problems(ReadGeneration) = {}
    PROVE  Sound(ReadGeneration)
<1> DEFINE s == ReadGeneration
<1>1. /\ ShapeProblems(s) = {} /\ FieldProblems(s) = {} /\ SampleProblems(s) = {}
      /\ AnswerProblems(s) = {} /\ AssertionProblems(s) = {} /\ OperationProblems(s) = {}
  BY ProblemsAreOfAKind
<1>2. s.fields = doc.fields /\ s.samples = doc.samples /\ s.random = doc.random
  BY ReadAsStated
<1> HIDE DEF s
<1>3. s.fields \in Seq(Fields) /\ \A i, j \in DOMAIN s.fields : s.fields[i].name = s.fields[j].name => i = j
  BY <1>2 DEF IsDocument
<1>4. s.samples \in [DOMAIN s.samples -> SampleLists] /\ s.random \in RandomLists
  BY <1>2 DEF IsDocument
<1>5. /\ \A key \in Scalars \ {"engine", "database"} : s.text[key] \in Shape(key)
      /\ s.text["engine"] = "restate" /\ s.text["database"] = "postgres"
      /\ s.text["context"] \notin Reserved
  BY <1>1, ScalarsFit
<1>6. /\ s.fields # <<>>
      /\ DOMAIN FieldKinds(s) = FieldNames(s) \cup {s.text["identity"]}
      /\ s.text["identity"] \notin FieldNames(s)
      /\ \A i \in DOMAIN s.fields : Capitalized(s.fields[i].name) \notin Taken(s)
      /\ \A name \in DOMAIN FieldKinds(s) : FieldKinds(s)[name] \in Types
  BY <1>1, FieldsFit, KindsFit
<1>7. /\ DOMAIN s.samples = DOMAIN FieldKinds(s)
      /\ \A name \in DOMAIN FieldKinds(s) : ValuesProblems(s, name) = {} /\ s.samples[name] \in SampleLists
  BY <1>1, <1>4, SamplesFit
<1>8. \A name \in DOMAIN FieldKinds(s) :
         /\ Len(s.samples[name]) = 2
         /\ \A i \in {1, 2} :
              /\ s.samples[name][i].kind = FieldKinds(s)[name]
              /\ s.samples[name][i].text # "quote"
              /\ name = s.text["identity"] => s.samples[name][i].text \notin {"a b", ""}
         /\ s.samples[name][1].text # s.samples[name][2].text
  <2> TAKE name \in DOMAIN FieldKinds(s)
  <2>1. s.samples[name] \in SampleLists /\ FieldKinds(s)[name] \in Types /\ ValuesProblems(s, name) = {}
    BY <1>6, <1>7
  <2> QED
    BY <2>1, ValuesFit, Zenon
<1>9. s.answers # <<>> /\ ToSet(s.answers) \subseteq DOMAIN FieldKinds(s) /\ Distinct(s.answers)
  BY <1>1, AnswersFit
<1>10. s.text["asserted"] \in Names /\ \A key \in OperationKeys : s.text[key] \in Names
  BY <1>5, VerbsAreNames DEF Shape, Scalars, OperationKeys, PlainKeys
<1>11. s.text["asserted"] \in DOMAIN FieldKinds(s)
  <2>1. s.text["asserted"] \in ToSet(s.answers)
    <3>1. s.text["asserted"] # ""
      BY <1>10, NamesHaveLetters
    <3> SUFFICES ASSUME s.text["asserted"] \notin ToSet(s.answers) PROVE FALSE
      OBVIOUS
    <3>2. <<"asserted">> \in AssertionProblems(s)
      BY <3>1 DEF AssertionProblems
    <3> QED
      BY <3>2, <1>1
  <2> QED
    BY <2>1, <1>9
<1>12. /\ s.text["asserted"] # s.text["identity"] /\ s.text["asserted"] \in ToSet(s.answers)
       /\ s.random # <<>>
       /\ \A i \in DOMAIN s.random :
            s.random[i].kind = FieldKinds(s)[s.text["asserted"]] /\ s.random[i].text # "quote"
  BY <1>1, <1>4, <1>6, <1>10, <1>11, NamesHaveLetters, AssertionFits
<1>13. \A k, o \in OperationKeys : s.text[k] = s.text[o] => k = o
  BY <1>1, <1>10, NamesHaveLetters, OperationsFit
<1> QED
  BY <1>3, <1>4, <1>5, <1>6, <1>7, <1>8, <1>9, <1>12, <1>13 DEF Sound, s

\* A sound spec is rendered: every lookup of the templates finds something.
LEMMA SoundSpecsRender == ASSUME NEW s, Sound(s) PROVE Renders(s)
<1>1. \A name \in DOMAIN FieldKinds(s) : FieldKinds(s)[name] \in Types /\ Len(s.samples[name]) >= 2
  <2>1. \A n : n = 2 => n >= 2
    OBVIOUS
  <2>2. \A name \in DOMAIN FieldKinds(s) : FieldKinds(s)[name] \in Types /\ Len(s.samples[name]) = 2
    BY DEF Sound
  <2> QED
    BY <2>1, <2>2, Zenon
<1>2. s.text["identity"] \in DOMAIN s.samples
  BY DEF Sound
<1>3. DOMAIN s.samples = DOMAIN FieldKinds(s) /\ ToSet(s.answers) \subseteq DOMAIN FieldKinds(s)
  BY DEF Sound
<1> QED
  BY <1>1, <1>2, <1>3, Zenon DEF Renders

\* The literals of the tree it makes fit its tests.
LEMMA SoundLiteralsFit == ASSUME NEW s, Sound(s), tree = {Rendered(s)} PROVE LiteralsFitTheTests
<1> DEFINE t == Rendered(s)
<1>1. /\ DOMAIN t.fields = DOMAIN FieldKinds(s)
      /\ \A name \in DOMAIN FieldKinds(s) :
           /\ t.fields[name].kind = FieldKinds(s)[name]
           /\ t.fields[name].first = Literal(s.samples[name][1])
           /\ t.fields[name].second = Literal(s.samples[name][2])
           /\ t.fields[name].wrong = WrongKind(FieldKinds(s)[name])
  BY DEF Rendered
<1>2. /\ t.identity = s.text["identity"] /\ t.asserted = s.text["asserted"] /\ t.answers = s.answers
      /\ DOMAIN t.choices = DOMAIN s.random
      /\ \A i \in DOMAIN s.random : t.choices[i] = Literal(s.random[i])
  BY DEF Rendered
<1>3. \A v : Literal(v).kind = v.kind /\ Literal(v).text = v.text
  BY DEF Literal
<1> HIDE DEF t
<1>4. ASSUME NEW name \in DOMAIN t.fields
      PROVE  LET field == t.fields[name] IN
             /\ field.first.kind = field.kind /\ field.second.kind = field.kind
             /\ field.first # field.second
             /\ field.wrong # field.kind
             /\ "quote" \notin {field.first.text, field.second.text}
  <2>1. name \in DOMAIN FieldKinds(s)
    BY <1>1
  <2>2. /\ s.samples[name][1].kind = FieldKinds(s)[name] /\ s.samples[name][2].kind = FieldKinds(s)[name]
        /\ s.samples[name][1].text # "quote" /\ s.samples[name][2].text # "quote"
        /\ s.samples[name][1].text # s.samples[name][2].text
        /\ FieldKinds(s)[name] \in Types
    BY <2>1 DEF Sound
  <2>3. WrongKind(FieldKinds(s)[name]) # FieldKinds(s)[name]
    BY <2>2 DEF WrongKind, Types
  <2>4. /\ t.fields[name].first.kind = FieldKinds(s)[name] /\ t.fields[name].second.kind = FieldKinds(s)[name]
        /\ t.fields[name].first.text # t.fields[name].second.text
        /\ t.fields[name].first.text # "quote" /\ t.fields[name].second.text # "quote"
    BY <1>1, <1>3, <2>1, <2>2
  <2> QED
    BY <1>1, <2>1, <2>3, <2>4
<1>5. {t.fields[t.identity].first.text, t.fields[t.identity].second.text} \cap {"a b", ""} = {}
  <2>1. t.identity \in DOMAIN FieldKinds(s)
    BY <1>2 DEF Sound
  <2>2. s.samples[t.identity][1].text \notin {"a b", ""} /\ s.samples[t.identity][2].text \notin {"a b", ""}
    BY <1>2, <2>1 DEF Sound
  <2> QED
    BY <1>1, <1>3, <2>1, <2>2
<1>6. t.asserted \in ToSet(t.answers) /\ t.asserted # t.identity
  BY <1>2 DEF Sound
<1>7. t.choices # <<>>
  <2>1. DOMAIN s.random # {}
    <3>1. \A list \in RandomLists : list # <<>> => 1 \in DOMAIN list
      BY DEF RandomLists
    <3> QED
      BY <3>1 DEF Sound
  <2>2. DOMAIN <<>> = {}
    OBVIOUS
  <2> QED
    BY <1>2, <2>1, <2>2
<1>8. ASSUME NEW i \in DOMAIN t.choices
      PROVE  t.choices[i].kind = t.fields[t.asserted].kind /\ t.choices[i].text # "quote"
  <2>1. i \in DOMAIN s.random /\ t.choices[i] = Literal(s.random[i])
    BY <1>2
  <2>2. t.asserted \in DOMAIN FieldKinds(s)
    BY <1>2 DEF Sound
  <2>3. s.random[i].kind = FieldKinds(s)[t.asserted] /\ s.random[i].text # "quote"
    BY <1>2, <2>1 DEF Sound
  <2> QED
    BY <1>1, <1>3, <2>1, <2>2, <2>3
<1> QED
  BY <1>4, <1>5, <1>6, <1>7, <1>8 DEF LiteralsFitTheTests, t

\* The names of a sequence of fields stand in its order.
LEMMA NamesInOrder ==
    ASSUME NEW fields \in Seq(Fields)
    PROVE  LET names == [i \in DOMAIN fields |-> fields[i].name] IN
           /\ names \in Seq({fields[i].name : i \in DOMAIN fields}) /\ Len(names) = Len(fields)
           /\ DOMAIN names = DOMAIN fields /\ \A i \in DOMAIN names : names[i] = fields[i].name
  OBVIOUS

\* Its names meet in the tree only as the classes that nothing compares.
LEMMA SoundNamesMeetAsClasses == ASSUME NEW s, Sound(s), tree = {Rendered(s)} PROVE NamesMeetOnlyAsClasses
<1> DEFINE t == Rendered(s)
           fields == NamesOf(s)
           identity == s.text["identity"]
<1>1. /\ t.protocols = {<<s.text["write"], s.text["read"]>>, <<s.text["save"], s.text["load"]>>}
      /\ t.parameters = {<<identity>> \o fields, fields, s.answers}
      /\ t.packages = <<"app", "pgdatabase", "srv", "tests", "conftest", s.text["context"]>>
  BY DEF Rendered
<1>2. \A operations \in t.protocols : Distinct(operations)
  <2>1. s.text["write"] # s.text["read"] /\ s.text["save"] # s.text["load"]
    BY DEF Sound, OperationKeys
  <2>2. \A a, b : a # b => Distinct(<<a, b>>)
    BY DEF Distinct
  <2> QED
    BY <1>1, <2>1, <2>2
<1>3. fields \in Seq({s.fields[i].name : i \in DOMAIN s.fields}) /\ Len(fields) = Len(s.fields)
      /\ DOMAIN fields = DOMAIN s.fields /\ \A i \in DOMAIN fields : fields[i] = s.fields[i].name
  <2>1. s.fields \in Seq(Fields)
    BY DEF Sound
  <2>2. fields = [i \in DOMAIN s.fields |-> s.fields[i].name]
    BY DEF NamesOf
  <2> QED
    BY <2>1, <2>2, NamesInOrder
<1> HIDE DEF fields, identity, t
<1>4. Distinct(fields)
  <2>1. \A i, j \in DOMAIN s.fields : s.fields[i].name = s.fields[j].name => i = j
    BY DEF Sound
  <2> QED
    BY <1>3, <2>1 DEF Distinct
<1>5. Distinct(<<identity>> \o fields)
  <2>1. \A i \in DOMAIN fields : fields[i] # identity
    <3>1. identity \notin FieldNames(s)
      BY DEF Sound, identity
    <3> QED
      BY <1>3, <3>1 DEF FieldNames
  <2>2. Len(<<identity>> \o fields) = Len(fields) + 1 /\ DOMAIN fields = 1..Len(fields) /\ Len(fields) \in Nat
    BY <1>3
  <2>3. DOMAIN (<<identity>> \o fields) = 1..(Len(fields) + 1)
    BY <1>3
  <2>4. \A i \in 1..(Len(fields) + 1) :
          /\ (<<identity>> \o fields)[i] = IF i = 1 THEN identity ELSE fields[i - 1]
          /\ i # 1 => i - 1 \in 1..Len(fields)
    BY <1>3, <2>2
  <2> SUFFICES ASSUME NEW i \in 1..(Len(fields) + 1), NEW j \in 1..(Len(fields) + 1),
                      (<<identity>> \o fields)[i] = (<<identity>> \o fields)[j], i # j
               PROVE  FALSE
    BY <2>3 DEF Distinct
  <2>5. CASE i = 1 \/ j = 1
    BY <2>1, <2>2, <2>4, <2>5
  <2>6. CASE i # 1 /\ j # 1
    <3>1. fields[i - 1] = fields[j - 1] /\ i - 1 \in DOMAIN fields /\ j - 1 \in DOMAIN fields
      BY <2>2, <2>4, <2>6
    <3>2. i - 1 = j - 1
      BY <1>4, <3>1 DEF Distinct
    <3> QED
      BY <3>2
  <2> QED
    BY <2>5, <2>6
<1>6. Distinct(t.packages)
  <2>1. s.text["context"] \notin {"domain", "app", "srv", "tests", "pgdatabase", "conftest", "identity"}
    BY DEF Sound, Reserved
  <2>2. \A c : c \notin {"domain", "app", "srv", "tests", "pgdatabase", "conftest", "identity"} =>
          Distinct(<<"app", "pgdatabase", "srv", "tests", "conftest", c>>)
    BY DEF Distinct
  <2> QED
    BY <1>1, <2>1, <2>2
<1>7. Distinct(s.answers)
  BY DEF Sound
<1>8. t.classes = [identity |-> Capitalized(identity),
                   fields |-> [i \in DOMAIN fields |-> Capitalized(fields[i])],
                   aggregate |-> <<SpecClass(s.text["aggregate"]), s.text["aggregate"]>>]
  BY DEF Rendered, t, fields, identity
<1>9. Distinct(t.classes.aggregate)
  <2>1. s.text["aggregate"] \in Roots
    BY DEF Sound, Shape, Scalars, OperationKeys, PlainKeys
  <2>2. \A a, b : a # b => Distinct(<<a, b>>)
    BY DEF Distinct
  <2> QED
    BY <1>8, <2>1, <2>2, SpecsAreNamedApart
<1>10. \A i \in DOMAIN t.classes.fields :
         t.classes.fields[i] \notin {t.classes.identity} \cup ToSet(t.classes.aggregate)
  <2>1. {t.classes.identity} \cup ToSet(t.classes.aggregate) = Taken(s)
    BY <1>8 DEF Taken, ToSet, identity
  <2>2. \A i \in DOMAIN s.fields : Capitalized(s.fields[i].name) \notin Taken(s)
    BY DEF Sound
  <2>3. \A i \in DOMAIN fields : Capitalized(fields[i]) \notin Taken(s)
    BY <1>3, <2>2
  <2> QED
    BY <1>8, <2>1, <2>3
<1> QED
  BY <1>1, <1>2, <1>4, <1>5, <1>6, <1>7, <1>9, <1>10, Zenon DEF NamesMeetOnlyAsClasses, t

\* Nothing the document states is left out of it.
LEMMA NothingIsIgnored ==
    ASSUME IsDocument(doc), Problems(ReadGeneration) = {}, tree = {Rendered(ReadGeneration)}
    PROVE  NothingStatedIsIgnored
<1> DEFINE s == ReadGeneration
<1>1. Sound(s)
  BY NoProblemsAreSound
<1>2. /\ doc.extra = {} /\ doc.plain = {} /\ s.fields = doc.fields /\ s.samples = doc.samples /\ s.random = doc.random
      /\ \A key \in Scalars : s.text[key] = IF doc.keys[key] = NotText THEN "" ELSE doc.keys[key]
  BY ReadAsStated
<1> HIDE DEF s
<1>3. ASSUME NEW key \in Scalars
      PROVE  doc.keys[key] \in Names \cup Roots \cup {"fit", "restate", "postgres"} /\ TableOf(key) \notin doc.plain
  <2>1. s.text[key] \in Names \cup Roots \cup {"fit", "restate", "postgres"}
    BY <1>1, VerbsAreNames DEF Sound, Shape
  <2>2. s.text[key] # ""
    BY <2>1, NamesHaveLetters
  <2> QED
    BY <1>2, <2>1, <2>2
<1>4. DOMAIN Rendered(s).fields = DOMAIN FieldKinds(s)
  BY DEF Rendered
<1>5. \A i \in DOMAIN doc.fields : doc.fields[i].name \in DOMAIN Rendered(s).fields
  BY <1>1, <1>2, <1>4 DEF Sound, FieldNames
<1>6. DOMAIN doc.samples = DOMAIN Rendered(s).fields
  BY <1>1, <1>2, <1>4 DEF Sound
<1>7. Len(Rendered(s).choices) = Len(doc.random)
  <2>1. doc.random \in Seq({Ada, Grace, Spaced, Quoted, One, Two, TextOne, Neither})
    BY <1>1, <1>2, ListsAreSequences DEF Sound
  <2>2. Rendered(s).choices = [i \in DOMAIN doc.random |-> Literal(doc.random[i])]
    BY <1>2 DEF Rendered
  <2> QED
    BY <2>1, <2>2
<1> QED
  BY <1>2, <1>3, <1>5, <1>6, <1>7 DEF NothingStatedIsIgnored, s

-----------------------------------------------------------------------------
(* The author and the generator.                                           *)

TreesInv ==
    /\ IsDocument(doc)
    /\ edits \in 0..MaxEdits
    /\ answer \in {"none", "problems", "written"}
    /\ tree = IF answer = "written" THEN {Rendered(ReadGeneration)} ELSE {}
    /\ answer = "written" => Problems(ReadGeneration) = {}

\* One entry is taken out of a sequence, and the others keep their order.
LEMMA RemovedAt ==
    ASSUME NEW S, NEW list \in Seq(S), NEW i \in DOMAIN list
    PROVE  /\ RemoveAt(list, i) \in Seq(S)
           /\ DOMAIN RemoveAt(list, i) = 1..(Len(list) - 1)
           /\ \A j \in 1..(Len(list) - 1) :
                /\ (IF j < i THEN j ELSE j + 1) \in DOMAIN list
                /\ RemoveAt(list, i)[j] = list[IF j < i THEN j ELSE j + 1]
<1>1. /\ Len(list) \in Nat /\ i \in 1..Len(list) /\ DOMAIN list = 1..Len(list)
      /\ \A j \in 1..Len(list) : list[j] \in S
  OBVIOUS
<1> DEFINE before == SubSeq(list, 1, i - 1)
           after == SubSeq(list, i + 1, Len(list))
<1>2. before \in Seq(S) /\ Len(before) = i - 1 /\ \A j \in 1..(i - 1) : before[j] = list[j]
  <2>1. 1 \in Int /\ i - 1 \in Int /\ \A j \in 1..(i - 1) : list[j] \in S
    BY <1>1
  <2>2. /\ before \in Seq(S)
        /\ Len(before) = IF 1 <= i - 1 THEN (i - 1) - 1 + 1 ELSE 0
        /\ \A j \in 1..((i - 1) - 1 + 1) : before[j] = list[1 + j - 1]
    BY <2>1, SubSeqProperties
  <2> QED
    BY <1>1, <2>2
<1>3. after \in Seq(S) /\ Len(after) = Len(list) - i /\ \A j \in 1..(Len(list) - i) : after[j] = list[i + j]
  <2>1. i + 1 \in Int /\ Len(list) \in Int /\ \A j \in (i + 1)..Len(list) : list[j] \in S
    BY <1>1
  <2>2. /\ after \in Seq(S)
        /\ Len(after) = IF i + 1 <= Len(list) THEN Len(list) - (i + 1) + 1 ELSE 0
        /\ \A j \in 1..(Len(list) - (i + 1) + 1) : after[j] = list[(i + 1) + j - 1]
    BY <2>1, SubSeqProperties
  <2> HIDE DEF after
  <2>3. Len(after) = Len(list) - i /\ Len(list) - (i + 1) + 1 = Len(list) - i
    BY <1>1, <2>2
  <2>4. \A j \in 1..(Len(list) - i) : (i + 1) + j - 1 = i + j
    BY <1>1
  <2> QED
    BY <2>2, <2>3, <2>4
<1>4. RemoveAt(list, i) = before \o after
  BY DEF RemoveAt
<1> HIDE DEF before, after
<1>5. /\ before \o after \in Seq(S)
      /\ Len(before \o after) = Len(before) + Len(after)
      /\ \A j \in 1..(Len(before) + Len(after)) :
           (before \o after)[j] = IF j <= Len(before) THEN before[j] ELSE after[j - Len(before)]
  BY <1>2, <1>3, ConcatProperties
<1>6. Len(before) + Len(after) = Len(list) - 1 /\ Len(before) = i - 1
  BY <1>1, <1>2, <1>3
<1>7. ASSUME NEW j \in 1..(Len(list) - 1)
      PROVE  /\ (IF j < i THEN j ELSE j + 1) \in DOMAIN list
             /\ (before \o after)[j] = list[IF j < i THEN j ELSE j + 1]
  <2>0. (before \o after)[j] = IF j <= i - 1 THEN before[j] ELSE after[j - (i - 1)]
    BY <1>5, <1>6
  <2>1. CASE j < i
    <3>1. j \in 1..(i - 1) /\ j <= i - 1 /\ j \in DOMAIN list
      BY <1>1, <2>1
    <3> QED
      BY <1>2, <2>0, <2>1, <3>1
  <2>2. CASE ~(j < i)
    <3>1. /\ j - (i - 1) \in 1..(Len(list) - i) /\ i + (j - (i - 1)) = j + 1
          /\ ~(j <= i - 1) /\ j + 1 \in DOMAIN list
      BY <1>1, <2>2
    <3> QED
      BY <1>3, <2>0, <2>2, <3>1
  <2> QED
    BY <2>1, <2>2
<1>8. DOMAIN (before \o after) = 1..(Len(list) - 1)
  BY <1>5, <1>6
<1> QED
  BY <1>4, <1>5, <1>7, <1>8, Zenon

\* What an author edits is a document again.
LEMMA EditsAreDocuments ==
    ASSUME IsDocument(doc), Edit
    PROVE  IsDocument(doc')
<1> DEFINE Table == [state : States, extra : SUBSET {"client.write_operation"}, plain : SUBSET Tables,
                     keys : [Scalars -> Texts], fields : Seq(Fields), samples : {doc.samples},
                     answers : Seq(Names \cup {NotText}), random : RandomLists]
<1>0. /\ doc \in Table
      /\ \A i, j \in DOMAIN doc.fields : doc.fields[i].name = doc.fields[j].name => i = j
      /\ DOMAIN doc.samples \subseteq Names
      /\ doc.samples \in [DOMAIN doc.samples -> SampleLists]
  BY DEF IsDocument
<1>1. CASE EditKey
  <2>1. PICK key \in Scalars, text \in Texts : doc' = [doc EXCEPT !.keys[key] = text]
    BY <1>1 DEF EditKey, Edited
  <2> QED
    BY <1>0, <2>1 DEF IsDocument
<1>2. CASE EditField
  <2>1. ASSUME NEW fields \in Seq(Fields), \A i, j \in DOMAIN fields : fields[i].name = fields[j].name => i = j,
               doc' = [doc EXCEPT !.fields = fields]
        PROVE  IsDocument(doc')
    BY <1>0, <2>1 DEF IsDocument
  <2>2. doc.fields \in Seq(Fields) /\ DOMAIN doc.fields = 1..Len(doc.fields) /\ Len(doc.fields) \in Nat
    BY <1>0
  <2>3. ASSUME NEW name \in Names \cup {"unfit"}, NEW kind \in Kinds \cup {NotText}, name \notin FieldNames(doc),
               doc' = [doc EXCEPT !.fields = Append(@, [name |-> name, kind |-> kind])]
        PROVE  IsDocument(doc')
    <3> DEFINE field == [name |-> name, kind |-> kind]
               fields == Append(doc.fields, field)
    <3>1. field \in Fields /\ field.name = name
      BY DEF Fields
    <3> HIDE DEF field
    <3>2. fields \in Seq(Fields) /\ DOMAIN fields = 1..(Len(doc.fields) + 1)
      BY <2>2, <3>1
    <3>3. \A i \in 1..(Len(doc.fields) + 1) :
             /\ i # Len(doc.fields) + 1 => i \in DOMAIN doc.fields
             /\ fields[i] = IF i = Len(doc.fields) + 1 THEN field ELSE doc.fields[i]
      BY <2>2
    <3>4. \A i \in DOMAIN doc.fields : doc.fields[i].name # name
      BY <2>3 DEF FieldNames
    <3>5. doc' = [doc EXCEPT !.fields = fields]
      BY <1>0, <2>3 DEF field
    <3> HIDE DEF fields
    <3>6. \A i, j \in DOMAIN fields : fields[i].name = fields[j].name => i = j
      BY <1>0, <3>1, <3>2, <3>3, <3>4
    <3> QED
      BY <2>1, <3>2, <3>5, <3>6
  <2>4. ASSUME NEW i \in DOMAIN doc.fields, NEW name \in Names, NEW kind \in Kinds,
               name \notin FieldNames(doc) \/ name = doc.fields[i].name,
               doc' = [doc EXCEPT !.fields[i] = [name |-> name, kind |-> kind]]
        PROVE  IsDocument(doc')
    <3> DEFINE field == [name |-> name, kind |-> kind]
               fields == [doc.fields EXCEPT ![i] = field]
    <3>1. field \in Fields /\ field.name = name
      BY DEF Fields
    <3>5. doc' = [doc EXCEPT !.fields = fields]
      BY <1>0, <2>4
    <3> HIDE DEF field
    <3>2. fields \in Seq(Fields) /\ DOMAIN fields = DOMAIN doc.fields
      BY <2>2, <3>1
    <3>3. \A j \in DOMAIN doc.fields : fields[j] = IF j = i THEN field ELSE doc.fields[j]
      OBVIOUS
    <3>4. \A j \in DOMAIN doc.fields : j # i => doc.fields[j].name # name
      BY <1>0, <2>4 DEF FieldNames
    <3> HIDE DEF fields
    <3>6. \A j, k \in DOMAIN fields : fields[j].name = fields[k].name => j = k
      BY <1>0, <3>1, <3>2, <3>3, <3>4
    <3> QED
      BY <2>1, <3>2, <3>5, <3>6
  <2>5. ASSUME NEW i \in DOMAIN doc.fields, doc' = [doc EXCEPT !.fields = RemoveAt(@, i)]
        PROVE  IsDocument(doc')
    <3> DEFINE fields == RemoveAt(doc.fields, i)
    <3>1. /\ fields \in Seq(Fields)
          /\ DOMAIN fields = 1..(Len(doc.fields) - 1)
          /\ \A j \in DOMAIN fields : (IF j < i THEN j ELSE j + 1) \in DOMAIN doc.fields
          /\ \A j \in DOMAIN fields : fields[j] = doc.fields[IF j < i THEN j ELSE j + 1]
      BY <2>2, RemovedAt
    <3>2. doc' = [doc EXCEPT !.fields = fields]
      BY <1>0, <2>5
    <3> HIDE DEF fields
    <3>3. ASSUME NEW j \in DOMAIN fields, NEW k \in DOMAIN fields, fields[j].name = fields[k].name
          PROVE  j = k
      <4>1. (IF j < i THEN j ELSE j + 1) = (IF k < i THEN k ELSE k + 1)
        BY <1>0, <3>1, <3>3
      <4>2. j \in Int /\ k \in Int /\ i \in Int
        BY <2>2, <3>1
      <4> QED
        BY <4>1, <4>2
    <3> QED
      BY <2>1, <3>1, <3>2, <3>3
  <2> QED
    BY <1>2, <2>3, <2>4, <2>5 DEF EditField, Edited
<1>3. CASE EditSamples
  <2>1. ASSUME NEW samples, DOMAIN samples \subseteq Names, samples \in [DOMAIN samples -> SampleLists],
               doc' = [doc EXCEPT !.samples = samples]
        PROVE  IsDocument(doc')
    BY <1>0, <2>1 DEF IsDocument
  <2>2. ASSUME NEW name \in Names, NEW list \in SampleLists,
               doc' = [doc EXCEPT !.samples = [n \in DOMAIN @ \cup {name} |-> IF n = name THEN list ELSE @[n]]]
        PROVE  IsDocument(doc')
    <3> DEFINE samples == [n \in DOMAIN doc.samples \cup {name} |-> IF n = name THEN list ELSE doc.samples[n]]
    <3>1. DOMAIN samples \subseteq Names /\ samples \in [DOMAIN samples -> SampleLists]
      BY <1>0
    <3>2. doc' = [doc EXCEPT !.samples = samples]
      BY <1>0, <2>2
    <3> HIDE DEF samples
    <3> QED
      BY <2>1, <3>1, <3>2
  <2>3. ASSUME NEW name, doc' = [doc EXCEPT !.samples = [n \in DOMAIN @ \ {name} |-> @[n]]]
        PROVE  IsDocument(doc')
    <3> DEFINE samples == [n \in DOMAIN doc.samples \ {name} |-> doc.samples[n]]
    <3>1. DOMAIN samples \subseteq Names /\ samples \in [DOMAIN samples -> SampleLists]
      BY <1>0
    <3>2. doc' = [doc EXCEPT !.samples = samples]
      BY <1>0, <2>3
    <3> HIDE DEF samples
    <3> QED
      BY <2>1, <3>1, <3>2
  <2> QED
    BY <1>3, <2>2, <2>3 DEF EditSamples, Edited
<1>4. CASE EditLists
  <2>1. ASSUME NEW answers \in Seq(Names \cup {NotText}), doc' = [doc EXCEPT !.answers = answers]
        PROVE  IsDocument(doc')
    BY <1>0, <2>1 DEF IsDocument
  <2>2. ASSUME NEW list \in RandomLists, doc' = [doc EXCEPT !.random = list]
        PROVE  IsDocument(doc')
    BY <1>0, <2>2 DEF IsDocument
  <2>3. \A name \in Names \cup {NotText} : Append(doc.answers, name) \in Seq(Names \cup {NotText})
    BY <1>0
  <2>4. \A i \in DOMAIN doc.answers : RemoveAt(doc.answers, i) \in Seq(Names \cup {NotText})
    BY <1>0, RemovedAt
  <2>5. ASSUME NEW name \in Names \cup {NotText}, doc' = [doc EXCEPT !.answers = Append(@, name)]
        PROVE  IsDocument(doc')
    BY <1>0, <2>1, <2>3, <2>5
  <2>6. ASSUME NEW i \in DOMAIN doc.answers, doc' = [doc EXCEPT !.answers = RemoveAt(@, i)]
        PROVE  IsDocument(doc')
    BY <1>0, <2>1, <2>4, <2>6
  <2> QED
    BY <1>4, <2>2, <2>5, <2>6 DEF EditLists, Edited
<1>5. CASE EditFile
  BY <1>0, <1>5 DEF EditFile, Edited, IsDocument, States
<1> QED
  BY <1>1, <1>2, <1>3, <1>4, <1>5 DEF Edit

LEMMA TreesBegin == Init => TreesInv
  BY OrderedIsADocument, MaxEditsNat DEF Init, TreesInv

LEMMA TreesGoOn == TreesInv /\ Next => TreesInv'
<1> SUFFICES ASSUME TreesInv, Next PROVE TreesInv'
  OBVIOUS
<1>1. CASE Edit
  <2>1. edits < MaxEdits /\ edits' = edits + 1 /\ answer' = "none" /\ tree' = {}
    BY <1>1 DEF Edit, EditKey, EditField, EditSamples, EditLists, EditFile, Edited
  <2>2. edits' \in 0..MaxEdits
    BY <2>1, MaxEditsNat DEF TreesInv
  <2>3. IsDocument(doc)'
    BY <1>1, EditsAreDocuments DEF TreesInv
  <2> QED
    BY <2>1, <2>2, <2>3 DEF TreesInv
<1>2. CASE GenerateTree
  <2>1. ReadGeneration' = ReadGeneration /\ IsDocument(doc)' /\ edits' = edits
    BY <1>2 DEF GenerateTree, ReadGeneration, UnknownKeys, TextOf, Stated, TreesInv
  <2>2. Problems(ReadGeneration) = {} => Renders(ReadGeneration)
    BY NoProblemsAreSound, SoundSpecsRender DEF TreesInv
  <2>3. /\ answer' = IF Problems(ReadGeneration) # {} THEN "problems" ELSE "written"
        /\ tree' = IF answer' = "written" THEN {Rendered(ReadGeneration)} ELSE {}
    BY <1>2, <2>2 DEF GenerateTree
  <2> QED
    BY <2>1, <2>3 DEF TreesInv
<1> QED
  BY <1>1, <1>2 DEF Next

LEMMA TreesInvHolds ==
    ASSUME TreesInv
    PROVE  TypeOK /\ NeverFailsRendering /\ LiteralsFitTheTests /\ NamesMeetOnlyAsClasses /\ NothingStatedIsIgnored
<1>1. TypeOK
  <2>1. /\ doc.state \in {"read", "missing", "unreadable", "malformed"}
        /\ doc.keys \in [Scalars -> Texts] /\ doc.plain \subseteq Tables
    BY DEF TreesInv, IsDocument, States
  <2>2. \A i \in DOMAIN doc.fields : doc.fields[i].kind \in Kinds \cup {NotText}
    <3>1. \A i \in DOMAIN doc.fields : doc.fields[i] \in Fields
      BY DEF TreesInv, IsDocument
    <3> QED
      BY <3>1 DEF Fields
  <2>3. Cardinality(tree) <= 1 /\ (tree # {} <=> answer = "written")
    <3>1. CASE answer = "written"
      BY <3>1, FS_Singleton DEF TreesInv
    <3>2. CASE answer # "written"
      BY <3>2, FS_EmptySet DEF TreesInv
    <3> QED
      BY <3>1, <3>2
  <2> QED
    BY <2>1, <2>2, <2>3 DEF TypeOK, TreesInv
<1>2. NeverFailsRendering
  BY DEF NeverFailsRendering, TreesInv
<1>3. CASE answer # "written"
  <2>1. tree = {}
    BY <1>3 DEF TreesInv
  <2> QED
    BY <1>1, <1>2, <1>3, <2>1 DEF LiteralsFitTheTests, NamesMeetOnlyAsClasses, NothingStatedIsIgnored
<1>4. CASE answer = "written"
  <2>1. IsDocument(doc) /\ Problems(ReadGeneration) = {} /\ tree = {Rendered(ReadGeneration)}
    BY <1>4 DEF TreesInv
  <2>2. Sound(ReadGeneration)
    BY <2>1, NoProblemsAreSound
  <2> QED
    BY <1>1, <1>2, <2>1, <2>2, SoundLiteralsFit, SoundNamesMeetAsClasses, NothingIsIgnored
<1> QED
  BY <1>3, <1>4

\* However an author's document is edited, the generator answers it with its
\* problems or renders it; the literals of a tree's tests fit them, its names
\* meet only as the classes of two fields, or of the identity and the aggregate,
\* and nothing the document states is ignored (tree.py).
THEOREM DocumentsAreRendered == PartSpec => []DocumentsBecomeTrees
<1> DEFINE Inv == part = "tree" => TreesInv
<1>1. PartInit => Inv
  BY TreesBegin DEF PartInit
<1>2. Inv /\ [PartNext]_<<part, treeVars, runVars, renderVars>> => Inv'
  <2> SUFFICES ASSUME Inv, [PartNext]_<<part, treeVars, runVars, renderVars>>, part' = "tree" PROVE TreesInv'
    OBVIOUS
  <2>1. CASE Next /\ part = "tree"
    BY <2>1, TreesGoOn
  <2>2. CASE UNCHANGED <<part, treeVars>>
    <3>1. part = "tree" /\ doc' = doc /\ edits' = edits /\ answer' = answer /\ tree' = tree
      BY <2>2 DEF treeVars, vars
    <3>2. ReadGeneration' = ReadGeneration
      BY <3>1 DEF ReadGeneration, UnknownKeys, TextOf, Stated
    <3> QED
      BY <3>1, <3>2 DEF TreesInv
  <2> QED
    BY <2>1, <2>2 DEF PartNext
<1>3. Inv => DocumentsBecomeTrees
  BY TreesInvHolds DEF DocumentsBecomeTrees
<1> QED
  BY <1>1, <1>2, <1>3, PTL DEF PartSpec

=============================================================================
