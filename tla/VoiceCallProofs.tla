---------------------------- MODULE VoiceCallProofs ----------------------------
(***************************************************************************)
(* The invariants of VoiceCall and its refinement of PlacedCall, for any   *)
(* calls, agent jobs, texts, names, retry policy and number of faults.     *)
(***************************************************************************)
EXTENDS VoiceCall, TLAPS

(* The steps from the one named on, as far as the last. *)
FromRecord   == {"record", "done"}
FromHangUp   == {"hang_up"} \cup FromRecord
FromGreeting == {"greet"} \cup FromHangUp
FromName     == {"name"} \cup FromGreeting
FromTurn     == {"await_turn"} \cup FromName
FromQuestion == {"ask"} \cup FromTurn

(* What the steps behind a workflow w have left: its signals s, the calls  *)
(* asked, the names g greeted in c, the room r, the person p and the name  *)
(* n on record.                                                            *)
CallHistory(c, w, s, questions, g, r, p, n) ==
    /\ w.at = "absent" => w = NotStarted
    /\ w.at \in Running => w.attempts < MaxAttempts
    /\ w.at \in FromQuestion => s.joined
    /\ w.at \in FromTurn => c \in questions
    /\ w.at \in FromName => w.heard # NoText
    /\ w.heard # NoText => w.heard = s.turn
    /\ w.at \in FromGreeting => w.name # NoName
    /\ w.name # NoName => w.heard # NoText /\ w.name = NameOf[w.heard]
    /\ w.at \in FromHangUp => g # {}
    /\ \A m \in g : s.turn # NoText /\ m = NameOf[s.turn]
    /\ w.at \in FromRecord => r = "deleted"
    /\ r = "deleted" => /\ c \in questions /\ g # {} /\ s.joined /\ p = "left"
                        /\ w.at \in FromHangUp \cup {"paused"}
    /\ s.joined => p # "away"
    /\ n # NoName => r = "deleted" /\ g = {n}
    /\ w.at = "done" => n # NoName

Histories ==
    \A c \in Calls :
        CallHistory(c, flow[c], signal[c], asked, greeted[c], room[c], person[c], calls[c])

(* Who waits for a call, who works in it and what is on the wire for it    *)
(* came after its workflow started.                                        *)
CallersWait ==
    \A c \in Calls : /\ caller[c] \in {"none", "issued"} => flow[c].at = "absent"
                     /\ flow[c].at = "absent" => caller[c] \in {"none", "issued"}
                     /\ caller[c] = "answered" => flow[c].at = "done"
JobsAreDispatched ==
    \A j \in Jobs :
        /\ job[j].at = "idle" => job[j].call = NoCall
        /\ job[j].at # "idle" => job[j].call \in Calls /\ flow[job[j].call].at # "absent"
SignalsAreSent ==
    \A m \in wire : /\ flow[m.call].at # "absent"
                    /\ m.kind = "joined" => person[m.call] # "away"
RoomsAreEmptied ==
    \A c \in Calls : room[c] = "deleted" =>
        \A j \in Jobs : job[j].call = c => job[j].at = "gone"

(* Where nothing was lost, a call has one job at most, none before it is   *)
(* dialled, and that job attends the person whose joining it told of.      *)
Undialled(c) == flow[c].at \in {"absent", "dial"}
Met(c)       == signal[c].joined \/ \E m \in wire : m.call = c /\ m.kind = "joined"
FaultFree ==
    faults = 0 =>
        \A c \in Calls :
            /\ Undialled(c) => \A j \in Jobs : job[j].call # c
            /\ \A i, j \in Jobs : job[i].call = c /\ job[j].call = c => i = j
            /\ Met(c) /\ person[c] # "left" =>
                   \E j \in Jobs : job[j].call = c /\ job[j].at = "attending"

IInv ==
    /\ TypeOK /\ Histories /\ CallersWait /\ JobsAreDispatched /\ SignalsAreSent
    /\ RoomsAreEmptied /\ FaultFree /\ SignalsFindTheCall /\ PauseHasACause

-------------------------------------------------------------------------------
(* The steps, and the fields of a workflow after each update.              *)

LEMMA Steps ==
    /\ Running = {"dial", "await_joined", "ask", "await_turn", "name", "greet", "hang_up",
                  "record"}
    /\ StepAfter["dial"] = "await_joined" /\ StepAfter["await_joined"] = "ask"
    /\ StepAfter["ask"] = "await_turn" /\ StepAfter["await_turn"] = "name"
    /\ StepAfter["name"] = "greet" /\ StepAfter["greet"] = "hang_up"
    /\ StepAfter["hang_up"] = "record" /\ StepAfter["record"] = "done"
BY DEF Running, StepAfter

LEMMA NewFlow == /\ NotStarted.at = "absent" /\ NotStarted.attempts = 0
                 /\ NotStarted.heard = NoText /\ NotStarted.name = NoName
BY DEF NotStarted

(* An update of a workflow changes the fields it names. *)
LEMMA FlowFields ==
    ASSUME NEW w \in Flows, w.at \in Running
    PROVE  /\ LET v == Advanced(w) IN
              /\ v.at = StepAfter[w.at] /\ v.attempts = 0
              /\ v.heard = w.heard /\ v.name = w.name
           /\ LET v == Retried(w) IN
              /\ v.at \in {w.at, "paused"} /\ v.attempts = w.attempts + 1
              /\ v.attempts = MaxAttempts => v.at = "paused"
              /\ v.heard = w.heard /\ v.name = w.name
           /\ \A text : LET v == [Advanced(w) EXCEPT !.heard = text] IN
              /\ v.at = StepAfter[w.at] /\ v.attempts = 0
              /\ v.heard = text /\ v.name = w.name
           /\ \A n : LET v == [Advanced(w) EXCEPT !.name = n] IN
              /\ v.at = StepAfter[w.at] /\ v.attempts = 0
              /\ v.heard = w.heard /\ v.name = n
<1>1. LET v == Advanced(w) IN
      /\ v.at = StepAfter[w.at] /\ v.attempts = 0
      /\ v.heard = w.heard /\ v.name = w.name
  BY DEF Advanced, Flows
<1>2. LET v == Retried(w) IN
      /\ v.at \in {w.at, "paused"} /\ v.attempts = w.attempts + 1
      /\ v.attempts = MaxAttempts => v.at = "paused"
      /\ v.heard = w.heard /\ v.name = w.name
  BY DEF Retried, Flows
<1>3. \A text : LET v == [Advanced(w) EXCEPT !.heard = text] IN
      /\ v.at = StepAfter[w.at] /\ v.attempts = 0
      /\ v.heard = text /\ v.name = w.name
  BY DEF Advanced, Flows
<1>4. \A n : LET v == [Advanced(w) EXCEPT !.name = n] IN
      /\ v.at = StepAfter[w.at] /\ v.attempts = 0
      /\ v.heard = w.heard /\ v.name = n
  BY DEF Advanced, Flows
<1> QED BY <1>1, <1>2, <1>3, <1>4

LEMMA FlowTypes ==
    ASSUME NEW w \in Flows, w.at \in Running, w.attempts < MaxAttempts
    PROVE  /\ Advanced(w) \in Flows /\ Retried(w) \in Flows
           /\ \A text \in Texts : [Advanced(w) EXCEPT !.heard = text] \in Flows
           /\ \A n \in Names : [Advanced(w) EXCEPT !.name = n] \in Flows
<1>0. MaxAttempts \in Nat \ {0} /\ w.attempts \in Nat
  BY BoundsAssumption DEF Flows
<1>1. StepAfter[w.at] \in Running \cup {"done"}
  BY Steps
<1> DEFINE Places == Running \cup {"absent", "done", "paused"}
           Counts == 0..MaxAttempts
<1>2. Flows = [at : Places, attempts : Counts, heard : Texts \cup {NoText},
               name : Names \cup {NoName}]
  BY DEF Flows
<1>3. /\ StepAfter[w.at] \in Places /\ w.at \in Places /\ "paused" \in Places
      /\ 0 \in Counts /\ w.attempts + 1 \in Counts
  BY <1>0, <1>1
<1> HIDE DEF Places, Counts
<1>4. Advanced(w) \in Flows
  BY <1>2, <1>3 DEF Advanced
<1>5. Retried(w) \in Flows
  BY <1>2, <1>3 DEF Retried
<1>6. \A text \in Texts : [Advanced(w) EXCEPT !.heard = text] \in Flows
  BY <1>4 DEF Flows
<1>7. \A n \in Names : [Advanced(w) EXCEPT !.name = n] \in Flows
  BY <1>4 DEF Flows
<1> QED BY <1>4, <1>5, <1>6, <1>7

(* What a signal does to the promises.                                     *)
LEMMA SignalFields ==
    ASSUME NEW s \in [joined : BOOLEAN, turn : Texts \cup {NoText}], NEW m \in Signals
    PROVE  LET t == Resolved(s, m) IN
           /\ t \in [joined : BOOLEAN, turn : Texts \cup {NoText}]
           /\ s.joined => t.joined
           /\ t.joined => s.joined \/ m.kind = "joined"
           /\ s.turn # NoText => t.turn = s.turn
BY DEF Resolved, Signals

-------------------------------------------------------------------------------
(* A step of one call, one job or one signal leaves the others alone, and  *)
(* an attempt moves the workflow on or tries its step again.               *)

LEMMA Domains ==
    ASSUME TypeOK
    PROVE  /\ flow \in [Calls -> Flows] /\ job \in [Jobs -> [call : Calls \cup {NoCall}, at : JobStates]]
           /\ signal \in [Calls -> [joined : BOOLEAN, turn : Texts \cup {NoText}]]
           /\ wire \subseteq Signals /\ greeted \in [Calls -> SUBSET Names]
           /\ room \in [Calls -> {"none", "up", "deleted"}]
           /\ person \in [Calls -> {"away", "present", "left"}]
           /\ calls \in [Calls -> Names \cup {NoName}]
           /\ caller \in [Calls -> {"none", "issued", "waiting", "answered"}]
           /\ faults \in 0..MaxFaults /\ MaxFaults \in Nat /\ asked \subseteq Calls
BY BoundsAssumption DEF TypeOK

LEMMA Here ==
    ASSUME TypeOK, Histories, NEW c \in Calls
    PROVE  /\ flow[c] \in Flows
           /\ signal[c] \in [joined : BOOLEAN, turn : Texts \cup {NoText}]
           /\ greeted[c] \in SUBSET Names /\ calls[c] \in Names \cup {NoName}
           /\ CallHistory(c, flow[c], signal[c], asked, greeted[c], room[c], person[c], calls[c])
           /\ flow[c].at \in Running => flow[c].attempts < MaxAttempts
BY DEF TypeOK, Histories, CallHistory

LEMMA AttemptTypes ==
    ASSUME TypeOK, Histories, NEW c \in Calls, flow[c].at \in Running
    PROVE  /\ Attempted(c) => flow' \in [Calls -> Flows] /\ faults' \in 0..MaxFaults
           /\ flow' = [flow EXCEPT ![c] = Retried(@)] => flow' \in [Calls -> Flows]
           /\ flow' = [flow EXCEPT ![c] = Advanced(@)] => flow' \in [Calls -> Flows]
           /\ faults < MaxFaults /\ faults' = faults + 1 => faults' \in 0..MaxFaults
<1>1. Advanced(flow[c]) \in Flows /\ Retried(flow[c]) \in Flows
  BY Here, FlowTypes
<1>2. flow \in [Calls -> Flows]
  BY Domains
<1>3. /\ flow' = [flow EXCEPT ![c] = Retried(@)] => flow' \in [Calls -> Flows]
      /\ flow' = [flow EXCEPT ![c] = Advanced(@)] => flow' \in [Calls -> Flows]
  BY <1>1, <1>2
<1>4. faults < MaxFaults /\ faults' = faults + 1 => faults' \in 0..MaxFaults
  BY Domains
<1>5. Attempted(c) => flow' \in [Calls -> Flows] /\ faults' \in 0..MaxFaults
  BY <1>3, <1>4, Domains DEF Attempted
<1> QED BY <1>3, <1>4, <1>5

LEMMA CallStepType ==
    ASSUME TypeOK, Histories, NEW c \in Calls, CallStep(c)
    PROVE  TypeOK'
<1> USE DEF TypeOK
<1>0. flow[c].at \in Running => flow[c].attempts < MaxAttempts /\ flow[c] \in Flows
  BY Here
<1>1. CASE IssueCallId(c) \/ AnswerCaller(c)
  BY <1>1 DEF IssueCallId, AnswerCaller, roomVars, speechVars
<1>2. CASE ConductCall(c)
  <2>1. flow[c] \in Flows /\ "dial" \in Running
    BY Here, Steps
  <2>2. [flow[c] EXCEPT !.at = "dial"] \in Flows
    BY <2>1 DEF Flows
  <2> QED BY <1>2, <2>2 DEF ConductCall, roomVars, speechVars
<1>3. CASE DialPerson(c)
  <2>1. job' \in [Jobs -> [call : Calls \cup {NoCall}, at : JobStates]]
    BY <1>3 DEF DialPerson, JobStates
  <2> QED BY <1>3, <2>1, AttemptTypes, Steps DEF DialPerson, speechVars
<1>4. CASE AwaitPersonJoined(c)
  BY <1>4, AttemptTypes, Steps DEF AwaitPersonJoined, roomVars, speechVars
<1>5. CASE AwaitPersonTurnCompleted(c)
  <2>1. [Advanced(flow[c]) EXCEPT !.heard = signal[c].turn] \in Flows
    BY <1>0, <1>5, FlowTypes, Steps, Here DEF AwaitPersonTurnCompleted
  <2> QED BY <1>5, <2>1 DEF AwaitPersonTurnCompleted, roomVars, speechVars
<1>6. CASE PersonSaid(c)
  <2>1. flow[c].heard \in Texts
    BY <1>6, Here DEF PersonSaid, CallHistory, Flows, FromName
  <2>2. [Advanced(flow[c]) EXCEPT !.name = NameOf[flow[c].heard]] \in Flows
    BY <1>0, <1>6, <2>1, FlowTypes, Steps, TextsAssumption DEF PersonSaid
  <2> QED BY <1>6, <2>2 DEF PersonSaid, roomVars, speechVars
<1>7. CASE PersonSaidNothing(c) \/ SayRefused(c)
  BY <1>7, AttemptTypes, Steps DEF PersonSaidNothing, SayRefused, Raise, roomVars, speechVars
<1>8. CASE SayQuestion(c)
  BY <1>8, AttemptTypes, Steps DEF SayQuestion, roomVars
<1>9. CASE SayGreeting(c)
  <2>1. flow[c].name \in Names
    BY <1>9, Here DEF SayGreeting, CallHistory, Flows, FromGreeting
  <2> QED BY <1>9, <2>1, AttemptTypes, Steps DEF SayGreeting, roomVars
<1>10. CASE HangUp(c)
  <2>1. flow' \in [Calls -> Flows] /\ faults' \in 0..MaxFaults
    BY <1>10, AttemptTypes, Steps DEF HangUp
  <2> QED BY <1>10, <2>1, ZenonT(60) DEF HangUp, speechVars, JobStates
<1>11. CASE HangUpAgain(c)
  BY <1>11, AttemptTypes, Steps DEF HangUpAgain, Raise, roomVars, speechVars
<1>12. CASE RecordCall(c)
  <2>1. flow[c].name \in Names
    BY <1>12, Here DEF RecordCall, CallHistory, Flows, FromGreeting, FromHangUp, FromRecord
  <2> QED BY <1>12, <2>1, AttemptTypes, Steps DEF RecordCall, roomVars, speechVars
<1>13. CASE AttemptLost(c)
  BY <1>13, AttemptTypes DEF AttemptLost, roomVars, speechVars
<1>14. CASE PersonEnters(c)
  BY <1>14 DEF PersonEnters, engineVars, speechVars
<1>15. CASE PersonLeaves(c)
  <2>1. job' \in [Jobs -> [call : Calls \cup {NoCall}, at : JobStates]]
    BY <1>15 DEF PersonLeaves, JobStates
  <2> QED BY <1>15, <2>1 DEF PersonLeaves, engineVars, speechVars
<1> QED BY <1>1, <1>2, <1>3, <1>4, <1>5, <1>6, <1>7, <1>8, <1>9, <1>10, <1>11, <1>12,
           <1>13, <1>14, <1>15 DEF CallStep, FlowStep

LEMMA JobStepType ==
    ASSUME TypeOK, JobsAreDispatched, NEW j \in Jobs, JobStep(j)
    PROVE  TypeOK'
<1> USE DEF TypeOK, JobStates
<1>0. job[j].at # "idle" => job[j].call \in Calls
  BY DEF JobsAreDispatched
<1>1. CASE AcceptJob(j) \/ StartSession(j)
  <2>1. job' \in [Jobs -> [call : Calls \cup {NoCall}, at : JobStates]]
    <3>1. CASE job' = [job EXCEPT ![j].at = "accepted"]
      BY <3>1
    <3>2. CASE job' = [job EXCEPT ![j].at = "listening"]
      BY <3>2
    <3> QED BY <1>1, <3>1, <3>2 DEF AcceptJob, StartSession, Become
  <2> QED BY <1>1, <2>1 DEF AcceptJob, StartSession, engineVars, speechVars
<1>2. CASE ConnectJob(j)
  BY <1>0, <1>2 DEF ConnectJob, engineVars, speechVars
<1>3. CASE SendPersonJoined(j)
  BY <1>0, <1>3 DEF SendPersonJoined, Become, Joined, Signals, engineVars, speechVars
<1>4. CASE JobDies(j)
  BY <1>4, BoundsAssumption DEF JobDies, Become, engineVars, speechVars
<1>5. CASE \E text \in Texts : CompleteTurn(j, text)
  BY <1>0, <1>5 DEF CompleteTurn, TurnOf, Signals, engineVars, roomVars, speechVars
<1> QED BY <1>1, <1>2, <1>3, <1>4, <1>5 DEF JobStep

LEMMA SignalStepType ==
    ASSUME TypeOK, SignalStep
    PROVE  TypeOK'
<1> USE DEF TypeOK
<1>1. PICK m \in wire : DeliverSignal(m) \/ LoseSignal(m)
  BY DEF SignalStep
<1>2. m \in Signals /\ m.call \in Calls
  BY DEF Signals
<1>3. CASE DeliverSignal(m)
  <2>1. Resolved(signal[m.call], m) \in [joined : BOOLEAN, turn : Texts \cup {NoText}]
    BY <1>2, SignalFields
  <2> QED BY <1>2, <1>3, <2>1 DEF DeliverSignal, roomVars, speechVars
<1>4. CASE LoseSignal(m)
  BY <1>4, BoundsAssumption DEF LoseSignal, engineVars, roomVars, speechVars
<1> QED BY <1>1, <1>3, <1>4

-------------------------------------------------------------------------------
(* What each effect does to the history of a call.                         *)

LEMMA HistoryRetried ==
    ASSUME NEW c, NEW w \in Flows, NEW s, NEW Q, NEW g, NEW r, NEW p, NEW n,
           w.at \in Running, CallHistory(c, w, s, Q, g, r, p, n)
    PROVE  CallHistory(c, Retried(w), s, Q, g, r, p, n)
<1> DEFINE v == Retried(w)
<1>1. /\ v.at \in {w.at, "paused"} /\ v.attempts = w.attempts + 1
      /\ v.attempts = MaxAttempts => v.at = "paused"
      /\ v.heard = w.heard /\ v.name = w.name
  BY FlowFields
<1>2. w.attempts < MaxAttempts /\ w.attempts \in Nat /\ MaxAttempts \in Nat
  BY BoundsAssumption DEF CallHistory, Flows
<1>3. v.at \in Running => v.attempts < MaxAttempts
  BY <1>1, <1>2, Steps
<1> HIDE DEF v
<1>4. v.at = w.at => CallHistory(c, v, s, Q, g, r, p, n)
  BY <1>1, <1>3, Steps DEF CallHistory
<1>5. v.at = "paused" => CallHistory(c, v, s, Q, g, r, p, n)
  BY <1>1, <1>3, Steps
     DEF CallHistory, FromQuestion, FromTurn, FromName, FromGreeting, FromHangUp, FromRecord
<1> QED BY <1>1, <1>4, <1>5 DEF v

LEMMA HistoryAdvanced ==
    ASSUME NEW c, NEW w \in Flows, NEW s, NEW Q, NEW g, NEW r, NEW p, NEW n,
           w.at \in Running \ {"await_turn", "name"}, CallHistory(c, w, s, Q, g, r, p, n),
           w.at = "await_joined" => s.joined, w.at = "ask" => c \in Q,
           w.at = "greet" => g # {}, w.at = "hang_up" => r = "deleted",
           w.at = "record" => n # NoName
    PROVE  CallHistory(c, Advanced(w), s, Q, g, r, p, n)
<1> DEFINE v == Advanced(w)
<1>1. v.at = StepAfter[w.at] /\ v.attempts = 0 /\ v.heard = w.heard /\ v.name = w.name
  BY FlowFields
<1>2. 0 < MaxAttempts
  BY BoundsAssumption
<1> HIDE DEF v
<1>3. CallHistory(c, v, s, Q, g, r, p, n)
  BY <1>1, <1>2, Steps
     DEF CallHistory, FromQuestion, FromTurn, FromName, FromGreeting, FromHangUp, FromRecord
<1> QED BY <1>3 DEF v

LEMMA HistoryHeard ==
    ASSUME NEW c, NEW w \in Flows, NEW s, NEW Q, NEW g, NEW r, NEW p, NEW n,
           w.at = "await_turn", CallHistory(c, w, s, Q, g, r, p, n), s.turn # NoText
    PROVE  CallHistory(c, [Advanced(w) EXCEPT !.heard = s.turn], s, Q, g, r, p, n)
<1> DEFINE v == [Advanced(w) EXCEPT !.heard = s.turn]
<1>1. v.at = "name" /\ v.attempts = 0 /\ v.heard = s.turn /\ v.name = w.name
  BY FlowFields, Steps
<1>2. 0 < MaxAttempts
  BY BoundsAssumption
<1> HIDE DEF v
<1>3. CallHistory(c, v, s, Q, g, r, p, n)
  BY <1>1, <1>2, Steps
     DEF CallHistory, FromQuestion, FromTurn, FromName, FromGreeting, FromHangUp, FromRecord
<1> QED BY <1>3 DEF v

LEMMA HistoryNamed ==
    ASSUME NEW c, NEW w \in Flows, NEW s, NEW Q, NEW g, NEW r, NEW p, NEW n,
           w.at = "name", CallHistory(c, w, s, Q, g, r, p, n), NameOf[w.heard] # NoName
    PROVE  CallHistory(c, [Advanced(w) EXCEPT !.name = NameOf[w.heard]], s, Q, g, r, p, n)
<1> DEFINE v == [Advanced(w) EXCEPT !.name = NameOf[w.heard]]
<1>1. v.at = "greet" /\ v.attempts = 0 /\ v.heard = w.heard /\ v.name = NameOf[w.heard]
  BY FlowFields, Steps
<1>2. 0 < MaxAttempts
  BY BoundsAssumption
<1> HIDE DEF v
<1>3. CallHistory(c, v, s, Q, g, r, p, n)
  BY <1>1, <1>2, Steps
     DEF CallHistory, FromQuestion, FromTurn, FromName, FromGreeting, FromHangUp, FromRecord
<1> QED BY <1>3 DEF v

(* A question asked, a greeting spoken, a line dropped, a name recorded, a *)
(* person come or gone, and a signal delivered.                            *)
LEMMA HistoryEffects ==
    ASSUME NEW c, NEW w \in Flows, NEW s, NEW Q, NEW g, NEW r, NEW p, NEW n,
           CallHistory(c, w, s, Q, g, r, p, n)
    PROVE  /\ \A d : CallHistory(c, w, s, Q \cup {d}, g, r, p, n)
           /\ w.at = "greet" => CallHistory(c, w, s, Q, g \cup {w.name}, r, p, n)
           /\ w.at = "hang_up" /\ p # "away" => CallHistory(c, w, s, Q, g, "deleted", "left", n)
           /\ w.at = "record" /\ n = NoName => CallHistory(c, w, s, Q, g, r, p, w.name)
           /\ p # "left" => CallHistory(c, w, s, Q, g, r, "present", n)
           /\ CallHistory(c, w, s, Q, g, r, "left", n)
<1> USE Steps DEF CallHistory
<1>1. \A d : CallHistory(c, w, s, Q \cup {d}, g, r, p, n)
  OBVIOUS
<1>2. w.at = "greet" => CallHistory(c, w, s, Q, g \cup {w.name}, r, p, n)
  BY DEF FromGreeting, FromHangUp, FromRecord
<1>3. w.at = "hang_up" /\ p # "away" => CallHistory(c, w, s, Q, g, "deleted", "left", n)
  BY DEF FromQuestion, FromTurn, FromName, FromGreeting, FromHangUp, FromRecord
<1>4. w.at = "record" /\ n = NoName => CallHistory(c, w, s, Q, g, r, p, w.name)
  <2> SUFFICES ASSUME w.at = "record", n = NoName
               PROVE  CallHistory(c, w, s, Q, g, r, p, w.name)
    OBVIOUS
  <2>1. r = "deleted" /\ g # {} /\ w.name # NoName
    BY DEF FromGreeting, FromHangUp, FromRecord
  <2>2. g = {w.name}
    BY <2>1
  <2> QED BY <2>1, <2>2
<1>5. p # "left" => CallHistory(c, w, s, Q, g, r, "present", n)
  OBVIOUS
<1>6. CallHistory(c, w, s, Q, g, r, "left", n)
  OBVIOUS
<1> QED BY <1>1, <1>2, <1>3, <1>4, <1>5, <1>6

LEMMA HistoryResolved ==
    ASSUME NEW c, NEW w \in Flows, NEW Q, NEW g, NEW r, NEW p, NEW n,
           NEW s \in [joined : BOOLEAN, turn : Texts \cup {NoText}], NEW m \in Signals,
           CallHistory(c, w, s, Q, g, r, p, n), m.kind = "joined" => p # "away"
    PROVE  CallHistory(c, w, Resolved(s, m), Q, g, r, p, n)
<1> DEFINE t == Resolved(s, m)
<1>1. /\ s.joined => t.joined
      /\ t.joined => s.joined \/ m.kind = "joined"
      /\ s.turn # NoText => t.turn = s.turn
  BY SignalFields
<1> HIDE DEF t
<1>2. CallHistory(c, w, t, Q, g, r, p, n)
  BY <1>1 DEF CallHistory
<1> QED BY <1>2 DEF t

-------------------------------------------------------------------------------
(* The histories of all calls, over a step at one of them.                 *)

(* What a step at c leaves alone: the other calls. *)
Elsewhere(c) ==
    \A d \in Calls \ {c} :
        /\ flow'[d] = flow[d] /\ signal'[d] = signal[d] /\ greeted'[d] = greeted[d]
        /\ room'[d] = room[d] /\ person'[d] = person[d] /\ calls'[d] = calls[d]

LEMMA HistoriesAt ==
    ASSUME Histories, NEW c \in Calls, Elsewhere(c), asked' \in {asked, asked \cup {c}},
           CallHistory(c, flow'[c], signal'[c], asked', greeted'[c], room'[c], person'[c], calls'[c])
    PROVE  Histories'
<1>1. ASSUME NEW d \in Calls \ {c}
      PROVE  CallHistory(d, flow'[d], signal'[d], asked', greeted'[d], room'[d], person'[d],
                         calls'[d])
  <2>1. CallHistory(d, flow[d], signal[d], asked, greeted[d], room[d], person[d], calls[d])
    BY DEF Histories
  <2>2. CallHistory(d, flow[d], signal[d], asked', greeted[d], room[d], person[d], calls[d])
    BY <2>1 DEF CallHistory
  <2> QED BY <2>2 DEF Elsewhere
<1> QED BY <1>1 DEF Histories

(* An attempt at c's step, over its effect. *)
LEMMA HistoriesAttempted ==
    ASSUME TypeOK, Histories, NEW c \in Calls, Elsewhere(c), asked' \in {asked, asked \cup {c}},
           flow[c].at \in Running \ {"await_turn", "name"},
           flow'[c] = Advanced(flow[c]) \/ flow'[c] = Retried(flow[c]),
           CallHistory(c, flow[c], signal'[c], asked', greeted'[c], room'[c], person'[c], calls'[c]),
           flow[c].at = "await_joined" => signal'[c].joined,
           flow[c].at = "ask" => c \in asked', flow[c].at = "greet" => greeted'[c] # {},
           flow[c].at = "hang_up" => room'[c] = "deleted",
           flow[c].at = "record" => calls'[c] # NoName
    PROVE  Histories'
<1>1. flow[c] \in Flows
  BY Here
<1>2. CallHistory(c, Retried(flow[c]), signal'[c], asked', greeted'[c], room'[c], person'[c],
                  calls'[c])
  BY <1>1, HistoryRetried
<1>3. CallHistory(c, Advanced(flow[c]), signal'[c], asked', greeted'[c], room'[c], person'[c],
                  calls'[c])
  BY <1>1, HistoryAdvanced
<1> QED BY <1>2, <1>3, HistoriesAt

LEMMA AttemptsHere ==
    ASSUME TypeOK, NEW c \in Calls, Attempted(c)
    PROVE  /\ flow'[c] = Advanced(flow[c]) \/ flow'[c] = Retried(flow[c])
           /\ \A d \in Calls \ {c} : flow'[d] = flow[d]
BY Domains DEF Attempted

(* A step that raises, or whose attempt is lost, or that only starts, moves *)
(* nothing but its workflow.                                                *)
LEMMA HistoriesRetried ==
    ASSUME TypeOK, Histories, NEW c \in Calls, flow[c].at \in Running,
           flow' = [flow EXCEPT ![c] = Retried(@)],
           UNCHANGED <<signal, asked, greeted, room, person, calls>>
    PROVE  Histories'
<1>1. /\ flow'[c] = Retried(flow[c]) /\ flow[c] \in Flows
      /\ \A d \in Calls \ {c} : flow'[d] = flow[d]
  BY Domains
<1>2. CallHistory(c, flow'[c], signal[c], asked, greeted[c], room[c], person[c], calls[c])
  BY <1>1, Here, HistoryRetried
<1> QED BY <1>1, <1>2, HistoriesAt DEF Elsewhere

LEMMA HistoriesUnmoved ==
    ASSUME Histories, UNCHANGED <<flow, signal, asked, greeted, room, person, calls>>
    PROVE  Histories'
BY DEF Histories

LEMMA HistoriesFlowStep ==
    ASSUME TypeOK, Histories, SignalsAreSent, NEW c \in Calls, FlowStep(c)
    PROVE  Histories'
<1> DEFINE w == flow[c]
<1>0. /\ w \in Flows /\ signal[c] \in [joined : BOOLEAN, turn : Texts \cup {NoText}]
      /\ CallHistory(c, w, signal[c], asked, greeted[c], room[c], person[c], calls[c])
  BY Here
<1>1. CASE DialPerson(c)
  <2>1. Elsewhere(c) /\ UNCHANGED <<signal, asked, greeted, room, person, calls>>
    BY <1>1, AttemptsHere DEF DialPerson, Elsewhere, speechVars
  <2> QED BY <1>0, <1>1, <2>1, AttemptsHere, HistoriesAttempted, Steps DEF DialPerson
<1>2. CASE AwaitPersonJoined(c)
  <2>1. /\ Elsewhere(c) /\ UNCHANGED <<signal, asked, greeted, room, person, calls>>
        /\ flow'[c] = Advanced(w) /\ w.at = "await_joined" /\ signal[c].joined
    BY <1>2, Domains DEF AwaitPersonJoined, Elsewhere, roomVars, speechVars
  <2> QED BY <1>0, <2>1, HistoriesAttempted, Steps
<1>3. CASE AwaitPersonTurnCompleted(c)
  <2>1. /\ Elsewhere(c) /\ UNCHANGED <<signal, asked, greeted, room, person, calls>>
        /\ flow'[c] = [Advanced(w) EXCEPT !.heard = signal[c].turn]
        /\ w.at = "await_turn" /\ signal[c].turn # NoText
    BY <1>3, Domains DEF AwaitPersonTurnCompleted, Elsewhere, roomVars, speechVars
  <2>2. CallHistory(c, flow'[c], signal[c], asked, greeted[c], room[c], person[c], calls[c])
    BY <1>0, <2>1, HistoryHeard
  <2> QED BY <2>1, <2>2, HistoriesAt
<1>4. CASE PersonSaid(c)
  <2>1. /\ Elsewhere(c) /\ UNCHANGED <<signal, asked, greeted, room, person, calls>>
        /\ flow'[c] = [Advanced(w) EXCEPT !.name = NameOf[w.heard]]
        /\ w.at = "name" /\ NameOf[w.heard] # NoName
    BY <1>4, Domains DEF PersonSaid, Elsewhere, roomVars, speechVars
  <2>2. CallHistory(c, flow'[c], signal[c], asked, greeted[c], room[c], person[c], calls[c])
    BY <1>0, <2>1, HistoryNamed
  <2> QED BY <2>1, <2>2, HistoriesAt
<1>5. CASE PersonSaidNothing(c) \/ SayRefused(c) \/ (HangUpAgain(c) /\ Raise(c))
  BY <1>5, HistoriesRetried, Steps
     DEF PersonSaidNothing, SayRefused, HangUpAgain, Raise, roomVars, speechVars
<1>6. CASE SayQuestion(c)
  <2>1. /\ Elsewhere(c) /\ UNCHANGED <<signal, greeted, room, person, calls>>
        /\ w.at = "ask" /\ asked' = asked \cup {c} /\ Attempted(c)
    BY <1>6, AttemptsHere DEF SayQuestion, Elsewhere, roomVars
  <2>2. CallHistory(c, w, signal[c], asked', greeted[c], room[c], person[c], calls[c])
    BY <1>0, <2>1, HistoryEffects
  <2> QED BY <2>1, <2>2, AttemptsHere, HistoriesAttempted, Steps
<1>7. CASE SayGreeting(c)
  <2>1. /\ Elsewhere(c) /\ UNCHANGED <<signal, asked, room, person, calls>>
        /\ w.at = "greet" /\ greeted'[c] = greeted[c] \cup {w.name} /\ Attempted(c)
    BY <1>7, AttemptsHere, Domains DEF SayGreeting, Elsewhere, roomVars
  <2>2. CallHistory(c, w, signal[c], asked, greeted[c] \cup {w.name}, room[c], person[c],
                    calls[c])
    BY <1>0, <2>1, HistoryEffects
  <2> QED BY <2>1, <2>2, AttemptsHere, HistoriesAttempted, Steps
<1>8. CASE HangUp(c)
  <2>1. w.at = "hang_up" /\ signal[c].joined /\ person[c] # "away"
    BY <1>0, <1>8
       DEF HangUp, CallHistory, FromQuestion, FromTurn, FromName, FromGreeting, FromHangUp
  <2>2. /\ Elsewhere(c) /\ UNCHANGED <<signal, asked, greeted, calls>>
        /\ room'[c] = "deleted" /\ person'[c] = "left" /\ Attempted(c)
    BY <1>8, <2>1, AttemptsHere, Domains DEF HangUp, Elsewhere, speechVars
  <2>3. CallHistory(c, w, signal[c], asked, greeted[c], "deleted", "left", calls[c])
    BY <1>0, <2>1, HistoryEffects
  <2> QED BY <2>1, <2>2, <2>3, AttemptsHere, HistoriesAttempted, Steps
<1>9. CASE HangUpAgain(c) /\ ~Raise(c)
  <2>1. /\ Elsewhere(c) /\ UNCHANGED <<signal, asked, greeted, room, person, calls>>
        /\ w.at = "hang_up" /\ room[c] = "deleted" /\ Attempted(c)
    BY <1>9, AttemptsHere DEF HangUpAgain, Elsewhere, roomVars, speechVars
  <2> QED BY <1>0, <2>1, AttemptsHere, HistoriesAttempted, Steps
<1>10. CASE RecordCall(c)
  <2>1. /\ Elsewhere(c) /\ UNCHANGED <<signal, asked, greeted, room, person>>
        /\ w.at = "record" /\ Attempted(c)
        /\ calls'[c] = IF calls[c] = NoName THEN w.name ELSE calls[c]
    BY <1>10, AttemptsHere, Domains DEF RecordCall, Elsewhere, roomVars, speechVars
  <2>2. w.name # NoName
    BY <1>0, <2>1 DEF CallHistory, FromGreeting, FromHangUp, FromRecord
  <2>3. calls[c] = NoName =>
            CallHistory(c, w, signal[c], asked, greeted[c], room[c], person[c], w.name)
    BY <1>0, <2>1, HistoryEffects
  <2>4. CallHistory(c, w, signal[c], asked, greeted[c], room[c], person[c], calls'[c])
    BY <1>0, <2>1, <2>3
  <2> QED BY <2>1, <2>2, <2>4, AttemptsHere, HistoriesAttempted, Steps
<1>11. CASE AnswerCaller(c)
  BY <1>11, HistoriesUnmoved DEF AnswerCaller, roomVars, speechVars
<1> QED BY <1>1, <1>2, <1>3, <1>4, <1>5, <1>6, <1>7, <1>8, <1>9, <1>10, <1>11 DEF FlowStep

LEMMA HistoriesCallStep ==
    ASSUME TypeOK, Histories, SignalsAreSent, CallersWait, NEW c \in Calls, CallStep(c)
    PROVE  Histories'
<1>0. /\ flow[c] \in Flows
      /\ CallHistory(c, flow[c], signal[c], asked, greeted[c], room[c], person[c], calls[c])
  BY Here
<1>1. CASE FlowStep(c)
  BY <1>1, HistoriesFlowStep
<1>2. CASE AttemptLost(c)
  BY <1>2, HistoriesRetried DEF AttemptLost, roomVars, speechVars
<1>3. CASE IssueCallId(c)
  BY <1>3, HistoriesUnmoved DEF IssueCallId, roomVars, speechVars
<1>4. CASE ConductCall(c)
  <2> DEFINE v == [NotStarted EXCEPT !.at = "dial"]
  <2>1. flow[c] = NotStarted
    BY <1>0, <1>4 DEF ConductCall, CallersWait, CallHistory
  <2>2. /\ Elsewhere(c) /\ UNCHANGED <<signal, asked, greeted, room, person, calls>>
        /\ flow'[c] = v
    BY <1>4, <2>1, Domains DEF ConductCall, Elsewhere, roomVars, speechVars
  <2>3. v.at = "dial" /\ v.attempts = 0 /\ v.heard = NoText /\ v.name = NoName
    BY DEF NotStarted
  <2>4. 0 < MaxAttempts
    BY BoundsAssumption
  <2> HIDE DEF v
  <2>5. CallHistory(c, v, signal[c], asked, greeted[c], room[c], person[c], calls[c])
    BY <1>0, <2>1, <2>3, <2>4, NewFlow, Steps
       DEF CallHistory, FromQuestion, FromTurn, FromName, FromGreeting, FromHangUp, FromRecord
  <2> QED BY <2>2, <2>5, HistoriesAt
<1>5. CASE PersonEnters(c)
  <2>1. /\ Elsewhere(c) /\ UNCHANGED <<flow, signal, asked, greeted, room, calls>>
        /\ person[c] = "away" /\ person'[c] = "present"
    BY <1>5, Domains DEF PersonEnters, Elsewhere, engineVars, speechVars
  <2>2. CallHistory(c, flow[c], signal[c], asked, greeted[c], room[c], "present", calls[c])
    BY <1>0, <2>1, HistoryEffects
  <2> QED BY <2>1, <2>2, HistoriesAt
<1>6. CASE PersonLeaves(c)
  <2>1. /\ Elsewhere(c) /\ UNCHANGED <<flow, signal, asked, greeted, room, calls>>
        /\ person'[c] = "left"
    BY <1>6, Domains DEF PersonLeaves, Elsewhere, engineVars, speechVars
  <2>2. CallHistory(c, flow[c], signal[c], asked, greeted[c], room[c], "left", calls[c])
    BY <1>0, HistoryEffects
  <2> QED BY <2>1, <2>2, HistoriesAt
<1> QED BY <1>1, <1>2, <1>3, <1>4, <1>5, <1>6 DEF CallStep

LEMMA HistoriesJobStep ==
    ASSUME TypeOK, Histories, JobsAreDispatched, RoomsAreEmptied, NEW j \in Jobs, JobStep(j)
    PROVE  Histories'
<1>1. CASE ConnectJob(j)
  <2> DEFINE c == job[j].call
  <2>1. c \in Calls /\ room[c] # "deleted"
    BY <1>1 DEF ConnectJob, JobsAreDispatched, RoomsAreEmptied
  <2>2. /\ Elsewhere(c) /\ UNCHANGED <<flow, signal, asked, greeted, person, calls>>
        /\ room'[c] = "up"
    BY <1>1, <2>1, Domains DEF ConnectJob, Elsewhere, engineVars, speechVars
  <2> HIDE DEF c
  <2>3. /\ flow[c] \in Flows
        /\ CallHistory(c, flow[c], signal[c], asked, greeted[c], room[c], person[c], calls[c])
    BY <2>1, Here
  <2>4. CallHistory(c, flow[c], signal[c], asked, greeted[c], "up", person[c], calls[c])
    BY <2>1, <2>3 DEF CallHistory
  <2> QED BY <2>1, <2>2, <2>4, HistoriesAt
<1>2. CASE ~ConnectJob(j)
  BY <1>2, HistoriesUnmoved
     DEF JobStep, AcceptJob, StartSession, SendPersonJoined, JobDies, CompleteTurn,
         engineVars, roomVars, speechVars
<1> QED BY <1>1, <1>2

LEMMA HistoriesSignalStep ==
    ASSUME TypeOK, Histories, SignalsAreSent, SignalStep
    PROVE  Histories'
<1>1. PICK m \in wire : DeliverSignal(m) \/ LoseSignal(m)
  BY DEF SignalStep
<1> DEFINE c == m.call
<1>2. m \in Signals /\ c \in Calls /\ flow[c].at # "absent"
      /\ (m.kind = "joined" => person[c] # "away")
  BY Domains DEF Signals, SignalsAreSent
<1>3. CASE LoseSignal(m)
  BY <1>3, HistoriesUnmoved DEF LoseSignal, engineVars, roomVars, speechVars
<1>4. CASE DeliverSignal(m)
  <2>1. /\ Elsewhere(c) /\ UNCHANGED <<flow, asked, greeted, room, person, calls>>
        /\ signal'[c] = Resolved(signal[c], m)
    BY <1>2, <1>4, Domains DEF DeliverSignal, Elsewhere, roomVars, speechVars
  <2> HIDE DEF c
  <2>2. CallHistory(c, flow[c], signal'[c], asked, greeted[c], room[c], person[c], calls[c])
    BY <1>2, <2>1, Here, HistoryResolved
  <2> QED BY <1>2, <2>1, <2>2, HistoriesAt
<1> QED BY <1>1, <1>3, <1>4

-------------------------------------------------------------------------------
(* The callers, the jobs, the signals on the wire and the rooms.           *)

(* A step of a workflow moves that workflow, which is neither before its   *)
(* start nor behind its end, and puts it neither there.                    *)
LEMMA WorkflowMoves ==
    ASSUME NEW w \in Flows, NEW v, w.at \in Running,
           \/ v = Advanced(w) \/ v = Retried(w)
           \/ \E text : v = [Advanced(w) EXCEPT !.heard = text]
           \/ \E n : v = [Advanced(w) EXCEPT !.name = n]
    PROVE  v.at # "absent"
<1>1. v = Advanced(w) => v.at # "absent"
  BY FlowFields, Steps
<1>2. v = Retried(w) => v.at # "absent"
  BY FlowFields, Steps
<1>3. (\E text : v = [Advanced(w) EXCEPT !.heard = text]) => v.at # "absent"
  BY FlowFields, Steps
<1>4. (\E n : v = [Advanced(w) EXCEPT !.name = n]) => v.at # "absent"
  BY FlowFields, Steps
<1> QED BY <1>1, <1>2, <1>3, <1>4

LEMMA FlowStepMoves ==
    ASSUME TypeOK, NEW c \in Calls, FlowStep(c) \/ AttemptLost(c)
    PROVE  /\ \A d \in Calls \ {c} : flow'[d] = flow[d]
           /\ flow[c].at # "absent" /\ flow'[c].at # "absent"
           /\ \/ AnswerCaller(c) /\ flow' = flow
              \/ caller' = caller /\ flow[c].at \in Running
           /\ UNCHANGED <<signal, wire, refused>>
<1> DEFINE w == flow[c]
           v == flow'[c]
<1>0. flow \in [Calls -> Flows] /\ w \in Flows
  BY Domains
<1>1. CASE AnswerCaller(c)
  BY <1>0, <1>1 DEF AnswerCaller, roomVars
<1>2. CASE DialPerson(c) \/ SayQuestion(c) \/ SayGreeting(c) \/ HangUp(c) \/ RecordCall(c)
  <2>1. Attempted(c) /\ w.at \in Running /\ UNCHANGED <<caller, signal, wire, refused>>
    BY <1>2, Steps DEF DialPerson, SayQuestion, SayGreeting, HangUp, RecordCall
  <2> QED BY <1>0, <2>1, WorkflowMoves, Steps DEF Attempted
<1>3. CASE HangUpAgain(c)
  <2>1. /\ Attempted(c) \/ flow' = [flow EXCEPT ![c] = Retried(@)]
        /\ w.at \in Running /\ UNCHANGED <<caller, signal, wire, refused>>
    BY <1>3, Steps DEF HangUpAgain, Raise
  <2> QED BY <1>0, <2>1, WorkflowMoves, Steps DEF Attempted
<1>4. CASE PersonSaidNothing(c) \/ SayRefused(c) \/ AttemptLost(c)
  <2>1. /\ flow' = [flow EXCEPT ![c] = Retried(@)]
        /\ w.at \in Running /\ UNCHANGED <<caller, signal, wire, refused>>
    BY <1>4, Steps DEF PersonSaidNothing, SayRefused, AttemptLost, Raise
  <2> QED BY <1>0, <2>1, WorkflowMoves, Steps
<1>5. CASE AwaitPersonJoined(c)
  <2>1. /\ flow' = [flow EXCEPT ![c] = Advanced(@)]
        /\ w.at \in Running /\ UNCHANGED <<caller, signal, wire, refused>>
    BY <1>5, Steps DEF AwaitPersonJoined
  <2> QED BY <1>0, <2>1, WorkflowMoves, Steps
<1>6. CASE AwaitPersonTurnCompleted(c)
  <2>1. /\ flow' = [flow EXCEPT ![c] = [Advanced(@) EXCEPT !.heard = signal[c].turn]]
        /\ w.at \in Running /\ UNCHANGED <<caller, signal, wire, refused>>
    BY <1>6, Steps DEF AwaitPersonTurnCompleted
  <2> QED BY <1>0, <2>1, WorkflowMoves, Steps
<1>7. CASE PersonSaid(c)
  <2>1. /\ flow' = [flow EXCEPT ![c] = [Advanced(@) EXCEPT !.name = NameOf[flow[c].heard]]]
        /\ w.at \in Running /\ UNCHANGED <<caller, signal, wire, refused>>
    BY <1>7, Steps DEF PersonSaid
  <2> QED BY <1>0, <2>1, WorkflowMoves, Steps
<1> QED BY <1>1, <1>2, <1>3, <1>4, <1>5, <1>6, <1>7 DEF FlowStep

(* A workflow that has started never is absent again. *)
FlowsGoOn == \A c \in Calls : flow[c].at # "absent" => flow'[c].at # "absent"

LEMMA CallsGoOn ==
    ASSUME TypeOK, NEW c \in Calls, CallStep(c)
    PROVE  FlowsGoOn
<1>1. CASE FlowStep(c) \/ AttemptLost(c)
  BY <1>1, FlowStepMoves DEF FlowsGoOn
<1>2. CASE ConductCall(c)
  BY <1>2, Domains DEF ConductCall, FlowsGoOn, Flows
<1>3. CASE IssueCallId(c) \/ PersonEnters(c) \/ PersonLeaves(c)
  BY <1>3 DEF IssueCallId, PersonEnters, PersonLeaves, FlowsGoOn, engineVars
<1> QED BY <1>1, <1>2, <1>3 DEF CallStep

LEMMA CallersStepOn ==
    ASSUME TypeOK, CallersWait, NEW c \in Calls, CallStep(c)
    PROVE  CallersWait'
<1>1. CASE FlowStep(c) \/ AttemptLost(c)
  <2>1. /\ \A d \in Calls \ {c} : flow'[d] = flow[d]
        /\ flow[c].at # "absent" /\ flow'[c].at # "absent"
        /\ \/ AnswerCaller(c) /\ flow' = flow
           \/ caller' = caller /\ flow[c].at \in Running
    BY <1>1, FlowStepMoves
  <2>2. CASE AnswerCaller(c)
    BY <2>2, Domains DEF AnswerCaller, CallersWait
  <2>3. CASE caller' = caller /\ flow[c].at \in Running
    BY <2>1, <2>3, Steps DEF CallersWait
  <2> QED BY <2>1, <2>2, <2>3
<1>2. CASE ConductCall(c)
  <2>1. /\ flow'[c].at = "dial" /\ \A d \in Calls \ {c} : flow'[d] = flow[d]
        /\ caller'[c] = "waiting" /\ \A d \in Calls \ {c} : caller'[d] = caller[d]
    BY <1>2, Domains DEF ConductCall, Flows
  <2> QED BY <2>1 DEF CallersWait
<1>3. CASE IssueCallId(c)
  BY <1>3, Domains DEF IssueCallId, CallersWait
<1>4. CASE PersonEnters(c) \/ PersonLeaves(c)
  BY <1>4 DEF PersonEnters, PersonLeaves, CallersWait, engineVars
<1> QED BY <1>1, <1>2, <1>3, <1>4 DEF CallStep

(* The jobs a step of a call touches: the one it dispatches, those its room *)
(* held when the line was dropped, those whose session closed.              *)
LEMMA WhoTouchesJobs ==
    ASSUME NEW c \in Calls, CallStep(c)
    PROVE  DialPerson(c) \/ HangUp(c) \/ PersonLeaves(c) \/ job' = job
BY DEF CallStep, FlowStep, IssueCallId, ConductCall, AnswerCaller, AwaitPersonJoined,
       AwaitPersonTurnCompleted, PersonSaid, PersonSaidNothing, SayQuestion, SayGreeting,
       SayRefused, Raise, HangUpAgain, RecordCall, AttemptLost, PersonEnters, roomVars

LEMMA JobsCallStep ==
    ASSUME TypeOK, JobsAreDispatched, NEW c \in Calls, CallStep(c)
    PROVE  JobsAreDispatched'
<1>0. FlowsGoOn
  BY CallsGoOn
<1>1. CASE job' = job
  BY <1>0, <1>1 DEF JobsAreDispatched, FlowsGoOn
<1>2. CASE DialPerson(c)
  <2>1. PICK j \in Jobs : job' = [job EXCEPT ![j] = [call |-> c, at |-> "dispatched"]]
    BY <1>2 DEF DialPerson
  <2>2. flow'[c].at # "absent"
    BY <1>2, FlowStepMoves DEF FlowStep
  <2>3. job'[j] = [call |-> c, at |-> "dispatched"] /\ \A i \in Jobs \ {j} : job'[i] = job[i]
    BY <2>1, Domains
  <2> QED BY <1>0, <2>2, <2>3 DEF JobsAreDispatched, FlowsGoOn
<1>3. CASE HangUp(c)
  <2>1. \A j \in Jobs : job'[j] = IF job[j].call = c THEN [job[j] EXCEPT !.at = "gone"] ELSE job[j]
    BY <1>3 DEF HangUp
  <2>2. \A j \in Jobs : job[j].call = c => job'[j].call = c /\ job'[j].at = "gone"
    BY <2>1, Domains, ZenonT(60)
  <2>3. \A j \in Jobs : job[j].call # c => job'[j] = job[j]
    BY <2>1
  <2>4. flow'[c].at # "absent"
    BY <1>3, FlowStepMoves DEF FlowStep
  <2> QED BY <1>0, <2>2, <2>3, <2>4 DEF JobsAreDispatched, FlowsGoOn
<1>4. CASE PersonLeaves(c)
  <2>1. \A j \in Jobs : \/ job'[j] = job[j]
                        \/ /\ job'[j].call = job[j].call /\ job'[j].at = "closed"
                           /\ job[j].at \in {"listening", "attending"}
    BY <1>4, Domains DEF PersonLeaves, Speaking
  <2> QED BY <1>0, <2>1 DEF JobsAreDispatched, FlowsGoOn
<1> QED BY <1>1, <1>2, <1>3, <1>4, WhoTouchesJobs

(* What a step of a job does to the jobs: its own moves on, and the others *)
(* of the call it joins are gone.                                          *)
LEMMA JobsMove ==
    ASSUME TypeOK, NEW j \in Jobs, JobStep(j)
    PROVE  /\ \A i \in Jobs : job'[i].call = job[i].call
           /\ job[j].at \notin {"idle", "gone"} /\ job'[j].at # "idle"
           /\ \A i \in Jobs \ {j} :
                 \/ job'[i].at = job[i].at
                 \/ /\ job'[i].at = "gone" /\ job[i].call = job[j].call /\ job[i].at # "idle"
                    /\ ConnectJob(j)
<1>0. job \in [Jobs -> [call : Calls \cup {NoCall}, at : JobStates]]
  BY Domains
<1>1. CASE ConnectJob(j)
  <2>1. \A i \in Jobs : job'[i] =
                IF i = j THEN [job[i] EXCEPT !.at = "connected"]
                ELSE IF /\ job[i].call = job[j].call
                        /\ job[i].at \in {"connected", "listening", "attending", "closed"}
                     THEN [job[i] EXCEPT !.at = "gone"]
                     ELSE job[i]
    BY <1>1 DEF ConnectJob
  <2>2. job[j].at = "accepted"
    BY <1>1 DEF ConnectJob
  <2> QED BY <1>0, <1>1, <2>1, <2>2
<1>2. ASSUME NEW at, Become(j, at)
      PROVE  /\ \A i \in Jobs : job'[i].call = job[i].call
             /\ job'[j].at = at /\ \A i \in Jobs \ {j} : job'[i].at = job[i].at
  BY <1>0, <1>2 DEF Become
<1>3. CASE AcceptJob(j) \/ StartSession(j) \/ SendPersonJoined(j) \/ JobDies(j)
  <2>1. /\ job[j].at \notin {"idle", "gone"}
        /\ \E at \in {"accepted", "listening", "attending", "gone"} : Become(j, at)
    BY <1>3 DEF AcceptJob, StartSession, SendPersonJoined, JobDies
  <2> QED BY <1>2, <2>1
<1>4. CASE \E text \in Texts : CompleteTurn(j, text)
  BY <1>4 DEF CompleteTurn, roomVars
<1> QED BY <1>1, <1>3, <1>4 DEF JobStep

LEMMA JobsJobStep ==
    ASSUME TypeOK, JobsAreDispatched, NEW j \in Jobs, JobStep(j)
    PROVE  JobsAreDispatched'
<1>1. flow' = flow
  BY DEF JobStep, AcceptJob, ConnectJob, StartSession, SendPersonJoined, JobDies,
         CompleteTurn, engineVars
<1> QED BY <1>1, JobsMove DEF JobsAreDispatched

LEMMA SignalsCallStep ==
    ASSUME TypeOK, SignalsAreSent, NEW c \in Calls, CallStep(c)
    PROVE  SignalsAreSent' /\ refused' = refused /\ wire' = wire /\ signal' = signal
<1>1. FlowsGoOn
  BY CallsGoOn
<1>2. wire' = wire /\ refused' = refused /\ signal' = signal
  BY DEF CallStep, FlowStep, IssueCallId, ConductCall, AnswerCaller, DialPerson,
         AwaitPersonJoined, AwaitPersonTurnCompleted, PersonSaid, PersonSaidNothing,
         SayQuestion, SayGreeting, SayRefused, Raise, HangUp, HangUpAgain, RecordCall,
         AttemptLost, PersonEnters, PersonLeaves, engineVars
<1>3. \A d \in Calls : person[d] # "away" => person'[d] # "away"
  BY Domains
     DEF CallStep, FlowStep, IssueCallId, ConductCall, AnswerCaller, DialPerson,
         AwaitPersonJoined, AwaitPersonTurnCompleted, PersonSaid, PersonSaidNothing,
         SayQuestion, SayGreeting, SayRefused, Raise, HangUp, HangUpAgain, RecordCall,
         AttemptLost, PersonEnters, PersonLeaves, roomVars
<1>4. \A m \in wire : m.call \in Calls
  BY Domains DEF Signals
<1> QED BY <1>1, <1>2, <1>3, <1>4 DEF SignalsAreSent, FlowsGoOn

LEMMA SignalsJobStep ==
    ASSUME TypeOK, SignalsAreSent, JobsAreDispatched, NEW j \in Jobs, JobStep(j)
    PROVE  SignalsAreSent' /\ UNCHANGED <<caller, flow, refused, person, signal>>
<1>1. UNCHANGED <<caller, flow, refused, person, signal>>
  BY DEF JobStep, AcceptJob, ConnectJob, StartSession, SendPersonJoined, JobDies,
         CompleteTurn, engineVars, roomVars
<1>2. job[j].at # "idle" => flow[job[j].call].at # "absent"
  BY DEF JobsAreDispatched
<1>3. CASE SendPersonJoined(j)
  BY <1>1, <1>2, <1>3 DEF SendPersonJoined, Joined, SignalsAreSent
<1>4. CASE \E text \in Texts : CompleteTurn(j, text)
  BY <1>1, <1>2, <1>4 DEF CompleteTurn, TurnOf, SignalsAreSent
<1>5. CASE wire' = wire
  BY <1>1, <1>5 DEF SignalsAreSent
<1>6. CASE AcceptJob(j) \/ ConnectJob(j) \/ StartSession(j) \/ JobDies(j)
  BY <1>5, <1>6 DEF AcceptJob, ConnectJob, StartSession, JobDies
<1> QED BY <1>3, <1>4, <1>6, <1>1 DEF JobStep

LEMMA SignalsSignalStep ==
    ASSUME TypeOK, SignalsAreSent, SignalStep
    PROVE  SignalsAreSent' /\ refused' = refused
           /\ UNCHANGED <<caller, flow, person, room, job>> /\ wire' \subseteq wire
<1>1. PICK m \in wire : DeliverSignal(m) \/ LoseSignal(m)
  BY DEF SignalStep
<1>2. flow[m.call].at # "absent"
  BY DEF SignalsAreSent
<1>3. UNCHANGED <<caller, flow, refused, person, room, job>> /\ wire' = wire \ {m}
  BY <1>1, <1>2 DEF DeliverSignal, LoseSignal, engineVars, roomVars
<1> QED BY <1>3 DEF SignalsAreSent

LEMMA RoomsCallStep ==
    ASSUME TypeOK, Histories, JobsAreDispatched, RoomsAreEmptied, NEW c \in Calls, CallStep(c)
    PROVE  RoomsAreEmptied'
<1>1. CASE HangUp(c)
  <2>1. /\ \A j \in Jobs : job'[j] = IF job[j].call = c THEN [job[j] EXCEPT !.at = "gone"] ELSE job[j]
        /\ \A d \in Calls \ {c} : room'[d] = room[d]
    BY <1>1, Domains DEF HangUp
  <2>2. \A j \in Jobs : job[j].call = c => job'[j].call = c /\ job'[j].at = "gone"
    BY <2>1, Domains, ZenonT(60)
  <2>3. \A j \in Jobs : job[j].call # c => job'[j] = job[j]
    BY <2>1
  <2>4. \A d \in Calls \ {c} : room'[d] = room[d]
    BY <2>1
  <2> QED BY <2>2, <2>3, <2>4 DEF RoomsAreEmptied
<1>2. CASE DialPerson(c)
  <2>1. room' = room /\ room[c] # "deleted"
    BY <1>2, Here DEF DialPerson, CallHistory, FromHangUp, FromRecord
  <2>2. PICK j \in Jobs : job' = [job EXCEPT ![j] = [call |-> c, at |-> "dispatched"]]
    BY <1>2 DEF DialPerson
  <2>3. job'[j] = [call |-> c, at |-> "dispatched"] /\ \A i \in Jobs \ {j} : job'[i] = job[i]
    BY <2>2, Domains
  <2> QED BY <2>1, <2>3 DEF RoomsAreEmptied
<1>3. CASE PersonLeaves(c)
  <2>1. /\ room' = room
        /\ \A j \in Jobs : \/ job'[j] = job[j]
                           \/ /\ job'[j].call = job[j].call
                              /\ job[j].at \in {"listening", "attending"}
    BY <1>3, Domains DEF PersonLeaves, Speaking
  <2> QED BY <2>1 DEF RoomsAreEmptied
<1>4. CASE ~HangUp(c) /\ ~DialPerson(c) /\ ~PersonLeaves(c)
  <2>1. room' = room /\ job' = job
    BY <1>4
       DEF CallStep, FlowStep, IssueCallId, ConductCall, AnswerCaller, AwaitPersonJoined,
           AwaitPersonTurnCompleted, PersonSaid, PersonSaidNothing, SayQuestion, SayGreeting,
           SayRefused, Raise, HangUpAgain, RecordCall, AttemptLost, PersonEnters, roomVars
  <2> QED BY <2>1 DEF RoomsAreEmptied
<1> QED BY <1>1, <1>2, <1>3, <1>4

LEMMA RoomsJobStep ==
    ASSUME TypeOK, JobsAreDispatched, RoomsAreEmptied, NEW j \in Jobs, JobStep(j)
    PROVE  RoomsAreEmptied'
<1>1. \A c \in Calls : room'[c] = "deleted" => room[c] = "deleted"
  BY Domains
     DEF JobStep, AcceptJob, ConnectJob, StartSession, SendPersonJoined, JobDies,
         CompleteTurn, roomVars
<1> QED BY <1>1, JobsMove DEF RoomsAreEmptied

-------------------------------------------------------------------------------
(* Pauses have a cause, and a call that lost nothing keeps its one job.    *)

(* Faults are only ever added, and who left stays away.                    *)
LEMMA CallStepGrows ==
    ASSUME TypeOK, NEW c \in Calls, CallStep(c)
    PROVE  /\ faults \in Nat /\ faults' \in {faults, faults + 1}
           /\ \A d \in Calls : person[d] = "left" => person'[d] = "left"
           /\ \A d \in Calls \ {c} : person'[d] = person[d]
<1>1. faults \in Nat
  BY Domains
<1>2. faults' \in {faults, faults + 1}
  BY DEF CallStep, FlowStep, IssueCallId, ConductCall, AnswerCaller, DialPerson,
         AwaitPersonJoined, AwaitPersonTurnCompleted, PersonSaid, PersonSaidNothing,
         SayQuestion, SayGreeting, SayRefused, Raise, HangUp, HangUpAgain, RecordCall,
         AttemptLost, PersonEnters, PersonLeaves, Attempted
<1>3. /\ \A d \in Calls : person[d] = "left" => person'[d] = "left"
      /\ \A d \in Calls \ {c} : person'[d] = person[d]
  BY Domains
     DEF CallStep, FlowStep, IssueCallId, ConductCall, AnswerCaller, DialPerson,
         AwaitPersonJoined, AwaitPersonTurnCompleted, PersonSaid, PersonSaidNothing,
         SayQuestion, SayGreeting, SayRefused, Raise, HangUp, HangUpAgain, RecordCall,
         AttemptLost, PersonEnters, PersonLeaves, roomVars
<1> QED BY <1>1, <1>2, <1>3

LEMMA AdvancedRuns ==
    ASSUME NEW w \in Flows, w.at \in Running
    PROVE  /\ Advanced(w).at \notin {"absent", "dial", "paused"}
           /\ Retried(w).at \in {w.at, "paused"}
           /\ \A text : [Advanced(w) EXCEPT !.heard = text].at = Advanced(w).at
           /\ \A n : [Advanced(w) EXCEPT !.name = n].at = Advanced(w).at
BY FlowFields, Steps

(* What one attempt does to its workflow where nothing is lost.            *)
LEMMA AttemptedWell ==
    ASSUME TypeOK, NEW c \in Calls, flow[c].at \in Running, Attempted(c)
    PROVE  flow'[c] = Advanced(flow[c]) \/ faults' > 0
<1>1. faults \in Nat
  BY Domains
<1> QED BY <1>1, Domains DEF Attempted

(* Only a step of the workflow that is running pauses it.                  *)
LEMMA PauseStarts ==
    ASSUME TypeOK, Histories, FaultFree, NEW c \in Calls, FlowStep(c) \/ AttemptLost(c),
           flow[c].at \in Running, flow'[c].at = "paused"
    PROVE  \/ faults' > 0
           \/ person'[c] = "left"
           \/ flow'[c].heard # NoText /\ NameOf[flow'[c].heard] = NoName
<1> DEFINE w == flow[c]
<1>0. /\ w \in Flows /\ faults \in Nat
      /\ CallHistory(c, w, signal[c], asked, greeted[c], room[c], person[c], calls[c])
      /\ Advanced(w).at # "paused"
  BY Here, Domains, AdvancedRuns
<1>1. CASE Attempted(c)
  BY <1>0, <1>1, AttemptedWell
<1>2. CASE AttemptLost(c)
  BY <1>0, <1>2 DEF AttemptLost
<1>3. CASE AwaitPersonJoined(c) \/ AwaitPersonTurnCompleted(c) \/ PersonSaid(c)
  <2>1. \/ flow'[c] = Advanced(w)
        \/ \E text : flow'[c] = [Advanced(w) EXCEPT !.heard = text]
        \/ \E n : flow'[c] = [Advanced(w) EXCEPT !.name = n]
    BY <1>3, Domains DEF AwaitPersonJoined, AwaitPersonTurnCompleted, PersonSaid
  <2> HIDE DEF w
  <2>2. flow'[c].at = Advanced(w).at
    BY <1>0, <2>1, AdvancedRuns, ZenonT(60) DEF w
  <2> QED BY <1>0, <2>2
<1>4. CASE PersonSaidNothing(c)
  <2>1. w.at = "name" /\ NameOf[w.heard] = NoName /\ flow'[c] = Retried(w)
    BY <1>4, Domains DEF PersonSaidNothing, Raise
  <2>2. w.heard # NoText
    BY <1>0, <2>1 DEF CallHistory, FromName
  <2>3. flow'[c].heard = w.heard
    BY <1>0, <2>1, FlowFields
  <2> QED BY <2>1, <2>2, <2>3
<1>5. CASE SayRefused(c)
  <2>1. w.at \in {"ask", "greet"} /\ Speaking(c) = {} /\ faults' = faults /\ person' = person
    BY <1>5 DEF SayRefused, Raise, roomVars
  <2>2. signal[c].joined
    BY <1>0, <2>1 DEF CallHistory, FromQuestion, FromTurn, FromName, FromGreeting
  <2>3. CASE faults = 0 /\ person[c] # "left"
    <3>1. PICK j \in Jobs : job[j].call = c /\ job[j].at = "attending"
      BY <2>2, <2>3 DEF FaultFree, Met
    <3> QED BY <2>1, <3>1 DEF Speaking
  <2> QED BY <1>0, <2>1, <2>3
<1>6. CASE HangUpAgain(c) /\ Raise(c)
  BY <1>0, <1>6 DEF HangUpAgain, Raise, CallHistory, roomVars
<1> QED BY <1>1, <1>2, <1>3, <1>4, <1>5, <1>6, Steps
        DEF FlowStep, DialPerson, SayQuestion, SayGreeting, HangUp, HangUpAgain, RecordCall,
            AnswerCaller

LEMMA PausesCallStep ==
    ASSUME TypeOK, Histories, CallersWait, FaultFree, PauseHasACause, NEW c \in Calls, CallStep(c)
    PROVE  PauseHasACause'
<1>1. /\ faults \in Nat /\ faults' \in {faults, faults + 1}
      /\ \A d \in Calls : person[d] = "left" => person'[d] = "left"
  BY CallStepGrows
<1>2. ASSUME NEW d \in Calls, flow'[d] = flow[d], flow'[d].at = "paused"
      PROVE  \/ faults' > 0
             \/ person'[d] = "left"
             \/ flow'[d].heard # NoText /\ NameOf[flow'[d].heard] = NoName
  BY <1>1, <1>2 DEF PauseHasACause
<1>3. CASE FlowStep(c) \/ AttemptLost(c)
  <2>1. /\ \A d \in Calls \ {c} : flow'[d] = flow[d]
        /\ flow' = flow \/ flow[c].at \in Running
    BY <1>3, FlowStepMoves
  <2>2. \A d \in Calls : flow'[d] = flow[d] \/ (d = c /\ flow[c].at \in Running)
    BY <2>1
  <2> QED BY <1>2, <1>3, <2>2, PauseStarts DEF PauseHasACause
<1>4. CASE ConductCall(c)
  <2>1. flow'[c].at = "dial" /\ \A d \in Calls \ {c} : flow'[d] = flow[d]
    BY <1>4, Domains DEF ConductCall, Flows
  <2> QED BY <1>2, <2>1 DEF PauseHasACause
<1>5. CASE IssueCallId(c) \/ PersonEnters(c) \/ PersonLeaves(c)
  <2>1. flow' = flow
    BY <1>5 DEF IssueCallId, PersonEnters, PersonLeaves, engineVars
  <2> QED BY <1>2, <2>1 DEF PauseHasACause
<1> QED BY <1>3, <1>4, <1>5 DEF CallStep

(* No step puts a call before its dial, and no step but the person's or    *)
(* the jobs' changes whom a call has met.                                  *)
LEMMA CallStepDials ==
    ASSUME TypeOK, Histories, CallersWait, NEW c \in Calls, CallStep(c), faults = 0, faults' = 0
    PROVE  \A d \in Calls : Undialled(d)' => Undialled(d)
<1>1. CASE FlowStep(c) \/ AttemptLost(c)
  <2>1. /\ \A d \in Calls \ {c} : flow'[d] = flow[d]
        /\ flow'[c].at # "absent"
        /\ flow' = flow \/ flow[c].at \in Running
    BY <1>1, FlowStepMoves
  <2>2. ASSUME flow'[c].at = "dial", flow[c].at \in Running
        PROVE  flow[c].at = "dial"
    <3> DEFINE w == flow[c]
    <3>1. w \in Flows /\ Advanced(w).at # "dial" /\ (Retried(w).at = "dial" => w.at = "dial")
      BY <2>2, Domains, AdvancedRuns
    <3>2. \/ flow'[c] = w \/ flow'[c] = Retried(w) \/ flow'[c] = Advanced(w)
          \/ \E text : flow'[c] = [Advanced(w) EXCEPT !.heard = text]
          \/ \E n : flow'[c] = [Advanced(w) EXCEPT !.name = n]
      BY <1>1, Domains
         DEF FlowStep, AnswerCaller, DialPerson, AwaitPersonJoined, AwaitPersonTurnCompleted,
             PersonSaid, PersonSaidNothing, SayQuestion, SayGreeting, SayRefused, Raise, HangUp,
             HangUpAgain, RecordCall, AttemptLost, Attempted
    <3> HIDE DEF w
    <3> QED BY <2>2, <3>1, <3>2, AdvancedRuns, ZenonT(60) DEF w
  <2> QED BY <2>1, <2>2 DEF Undialled
<1>2. CASE ConductCall(c)
  <2>1. flow[c].at = "absent" /\ \A d \in Calls \ {c} : flow'[d] = flow[d]
    BY <1>2, Domains DEF ConductCall, CallersWait
  <2> QED BY <2>1 DEF Undialled
<1>3. CASE IssueCallId(c) \/ PersonEnters(c) \/ PersonLeaves(c)
  BY <1>3 DEF IssueCallId, PersonEnters, PersonLeaves, engineVars, Undialled
<1> QED BY <1>1, <1>2, <1>3 DEF CallStep

LEMMA FaultFreeCallStep ==
    ASSUME TypeOK, Histories, CallersWait, JobsAreDispatched, SignalsAreSent, FaultFree,
           NEW c \in Calls, CallStep(c)
    PROVE  FaultFree'
<1> SUFFICES ASSUME faults' = 0
             PROVE  FaultFree'
  BY DEF FaultFree
<1>0. /\ faults = 0 /\ wire' = wire /\ signal' = signal
      /\ \A d \in Calls : person[d] = "left" => person'[d] = "left"
      /\ \A d \in Calls \ {c} : person'[d] = person[d]
  BY CallStepGrows, SignalsCallStep
<1>1. \A d \in Calls : Undialled(d)' => Undialled(d)
  BY <1>0, CallStepDials
<1>2. \A d \in Calls : Met(d)' = Met(d)
  BY <1>0 DEF Met
<1>3. /\ \A d \in Calls : Undialled(d) => \A j \in Jobs : job[j].call # d
      /\ \A d \in Calls : \A i, j \in Jobs : job[i].call = d /\ job[j].call = d => i = j
      /\ \A d \in Calls : Met(d) /\ person[d] # "left" =>
                \E j \in Jobs : job[j].call = d /\ job[j].at = "attending"
  BY <1>0 DEF FaultFree
<1>4. CASE job' = job
  <2>1. \A d \in Calls : Undialled(d)' => \A j \in Jobs : job'[j].call # d
    BY <1>1, <1>3, <1>4
  <2>2. \A d \in Calls : \A i, j \in Jobs : job'[i].call = d /\ job'[j].call = d => i = j
    BY <1>3, <1>4
  <2>3. \A d \in Calls : Met(d)' /\ person'[d] # "left" =>
            \E j \in Jobs : job'[j].call = d /\ job'[j].at = "attending"
    BY <1>0, <1>2, <1>3, <1>4
  <2> QED BY <2>1, <2>2, <2>3 DEF FaultFree
<1>5. CASE HangUp(c) \/ PersonLeaves(c)
  <2>1. /\ HangUp(c) =>
               \A j \in Jobs : /\ job'[j].call = job[j].call
                               /\ job[j].call # c => job'[j] = job[j]
        /\ HangUp(c) /\ person[c] # "away" => person'[c] = "left"
    BY Domains DEF HangUp
  <2>2. /\ PersonLeaves(c) =>
               \A j \in Jobs : /\ job'[j].call = job[j].call
                               /\ job[j].call # c => job'[j] = job[j]
        /\ PersonLeaves(c) => person'[c] = "left"
    BY Domains DEF PersonLeaves, Speaking
  <2>3. HangUp(c) => person[c] # "away"
    BY Here DEF HangUp, CallHistory, FromQuestion, FromTurn, FromName, FromGreeting, FromHangUp
  <2>4. /\ person'[c] = "left"
        /\ \A j \in Jobs : job'[j].call = job[j].call
        /\ \A j \in Jobs : job[j].call # c => job'[j] = job[j]
    BY <1>5, <2>1, <2>2, <2>3
  <2>5. \A d \in Calls : Undialled(d)' => \A j \in Jobs : job'[j].call # d
    BY <1>1, <1>3, <2>4
  <2>6. \A d \in Calls : \A i, j \in Jobs : job'[i].call = d /\ job'[j].call = d => i = j
    BY <1>3, <2>4
  <2>7. \A d \in Calls : Met(d)' /\ person'[d] # "left" =>
            \E j \in Jobs : job'[j].call = d /\ job'[j].at = "attending"
    BY <1>0, <1>2, <1>3, <2>4
  <2> QED BY <2>5, <2>6, <2>7 DEF FaultFree
<1>6. CASE DialPerson(c)
  <2>1. flow[c].at = "dial" /\ flow[c].at \in Running /\ Attempted(c) /\ person' = person
    BY <1>6, Steps DEF DialPerson
  <2>2. PICK j \in Jobs : /\ job[j].at = "idle"
                          /\ job' = [job EXCEPT ![j] = [call |-> c, at |-> "dispatched"]]
    BY <1>6 DEF DialPerson
  <2>3. job'[j] = [call |-> c, at |-> "dispatched"] /\ \A i \in Jobs \ {j} : job'[i] = job[i]
    BY <2>2, Domains
  <2>4. Undialled(c) /\ ~Undialled(c)'
    <3>1. flow'[c] = Advanced(flow[c])
      BY <2>1, AttemptedWell
    <3>2. Advanced(flow[c]).at \notin {"absent", "dial"}
      BY <2>1, Domains, AdvancedRuns
    <3> QED BY <2>1, <3>1, <3>2 DEF Undialled
  <2>5. job[j].call = NoCall /\ \A i \in Jobs : job[i].call # c
    BY <1>3, <2>2, <2>4 DEF JobsAreDispatched
  <2>6. \A d \in Calls : Undialled(d)' => \A i \in Jobs : job'[i].call # d
    BY <1>1, <1>3, <2>3, <2>4
  <2>7. \A d \in Calls : \A i, k \in Jobs : job'[i].call = d /\ job'[k].call = d => i = k
    BY <1>3, <2>3, <2>5
  <2>8. \A d \in Calls : Met(d)' /\ person'[d] # "left" =>
            \E i \in Jobs : job'[i].call = d /\ job'[i].at = "attending"
    BY <1>2, <1>3, <2>1, <2>2, <2>3, <2>5
  <2> QED BY <2>6, <2>7, <2>8 DEF FaultFree
<1> QED BY <1>4, <1>5, <1>6, WhoTouchesJobs

LEMMA FaultFreeJobStep ==
    ASSUME TypeOK, JobsAreDispatched, SignalsAreSent, FaultFree, NEW j \in Jobs, JobStep(j)
    PROVE  FaultFree'
<1> DEFINE c == job[j].call
<1> SUFFICES ASSUME faults' = 0
             PROVE  FaultFree'
  BY DEF FaultFree
<1>0. faults \in Nat /\ UNCHANGED <<flow, person, signal>>
  BY Domains, SignalsJobStep
<1>1. faults = 0 /\ ~JobDies(j)
  BY <1>0 DEF JobStep, AcceptJob, ConnectJob, StartSession, SendPersonJoined, JobDies, CompleteTurn
<1>2. \A i \in Jobs : job'[i].call = job[i].call
  BY JobsMove
<1>3. /\ \A d \in Calls : Undialled(d) => \A i \in Jobs : job[i].call # d
      /\ \A d \in Calls : \A i, k \in Jobs : job[i].call = d /\ job[k].call = d => i = k
      /\ \A d \in Calls : Met(d) /\ person[d] # "left" =>
                \E i \in Jobs : job[i].call = d /\ job[i].at = "attending"
  BY <1>1 DEF FaultFree
<1>4. \A d \in Calls : Undialled(d)' => \A i \in Jobs : job'[i].call # d
  BY <1>0, <1>2, <1>3 DEF Undialled
<1>5. \A d \in Calls : \A i, k \in Jobs : job'[i].call = d /\ job'[k].call = d => i = k
  BY <1>2, <1>3
<1>6. \A i \in Jobs : job[i].at = "attending" /\ job[i].call \in Calls => job'[i].at = "attending"
  <2> SUFFICES ASSUME NEW i \in Jobs, job[i].at = "attending", job[i].call \in Calls
               PROVE  job'[i].at = "attending"
    OBVIOUS
  <2>1. CASE i = j
    BY <1>1, <2>1, Domains
       DEF JobStep, AcceptJob, ConnectJob, StartSession, SendPersonJoined, CompleteTurn, roomVars
  <2>2. CASE i # j
    BY <1>3, <2>2, JobsMove
  <2> QED BY <2>1, <2>2
<1>7. \A d \in Calls : Met(d)' => Met(d) \/ \E i \in Jobs : job[i].call = d /\ job'[i].at = "attending"
  <2>1. CASE SendPersonJoined(j)
    <3>1. job'[j].at = "attending" /\ wire' = wire \cup {Joined(job[j].call)}
      BY <2>1, Domains DEF SendPersonJoined, Become
    <3> QED BY <1>0, <3>1 DEF Met, Joined
  <2>2. CASE \E text \in Texts : CompleteTurn(j, text)
    <3>1. \A m \in wire' : m \in wire \/ m.kind = "turn"
      BY <2>2 DEF CompleteTurn, TurnOf
    <3> QED BY <1>0, <3>1 DEF Met
  <2>3. CASE AcceptJob(j) \/ ConnectJob(j) \/ StartSession(j)
    <3>1. wire' = wire
      BY <2>3 DEF AcceptJob, ConnectJob, StartSession
    <3> QED BY <1>0, <3>1 DEF Met
  <2> QED BY <1>1, <2>1, <2>2, <2>3 DEF JobStep
<1>8. \A d \in Calls : Met(d)' /\ person'[d] # "left" =>
          \E i \in Jobs : job'[i].call = d /\ job'[i].at = "attending"
  BY <1>0, <1>2, <1>3, <1>6, <1>7
<1> QED BY <1>4, <1>5, <1>8 DEF FaultFree

LEMMA FaultFreeSignalStep ==
    ASSUME TypeOK, SignalsAreSent, FaultFree, SignalStep
    PROVE  FaultFree' /\ (PauseHasACause => PauseHasACause')
<1>1. PICK m \in wire : DeliverSignal(m) \/ LoseSignal(m)
  BY DEF SignalStep
<1>2. /\ m \in Signals /\ signal \in [Calls -> [joined : BOOLEAN, turn : Texts \cup {NoText}]]
      /\ faults \in Nat /\ faults' \in {faults, faults + 1}
  BY <1>1, Domains DEF DeliverSignal, LoseSignal
<1>3. UNCHANGED <<caller, flow, person, room, job>> /\ wire' \subseteq wire
  BY SignalsSignalStep
<1>4. PauseHasACause => PauseHasACause'
  BY <1>2, <1>3 DEF PauseHasACause
<1>5. faults' = 0 => faults = 0 /\ DeliverSignal(m)
  BY <1>1, <1>2 DEF LoseSignal
<1>6. \A d \in Calls : signal'[d].joined => signal[d].joined \/ (d = m.call /\ m.kind = "joined")
  <2>1. CASE DeliverSignal(m)
    <3>1. signal' = signal \/ signal' = [signal EXCEPT ![m.call] = Resolved(@, m)]
      BY <2>1 DEF DeliverSignal
    <3>2. \A d \in Calls : signal'[d] = signal[d] \/ (d = m.call /\ signal'[d] = Resolved(signal[d], m))
      BY <1>2, <3>1
    <3> QED BY <1>2, <3>2, SignalFields
  <2>2. CASE LoseSignal(m)
    BY <2>2 DEF LoseSignal, engineVars
  <2> QED BY <1>1, <2>1, <2>2
<1>7. \A d \in Calls : Met(d)' => Met(d)
  BY <1>3, <1>6 DEF Met
<1>8. \A d \in Calls : Undialled(d)' = Undialled(d)
  BY <1>3 DEF Undialled
<1>9. FaultFree'
  <2> SUFFICES ASSUME faults' = 0
               PROVE  FaultFree'
    BY DEF FaultFree
  <2> QED BY <1>3, <1>5, <1>7, <1>8 DEF FaultFree
<1> QED BY <1>4, <1>9

-------------------------------------------------------------------------------
(* The invariant.                                                          *)

LEMMA IInvInit == Init => IInv
<1> SUFFICES ASSUME Init PROVE IInv
  OBVIOUS
<1>0. 0 \in 0..MaxAttempts /\ 0 \in 0..MaxFaults /\ MaxAttempts > 0
  BY BoundsAssumption
<1>1. NotStarted \in Flows
  BY <1>0 DEF NotStarted, Flows
<1>2. TypeOK
  BY <1>0, <1>1 DEF Init, TypeOK, JobStates
<1>3. Histories
  <2> SUFFICES ASSUME NEW c \in Calls
               PROVE  CallHistory(c, flow[c], signal[c], asked, greeted[c], room[c], person[c],
                                  calls[c])
    BY DEF Histories
  <2>1. /\ flow[c] = NotStarted /\ ~signal[c].joined /\ greeted[c] = {}
        /\ room[c] = "none" /\ calls[c] = NoName
    BY DEF Init
  <2> QED BY <1>0, <2>1, NewFlow, Steps
          DEF CallHistory, FromQuestion, FromTurn, FromName, FromGreeting, FromHangUp, FromRecord
<1>4. CallersWait /\ JobsAreDispatched /\ SignalsAreSent /\ RoomsAreEmptied
  BY NewFlow DEF Init, CallersWait, JobsAreDispatched, SignalsAreSent, RoomsAreEmptied
<1>5. FaultFree
  <2>1. \A c \in Calls : \A j \in Jobs : job[j].call # c
    BY CallsAssumption DEF Init
  <2>2. \A c \in Calls : ~Met(c)
    BY DEF Init, Met
  <2> QED BY <2>1, <2>2 DEF FaultFree
<1>6. SignalsFindTheCall /\ PauseHasACause
  BY NewFlow DEF Init, SignalsFindTheCall, PauseHasACause
<1> QED BY <1>2, <1>3, <1>4, <1>5, <1>6 DEF IInv

LEMMA IInvNext == IInv /\ [Next]_vars => IInv'
<1> SUFFICES ASSUME IInv, [Next]_vars PROVE IInv'
  OBVIOUS
<1>0. /\ TypeOK /\ Histories /\ CallersWait /\ JobsAreDispatched /\ SignalsAreSent
      /\ RoomsAreEmptied /\ FaultFree /\ SignalsFindTheCall /\ PauseHasACause
  BY DEF IInv
<1>1. ASSUME NEW c \in Calls, CallStep(c)
      PROVE  IInv'
  <2>1. TypeOK' /\ Histories' /\ CallersWait' /\ JobsAreDispatched'
    BY <1>0, <1>1, CallStepType, HistoriesCallStep, CallersStepOn, JobsCallStep
  <2>2. SignalsAreSent' /\ RoomsAreEmptied' /\ SignalsFindTheCall'
    BY <1>0, <1>1, SignalsCallStep, RoomsCallStep DEF SignalsFindTheCall
  <2>3. FaultFree' /\ PauseHasACause'
    BY <1>0, <1>1, FaultFreeCallStep, PausesCallStep
  <2> QED BY <2>1, <2>2, <2>3 DEF IInv
<1>2. ASSUME NEW j \in Jobs, JobStep(j)
      PROVE  IInv'
  <2>1. TypeOK' /\ Histories' /\ JobsAreDispatched'
    BY <1>0, <1>2, JobStepType, HistoriesJobStep, JobsJobStep
  <2>2. /\ SignalsAreSent' /\ RoomsAreEmptied' /\ SignalsFindTheCall' /\ CallersWait'
        /\ UNCHANGED <<flow, person>>
    BY <1>0, <1>2, SignalsJobStep, RoomsJobStep DEF SignalsFindTheCall, CallersWait
  <2>3. faults \in Nat /\ faults' \in {faults, faults + 1}
    BY <1>0, <1>2, Domains
       DEF JobStep, AcceptJob, ConnectJob, StartSession, SendPersonJoined, JobDies, CompleteTurn
  <2>4. FaultFree' /\ PauseHasACause'
    BY <1>0, <1>2, <2>2, <2>3, FaultFreeJobStep DEF PauseHasACause
  <2> QED BY <2>1, <2>2, <2>4 DEF IInv
<1>3. CASE SignalStep
  <2>1. TypeOK' /\ Histories' /\ FaultFree' /\ PauseHasACause'
    BY <1>0, <1>3, SignalStepType, HistoriesSignalStep, FaultFreeSignalStep
  <2>2. /\ SignalsAreSent' /\ SignalsFindTheCall'
        /\ UNCHANGED <<caller, flow, person, room, job>>
    BY <1>0, <1>3, SignalsSignalStep DEF SignalsFindTheCall
  <2>3. CallersWait' /\ JobsAreDispatched' /\ RoomsAreEmptied'
    BY <1>0, <2>2 DEF CallersWait, JobsAreDispatched, RoomsAreEmptied
  <2> QED BY <2>1, <2>2, <2>3 DEF IInv
<1>4. CASE UNCHANGED vars
  <2>1. UNCHANGED <<caller, flow, signal, refused, wire, room, person, job, asked, greeted,
                    calls, faults>>
    BY <1>4 DEF vars, engineVars, roomVars, speechVars
  <2>2. TypeOK' /\ Histories' /\ CallersWait' /\ JobsAreDispatched'
    BY <1>0, <2>1 DEF TypeOK, Histories, CallersWait, JobsAreDispatched
  <2>3. SignalsAreSent' /\ RoomsAreEmptied' /\ SignalsFindTheCall' /\ PauseHasACause'
    BY <1>0, <2>1 DEF SignalsAreSent, RoomsAreEmptied, SignalsFindTheCall, PauseHasACause
  <2>4. FaultFree'
    BY <1>0, <2>1 DEF FaultFree, Met, Undialled
  <2> QED BY <2>2, <2>3, <2>4 DEF IInv
<1> QED BY <1>1, <1>2, <1>3, <1>4 DEF Next

LEMMA InvariantMeansRight == IInv => CallsGoRight
<1> SUFFICES ASSUME IInv PROVE CallsGoRight
  OBVIOUS
<1>0. \A c \in Calls :
         CallHistory(c, flow[c], signal[c], asked, greeted[c], room[c], person[c], calls[c])
  BY DEF IInv, Histories
<1>1. OneNameThroughout
  BY <1>0 DEF OneNameThroughout, CallHistory
<1>2. GoodbyeBeforeTheLineDrops
  BY <1>0 DEF GoodbyeBeforeTheLineDrops, CallHistory
<1>3. AnsweredCallIsOnRecord
  <2>1. \A c \in Calls : caller[c] = "answered" => calls[c] # NoName /\ room[c] = "deleted"
    BY <1>0 DEF IInv, CallersWait, CallHistory
  <2> QED BY <2>1 DEF IInv, RoomsAreEmptied, AnsweredCallIsOnRecord
<1> QED BY <1>1, <1>2, <1>3 DEF IInv, CallsGoRight

(* Whatever is lost, retried, said twice or answered by a second agent, in *)
(* any number of calls: no signal is refused by its own call, one name is  *)
(* greeted and recorded, the line drops after the goodbye, an answered     *)
(* caller finds the call on record, and no pause is without a cause.       *)
THEOREM CallsAlwaysGoRight == Spec => []CallsGoRight
<1> QED BY IInvInit, IInvNext, InvariantMeansRight, PTL DEF Spec

-------------------------------------------------------------------------------
(* The promise of PlacedCall.                                              *)

(* The stage of every call, read off the state before a step or after it. *)
StagesAgree ==
    \A c \in Calls :
        /\ caller[c] = "answered" => calls[c] # NoName /\ Stage(c) = "answered"
        /\ calls[c] # NoName => room[c] = "deleted"
        /\ caller[c] # "answered" /\ calls[c] # NoName => Stage(c) = "recorded"
        /\ calls[c] = NoName /\ room[c] = "deleted" => Stage(c) = "dropped"
        /\ room[c] = "deleted" => signal[c].turn # NoText /\ NameOf[signal[c].turn] # NoName
        /\ signal[c].turn = NoText => Stage(c) = "open" /\ HeardName(c) = "nobody"
        /\ signal[c].turn # NoText /\ NameOf[signal[c].turn] = NoName =>
               Stage(c) = "unnamed" /\ HeardName(c) = "nobody"
        /\ signal[c].turn # NoText /\ NameOf[signal[c].turn] # NoName =>
               /\ HeardName(c) = NameOf[signal[c].turn] /\ HeardName(c) \in Names
               /\ room[c] # "deleted" => Stage(c) = "named"

LEMMA StagesHold == IInv => StagesAgree
<1> SUFFICES ASSUME IInv, NEW c \in Calls
             PROVE  /\ caller[c] = "answered" => calls[c] # NoName /\ Stage(c) = "answered"
                    /\ calls[c] # NoName => room[c] = "deleted"
                    /\ caller[c] # "answered" /\ calls[c] # NoName => Stage(c) = "recorded"
                    /\ calls[c] = NoName /\ room[c] = "deleted" => Stage(c) = "dropped"
                    /\ room[c] = "deleted" =>
                           signal[c].turn # NoText /\ NameOf[signal[c].turn] # NoName
                    /\ signal[c].turn = NoText => Stage(c) = "open" /\ HeardName(c) = "nobody"
                    /\ signal[c].turn # NoText /\ NameOf[signal[c].turn] = NoName =>
                           Stage(c) = "unnamed" /\ HeardName(c) = "nobody"
                    /\ signal[c].turn # NoText /\ NameOf[signal[c].turn] # NoName =>
                           /\ HeardName(c) = NameOf[signal[c].turn] /\ HeardName(c) \in Names
                           /\ room[c] # "deleted" => Stage(c) = "named"
  BY DEF StagesAgree
<1>0. /\ TypeOK /\ Histories /\ CallersWait
      /\ signal[c].turn \in Texts \cup {NoText} /\ greeted[c] \subseteq Names
      /\ CallHistory(c, flow[c], signal[c], asked, greeted[c], room[c], person[c], calls[c])
  BY Here DEF IInv
<1>1. caller[c] = "answered" => calls[c] # NoName
  BY <1>0 DEF CallersWait, CallHistory
<1>2. calls[c] # NoName => room[c] = "deleted"
  BY <1>0 DEF CallHistory
<1>3. room[c] = "deleted" => signal[c].turn # NoText /\ NameOf[signal[c].turn] # NoName
  BY <1>0, TextsAssumption DEF CallHistory
<1>4. signal[c].turn # NoText => NameOf[signal[c].turn] \in Names \cup {NoName}
  BY <1>0, TextsAssumption
<1>5. /\ signal[c].turn = NoText => HeardName(c) = "nobody"
      /\ signal[c].turn # NoText /\ NameOf[signal[c].turn] = NoName => HeardName(c) = "nobody"
      /\ signal[c].turn # NoText /\ NameOf[signal[c].turn] # NoName =>
             HeardName(c) = NameOf[signal[c].turn] /\ HeardName(c) \in Names
  BY <1>4 DEF HeardName
<1>6. caller[c] = "answered" => Stage(c) = "answered"
  BY <1>1, <1>2 DEF Stage
<1>7. caller[c] # "answered" /\ calls[c] # NoName => Stage(c) = "recorded"
  BY <1>2 DEF Stage
<1>8. calls[c] = NoName /\ room[c] = "deleted" => Stage(c) = "dropped"
  BY <1>1 DEF Stage
<1>9. signal[c].turn = NoText => Stage(c) = "open"
  BY <1>1, <1>2, <1>3 DEF Stage
<1>10. room[c] # "deleted" /\ signal[c].turn # NoText =>
           Stage(c) = IF NameOf[signal[c].turn] = NoName THEN "unnamed" ELSE "named"
  BY <1>1, <1>2 DEF Stage
<1> QED BY <1>1, <1>2, <1>3, <1>5, <1>6, <1>7, <1>8, <1>9, <1>10

LEMMA StagesHoldNext == IInv' => StagesAgree'
BY StagesHold, PTL

(* What a step may do to a call, as PlacedCall sees it.                    *)
Quiet(c) ==
    /\ caller'[c] = "answered" <=> caller[c] = "answered"
    /\ calls'[c] = calls[c] /\ signal'[c].turn = signal[c].turn
    /\ room'[c] = "deleted" <=> room[c] = "deleted"
Hears(c) ==
    /\ signal[c].turn = NoText /\ signal'[c].turn # NoText
    /\ room[c] # "deleted" /\ room'[c] # "deleted"
Drops(c) ==
    /\ signal[c].turn # NoText /\ signal'[c].turn = signal[c].turn
    /\ room[c] # "deleted" /\ room'[c] = "deleted" /\ calls'[c] = NoName
Records(c) ==
    /\ room[c] = "deleted" /\ signal'[c].turn = signal[c].turn
    /\ calls[c] = NoName /\ calls'[c] # NoName /\ caller'[c] # "answered"
Answers(c) ==
    /\ calls[c] # NoName /\ signal'[c].turn = signal[c].turn
    /\ caller[c] # "answered" /\ caller'[c] = "answered"

LEMMA PlacedAt ==
    ASSUME IInv, IInv', NEW c \in Calls, \A d \in Calls \ {c} : Quiet(d),
           Quiet(c) \/ Hears(c) \/ Drops(c) \/ Records(c) \/ Answers(c)
    PROVE  [Placed!Next]_(Placed!placedCall)
<1>0. StagesAgree /\ StagesAgree'
  BY StagesHold, StagesHoldNext
<1>1. ASSUME NEW d \in Calls, Quiet(d)
      PROVE  Stage(d)' = Stage(d) /\ HeardName(d)' = HeardName(d)
  <2>1. CASE signal[d].turn = NoText
    BY <1>0, <1>1, <2>1 DEF StagesAgree, Quiet
  <2>2. CASE signal[d].turn # NoText /\ NameOf[signal[d].turn] = NoName
    BY <1>0, <1>1, <2>2 DEF StagesAgree, Quiet
  <2>3. CASE signal[d].turn # NoText /\ NameOf[signal[d].turn] # NoName
    BY <1>0, <1>1, <2>3 DEF StagesAgree, Quiet
  <2> QED BY <2>1, <2>2, <2>3
<1>2. \A d \in Calls \ {c} : Stage(d)' = Stage(d) /\ HeardName(d)' = HeardName(d)
  BY <1>1
<1>3. CASE Quiet(c)
  BY <1>1, <1>2, <1>3 DEF Placed!placedCall
<1>4. CASE Hears(c)
  <2>1. Stage(c) = "open" /\ HeardName(c) = "nobody"
    BY <1>0, <1>4 DEF StagesAgree, Hears
  <2>2. \/ Stage(c)' = "named" /\ HeardName(c)' \in Names
        \/ Stage(c)' = "unnamed" /\ HeardName(c)' = "nobody"
    BY <1>0, <1>4 DEF StagesAgree, Hears
  <2> QED BY <1>2, <2>1, <2>2 DEF Placed!Next, Placed!Hear, Placed!Move
<1>5. CASE Drops(c)
  <2>1. /\ Stage(c) = "named" /\ Stage(c)' = "dropped"
        /\ HeardName(c)' = HeardName(c)
    BY <1>0, <1>5 DEF StagesAgree, Drops
  <2> QED BY <1>2, <2>1 DEF Placed!Next, Placed!Drop, Placed!Move
<1>6. CASE Records(c)
  <2>1. /\ Stage(c) = "dropped" /\ Stage(c)' = "recorded"
        /\ HeardName(c)' = HeardName(c)
    BY <1>0, <1>6 DEF StagesAgree, Records
  <2> QED BY <1>2, <2>1 DEF Placed!Next, Placed!Record, Placed!Move
<1>7. CASE Answers(c)
  <2>1. /\ Stage(c) = "recorded" /\ Stage(c)' = "answered"
        /\ HeardName(c)' = HeardName(c)
    BY <1>0, <1>7 DEF StagesAgree, Answers
  <2> QED BY <1>2, <2>1 DEF Placed!Next, Placed!Answer, Placed!Move
<1> QED BY <1>3, <1>4, <1>5, <1>6, <1>7

LEMMA CallStepPlaced ==
    ASSUME IInv, NEW c \in Calls, CallStep(c)
    PROVE  /\ \A d \in Calls \ {c} : Quiet(d)
           /\ Quiet(c) \/ Drops(c) \/ Records(c) \/ Answers(c)
<1>0. /\ TypeOK /\ CallersWait /\ signal' = signal
      /\ flow[c] \in Flows
      /\ CallHistory(c, flow[c], signal[c], asked, greeted[c], room[c], person[c], calls[c])
  BY SignalsCallStep, Here DEF IInv
<1>1. CASE AnswerCaller(c)
  <2>1. calls[c] # NoName
    BY <1>0, <1>1 DEF AnswerCaller, CallHistory
  <2> QED BY <1>0, <1>1, <2>1, Domains DEF AnswerCaller, roomVars, Quiet, Answers
<1>2. CASE HangUp(c)
  <2>1. signal[c].turn # NoText /\ calls[c] = NoName
    BY <1>0, <1>2 DEF HangUp, CallHistory, FromHangUp
  <2> QED BY <1>0, <1>2, <2>1, Domains DEF HangUp, Quiet, Drops
<1>3. CASE RecordCall(c)
  <2>1. /\ room[c] = "deleted" /\ caller[c] # "answered" /\ flow[c].name # NoName
    BY <1>0, <1>3
       DEF RecordCall, CallHistory, CallersWait, FromRecord, FromHangUp, FromGreeting
  <2>2. /\ caller' = caller /\ room' = room /\ \A d \in Calls \ {c} : calls'[d] = calls[d]
        /\ calls'[c] = calls[c] \/ (calls[c] = NoName /\ calls'[c] = flow[c].name)
    BY <1>3, Domains DEF RecordCall, roomVars
  <2> QED BY <1>0, <2>1, <2>2 DEF Quiet, Records
<1>4. CASE IssueCallId(c) \/ ConductCall(c)
  BY <1>0, <1>4, Domains DEF IssueCallId, ConductCall, roomVars, Quiet
<1>5. CASE /\ ~AnswerCaller(c) /\ ~HangUp(c) /\ ~RecordCall(c)
           /\ ~IssueCallId(c) /\ ~ConductCall(c)
  <2>1. UNCHANGED <<caller, calls, room>>
    BY <1>5
       DEF CallStep, FlowStep, DialPerson, AwaitPersonJoined, AwaitPersonTurnCompleted,
           PersonSaid, PersonSaidNothing, SayQuestion, SayGreeting, SayRefused, Raise,
           HangUpAgain, AttemptLost, PersonEnters, PersonLeaves, roomVars, engineVars
  <2> QED BY <1>0, <2>1 DEF Quiet
<1> QED BY <1>1, <1>2, <1>3, <1>4, <1>5

LEMMA JobStepPlaced ==
    ASSUME IInv, NEW j \in Jobs, JobStep(j)
    PROVE  \A d \in Calls : Quiet(d)
<1>0. TypeOK /\ JobsAreDispatched /\ RoomsAreEmptied /\ SignalsAreSent
  BY DEF IInv
<1>1. UNCHANGED <<caller, signal>>
  BY <1>0, SignalsJobStep
<1>2. calls' = calls
  BY DEF JobStep, AcceptJob, ConnectJob, StartSession, SendPersonJoined, JobDies, CompleteTurn
<1>3. CASE ConnectJob(j)
  <2>1. job[j].at = "accepted" /\ room' = [room EXCEPT ![job[j].call] = "up"]
    BY <1>3 DEF ConnectJob
  <2>2. job[j].call \in Calls /\ room[job[j].call] # "deleted"
    BY <1>0, <2>1 DEF JobsAreDispatched, RoomsAreEmptied
  <2> QED BY <1>0, <1>1, <1>2, <2>1, <2>2, Domains DEF Quiet
<1>4. CASE ~ConnectJob(j)
  <2>1. room' = room
    BY <1>4 DEF JobStep, AcceptJob, StartSession, SendPersonJoined, JobDies, CompleteTurn, roomVars
  <2> QED BY <1>1, <1>2, <2>1 DEF Quiet
<1> QED BY <1>3, <1>4

LEMMA SignalStepPlaced ==
    ASSUME IInv, SignalStep
    PROVE  \E c \in Calls : /\ \A d \in Calls \ {c} : Quiet(d)
                            /\ Quiet(c) \/ Hears(c)
<1>0. TypeOK /\ SignalsAreSent /\ StagesAgree
  BY StagesHold DEF IInv
<1>1. PICK m \in wire : DeliverSignal(m) \/ LoseSignal(m)
  BY DEF SignalStep
<1>2. /\ m \in Signals /\ m.call \in Calls
      /\ signal \in [Calls -> [joined : BOOLEAN, turn : Texts \cup {NoText}]]
  BY <1>0, Domains DEF Signals
<1>3. UNCHANGED <<caller, room>> /\ calls' = calls
  BY <1>0, <1>1, SignalsSignalStep DEF DeliverSignal, LoseSignal
<1>4. /\ \A d \in Calls \ {m.call} : signal'[d] = signal[d]
      /\ signal'[m.call] = signal[m.call] \/ signal'[m.call] = Resolved(signal[m.call], m)
  BY <1>1, <1>2 DEF DeliverSignal, LoseSignal, engineVars
<1>5. signal[m.call].turn # NoText => signal'[m.call].turn = signal[m.call].turn
  BY <1>2, <1>4, SignalFields
<1>6. \A d \in Calls \ {m.call} : Quiet(d)
  BY <1>3, <1>4 DEF Quiet
<1>7. room[m.call] = "deleted" => signal[m.call].turn # NoText
  BY <1>0, <1>2 DEF StagesAgree
<1>8. Quiet(m.call) \/ Hears(m.call)
  BY <1>3, <1>5, <1>7 DEF Quiet, Hears
<1> QED BY <1>2, <1>6, <1>8

LEMMA PlacedStep ==
    IInv /\ [Next]_vars /\ IInv' => [Placed!Next]_(Placed!placedCall)
<1> SUFFICES ASSUME IInv, [Next]_vars, IInv'
             PROVE  [Placed!Next]_(Placed!placedCall)
  OBVIOUS
<1>1. CASE \E c \in Calls : CallStep(c)
  BY <1>1, CallStepPlaced, PlacedAt
<1>2. CASE \E j \in Jobs : JobStep(j)
  <2>1. \A d \in Calls : Quiet(d)
    BY <1>2, JobStepPlaced
  <2>2. CASE Calls = {}
    BY <2>2 DEF Placed!placedCall
  <2>3. CASE Calls # {}
    BY <2>1, <2>3, PlacedAt
  <2> QED BY <2>2, <2>3
<1>3. CASE SignalStep
  BY <1>3, SignalStepPlaced, PlacedAt
<1>4. CASE UNCHANGED vars
  <2>1. UNCHANGED <<caller, signal, room, calls>>
    BY <1>4 DEF vars, engineVars, roomVars
  <2> QED BY <2>1 DEF Placed!placedCall, Stage, HeardName
<1> QED BY <1>1, <1>2, <1>3, <1>4 DEF Next

LEMMA PlacedInit == Init => Placed!Init
BY DEF Init, Placed!Init, Placed!Nobody, Stage, HeardName

(* Rooms, jobs, retries and lost signals together implement PlacedCall: in *)
(* every call one name is heard at most, then the line drops, then that    *)
(* name is recorded, then the caller is answered, each once.               *)
THEOREM PlacedCallIsKept == Spec => KeepsPlacedCall
<1> QED BY IInvInit, IInvNext, PlacedInit, PlacedStep, PTL
        DEF Spec, KeepsPlacedCall, Placed!Spec

===============================================================================
