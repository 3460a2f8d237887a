------------------------------- MODULE VoiceCall -------------------------------
(***************************************************************************)
(* examples/voice: a call placed through Restate that dials a person into  *)
(* a LiveKit room, asks for a name, greets the person by it, hangs up and  *)
(* records the name.                                                       *)
(*                                                                         *)
(*   flow[c]     the CallOrchestrator workflow: the step its journal has   *)
(*               reached and the attempts that step has lost               *)
(*   signal[c]   its two write-once promises                               *)
(*   job[j]      an agent job, one for every dispatch LiveKit took         *)
(*   wire        signals the jobs sent that Restate has not yet run        *)
(*                                                                         *)
(* A step that is an action (dial, ask, greet, hang_up, record) runs again *)
(* when its answer is lost, whatever it had done; after MaxAttempts the    *)
(* engine pauses it and the workflow with it.                              *)
(***************************************************************************)
EXTENDS Naturals, FiniteSets

CONSTANTS
    Calls,         \* the ids the database issues
    Jobs,          \* agent jobs, one for each dispatch
    Texts,         \* what a person may say in one turn
    Blank,         \* the texts that are only white space
    NoName,        \* what is left of a text that is only punctuation
    Names,         \* names that are not empty
    NameOf,        \* [Texts -> Names \cup {NoName}], PersonName(Utterance(text))
    NoText,        \* the turn promise before it is resolved
    NoCall,        \* a job nobody has dispatched
    MaxAttempts,   \* _RETRY_POLICY.max_attempts
    MaxFaults      \* answers and signals the network may lose

ASSUME TextsAssumption ==
    /\ Blank \subseteq Texts /\ NoText \notin Texts /\ NoName \notin Names
    /\ NameOf \in [Texts -> Names \cup {NoName}]
ASSUME CallsAssumption == NoCall \notin Calls
ASSUME BoundsAssumption == MaxAttempts \in Nat \ {0} /\ MaxFaults \in Nat

VARIABLES
    caller,     \* [Calls -> "none" | "issued" | "waiting" | "answered"]
    flow,       \* [Calls -> the workflow]
    signal,     \* [Calls -> [joined, turn]]
    wire,       \* set of signals in flight
    refused,    \* the calls that answered a signal 412: nothing conducts them
    room,       \* [Calls -> "none" | "up" | "deleted"]
    person,     \* [Calls -> "away" | "present" | "left"]
    job,        \* [Jobs -> [call, at]]
    asked,      \* the calls in which the question was spoken
    greeted,    \* [Calls -> the names greeted]
    calls,      \* the calls table: [Calls -> the recorded name, NoName before]
    faults

engineVars == <<caller, flow, signal, refused>>
roomVars   == <<room, person, job>>
speechVars == <<asked, greeted>>
vars == <<engineVars, wire, roomVars, speechVars, calls, faults>>

(* Mutants: hanging up before the greeting, recording nothing, recording   *)
(* before the line is dropped, asking before anybody has joined.           *)
HungUpUngreeted ==
    [dial |-> "await_joined", await_joined |-> "ask", ask |-> "await_turn", await_turn |-> "name",
     name |-> "hang_up", greet |-> "record", hang_up |-> "greet", record |-> "done"]
NeverRecorded ==
    [dial |-> "await_joined", await_joined |-> "ask", ask |-> "await_turn", await_turn |-> "name",
     name |-> "greet", greet |-> "hang_up", hang_up |-> "done", record |-> "done"]
RecordedFirst ==
    [dial |-> "await_joined", await_joined |-> "ask", ask |-> "await_turn", await_turn |-> "name",
     name |-> "greet", greet |-> "record", hang_up |-> "done", record |-> "hang_up"]
AskedAtOnce ==
    [dial |-> "ask", await_joined |-> "await_turn", ask |-> "await_joined", await_turn |-> "name",
     name |-> "greet", greet |-> "hang_up", hang_up |-> "record", record |-> "done"]

(* The journaled steps of conduct_call, in the order of the orchestrator. *)
StepAfter ==
    [dial |-> "await_joined", await_joined |-> "ask", ask |-> "await_turn",
     await_turn |-> "name", name |-> "greet", greet |-> "hang_up",
     hang_up |-> "record", record |-> "done"]
Running == DOMAIN StepAfter

NotStarted == [at |-> "absent", attempts |-> 0, heard |-> NoText, name |-> NoName]
Advanced(w) == [w EXCEPT !.at = StepAfter[w.at], !.attempts = 0]
(* Mutants: the pause comes an attempt late; the engine retries for ever. *)
RetriedOnceMore(w) ==
    [w EXCEPT !.attempts = @ + 1, !.at = IF w.attempts = MaxAttempts THEN "paused" ELSE @]
RetriedForEver(w) == w
Retried(w) ==
    [w EXCEPT !.attempts = @ + 1, !.at = IF w.attempts + 1 = MaxAttempts THEN "paused" ELSE @]

Joined(c)        == [call |-> c, kind |-> "joined", text |-> NoText]
TurnOf(c, text)  == [call |-> c, kind |-> "turn", text |-> text]

Init ==
    /\ caller  = [c \in Calls |-> "none"]
    /\ flow    = [c \in Calls |-> NotStarted]
    /\ signal  = [c \in Calls |-> [joined |-> FALSE, turn |-> NoText]]
    /\ wire    = {} /\ refused = {} /\ asked = {}
    /\ room    = [c \in Calls |-> "none"]
    /\ person  = [c \in Calls |-> "away"]
    /\ job     = [j \in Jobs |-> [call |-> NoCall, at |-> "idle"]]
    /\ greeted = [c \in Calls |-> {}]
    /\ calls   = [c \in Calls |-> NoName]
    /\ faults  = 0

-------------------------------------------------------------------------------
(* The door.                                                               *)

(* CallService.place_call commits a fresh id before anything knows of it. *)
IssueCallId(c) ==
    /\ caller[c] = "none"
    /\ caller' = [caller EXCEPT ![c] = "issued"]
    /\ UNCHANGED <<flow, signal, refused, wire, roomVars, speechVars, calls, faults>>

(* The workflow starts: its state is set before its first journaled step. *)
ConductCall(c) ==
    /\ caller[c] = "issued"
    /\ caller' = [caller EXCEPT ![c] = "waiting"]
    /\ flow'   = [flow EXCEPT ![c].at = "dial"]
    /\ UNCHANGED <<signal, refused, wire, roomVars, speechVars, calls, faults>>

(* place_call waits without a timeout for the workflow's response. *)
AnswerCaller(c) ==
    /\ caller[c] = "waiting" /\ flow[c].at = "done"
    /\ caller' = [caller EXCEPT ![c] = "answered"]
    /\ UNCHANGED <<flow, signal, refused, wire, roomVars, speechVars, calls, faults>>

-------------------------------------------------------------------------------
(* The workflow.                                                           *)

(* An attempt at c's step took effect; its answer arrives, or is lost and  *)
(* the step runs again.                                                    *)
Attempted(c) ==
    \/ flow' = [flow EXCEPT ![c] = Advanced(@)] /\ UNCHANGED faults
    \/ /\ faults < MaxFaults /\ faults' = faults + 1
       /\ flow' = [flow EXCEPT ![c] = Retried(@)]

(* An attempt, of an action or of the workflow itself, is lost before it   *)
(* did anything.                                                           *)
AttemptLost(c) ==
    /\ flow[c].at \in Running
    /\ faults < MaxFaults /\ faults' = faults + 1
    /\ flow' = [flow EXCEPT ![c] = Retried(@)]
    /\ UNCHANGED <<caller, signal, refused, wire, roomVars, speechVars, calls>>

(* An attempt that raises by itself, and will again. *)
Raise(c) ==
    /\ flow' = [flow EXCEPT ![c] = Retried(@)]
    /\ UNCHANGED <<caller, signal, refused, wire, roomVars, speechVars, calls, faults>>

(* create_dispatch asks for one more agent job, whether or not an earlier  *)
(* attempt has already asked.                                              *)
DialPerson(c) ==
    /\ flow[c].at = "dial"
    /\ \E j \in Jobs : /\ job[j].at = "idle"
                       /\ job' = [job EXCEPT ![j] = [call |-> c, at |-> "dispatched"]]
    /\ Attempted(c)
    /\ UNCHANGED <<caller, signal, refused, wire, room, person, speechVars, calls>>

AwaitPersonJoined(c) ==
    /\ flow[c].at = "await_joined" /\ signal[c].joined
    /\ flow' = [flow EXCEPT ![c] = Advanced(@)]
    /\ UNCHANGED <<caller, signal, refused, wire, roomVars, speechVars, calls, faults>>

(* The text read from the promise is journaled: a replay reads it again. *)
AwaitPersonTurnCompleted(c) ==
    /\ flow[c].at = "await_turn" /\ signal[c].turn # NoText
    /\ flow' = [flow EXCEPT ![c] = [Advanced(@) EXCEPT !.heard = signal[c].turn]]
    /\ UNCHANGED <<caller, signal, refused, wire, roomVars, speechVars, calls, faults>>

(* Call.person_said: punctuation alone is no name, now or at any retry. *)
PersonSaid(c) ==
    /\ flow[c].at = "name" /\ NameOf[flow[c].heard] # NoName
    /\ flow' = [flow EXCEPT ![c] = [Advanced(@) EXCEPT !.name = NameOf[flow[c].heard]]]
    /\ UNCHANGED <<caller, signal, refused, wire, roomVars, speechVars, calls, faults>>

PersonSaidNothing(c) ==
    flow[c].at = "name" /\ NameOf[flow[c].heard] = NoName /\ Raise(c)

(* The agent answers "say" once its method is registered, and can speak    *)
(* while its session is open.                                              *)
Speaking(c) == {j \in Jobs : job[j].call = c /\ job[j].at \in {"listening", "attending"}}

SayQuestion(c) ==
    /\ flow[c].at = "ask" /\ Speaking(c) # {}
    /\ asked' = asked \cup {c}
    /\ Attempted(c)
    /\ UNCHANGED <<caller, signal, refused, wire, roomVars, greeted, calls>>

SayGreeting(c) ==
    /\ flow[c].at = "greet" /\ Speaking(c) # {}
    /\ greeted' = [greeted EXCEPT ![c] = @ \cup {flow[c].name}]
    /\ Attempted(c)
    /\ UNCHANGED <<caller, signal, refused, wire, roomVars, asked, calls>>

SayRefused(c) == flow[c].at \in {"ask", "greet"} /\ Speaking(c) = {} /\ Raise(c)

(* delete_room ends every job of the room, one that is only dispatched or
   accepted too, and drops the person's line: of LiveKit this is assumed. *)
HangUp(c) ==
    /\ flow[c].at = "hang_up" /\ room[c] = "up"
    /\ room'   = [room EXCEPT ![c] = "deleted"]
    /\ person' = [person EXCEPT ![c] = IF @ = "present" THEN "left" ELSE @]
    /\ job'    = [j \in Jobs |-> IF job[j].call = c THEN [job[j] EXCEPT !.at = "gone"] ELSE job[j]]
    /\ Attempted(c)
    /\ UNCHANGED <<caller, signal, refused, wire, speechVars, calls>>

(* A room an earlier attempt deleted: LiveKit may say so or not. *)
HangUpAgain(c) ==
    /\ flow[c].at = "hang_up" /\ room[c] = "deleted"
    /\ \/ Attempted(c) /\ UNCHANGED <<caller, signal, refused, wire, roomVars, speechVars, calls>>
       \/ Raise(c)

(* INSERT ... ON CONFLICT (call_id) DO NOTHING, in a transaction. *)
RecordCall(c) ==
    /\ flow[c].at = "record"
    /\ calls' = [calls EXCEPT ![c] = IF @ = NoName THEN flow[c].name ELSE @]
    /\ Attempted(c)
    /\ UNCHANGED <<caller, signal, refused, wire, roomVars, speechVars>>

-------------------------------------------------------------------------------
(* The agent jobs.                                                         *)

Become(j, at) == job' = [job EXCEPT ![j].at = at]

(* attend_call builds the call's id and refuses nothing. *)
AcceptJob(j) ==
    /\ job[j].at = "dispatched"
    /\ Become(j, "accepted")
    /\ UNCHANGED <<engineVars, wire, room, person, speechVars, calls, faults>>

(* All jobs join under the agent's one identity: the room drops the one    *)
(* that was there.                                                         *)
ConnectJob(j) ==
    LET c == job[j].call IN
    /\ job[j].at = "accepted"
    /\ room' = [room EXCEPT ![c] = "up"]
    /\ job' = [i \in Jobs |->
                IF i = j THEN [job[i] EXCEPT !.at = "connected"]
                ELSE IF job[i].call = c /\ job[i].at \in {"connected", "listening", "attending", "closed"}
                     THEN [job[i] EXCEPT !.at = "gone"]
                     ELSE job[i]]
    /\ UNCHANGED <<engineVars, wire, person, speechVars, calls, faults>>

(* The say method is registered and the session listens, from here on,     *)
(* whoever is in the room and whatever has been asked.                     *)
StartSession(j) ==
    /\ job[j].at = "connected"
    /\ Become(j, "listening")
    /\ UNCHANGED <<engineVars, wire, room, person, speechVars, calls, faults>>

(* person_joined is sent once and nothing sends it again. *)
SendPersonJoined(j) ==
    /\ job[j].at = "listening" /\ person[job[j].call] = "present"
    /\ Become(j, "attending")
    /\ wire' = wire \cup {Joined(job[j].call)}
    /\ UNCHANGED <<engineVars, room, person, speechVars, calls, faults>>

(* on_user_turn_completed: a turn of white space is dropped, any other is  *)
(* sent, the first as well as the later ones.                              *)
CompleteTurn(j, text) ==
    /\ job[j].at \in {"listening", "attending"} /\ person[job[j].call] = "present"
    /\ wire' = IF text \in Blank THEN wire ELSE wire \cup {TurnOf(job[j].call, text)}
    /\ UNCHANGED <<engineVars, roomVars, speechVars, calls, faults>>

(* The agent's process dies; nobody dispatches another for it. *)
JobDies(j) ==
    /\ job[j].at \in {"connected", "listening", "attending"}
    /\ faults < MaxFaults /\ faults' = faults + 1
    /\ Become(j, "gone")
    /\ UNCHANGED <<engineVars, wire, room, person, speechVars, calls>>

(* The person enters a room with an agent in it, and may hang up: the      *)
(* sessions linked to the person close.                                    *)
PersonEnters(c) ==
    /\ room[c] = "up" /\ person[c] = "away"
    /\ person' = [person EXCEPT ![c] = "present"]
    /\ UNCHANGED <<engineVars, wire, room, job, speechVars, calls, faults>>

PersonLeaves(c) ==
    /\ person[c] = "present"
    /\ person' = [person EXCEPT ![c] = "left"]
    /\ job' = [j \in Jobs |-> IF j \in Speaking(c) THEN [job[j] EXCEPT !.at = "closed"] ELSE job[j]]
    /\ UNCHANGED <<engineVars, wire, room, speechVars, calls, faults>>

-------------------------------------------------------------------------------
(* The signals.                                                            *)

(* A mutant: the promise keeps its last value. *)
ResolvedAgain(s, m) ==
    IF m.kind = "joined" THEN [s EXCEPT !.joined = TRUE] ELSE [s EXCEPT !.turn = m.text]

(* A promise keeps its first value; the later senders are told they were   *)
(* delivered (409 is swallowed).                                           *)
Resolved(s, m) ==
    IF m.kind = "joined" THEN [s EXCEPT !.joined = TRUE]
    ELSE IF s.turn = NoText THEN [s EXCEPT !.turn = m.text] ELSE s

(* A mutant: the workflow sets its state when the dial has answered. *)
DeliverBeforeState(m) ==
    /\ wire' = wire \ {m}
    /\ IF flow[m.call].at \in {"absent", "dial"}
       THEN refused' = refused \cup {m.call} /\ UNCHANGED signal
       ELSE signal' = [signal EXCEPT ![m.call] = Resolved(@, m)] /\ UNCHANGED refused
    /\ UNCHANGED <<caller, flow, roomVars, speechVars, calls, faults>>

(* RestatePersonJoined and RestatePersonTurnCompleted: under a key no call *)
(* conducts, 412.                                                          *)
DeliverSignal(m) ==
    /\ wire' = wire \ {m}
    /\ IF flow[m.call].at = "absent"
       THEN refused' = refused \cup {m.call} /\ UNCHANGED signal
       ELSE signal' = [signal EXCEPT ![m.call] = Resolved(@, m)] /\ UNCHANGED refused
    /\ UNCHANGED <<caller, flow, roomVars, speechVars, calls, faults>>

LoseSignal(m) ==
    /\ faults < MaxFaults /\ faults' = faults + 1
    /\ wire' = wire \ {m}
    /\ UNCHANGED <<engineVars, roomVars, speechVars, calls>>

-------------------------------------------------------------------------------
FlowStep(c) ==
    \/ DialPerson(c) \/ AwaitPersonJoined(c) \/ SayQuestion(c) \/ SayRefused(c)
    \/ AwaitPersonTurnCompleted(c) \/ PersonSaid(c) \/ PersonSaidNothing(c)
    \/ SayGreeting(c) \/ HangUp(c) \/ HangUpAgain(c) \/ RecordCall(c) \/ AnswerCaller(c)

CallStep(c) ==
    \/ IssueCallId(c) \/ ConductCall(c) \/ FlowStep(c) \/ AttemptLost(c)
    \/ PersonEnters(c) \/ PersonLeaves(c)

JobStep(j) ==
    \/ AcceptJob(j) \/ ConnectJob(j) \/ StartSession(j) \/ SendPersonJoined(j) \/ JobDies(j)
    \/ \E text \in Texts : CompleteTurn(j, text)

SignalStep == \E m \in wire : DeliverSignal(m) \/ LoseSignal(m)

Next == (\E c \in Calls : CallStep(c)) \/ (\E j \in Jobs : JobStep(j)) \/ SignalStep

Spec == Init /\ [][Next]_vars

(* The engine keeps running and retrying a workflow it holds; nothing else *)
(* is promised, neither by the network nor by the person.                  *)
Fairness == \A c \in Calls : WF_vars(FlowStep(c))

-------------------------------------------------------------------------------
(* Properties.                                                             *)

Flows == [at : Running \cup {"absent", "done", "paused"}, attempts : 0..MaxAttempts,
          heard : Texts \cup {NoText}, name : Names \cup {NoName}]
Signals == [call : Calls, kind : {"joined", "turn"}, text : Texts \cup {NoText}]
JobStates == {"idle", "dispatched", "accepted", "connected", "listening", "attending", "closed", "gone"}

(* Every part of the state has the values the code gives it: a step's      *)
(* attempts stay within the retry policy, a recorded name is a name.       *)
TypeOK ==
    /\ caller \in [Calls -> {"none", "issued", "waiting", "answered"}]
    /\ flow \in [Calls -> Flows]
    /\ signal \in [Calls -> [joined : BOOLEAN, turn : Texts \cup {NoText}]]
    /\ wire \subseteq Signals /\ refused \subseteq Calls /\ asked \subseteq Calls
    /\ room \in [Calls -> {"none", "up", "deleted"}]
    /\ person \in [Calls -> {"away", "present", "left"}]
    /\ job \in [Jobs -> [call : Calls \cup {NoCall}, at : JobStates]]
    /\ greeted \in [Calls -> SUBSET Names]
    /\ calls \in [Calls -> Names \cup {NoName}]
    /\ faults \in 0..MaxFaults

(* The workflow sets its state before it dials, so no agent, however early *)
(* it hears someone, reaches a workflow that answers 412.                  *)
SignalsFindTheCall == refused = {}

(* One name in a call: who is greeted, and who is recorded, is who the     *)
(* first turn to arrive named, through retries, a second agent in the room *)
(* and later turns; nobody is greeted or recorded under no name.           *)
OneNameThroughout ==
    \A c \in Calls :
        /\ \A n \in greeted[c] : signal[c].turn # NoText /\ n = NameOf[signal[c].turn]
        /\ calls[c] # NoName => greeted[c] = {calls[c]}

(* The system drops a line only after the person joined, was asked and was *)
(* greeted (tests/test_livekit_take_person_name.py: the person hears the   *)
(* whole goodbye before the line drops).                                   *)
GoodbyeBeforeTheLineDrops ==
    \A c \in Calls : room[c] = "deleted" =>
        c \in asked /\ greeted[c] # {} /\ person[c] = "left" /\ signal[c].joined

(* place_call answers with the id of a call that get_call then finds under *)
(* the name greeted, and whose room and agents are gone.                   *)
AnsweredCallIsOnRecord ==
    \A c \in Calls : caller[c] = "answered" =>
        /\ calls[c] # NoName /\ room[c] = "deleted"
        /\ \A j \in Jobs : job[j].call = c => job[j].at = "gone"

(* A workflow is paused only after its person said nothing but             *)
(* punctuation, left, or found a retry (a fault) behind it: a call in      *)
(* which all went well is never stopped half way.                          *)
PauseHasACause ==
    \A c \in Calls : flow[c].at = "paused" =>
        \/ faults > 0
        \/ person[c] = "left"
        \/ flow[c].heard # NoText /\ NameOf[flow[c].heard] = NoName

(* Whatever is lost, retried, said twice or answered by a second agent: no *)
(* signal is refused by its own call, one name is greeted and recorded,    *)
(* the line is dropped after the goodbye, a caller who is answered finds   *)
(* the call on record, and nothing is paused without a cause.              *)
CallsGoRight ==
    /\ TypeOK
    /\ SignalsFindTheCall
    /\ OneNameThroughout
    /\ GoodbyeBeforeTheLineDrops
    /\ AnsweredCallIsOnRecord
    /\ PauseHasACause

(* The detailed call implements PlacedCall. *)
Stage(c) ==
    CASE caller[c] = "answered"   -> "answered"
      [] caller[c] # "answered" /\ calls[c] # NoName -> "recorded"
      [] calls[c] = NoName /\ room[c] = "deleted"    -> "dropped"
      [] room[c] # "deleted" /\ signal[c].turn = NoText -> "open"
      [] OTHER -> IF NameOf[signal[c].turn] = NoName THEN "unnamed" ELSE "named"
HeardName(c) ==
    IF signal[c].turn = NoText \/ NameOf[signal[c].turn] = NoName THEN "nobody"
    ELSE NameOf[signal[c].turn]
Placed == INSTANCE PlacedCall WITH
    stage <- [c \in Calls |-> Stage(c)], name <- [c \in Calls |-> HeardName(c)]

(* In every call one name is heard at most, then the line drops, then that *)
(* name is recorded, then the caller is answered, each once.               *)
KeepsPlacedCall == Placed!Spec
===============================================================================
