------------------------------ MODULE MCProgress ------------------------------
(***************************************************************************)
(* What must eventually happen, for TLC: small instances of the parts that *)
(* state it, side by side.  In a behaviour one of them moves, the part;    *)
(* the others rest.  Each part has the fairness its module states.         *)
(***************************************************************************)
EXTENDS Naturals, Sequences, FiniteSets, TLC

CONSTANTS
    x1, x2, x3,                                     \* tasks, tool calls, commands, jobs
    NoTask, NoPool, NoCall, NoRow, NoSlot, NoText

VARIABLES
    part,
    caller, flow, signal, wire, refused, room, person, job, asked, greeted, calls, faults,  \* the voice call
    ref, lock, pool, task,                                      \* the databases
    widgets, keys, holder, users, schema, ready, request,       \* the widgets
    free, reserved, stored, agent, toolCalls,                   \* the bookings
    made, standings, registration, promise, tries, paused, at, session,  \* the approvals
    conf, loads, log, hook, worker, recorded, confEdits, pauses,         \* the hook
    tree, edits, running, last, main, state, promises, resolving         \* the engine

voiceVars    == <<caller, flow, signal, wire, refused, room, person, job, asked, greeted, calls, faults>>
databaseVars == <<ref, lock, pool, task>>
widgetVars   == <<widgets, keys, holder, users, schema, ready, request>>
bookingVars  == <<free, reserved, stored, agent, toolCalls>>
approvalVars == <<made, standings, registration, promise, tries, paused, at, session>>
hookVars     == <<conf, loads, log, hook, worker, recorded, confEdits, pauses>>
engineVars   == <<tree, edits, running, last, main, state, promises, resolving>>
partVars     == <<part, voiceVars, databaseVars, widgetVars, bookingVars, approvalVars, hookVars, engineVars>>

-----------------------------------------------------------------------------
Line ==
    INSTANCE VoiceCall WITH Calls <- {"c"}, Jobs <- {x1, x2}, Texts <- {"Sarah.", "?!"}, Blank <- {},
        Names <- {"Sarah"}, NoName <- "", MaxAttempts <- 5, MaxFaults <- 1,
        NameOf <- [text \in {"Sarah.", "?!"} |-> IF text = "?!" THEN "" ELSE "Sarah"]

Pools ==
    INSTANCE DatabaseLifecycle WITH Tasks <- {x1, x2, x3}, Nobody <- NoTask, Order <- <<"alpha", "beta">>, MaxSize <- 1,
        Does <- [t \in {x1, x2, x3} |-> CASE t = x1 -> "open" [] t = x2 -> "close" [] t = x3 -> "use"]

Asked(op, of) == [op |-> op, name |-> "lamp", part |-> of]

Store ==
    INSTANCE WidgetStore WITH Tasks <- {x1, x2, x3}, Nobody <- NoTask, Names <- {"lamp"}, Parts <- {"lamp", "bulb", "cord"},
        PoolSize <- 1, table <- schema, task <- request,
        Calls <- {Asked("add", "lamp"), Asked("take", "bulb"), Asked("hold", "lamp")}

Booking ==
    INSTANCE SlotBooking WITH Bookings <- {"b"}, Slots <- {"mon", "tue"}, Available <- {"mon", "tue"},
        Calls <- {x1, x2}, Sessions <- 1, calls <- toolCalls

Approval ==
    INSTANCE WidgetApproval WITH Names <- {"z"}, Held <- {}, Commands <- {x1}, MaxTries <- 2,
        Faults <- TRUE, table <- made, rows <- standings, flow <- registration, job <- session

Hook ==
    INSTANCE HookRuns WITH Writers <- {x1}, Loaders <- {x2}, PartialWrites <- TRUE,
        MaxConfEdits <- 0, MaxPauses <- 1, session <- loads

Engine ==
    INSTANCE EngineChain WITH MaxEdits <- 1, OneClient <- TRUE, SetsFirst <- TRUE, Obeys <- TRUE,
        EverySignal <- TRUE, RunsItsName <- TRUE, OneHome <- TRUE, signal <- resolving

-----------------------------------------------------------------------------
HookRests == Hook!Init /\ conf = "advisory"

PartInit ==
    /\ part \in {"voice", "databases", "widgets", "bookings", "approvals", "hook", "engine"}
    /\ Line!Init /\ Pools!Init /\ Store!Init /\ Booking!Init /\ Approval!Init /\ Engine!Init
    /\ Hook!Init /\ (part # "hook" => HookRests)

Moves(name) == part = name /\ part' = part

PartNext ==
    \/ /\ Moves("voice") /\ Line!Next
       /\ UNCHANGED <<databaseVars, widgetVars, bookingVars, approvalVars, hookVars, engineVars>>
    \/ /\ Moves("databases") /\ Pools!Next
       /\ UNCHANGED <<voiceVars, widgetVars, bookingVars, approvalVars, hookVars, engineVars>>
    \/ /\ Moves("widgets") /\ Store!Next
       /\ UNCHANGED <<voiceVars, databaseVars, bookingVars, approvalVars, hookVars, engineVars>>
    \/ /\ Moves("bookings") /\ Booking!Next
       /\ UNCHANGED <<voiceVars, databaseVars, widgetVars, approvalVars, hookVars, engineVars>>
    \/ /\ Moves("approvals") /\ Approval!Next
       /\ UNCHANGED <<voiceVars, databaseVars, widgetVars, bookingVars, hookVars, engineVars>>
    \/ /\ Moves("hook") /\ Hook!Next
       /\ UNCHANGED <<voiceVars, databaseVars, widgetVars, bookingVars, approvalVars, engineVars>>
    \/ /\ Moves("engine") /\ Engine!Next
       /\ UNCHANGED <<voiceVars, databaseVars, widgetVars, bookingVars, approvalVars, hookVars>>

(* The fairness of the modules' specifications, owed to the part that      *)
(* moves.                                                                  *)
PartFairness ==
    /\ WF_voiceVars(part = "voice" /\ Line!FlowStep("c"))
    /\ \A t \in {x1, x2} :
          /\ SF_databaseVars(part = "databases" /\ Pools!Closing(t))
          /\ WF_databaseVars(part = "databases" /\ (Pools!PoolCreated(t) \/ Pools!OpenFails(t)))
          /\ SF_bookingVars(part = "bookings" /\ Booking!Call("b", t))
          /\ WF_bookingVars(part = "bookings" /\ Booking!Ends("b", t))
    /\ \A t \in {x1, x2, x3} : SF_widgetVars(part = "widgets" /\ Store!Statement(t))
    /\ WF_approvalVars(part = "approvals" /\ Approval!Starts("z"))
    /\ WF_approvalVars(part = "approvals" /\ Approval!Awakes("z"))
    /\ WF_approvalVars(part = "approvals" /\ Approval!Attempts("z"))
    /\ WF_approvalVars(part = "approvals" /\ Approval!Finishes("z"))
    /\ \A s \in Approval!Sessions : WF_approvalVars(part = "approvals" /\ Approval!Talks(s))
    /\ WF_hookVars(part = "hook" /\ Hook!LoaderStep(x2))
    /\ WF_hookVars(part = "hook" /\ Hook!WriterStep(x1))
    /\ WF_hookVars(part = "hook" /\ Hook!Alarm(x1))
    /\ WF_engineVars(part = "engine" /\ Engine!Begin)
    /\ WF_engineVars(part = "engine" /\ Engine!Finish)
    /\ WF_engineVars(part = "engine" /\ Engine!ReadState)
    /\ WF_engineVars(part = "engine" /\ Engine!Resolve)
    /\ WF_engineVars(part = "engine" /\ resolving \in {"idle", "refused"} /\ Engine!Signal)

FairSpec == PartInit /\ [][PartNext]_partVars /\ PartFairness

-----------------------------------------------------------------------------

(* In each part, who waits for what.                                       *)

\* place_call waits for a workflow whose person joined and completed a turn: it
\* is answered, or the engine has paused the workflow for an operator; it never
\* spins on an answer of punctuation, on an agent that is gone or on a room
\* already deleted.
CallWaits == signal["c"].joined /\ signal["c"].turn # NoText
CallServed == caller["c"] = "answered" \/ flow["c"].at = "paused"

\* Databases.close, and an open that undoes itself, end although an operation
\* may never give its connection back, and whatever else opens or closes.
CloseWaits(t) == task[t].mode \in {"closing", "undoing"}
CloseServed(t) == task[t].mode \in {"returned", "raised", "broken"}

\* No operation of a store waits for ever: not for a connection while it holds
\* one, not for a row whose holder waits for a connection, not even when the
\* pool is down to one.
OperationWaits(t) == request[t].at = "acquire"
OperationServed(t) == request[t].at = "done"

\* A tool call that was made ends, however many wait for the same lock and
\* whatever those before it ran into.
ToolWaits(t) == toolCalls["b"][t].at = "waiting"
ToolServed(t) == toolCalls["b"][t].at = "none"

\* A name that is approved is kept, or its invocation has been paused
\* (register_widget under _RETRY_POLICY).
NameWaits == promise["z"]
NameServed == registration["z"] = "done" \/ "z" \in paused

\* A hook ends though its worker never answers, unless it is killed; no worker
\* outlives its hook for good, not even a hook that was killed.
HookWaits(h) == hook[h].pc # "waits"
HookServed(h) == hook[h].pc \in {"ended", "killed"}

\* In an accepted tree a main that waits for a signal is woken, if the signal
\* keeps being sent.
MainWaits == main = "waiting"
MainServed == main = "done"

Waits(t) ==
    \/ part = "voice" /\ t = x1 /\ CallWaits
    \/ part = "databases" /\ CloseWaits(t)
    \/ part = "widgets" /\ OperationWaits(t)
    \/ part = "bookings" /\ t # x3 /\ ToolWaits(t)
    \/ part = "approvals" /\ t = x1 /\ NameWaits
    \/ part = "hook" /\ IF t = x3 THEN worker[x1] = "running" ELSE HookWaits(t)
    \/ part = "engine" /\ t = x1 /\ MainWaits

Served(t) ==
    \/ part = "voice" /\ CallServed
    \/ part = "databases" /\ CloseServed(t)
    \/ part = "widgets" /\ OperationServed(t)
    \/ part = "bookings" /\ t # x3 /\ ToolServed(t)
    \/ part = "approvals" /\ NameServed
    \/ part = "hook" /\ IF t = x3 THEN worker[x1] = "gone" ELSE HookServed(t)
    \/ part = "engine" /\ MainServed

\* Whoever waits, in any part, is served: a call, a close, a database operation,
\* a tool call, a registration, a hook, its worker, a workflow's main.
EveryoneIsServed == \A t \in {x1, x2, x3} : Waits(t) ~> Served(t)
===============================================================================
