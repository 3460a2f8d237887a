------------------------------ MODULE SlotBooking ------------------------------
(***************************************************************************)
(* examples/llmport: callers book a slot through the tools of a language   *)
(* model.  A booking goes from a name to a slot to a confirmation; each    *)
(* caller's ToolAgent mounts the tools of the step the booking is at, and  *)
(* all of them share one directory of slots.                               *)
(*                                                                         *)
(* The model may call several tools at once, and call a tool that is no    *)
(* longer mounted.  A use case runs without an await, so it is one step;   *)
(* the agent's lock is held from it until the new tools are mounted.       *)
(***************************************************************************)
EXTENDS Naturals, FiniteSets

CONSTANTS
    Bookings,   \* booking ids, a caller for each; the caller's name is the id
    Slots,      \* the slots of the directory, and any others a model may invent
    Available,  \* those of the directory when it starts
    Calls,      \* the tool calls a model may have under way in one session
    Sessions,   \* a bound on the sessions of one booking
    NoRow, NoSlot, NoCall

Tools == {"provide_name", "choose_slot", "confirm_booking"}
BookingSteps == {"collect_name", "choose_slot", "confirm", "booked"}

Row == [step : BookingSteps, named : BOOLEAN, chosen : Slots \cup {NoSlot}, offered : SUBSET Slots]

(* What the module is used with: a directory of slots, and marks that are  *)
(* no slot, no row and no call.                                            *)
BookingAssumption ==
    /\ Available \subseteq Slots /\ NoSlot \notin Slots /\ NoRow \notin Row
    /\ NoCall \notin Calls /\ Sessions \in Nat

VARIABLES
    free,       \* MemorySlotDirectory.slots
    reserved,   \* MemorySlotDirectory.reserved, as <<slot, booking>>
    stored,     \* [Bookings -> the saved row]
    agent,      \* [Bookings -> the caller's session and its tools]
    calls       \* [Bookings -> [Calls -> a tool call]]

vars == <<free, reserved, stored, agent, calls>>

NoTurn == [tools |-> {}, slots |-> {}]
NotEntered == [is |-> "out", turn |-> NoTurn, lock |-> NoCall, cut |-> FALSE, sessions |-> 0]
NotCalled == [at |-> "none", tool |-> "confirm_booking", arg |-> NoSlot, turn |-> NoTurn]

Init ==
    /\ free = Available /\ reserved = {}
    /\ stored = [b \in Bookings |-> NoRow]
    /\ agent = [b \in Bookings |-> NotEntered]
    /\ calls = [b \in Bookings |-> [c \in Calls |-> NotCalled]]

-------------------------------------------------------------------------------
(* The booking.                                                            *)

(* What Booking's constructor accepts. *)
Loads(row) ==
    /\ row.step # "collect_name" => row.named
    /\ row.step = "collect_name" => ~row.named /\ row.chosen = NoSlot /\ row.offered = {}
    /\ row.step \in {"choose_slot", "confirm"} => row.offered # {}
    /\ row.step = "choose_slot" => row.chosen = NoSlot
    /\ row.step \in {"confirm", "booked"} => row.chosen # NoSlot
    /\ row.chosen # NoSlot => row.chosen \in row.offered

Begun == [step |-> "collect_name", named |-> FALSE, chosen |-> NoSlot, offered |-> {}]

Named(row, offered) == [row EXCEPT !.step = "choose_slot", !.named = TRUE, !.offered = offered]

Chosen(row, slot) == [row EXCEPT !.step = "confirm", !.chosen = slot]

Booked(row) == [row EXCEPT !.step = "booked"]

(* A mutant: the slot that was taken stays chosen. *)
ReofferedOnly(row, offered) == [row EXCEPT !.step = "choose_slot", !.offered = offered]

Reoffered(row, offered) ==
    [row EXCEPT !.step = "choose_slot", !.chosen = NoSlot, !.offered = offered]

ToolsFor(step) ==
    CASE step = "collect_name" -> {"provide_name"}
      [] step = "choose_slot"  -> {"choose_slot"}
      [] step = "confirm"      -> {"choose_slot", "confirm_booking"}
      [] step = "booked"       -> {}

(* The tools a row is answered with; choose_slot lists what is offered. *)
Turn(row) ==
    [tools |-> ToolsFor(row.step),
     slots |-> IF "choose_slot" \in ToolsFor(row.step) THEN row.offered ELSE {}]

-------------------------------------------------------------------------------
(* The session.                                                            *)

Resumed(b) == IF stored[b] = NoRow THEN Begun ELSE stored[b]

(* on_enter: the booking begins, or resumes where its row is, and is saved *)
(* as it was loaded.                                                       *)
Enter(b) ==
    /\ agent[b].is = "out" /\ agent[b].sessions < Sessions
    /\ \A c \in Calls : calls[b][c].at = "none"
    /\ stored' = [stored EXCEPT ![b] = Resumed(b)]
    /\ agent' = [agent EXCEPT ![b] = [NotEntered EXCEPT !.is = "on", !.turn = Turn(Resumed(b)),
                                                         !.sessions = agent[b].sessions + 1]]
    /\ UNCHANGED <<free, reserved, calls>>

(* begin raises, or its tools cannot be mounted: the session is halted     *)
(* before it has a tool, its booking saved or not.                         *)
EnterFails(b) ==
    /\ agent[b].is = "out" /\ agent[b].sessions < Sessions
    /\ \A c \in Calls : calls[b][c].at = "none"
    /\ agent' = [agent EXCEPT ![b].sessions = @ + 1]
    /\ stored' \in {stored, [stored EXCEPT ![b] = Resumed(b)]}
    /\ UNCHANGED <<free, reserved, calls>>

(* The caller hangs up; calls already made go on. *)
HangUp(b) ==
    /\ agent[b].is = "on"
    /\ agent' = [agent EXCEPT ![b].is = "out"]
    /\ UNCHANGED <<free, reserved, stored, calls>>

(* The model calls a tool that is mounted, with any argument: a slot, or   *)
(* something that is none (NoSlot: absent, blank, not a text).             *)
Issue(b, c, tool, arg) ==
    /\ agent[b].is = "on" /\ calls[b][c].at = "none"
    /\ tool \in agent[b].turn.tools
    /\ calls' = [calls EXCEPT ![b][c] = [at |-> "waiting", tool |-> tool, arg |-> arg, turn |-> NoTurn]]
    /\ UNCHANGED <<free, reserved, stored, agent>>

(* A mutant: calls do not wait for each other. *)
TakesTurnAtOnce(b, c) == calls[b][c].at = "waiting"

TakesTurn(b, c) == calls[b][c].at = "waiting" /\ agent[b].lock = NoCall

(* The lock is taken, the use case answers, and its tools are to be        *)
(* mounted.                                                                *)
Answers(b, c, row) ==
    /\ calls' = [calls EXCEPT ![b][c].at = "mounting", ![b][c].turn = Turn(row)]
    /\ agent' = [agent EXCEPT ![b].lock = c]

Saves(b, c, row) == stored' = [stored EXCEPT ![b] = row] /\ Answers(b, c, row)

(* The agent is halted: the call ends, the lock is given back. *)
Halts(b, c) ==
    /\ calls' = [calls EXCEPT ![b][c] = NotCalled]
    /\ agent' = [agent EXCEPT ![b].is = "out", ![b].lock = NoCall]

-------------------------------------------------------------------------------
(* The tools.                                                              *)

Serves(b, c, tool) == TakesTurn(b, c) /\ calls[b][c].tool = tool

(* A name or a slot that is blank is none; an offer has a slot.            *)
Given(b, c) == calls[b][c].arg # NoSlot

Offer(slots) == slots # {}

(* get_booking: what an agent asks for after a refusal.                    *)
GetBooking(b) == stored[b]

(* A name is taken while slots are free; they are offered as they are now. *)
ProvideName(b, c) ==
    /\ Serves(b, c, "provide_name") /\ stored[b].step = "collect_name"
    /\ Given(b, c) /\ Offer(free)
    /\ Saves(b, c, Named(stored[b], free))
    /\ UNCHANGED <<free, reserved>>

(* A mutant: a slot is chosen at any step. *)
ChooseSlotAnytime(b, c) ==
    /\ Serves(b, c, "choose_slot") /\ calls[b][c].arg \in stored[b].offered
    /\ Saves(b, c, Chosen(stored[b], calls[b][c].arg))
    /\ UNCHANGED <<free, reserved>>

ChooseSlot(b, c) ==
    /\ Serves(b, c, "choose_slot") /\ stored[b].step \in {"choose_slot", "confirm"}
    /\ Given(b, c) /\ calls[b][c].arg \in stored[b].offered
    /\ Saves(b, c, Chosen(stored[b], calls[b][c].arg))
    /\ UNCHANGED <<free, reserved>>

Confirms(b, c) == Serves(b, c, "confirm_booking") /\ stored[b].step = "confirm"

(* A mutant: whatever was offered once is reserved. *)
ReserveOffered(b) ==
    /\ stored[b].chosen \in stored[b].offered
    /\ free' = free \ {stored[b].chosen} /\ reserved' = reserved \cup {<<stored[b].chosen, b>>}

(* reserve_slot: the slot leaves the directory for the booking's name. *)
Reserve(b) ==
    /\ stored[b].chosen \in free
    /\ free' = free \ {stored[b].chosen} /\ reserved' = reserved \cup {<<stored[b].chosen, b>>}

ConfirmBooked(b, c) ==
    /\ Confirms(b, c) /\ Reserve(b)
    /\ Saves(b, c, Booked(stored[b]))

(* A mutant: the booking is booked whatever the directory says. *)
ConfirmAnyway(b, c) ==
    /\ Confirms(b, c) /\ stored[b].chosen \notin free /\ Offer(free)
    /\ Saves(b, c, Booked(stored[b]))
    /\ UNCHANGED <<free, reserved>>

(* Another caller has the slot: those that are left are offered. *)
ConfirmReoffered(b, c) ==
    /\ Confirms(b, c) /\ stored[b].chosen \notin free /\ Offer(free)
    /\ Saves(b, c, Reoffered(stored[b], free))
    /\ UNCHANGED <<free, reserved>>

-------------------------------------------------------------------------------
(* What goes wrong.                                                        *)

(* Not the step for it, no slot or name in the argument, a slot that was   *)
(* not offered, or none left: the row is not saved.                        *)
Refuses(b, c) ==
    LET call == calls[b][c]  row == stored[b] IN
    CASE call.tool = "provide_name"    -> row.step # "collect_name" \/ ~Given(b, c) \/ ~Offer(free)
      [] call.tool = "choose_slot"     -> row.step \notin {"choose_slot", "confirm"}
                                          \/ call.arg \notin row.offered
      [] call.tool = "confirm_booking" -> row.step # "confirm" \/ (row.chosen \notin free /\ ~Offer(free))

(* A mutant: the lock is kept after a refusal. *)
RefusedLocked(b, c) ==
    /\ TakesTurn(b, c) /\ Refuses(b, c)
    /\ calls' = [calls EXCEPT ![b][c] = NotCalled]
    /\ agent' = [agent EXCEPT ![b].lock = c]
    /\ UNCHANGED <<free, reserved, stored>>

(* A ValueError or BadToolCall: the tools of the row as it stands are      *)
(* mounted again before the model is told.                                 *)
Refused(b, c) ==
    /\ TakesTurn(b, c) /\ Refuses(b, c)
    /\ Answers(b, c, GetBooking(b))
    /\ UNCHANGED <<free, reserved, stored>>

(* The repository or the directory cannot be reached before anything was   *)
(* changed, or the status after a refusal cannot be read.                  *)
Breaks(b, c) ==
    /\ TakesTurn(b, c) /\ Halts(b, c)
    /\ UNCHANGED <<free, reserved, stored>>

(* A mutant: the failure is reported to the model like a refusal. *)
SaveFailsQuietly(b, c) ==
    /\ Confirms(b, c) /\ Reserve(b) /\ Answers(b, c, stored[b])
    /\ UNCHANGED stored

(* The slot is reserved and the save fails. *)
SaveFails(b, c) ==
    /\ Confirms(b, c) /\ Reserve(b) /\ Halts(b, c)
    /\ UNCHANGED stored

-------------------------------------------------------------------------------
(* The tools of the answer are mounted and the lock is given back.         *)
Mounting(b, c) == calls[b][c].at = "mounting"

Mount(b, c) ==
    /\ Mounting(b, c)
    /\ agent' = [agent EXCEPT ![b].turn = calls[b][c].turn, ![b].lock = NoCall, ![b].cut = FALSE]
    /\ calls' = [calls EXCEPT ![b][c] = NotCalled]
    /\ UNCHANGED <<free, reserved, stored>>

MountFails(b, c) ==
    /\ Mounting(b, c) /\ Halts(b, c)
    /\ UNCHANGED <<free, reserved, stored>>

(* The call's task is cancelled while it mounts: no handler catches that,  *)
(* the session goes on with the tools it had.                              *)
MountCancelled(b, c) ==
    /\ Mounting(b, c)
    /\ agent' = [agent EXCEPT ![b].lock = NoCall, ![b].cut = TRUE]
    /\ calls' = [calls EXCEPT ![b][c] = NotCalled]
    /\ UNCHANGED <<free, reserved, stored>>

-------------------------------------------------------------------------------
Call(b, c) ==
    \/ ProvideName(b, c) \/ ChooseSlot(b, c) \/ ConfirmBooked(b, c) \/ ConfirmReoffered(b, c)
    \/ Refused(b, c) \/ Breaks(b, c) \/ SaveFails(b, c)

Ends(b, c) == Mount(b, c) \/ MountFails(b, c) \/ MountCancelled(b, c)

Next == \E b \in Bookings :
    \/ Enter(b) \/ EnterFails(b) \/ HangUp(b)
    \/ \E c \in Calls :
         \/ \E tool \in Tools, arg \in Slots \cup {NoSlot} : Issue(b, c, tool, arg)
         \/ Call(b, c) \/ Ends(b, c)

Spec == Init /\ [][Next]_vars

(* An asyncio lock is handed on in turn, and update_tools returns. *)
Fairness == \A b \in Bookings, c \in Calls : SF_vars(Call(b, c)) /\ WF_vars(Ends(b, c))

-------------------------------------------------------------------------------
(* Properties.                                                             *)

Turns == [tools : SUBSET Tools, slots : SUBSET Slots]

(* Every part of the state has the values the code gives it, and the rows  *)
(* that are saved are rows that Booking's constructor takes back: it       *)
(* checks what the transitions should have made true.                      *)
TypeOK ==
    /\ free \subseteq Slots /\ reserved \subseteq Slots \X Bookings
    /\ stored \in [Bookings -> Row \cup {NoRow}]
    /\ agent \in [Bookings -> [is : {"out", "on"}, turn : Turns, lock : Calls \cup {NoCall},
                               cut : BOOLEAN, sessions : 0..Sessions]]
    /\ calls \in [Bookings -> [Calls -> [at : {"none", "waiting", "mounting"}, tool : Tools,
                                         arg : Slots \cup {NoSlot}, turn : Turns]]]
    /\ \A b \in Bookings : stored[b] # NoRow => Loads(stored[b])

(* A slot is never sold twice: not to two callers who chose it from lists  *)
(* of different ages, not to one who confirms twice or in two sessions.    *)
SlotsAreSoldOnce ==
    /\ \A r, s \in reserved : r[1] = s[1] => r = s
    /\ \A r \in reserved : r[1] \notin free

(* A booking that is booked has its slot reserved in its caller's name:    *)
(* the aggregate moves to booked before the directory has been asked and   *)
(* must come back when the slot is gone.                                   *)
BookedIsReserved ==
    \A b \in Bookings : stored[b] # NoRow /\ stored[b].step = "booked" => <<stored[b].chosen, b>> \in reserved

(* Of a step: a slot that is reserved is booked in the same step, or the   *)
(* session stops: a caller never goes on talking past a reservation that   *)
(* was not saved.                                                          *)
ReservedIsBookedOrHalted ==
    \A b \in Bookings : reserved' \cap (Slots \X {b}) # reserved \cap (Slots \X {b}) =>
        stored'[b].step = "booked" \/ agent'[b].is = "out"

(* Of a step: tool calls made side by side, or with tools that are no      *)
(* longer mounted, never take a booking back: a booked one stays as it is, *)
(* a name that was given is kept, and a chosen slot is only given up for   *)
(* another or because it is gone.                                          *)
BookingsNeverGoBack ==
    \A b \in Bookings : stored[b] # NoRow =>
        /\ stored[b].step = "booked" => stored'[b] = stored[b]
        /\ stored[b].named => stored'[b].named
        /\ stored[b].chosen # NoSlot /\ stored'[b].chosen = NoSlot => stored[b].chosen \notin free

(* When no call is under way, the tools that are mounted are those of the  *)
(* step the booking is at, with the slots it was offered, unless the last  *)
(* call was cancelled while it mounted them.                               *)
ToolsFollowBooking ==
    \A b \in Bookings : agent[b].is = "on" /\ agent[b].lock = NoCall /\ ~agent[b].cut =>
        agent[b].turn = Turn(stored[b])

(* However callers and tool calls meet on the directory: a slot is sold    *)
(* once, a booking that is booked has its slot and keeps it, a reservation *)
(* that was not saved stops the session, and the tools mounted are those   *)
(* of the booking's step.                                                  *)
BookingsAreSound == TypeOK /\ SlotsAreSoldOnce /\ BookedIsReserved /\ ToolsFollowBooking
StepsAreSound == ReservedIsBookedOrHalted /\ BookingsNeverGoBack
SlotsAreSoldAsBooked == []BookingsAreSound /\ [][StepsAreSound]_vars
===============================================================================
