--------------------------- MODULE SlotBookingProofs ---------------------------
(***************************************************************************)
(* That slots are sold as booked, for any callers, any tool calls side by  *)
(* side, any directory of slots and any number of sessions.                *)
(***************************************************************************)
EXTENDS SlotBooking, TLAPS

(* The parts of the state as sets of records.                              *)
AgentRecords == [is : {"out", "on"}, turn : Turns, lock : Calls \cup {NoCall}, cut : BOOLEAN,
                 sessions : 0..Sessions]
CallRecords == [at : {"none", "waiting", "mounting"}, tool : Tools, arg : Slots \cup {NoSlot},
                turn : Turns]

(* Of a caller's row, agent and tool calls: who has a session or a call    *)
(* has a row; the lock is held just by the call that mounts, whose tools   *)
(* are those of the row; without one the tools mounted are those.          *)
Served(row, a, k) ==
    /\ a.is = "on" => row # NoRow
    /\ \A c \in Calls : k[c].at # "none" => row # NoRow
    /\ \A c \in Calls : k[c].at = "mounting" => a.lock = c /\ k[c].turn = Turn(row)
    /\ \A c \in Calls : a.lock = c => k[c].at = "mounting"
    /\ a.is = "on" /\ a.lock = NoCall /\ ~a.cut => a.turn = Turn(row)

IInv ==
    /\ TypeOK /\ SlotsAreSoldOnce /\ BookedIsReserved
    /\ \A b \in Bookings : Served(stored[b], agent[b], calls[b])

-------------------------------------------------------------------------------
(* Helpers.                                                                *)

LEMMA Domains ==
    ASSUME TypeOK
    PROVE  /\ stored \in [Bookings -> Row \cup {NoRow}]
           /\ agent \in [Bookings -> AgentRecords]
           /\ calls \in [Bookings -> [Calls -> CallRecords]]
           /\ \A b \in Bookings : stored[b] # NoRow => stored[b] \in Row /\ Loads(stored[b])
BY DEF TypeOK, AgentRecords, CallRecords

(* A row tells its tools and what it offers.                               *)
LEMMA TurnType ==
    ASSUME NEW row \in Row
    PROVE  Turn(row) \in Turns
<1>1. row.step \in BookingSteps /\ row.offered \subseteq Slots
  BY DEF Row
<1>2. ToolsFor(row.step) \subseteq Tools
  BY <1>1 DEF BookingSteps, ToolsFor, Tools
<1>3. (IF "choose_slot" \in ToolsFor(row.step) THEN row.offered ELSE {}) \subseteq Slots
  BY <1>1
<1> QED BY <1>2, <1>3 DEF Turn, Turns

LEMMA NoTurnType == NoTurn \in Turns
BY DEF NoTurn, Turns, Tools

LEMMA BegunLoads == Begun \in Row /\ Loads(Begun) /\ Begun.step = "collect_name"
BY DEF Begun, Row, BookingSteps, Loads

(* What each transition of a booking makes of a row that loads.            *)
LEMMA NamedLoads ==
    ASSUME NEW row \in Row, Loads(row), row.step = "collect_name",
           NEW offered \in SUBSET Slots, offered # {}
    PROVE  LET new == Named(row, offered) IN
           /\ new \in Row /\ Loads(new) /\ new.step = "choose_slot"
           /\ ~row.named /\ row.chosen = NoSlot /\ new.chosen = NoSlot
<1>1. row.chosen = NoSlot /\ ~row.named
  BY DEF Loads
<1>2. /\ Named(row, offered).step = "choose_slot" /\ Named(row, offered).named
      /\ Named(row, offered).offered = offered /\ Named(row, offered).chosen = row.chosen
      /\ Named(row, offered) \in Row
  BY DEF Named, Row, BookingSteps
<1> QED BY <1>1, <1>2 DEF Loads

LEMMA ChosenLoads ==
    ASSUME NEW row \in Row, Loads(row), row.step \in {"choose_slot", "confirm"},
           NEW slot \in row.offered, slot # NoSlot
    PROVE  LET new == Chosen(row, slot) IN
           /\ new \in Row /\ Loads(new) /\ new.step = "confirm"
           /\ row.named = new.named /\ new.chosen = slot
<1>1. row.named /\ row.offered # {} /\ slot \in Slots
  BY DEF Loads, Row
<1>2. /\ Chosen(row, slot).step = "confirm" /\ Chosen(row, slot).named = row.named
      /\ Chosen(row, slot).offered = row.offered /\ Chosen(row, slot).chosen = slot
      /\ Chosen(row, slot) \in Row
  BY <1>1 DEF Chosen, Row, BookingSteps
<1> QED BY <1>1, <1>2 DEF Loads

LEMMA BookedLoads ==
    ASSUME NEW row \in Row, Loads(row), row.step = "confirm"
    PROVE  LET new == Booked(row) IN
           /\ new \in Row /\ Loads(new) /\ new.step = "booked"
           /\ row.named = new.named /\ new.chosen = row.chosen /\ row.chosen \in Slots
<1>1. row.named /\ row.chosen # NoSlot /\ row.chosen \in row.offered /\ row.offered \subseteq Slots
  BY DEF Loads, Row
<1>2. /\ Booked(row).step = "booked" /\ Booked(row).named = row.named
      /\ Booked(row).offered = row.offered /\ Booked(row).chosen = row.chosen
      /\ Booked(row) \in Row
  BY DEF Booked, Row, BookingSteps
<1> QED BY <1>1, <1>2 DEF Loads

LEMMA ReofferedLoads ==
    ASSUME NEW row \in Row, Loads(row), row.step = "confirm",
           NEW offered \in SUBSET Slots, offered # {}
    PROVE  LET new == Reoffered(row, offered) IN
           new \in Row /\ Loads(new) /\ new.step = "choose_slot" /\ row.named = new.named
<1>1. row.named
  BY DEF Loads
<1>2. /\ Reoffered(row, offered).step = "choose_slot" /\ Reoffered(row, offered).named = row.named
      /\ Reoffered(row, offered).offered = offered /\ Reoffered(row, offered).chosen = NoSlot
      /\ Reoffered(row, offered) \in Row
  BY DEF Reoffered, Row, BookingSteps
<1> QED BY <1>1, <1>2 DEF Loads

-------------------------------------------------------------------------------
(* A step is one caller's.  Its row, agent and calls change, and the       *)
(* directory; the others' stay.                                            *)

Own(b) ==
    /\ stored' \in [Bookings -> Row \cup {NoRow}]
    /\ agent' \in [Bookings -> AgentRecords]
    /\ calls' \in [Bookings -> [Calls -> CallRecords]]
    /\ \A a \in Bookings \ {b} :
          stored'[a] = stored[a] /\ agent'[a] = agent[a] /\ calls'[a] = calls[a]

LEMMA OwnStep ==
    ASSUME IInv, NEW b \in Bookings, Own(b),
           stored'[b] # NoRow => Loads(stored'[b]),
           Served(stored'[b], agent'[b], calls'[b]),
           free' \subseteq free, reserved' \subseteq Slots \X Bookings, reserved \subseteq reserved',
           SlotsAreSoldOnce',
           stored'[b] # NoRow /\ stored'[b].step = "booked" => <<stored'[b].chosen, b>> \in reserved'
    PROVE  IInv'
<1>0. TypeOK /\ BookedIsReserved /\ \A a \in Bookings : Served(stored[a], agent[a], calls[a])
  BY DEF IInv
<1>1. TypeOK'
  BY <1>0 DEF Own, TypeOK, AgentRecords, CallRecords
<1>2. BookedIsReserved'
  BY <1>0 DEF Own, BookedIsReserved
<1>3. \A a \in Bookings : Served(stored'[a], agent'[a], calls'[a])
  BY <1>0 DEF Own
<1> QED BY <1>1, <1>2, <1>3 DEF IInv

(* A step that leaves the row and the directory alone.                     *)
LEMMA RowStays ==
    ASSUME IInv, NEW b \in Bookings, Own(b), stored' = stored, free' = free, reserved' = reserved,
           Served(stored[b], agent'[b], calls'[b])
    PROVE  IInv'
<1>0. /\ TypeOK /\ SlotsAreSoldOnce /\ BookedIsReserved
      /\ stored[b] # NoRow => Loads(stored[b])
  BY DEF IInv, TypeOK
<1>1. SlotsAreSoldOnce' /\ free' \subseteq free /\ reserved \subseteq reserved'
      /\ reserved' \subseteq Slots \X Bookings
  BY <1>0 DEF SlotsAreSoldOnce, TypeOK
<1>2. stored[b] # NoRow /\ stored[b].step = "booked" => <<stored[b].chosen, b>> \in reserved
  BY <1>0 DEF BookedIsReserved
<1> QED BY <1>0, <1>1, <1>2, OwnStep

(* The lock is taken and an answer is to be mounted.                       *)
LEMMA AnswersFields ==
    ASSUME TypeOK, NEW b \in Bookings, NEW c \in Calls, NEW row \in Row, Answers(b, c, row),
           stored' \in [Bookings -> Row \cup {NoRow}],
           \A a \in Bookings \ {b} : stored'[a] = stored[a]
    PROVE  /\ Own(b)
           /\ calls'[b][c].at = "mounting" /\ calls'[b][c].turn = Turn(row)
           /\ \A d \in Calls \ {c} : calls'[b][d] = calls[b][d]
           /\ agent'[b].lock = c /\ agent'[b].is = agent[b].is
<1> DEFINE k == [calls[b][c] EXCEPT !.at = "mounting", !.turn = Turn(row)]
           g == [agent[b] EXCEPT !.lock = c]
<1>1. calls[b][c] \in CallRecords /\ agent[b] \in AgentRecords /\ calls[b] \in [Calls -> CallRecords]
  BY Domains
<1>2. Turn(row) \in Turns
  BY TurnType
<1>3. k \in CallRecords /\ k.at = "mounting" /\ k.turn = Turn(row)
  BY <1>1, <1>2 DEF CallRecords
<1>4. g \in AgentRecords /\ g.lock = c /\ g.is = agent[b].is
  BY <1>1 DEF AgentRecords
<1>5. agent' = [agent EXCEPT ![b] = g]
  BY DEF Answers
<1>6. calls' = [calls EXCEPT ![b] = [calls[b] EXCEPT ![c] = k]]
  BY <1>1, Domains DEF Answers
<1> HIDE DEF k, g
<1>7. [calls[b] EXCEPT ![c] = k] \in [Calls -> CallRecords]
  BY <1>1, <1>3
<1>8. calls' \in [Bookings -> [Calls -> CallRecords]] /\ agent' \in [Bookings -> AgentRecords]
  BY <1>4, <1>5, <1>6, <1>7, Domains
<1>9. /\ calls'[b][c] = k /\ \A d \in Calls \ {c} : calls'[b][d] = calls[b][d]
      /\ agent'[b] = g
      /\ \A a \in Bookings \ {b} : calls'[a] = calls[a] /\ agent'[a] = agent[a]
  BY <1>1, <1>5, <1>6, Domains
<1> QED BY <1>3, <1>4, <1>8, <1>9 DEF Own

(* Who takes the lock found it free: no other call mounts.                 *)
LEMMA AnswersServed ==
    ASSUME BookingAssumption, TypeOK, NEW b \in Bookings, NEW c \in Calls, NEW row \in Row,
           TakesTurn(b, c), Served(stored[b], agent[b], calls[b]),
           calls'[b][c].at = "mounting", calls'[b][c].turn = Turn(row),
           \A d \in Calls \ {c} : calls'[b][d] = calls[b][d],
           agent'[b].lock = c
    PROVE  Served(row, agent'[b], calls'[b])
<1>1. row # NoRow /\ c # NoCall
  BY BookingAssumption DEF BookingAssumption
<1>2. \A d \in Calls : calls[b][d].at # "mounting"
  BY BookingAssumption DEF BookingAssumption, TakesTurn, Served
<1>3. \A d \in Calls : calls'[b][d].at = "mounting" => d = c
  BY <1>2
<1>4. \A d \in Calls : agent'[b].lock = d => d = c
  OBVIOUS
<1> QED BY <1>1, <1>3, <1>4 DEF Served

(* A call ends and the lock is given back.                                 *)
LEMMA CallEnds ==
    ASSUME BookingAssumption, IInv, NEW b \in Bookings, NEW c \in Calls,
           TakesTurn(b, c) \/ Mounting(b, c),
           NEW g \in AgentRecords, agent' = [agent EXCEPT ![b] = g], g.lock = NoCall,
           calls' = [calls EXCEPT ![b][c] = NotCalled], stored' = stored,
           g.is = "on" => agent[b].is = "on" /\ (g.cut \/ g.turn = Turn(stored[b]))
    PROVE  Own(b) /\ Served(stored[b], agent'[b], calls'[b])
<1>0. /\ TypeOK /\ Served(stored[b], agent[b], calls[b]) /\ NoCall \notin Calls
      /\ calls[b] \in [Calls -> CallRecords]
  BY Domains, BookingAssumption DEF BookingAssumption, IInv
<1>1. NotCalled \in CallRecords /\ NotCalled.at = "none"
  BY NoTurnType DEF NotCalled, CallRecords, Tools
<1>2. calls' = [calls EXCEPT ![b] = [calls[b] EXCEPT ![c] = NotCalled]]
  BY <1>0, Domains
<1>3. [calls[b] EXCEPT ![c] = NotCalled] \in [Calls -> CallRecords]
  BY <1>0, <1>1
<1>4. calls' \in [Bookings -> [Calls -> CallRecords]] /\ agent' \in [Bookings -> AgentRecords]
  BY <1>0, <1>2, <1>3, Domains
<1>5. /\ calls'[b][c] = NotCalled /\ \A d \in Calls \ {c} : calls'[b][d] = calls[b][d]
      /\ agent'[b] = g
      /\ \A a \in Bookings \ {b} : calls'[a] = calls[a] /\ agent'[a] = agent[a]
  BY <1>0, <1>2, Domains
<1>6. Own(b)
  BY <1>0, <1>4, <1>5, Domains DEF Own
<1>7. \A d \in Calls \ {c} : calls[b][d].at # "mounting"
  BY <1>0 DEF TakesTurn, Mounting, Served
<1>8. \A d \in Calls : calls'[b][d].at # "mounting"
  BY <1>1, <1>5, <1>7
<1>9. \A d \in Calls : calls'[b][d].at # "none" => stored[b] # NoRow
  BY <1>0, <1>1, <1>5 DEF Served
<1> QED BY <1>0, <1>5, <1>6, <1>8, <1>9 DEF Served

-------------------------------------------------------------------------------
(* The steps of a session.                                                 *)

LEMMA ResumedLoads ==
    ASSUME TypeOK, NEW b \in Bookings
    PROVE  /\ Resumed(b) \in Row /\ Loads(Resumed(b))
           /\ stored[b] # NoRow => Resumed(b) = stored[b]
           /\ stored[b] = NoRow => Resumed(b).step = "collect_name"
BY Domains, BegunLoads DEF Resumed

LEMMA EnterKeeps ==
    ASSUME BookingAssumption, IInv, NEW b \in Bookings, Enter(b)
    PROVE  IInv'
<1> DEFINE g == [NotEntered EXCEPT !.is = "on", !.turn = Turn(Resumed(b)),
                                   !.sessions = agent[b].sessions + 1]
<1>0. /\ TypeOK /\ SlotsAreSoldOnce /\ BookedIsReserved /\ agent[b] \in AgentRecords
      /\ free' = free /\ reserved' = reserved /\ calls' = calls
      /\ stored' = [stored EXCEPT ![b] = Resumed(b)] /\ agent' = [agent EXCEPT ![b] = g]
      /\ agent[b].sessions < Sessions /\ \A c \in Calls : calls[b][c].at = "none"
  BY Domains DEF IInv, Enter
<1>1. /\ Resumed(b) \in Row /\ Loads(Resumed(b)) /\ Turn(Resumed(b)) \in Turns
      /\ Resumed(b) # NoRow
      /\ stored[b] # NoRow => Resumed(b) = stored[b]
      /\ stored[b] = NoRow => Resumed(b).step = "collect_name"
  BY <1>0, ResumedLoads, TurnType, BookingAssumption DEF BookingAssumption
<1>2. agent[b].sessions + 1 \in 0..Sessions
  BY <1>0, BookingAssumption DEF BookingAssumption, AgentRecords
<1>3. /\ g \in AgentRecords /\ g.is = "on" /\ g.lock = NoCall /\ g.turn = Turn(Resumed(b))
  BY <1>1, <1>2 DEF NotEntered, AgentRecords
<1> HIDE DEF g
<1>4. Own(b)
  BY <1>0, <1>1, <1>3, Domains DEF Own
<1>5. stored'[b] = Resumed(b) /\ agent'[b] = g
  BY <1>0, Domains
<1>6. Served(Resumed(b), g, calls[b])
  BY <1>0, <1>1, <1>3, BookingAssumption DEF BookingAssumption, Served
<1>7. Resumed(b).step = "booked" => <<Resumed(b).chosen, b>> \in reserved
  BY <1>0, <1>1 DEF BookedIsReserved
<1>8. SlotsAreSoldOnce' /\ reserved' \subseteq Slots \X Bookings
  BY <1>0 DEF SlotsAreSoldOnce, TypeOK
<1> QED BY <1>0, <1>1, <1>4, <1>5, <1>6, <1>7, <1>8, OwnStep

LEMMA EnterFailsKeeps ==
    ASSUME BookingAssumption, IInv, NEW b \in Bookings, EnterFails(b)
    PROVE  IInv'
<1> DEFINE g == [agent[b] EXCEPT !.sessions = @ + 1]
<1>0. /\ TypeOK /\ SlotsAreSoldOnce /\ BookedIsReserved /\ agent[b] \in AgentRecords
      /\ free' = free /\ reserved' = reserved /\ calls' = calls
      /\ agent' = [agent EXCEPT ![b] = g] /\ agent[b].is = "out"
      /\ agent[b].sessions < Sessions /\ \A c \in Calls : calls[b][c].at = "none"
      /\ Served(stored[b], agent[b], calls[b])
  BY Domains DEF IInv, EnterFails
<1>1. /\ Resumed(b) \in Row /\ Loads(Resumed(b))
      /\ stored[b] # NoRow => Resumed(b) = stored[b]
      /\ stored[b] = NoRow => Resumed(b).step = "collect_name"
  BY <1>0, ResumedLoads
<1>2. agent[b].sessions + 1 \in 0..Sessions
  BY <1>0, BookingAssumption DEF BookingAssumption, AgentRecords
<1>3. g \in AgentRecords /\ g.is = "out" /\ g.lock = agent[b].lock
  BY <1>0, <1>2 DEF AgentRecords
<1> HIDE DEF g
<1>4. /\ stored'[b] \in {stored[b], Resumed(b)}
      /\ \A a \in Bookings \ {b} : stored'[a] = stored[a]
      /\ stored' \in [Bookings -> Row \cup {NoRow}]
  BY <1>0, <1>1, Domains DEF EnterFails
<1>5. Own(b) /\ agent'[b] = g
  BY <1>0, <1>3, <1>4, Domains DEF Own
<1>6. Served(stored'[b], g, calls[b])
  BY <1>0, <1>3 DEF Served
<1>7. /\ stored'[b] # NoRow => Loads(stored'[b])
      /\ stored'[b] # NoRow /\ stored'[b].step = "booked" => <<stored'[b].chosen, b>> \in reserved
  BY <1>0, <1>1, <1>4, Domains DEF BookedIsReserved
<1>8. SlotsAreSoldOnce' /\ reserved' \subseteq Slots \X Bookings
  BY <1>0 DEF SlotsAreSoldOnce, TypeOK
<1> QED BY <1>0, <1>5, <1>6, <1>7, <1>8, OwnStep

LEMMA HangUpKeeps ==
    ASSUME IInv, NEW b \in Bookings, HangUp(b)
    PROVE  IInv'
<1> DEFINE g == [agent[b] EXCEPT !.is = "out"]
<1>0. /\ TypeOK /\ agent[b] \in AgentRecords /\ Served(stored[b], agent[b], calls[b])
      /\ free' = free /\ reserved' = reserved /\ calls' = calls /\ stored' = stored
      /\ agent' = [agent EXCEPT ![b] = g]
  BY Domains DEF IInv, HangUp
<1>1. g \in AgentRecords /\ g.is = "out" /\ g.lock = agent[b].lock
  BY <1>0 DEF AgentRecords
<1> HIDE DEF g
<1>2. Own(b) /\ agent'[b] = g
  BY <1>0, <1>1, Domains DEF Own
<1>3. Served(stored[b], g, calls[b])
  BY <1>0, <1>1 DEF Served
<1> QED BY <1>0, <1>2, <1>3, RowStays

LEMMA IssueKeeps ==
    ASSUME IInv, NEW b \in Bookings, NEW c \in Calls, NEW tool \in Tools,
           NEW arg \in Slots \cup {NoSlot}, Issue(b, c, tool, arg)
    PROVE  IInv'
<1> DEFINE k == [at |-> "waiting", tool |-> tool, arg |-> arg, turn |-> NoTurn]
<1>0. /\ TypeOK /\ calls[b] \in [Calls -> CallRecords] /\ Served(stored[b], agent[b], calls[b])
      /\ free' = free /\ reserved' = reserved /\ agent' = agent /\ stored' = stored
      /\ calls' = [calls EXCEPT ![b] = [calls[b] EXCEPT ![c] = k]]
      /\ agent[b].is = "on" /\ calls[b][c].at = "none"
  BY Domains DEF IInv, Issue
<1>1. k \in CallRecords /\ k.at = "waiting"
  BY NoTurnType DEF CallRecords
<1> HIDE DEF k
<1>2. [calls[b] EXCEPT ![c] = k] \in [Calls -> CallRecords]
  BY <1>0, <1>1
<1>3. /\ Own(b) /\ calls'[b][c] = k
      /\ \A d \in Calls \ {c} : calls'[b][d] = calls[b][d]
  BY <1>0, <1>2, Domains DEF Own
<1>4. Served(stored[b], agent[b], calls'[b])
  <2>1. stored[b] # NoRow
    BY <1>0 DEF Served
  <2>2. \A d \in Calls : calls'[b][d].at = "mounting" => d # c /\ calls'[b][d] = calls[b][d]
    BY <1>1, <1>3
  <2>3. \A d \in Calls : agent[b].lock = d => d # c
    BY <1>0 DEF Served
  <2> QED BY <1>0, <1>3, <2>1, <2>2, <2>3 DEF Served
<1> QED BY <1>0, <1>3, <1>4, RowStays

-------------------------------------------------------------------------------
(* The tools.                                                              *)

(* Who has a call has a row.                                               *)
LEMMA CallerHasRow ==
    ASSUME IInv, NEW b \in Bookings, NEW c \in Calls, TakesTurn(b, c) \/ Mounting(b, c)
    PROVE  stored[b] \in Row /\ Loads(stored[b]) /\ TypeOK /\ Served(stored[b], agent[b], calls[b])
<1>1. TypeOK /\ Served(stored[b], agent[b], calls[b])
  BY DEF IInv
<1>2. stored[b] # NoRow
  BY <1>1 DEF TakesTurn, Mounting, Served
<1> QED BY <1>1, <1>2, Domains

(* An answer that leaves the row a row that loads keeps the invariant.     *)
LEMMA SavesKeeps ==
    ASSUME BookingAssumption, IInv, NEW b \in Bookings, NEW c \in Calls, TakesTurn(b, c),
           NEW row \in Row, Loads(row), Saves(b, c, row),
           free' \subseteq free, reserved' \subseteq Slots \X Bookings, reserved \subseteq reserved',
           SlotsAreSoldOnce', row.step = "booked" => <<row.chosen, b>> \in reserved'
    PROVE  IInv'
<1>0. TypeOK /\ Served(stored[b], agent[b], calls[b]) /\ row # NoRow
  BY BookingAssumption DEF BookingAssumption, IInv
<1>1. /\ stored' \in [Bookings -> Row \cup {NoRow}] /\ stored'[b] = row
      /\ \A a \in Bookings \ {b} : stored'[a] = stored[a]
      /\ Answers(b, c, row)
  BY <1>0, Domains DEF Saves
<1>2. /\ Own(b)
      /\ calls'[b][c].at = "mounting" /\ calls'[b][c].turn = Turn(row)
      /\ \A d \in Calls \ {c} : calls'[b][d] = calls[b][d]
      /\ agent'[b].lock = c
  BY <1>0, <1>1, AnswersFields
<1>3. Served(row, agent'[b], calls'[b])
  BY BookingAssumption, <1>0, <1>2, AnswersServed
<1> QED BY <1>0, <1>1, <1>2, <1>3, OwnStep

(* A reservation sells a slot that was free.                               *)
LEMMA ReserveSells ==
    ASSUME TypeOK, SlotsAreSoldOnce, NEW b \in Bookings, Reserve(b), stored[b].chosen \in Slots
    PROVE  /\ free' \subseteq free /\ reserved \subseteq reserved'
           /\ reserved' \subseteq Slots \X Bookings /\ SlotsAreSoldOnce'
           /\ <<stored[b].chosen, b>> \in reserved'
<1> DEFINE s == stored[b].chosen
<1>1. s \in free /\ s \in Slots /\ free' = free \ {s} /\ reserved' = reserved \cup {<<s, b>>}
  BY DEF Reserve
<1>2. free \subseteq Slots /\ reserved \subseteq Slots \X Bookings
  BY DEF TypeOK
<1> HIDE DEF s
<1>3. \A r \in reserved : r[1] # s /\ r[1] \notin free
  BY <1>1 DEF SlotsAreSoldOnce
<1>4. free' \subseteq free /\ reserved \subseteq reserved' /\ <<s, b>> \in reserved'
  BY <1>1
<1>5. reserved' \subseteq Slots \X Bookings
  BY <1>1, <1>2
<1>6. \A r, q \in reserved' : r[1] = q[1] => r = q
  <2> SUFFICES ASSUME NEW r \in reserved', NEW q \in reserved', r[1] = q[1]
               PROVE  r = q
    OBVIOUS
  <2>1. r \in reserved \/ r = <<s, b>>
    BY <1>1
  <2>2. q \in reserved \/ q = <<s, b>>
    BY <1>1
  <2>3. CASE r \in reserved /\ q \in reserved
    BY <2>3 DEF SlotsAreSoldOnce
  <2>4. CASE r = <<s, b>> /\ q \in reserved
    BY <1>3, <2>4
  <2>5. CASE r \in reserved /\ q = <<s, b>>
    BY <1>3, <2>5
  <2>6. CASE r = <<s, b>> /\ q = <<s, b>>
    BY <2>6
  <2> QED BY <2>1, <2>2, <2>3, <2>4, <2>5, <2>6
<1>7. \A r \in reserved' : r[1] \notin free'
  <2> SUFFICES ASSUME NEW r \in reserved'
               PROVE  r[1] \notin free'
    OBVIOUS
  <2>1. CASE r \in reserved
    BY <1>1, <1>3, <2>1
  <2>2. CASE r = <<s, b>>
    BY <1>1, <2>2
  <2> QED BY <1>1, <2>1, <2>2
<1>8. SlotsAreSoldOnce'
  BY <1>6, <1>7 DEF SlotsAreSoldOnce
<1> QED BY <1>4, <1>5, <1>8 DEF s

LEMMA SoldStays ==
    ASSUME IInv, UNCHANGED <<free, reserved>>
    PROVE  /\ free' \subseteq free /\ reserved \subseteq reserved'
           /\ reserved' \subseteq Slots \X Bookings /\ SlotsAreSoldOnce'
BY DEF IInv, SlotsAreSoldOnce, TypeOK

LEMMA CallKeeps ==
    ASSUME BookingAssumption, IInv, NEW b \in Bookings, NEW c \in Calls, Call(b, c)
    PROVE  IInv'
<1>0. TakesTurn(b, c)
  BY DEF Call, ProvideName, ChooseSlot, ConfirmBooked, ConfirmReoffered, Confirms, Serves, Refused,
         Breaks, SaveFails
<1>1. /\ stored[b] \in Row /\ Loads(stored[b]) /\ TypeOK /\ Served(stored[b], agent[b], calls[b])
      /\ SlotsAreSoldOnce /\ free \in SUBSET Slots /\ stored[b] # NoRow
      /\ agent[b] \in AgentRecords
  BY <1>0, CallerHasRow, Domains, BookingAssumption DEF BookingAssumption, IInv, TypeOK
<1>2. CASE ProvideName(b, c)
  <2>1. /\ stored[b].step = "collect_name" /\ free # {} /\ UNCHANGED <<free, reserved>>
        /\ Saves(b, c, Named(stored[b], free))
    BY <1>2 DEF ProvideName, Offer
  <2>2. /\ Named(stored[b], free) \in Row /\ Loads(Named(stored[b], free))
        /\ Named(stored[b], free).step = "choose_slot"
    BY <1>1, <2>1, NamedLoads
  <2> QED BY BookingAssumption, <1>0, <2>1, <2>2, SavesKeeps, SoldStays
<1>3. CASE ChooseSlot(b, c)
  <2> DEFINE slot == calls[b][c].arg
  <2>1. /\ stored[b].step \in {"choose_slot", "confirm"} /\ slot \in stored[b].offered
        /\ slot # NoSlot /\ UNCHANGED <<free, reserved>> /\ Saves(b, c, Chosen(stored[b], slot))
    BY <1>3 DEF ChooseSlot, Given
  <2> HIDE DEF slot
  <2>2. /\ Chosen(stored[b], slot) \in Row /\ Loads(Chosen(stored[b], slot))
        /\ Chosen(stored[b], slot).step = "confirm"
    BY <1>1, <2>1, ChosenLoads
  <2> QED BY BookingAssumption, <1>0, <2>1, <2>2, SavesKeeps, SoldStays
<1>4. CASE ConfirmBooked(b, c)
  <2>1. stored[b].step = "confirm" /\ Reserve(b) /\ Saves(b, c, Booked(stored[b]))
    BY <1>4 DEF ConfirmBooked, Confirms
  <2>2. /\ Booked(stored[b]) \in Row /\ Loads(Booked(stored[b]))
        /\ Booked(stored[b]).chosen = stored[b].chosen /\ stored[b].chosen \in Slots
    BY <1>1, <2>1, BookedLoads
  <2>3. /\ free' \subseteq free /\ reserved \subseteq reserved'
        /\ reserved' \subseteq Slots \X Bookings /\ SlotsAreSoldOnce'
        /\ <<stored[b].chosen, b>> \in reserved'
    BY <1>1, <2>1, <2>2, ReserveSells
  <2> QED BY BookingAssumption, <1>0, <2>1, <2>2, <2>3, SavesKeeps
<1>5. CASE ConfirmReoffered(b, c)
  <2>1. /\ stored[b].step = "confirm" /\ free # {} /\ UNCHANGED <<free, reserved>>
        /\ Saves(b, c, Reoffered(stored[b], free))
    BY <1>5 DEF ConfirmReoffered, Confirms, Offer
  <2>2. /\ Reoffered(stored[b], free) \in Row /\ Loads(Reoffered(stored[b], free))
        /\ Reoffered(stored[b], free).step = "choose_slot"
    BY <1>1, <2>1, ReofferedLoads
  <2> QED BY BookingAssumption, <1>0, <2>1, <2>2, SavesKeeps, SoldStays
<1>6. CASE Refused(b, c)
  <2>1. /\ Answers(b, c, stored[b]) /\ UNCHANGED <<free, reserved, stored>>
    BY <1>6 DEF Refused, GetBooking
  <2>2. /\ Own(b)
        /\ calls'[b][c].at = "mounting" /\ calls'[b][c].turn = Turn(stored[b])
        /\ \A d \in Calls \ {c} : calls'[b][d] = calls[b][d]
        /\ agent'[b].lock = c
    BY <1>1, <2>1, Domains, AnswersFields
  <2>3. Served(stored[b], agent'[b], calls'[b])
    BY BookingAssumption, <1>0, <1>1, <2>2, AnswersServed
  <2> QED BY <2>1, <2>2, <2>3, RowStays
<1>7. ASSUME Halts(b, c), stored' = stored
      PROVE  Own(b) /\ Served(stored[b], agent'[b], calls'[b])
  <2> DEFINE g == [agent[b] EXCEPT !.is = "out", !.lock = NoCall]
  <2>1. g \in AgentRecords /\ g.is = "out" /\ g.lock = NoCall
    BY <1>1 DEF AgentRecords
  <2>2. agent' = [agent EXCEPT ![b] = g] /\ calls' = [calls EXCEPT ![b][c] = NotCalled]
    BY <1>7 DEF Halts
  <2> HIDE DEF g
  <2> QED BY BookingAssumption, <1>0, <1>7, <2>1, <2>2, CallEnds
<1>8. CASE Breaks(b, c)
  BY <1>7, <1>8, RowStays DEF Breaks
<1>9. CASE SaveFails(b, c)
  <2>1. stored' = stored /\ Reserve(b) /\ Halts(b, c) /\ stored[b].step = "confirm"
    BY <1>9 DEF SaveFails, Confirms
  <2>2. stored[b].chosen \in Slots
    BY <1>1, <2>1, BookedLoads
  <2>3. /\ free' \subseteq free /\ reserved \subseteq reserved'
        /\ reserved' \subseteq Slots \X Bookings /\ SlotsAreSoldOnce'
    BY <1>1, <2>1, <2>2, ReserveSells
  <2> QED BY <1>1, <1>7, <2>1, <2>3, OwnStep
<1> QED BY <1>2, <1>3, <1>4, <1>5, <1>6, <1>8, <1>9 DEF Call

LEMMA EndsKeeps ==
    ASSUME BookingAssumption, IInv, NEW b \in Bookings, NEW c \in Calls, Ends(b, c)
    PROVE  IInv'
<1>0. Mounting(b, c) /\ UNCHANGED <<free, reserved, stored>>
      /\ calls' = [calls EXCEPT ![b][c] = NotCalled]
  BY DEF Ends, Mount, MountFails, MountCancelled, Halts
<1>1. /\ stored[b] \in Row /\ TypeOK /\ Served(stored[b], agent[b], calls[b])
      /\ agent[b] \in AgentRecords /\ calls[b][c] \in CallRecords
  BY <1>0, CallerHasRow, Domains
<1>2. calls[b][c].turn = Turn(stored[b])
  BY <1>0, <1>1 DEF Mounting, Served
<1>3. ASSUME NEW g \in AgentRecords, agent' = [agent EXCEPT ![b] = g], g.lock = NoCall,
             g.is = "on" => agent[b].is = "on" /\ (g.cut \/ g.turn = Turn(stored[b]))
      PROVE  IInv'
  BY BookingAssumption, <1>0, <1>3, CallEnds, RowStays
<1>4. CASE Mount(b, c)
  <2> DEFINE g == [agent[b] EXCEPT !.turn = calls[b][c].turn, !.lock = NoCall, !.cut = FALSE]
  <2>1. /\ g \in AgentRecords /\ g.is = agent[b].is /\ g.lock = NoCall
        /\ g.turn = calls[b][c].turn
    BY <1>1 DEF AgentRecords, CallRecords
  <2>2. agent' = [agent EXCEPT ![b] = g]
    BY <1>4 DEF Mount
  <2> HIDE DEF g
  <2> QED BY <1>2, <1>3, <2>1, <2>2
<1>5. CASE MountFails(b, c)
  <2> DEFINE g == [agent[b] EXCEPT !.is = "out", !.lock = NoCall]
  <2>1. g \in AgentRecords /\ g.is = "out" /\ g.lock = NoCall
    BY <1>1 DEF AgentRecords
  <2>2. agent' = [agent EXCEPT ![b] = g]
    BY <1>5 DEF MountFails, Halts
  <2> HIDE DEF g
  <2> QED BY <1>3, <2>1, <2>2
<1>6. CASE MountCancelled(b, c)
  <2> DEFINE g == [agent[b] EXCEPT !.lock = NoCall, !.cut = TRUE]
  <2>1. g \in AgentRecords /\ g.is = agent[b].is /\ g.lock = NoCall /\ g.cut
    BY <1>1 DEF AgentRecords
  <2>2. agent' = [agent EXCEPT ![b] = g]
    BY <1>6 DEF MountCancelled
  <2> HIDE DEF g
  <2> QED BY <1>3, <2>1, <2>2
<1> QED BY <1>4, <1>5, <1>6 DEF Ends

-------------------------------------------------------------------------------
(* What a step may not do.                                                 *)

LEMMA StepIsSound ==
    ASSUME BookingAssumption, IInv, Next
    PROVE  StepsAreSound
<1>1. PICK b \in Bookings :
         \/ Enter(b) \/ EnterFails(b) \/ HangUp(b)
         \/ \E c \in Calls :
              \/ \E tool \in Tools, arg \in Slots \cup {NoSlot} : Issue(b, c, tool, arg)
              \/ Call(b, c) \/ Ends(b, c)
  BY DEF Next
<1>2. TypeOK
  BY DEF IInv
<1>3. ASSUME \/ stored' = stored
             \/ stored'[b] \in {stored[b], Resumed(b)}
                /\ \A a \in Bookings \ {b} : stored'[a] = stored[a]
      PROVE  BookingsNeverGoBack
  <2>1. \A a \in Bookings : stored[a] # NoRow => stored'[a] = stored[a]
    BY <1>3 DEF Resumed
  <2> QED BY <2>1 DEF BookingsNeverGoBack
<1>4. CASE Enter(b) \/ EnterFails(b) \/ HangUp(b)
  <2>1. reserved' = reserved
    BY <1>4 DEF Enter, EnterFails, HangUp
  <2>2. \/ stored' = stored
        \/ stored'[b] \in {stored[b], Resumed(b)}
           /\ \A a \in Bookings \ {b} : stored'[a] = stored[a]
    BY <1>2, <1>4, Domains DEF Enter, EnterFails, HangUp
  <2> QED BY <1>3, <2>1, <2>2 DEF StepsAreSound, ReservedIsBookedOrHalted
<1>5. ASSUME NEW c \in Calls,
             \/ \E tool \in Tools, arg \in Slots \cup {NoSlot} : Issue(b, c, tool, arg)
             \/ Ends(b, c) \/ Refused(b, c) \/ Breaks(b, c)
      PROVE  StepsAreSound
  <2>1. reserved' = reserved /\ stored' = stored
    BY <1>5 DEF Issue, Ends, Mount, MountFails, MountCancelled, Refused, Breaks
  <2> QED BY <1>3, <2>1 DEF StepsAreSound, ReservedIsBookedOrHalted
<1>6. ASSUME NEW c \in Calls,
             \/ ProvideName(b, c) \/ ChooseSlot(b, c) \/ ConfirmBooked(b, c) \/ ConfirmReoffered(b, c)
             \/ SaveFails(b, c)
      PROVE  StepsAreSound
  <2>0. TakesTurn(b, c)
    BY <1>6 DEF ProvideName, ChooseSlot, ConfirmBooked, ConfirmReoffered, Confirms, Serves, SaveFails
  <2>1. stored[b] \in Row /\ Loads(stored[b]) /\ stored[b] # NoRow /\ free \in SUBSET Slots
    BY <1>2, <2>0, CallerHasRow, BookingAssumption DEF BookingAssumption, TypeOK
  <2>2. ASSUME NEW row, stored' = [stored EXCEPT ![b] = row], stored[b].step # "booked",
               stored[b].named => row.named,
               stored[b].chosen # NoSlot /\ row.chosen = NoSlot => stored[b].chosen \notin free
        PROVE  BookingsNeverGoBack
    <3>1. stored'[b] = row /\ \A a \in Bookings \ {b} : stored'[a] = stored[a]
      BY <1>2, <2>2, Domains
    <3> QED BY <2>2, <3>1 DEF BookingsNeverGoBack
  <2>3. CASE ProvideName(b, c)
    <3>1. /\ stored[b].step = "collect_name" /\ free # {} /\ reserved' = reserved
          /\ stored' = [stored EXCEPT ![b] = Named(stored[b], free)]
      BY <2>3 DEF ProvideName, Offer, Saves
    <3>2. ~stored[b].named /\ stored[b].chosen = NoSlot
      BY <2>1, <3>1, NamedLoads
    <3>3. BookingsNeverGoBack
      BY <2>2, <3>1, <3>2
    <3> QED BY <3>1, <3>3 DEF StepsAreSound, ReservedIsBookedOrHalted
  <2>4. CASE ChooseSlot(b, c)
    <3> DEFINE slot == calls[b][c].arg
    <3>1. /\ stored[b].step \in {"choose_slot", "confirm"} /\ slot \in stored[b].offered
          /\ slot # NoSlot /\ reserved' = reserved
          /\ stored' = [stored EXCEPT ![b] = Chosen(stored[b], slot)]
      BY <2>4 DEF ChooseSlot, Given, Saves
    <3> HIDE DEF slot
    <3>2. Chosen(stored[b], slot).named = stored[b].named /\ Chosen(stored[b], slot).chosen = slot
      BY <2>1, <3>1, ChosenLoads
    <3>3. BookingsNeverGoBack
      BY <2>2, <3>1, <3>2
    <3> QED BY <3>1, <3>3 DEF StepsAreSound, ReservedIsBookedOrHalted
  <2>5. CASE ConfirmBooked(b, c)
    <3>1. /\ stored[b].step = "confirm" /\ reserved' = reserved \cup {<<stored[b].chosen, b>>}
          /\ stored' = [stored EXCEPT ![b] = Booked(stored[b])]
      BY <2>5 DEF ConfirmBooked, Confirms, Saves, Reserve
    <3>2. /\ Booked(stored[b]).named = stored[b].named /\ Booked(stored[b]).step = "booked"
          /\ Booked(stored[b]).chosen = stored[b].chosen
      BY <2>1, <3>1, BookedLoads
    <3>3. BookingsNeverGoBack
      BY <2>2, <3>1, <3>2
    <3>4. stored'[b].step = "booked"
      BY <1>2, <3>1, <3>2, Domains
    <3>5. \A a \in Bookings \ {b} : reserved' \cap (Slots \X {a}) = reserved \cap (Slots \X {a})
      BY <3>1
    <3> QED BY <3>3, <3>4, <3>5 DEF StepsAreSound, ReservedIsBookedOrHalted
  <2>6. CASE ConfirmReoffered(b, c)
    <3>1. /\ stored[b].step = "confirm" /\ free # {} /\ reserved' = reserved
          /\ stored[b].chosen \notin free
          /\ stored' = [stored EXCEPT ![b] = Reoffered(stored[b], free)]
      BY <2>6 DEF ConfirmReoffered, Confirms, Offer, Saves
    <3>2. Reoffered(stored[b], free).named = stored[b].named
      BY <2>1, <3>1, ReofferedLoads
    <3>3. BookingsNeverGoBack
      BY <2>2, <3>1, <3>2
    <3> QED BY <3>1, <3>3 DEF StepsAreSound, ReservedIsBookedOrHalted
  <2>7. CASE SaveFails(b, c)
    <3>1. /\ reserved' = reserved \cup {<<stored[b].chosen, b>>} /\ stored' = stored
          /\ agent' = [agent EXCEPT ![b].is = "out", ![b].lock = NoCall]
      BY <2>7 DEF SaveFails, Halts, Reserve
    <3>2. agent[b] \in AgentRecords
      BY <1>2, Domains
    <3>3. agent'[b].is = "out"
      BY <1>2, <3>1, <3>2, Domains DEF AgentRecords
    <3>4. \A a \in Bookings \ {b} : reserved' \cap (Slots \X {a}) = reserved \cap (Slots \X {a})
      BY <3>1
    <3> QED BY <1>3, <3>1, <3>3, <3>4 DEF StepsAreSound, ReservedIsBookedOrHalted
  <2> QED BY <1>6, <2>3, <2>4, <2>5, <2>6, <2>7
<1> QED BY <1>1, <1>4, <1>5, <1>6 DEF Call

-------------------------------------------------------------------------------
(* The theorem.                                                            *)

LEMMA IInvInit ==
    ASSUME BookingAssumption, Init
    PROVE  IInv
<1>1. NotEntered \in AgentRecords /\ NotCalled \in CallRecords
  BY NoTurnType, BookingAssumption
     DEF BookingAssumption, NotEntered, NotCalled, AgentRecords, CallRecords, Tools
<1>2. NotEntered.is = "out" /\ NotEntered.lock = NoCall /\ NotCalled.at = "none"
  BY DEF NotEntered, NotCalled
<1>3. TypeOK
  BY <1>1, BookingAssumption DEF BookingAssumption, Init, TypeOK, AgentRecords, CallRecords
<1>4. SlotsAreSoldOnce /\ BookedIsReserved
  BY DEF Init, SlotsAreSoldOnce, BookedIsReserved
<1>5. \A b \in Bookings : Served(stored[b], agent[b], calls[b])
  BY <1>2, BookingAssumption DEF BookingAssumption, Init, Served
<1> QED BY <1>3, <1>4, <1>5 DEF IInv

LEMMA IInvNext ==
    ASSUME BookingAssumption, IInv, [Next]_vars
    PROVE  IInv'
<1>1. CASE Next
  BY BookingAssumption, <1>1, EnterKeeps, EnterFailsKeeps, HangUpKeeps, IssueKeeps, CallKeeps, EndsKeeps
     DEF Next
<1>2. CASE UNCHANGED vars
  BY <1>2 DEF vars, IInv, TypeOK, SlotsAreSoldOnce, BookedIsReserved
<1> QED BY <1>1, <1>2

LEMMA InvariantMeansSound == IInv => BookingsAreSound
<1>1. ASSUME IInv
      PROVE  ToolsFollowBooking
  BY <1>1 DEF IInv, Served, ToolsFollowBooking
<1> QED BY <1>1 DEF IInv, BookingsAreSound

(* However callers and the tool calls their models make meet on the        *)
(* directory (Booking, BookSlot's use cases, ToolAgent): a slot is sold    *)
(* once, a booked booking has its slot and keeps it, a reservation that    *)
(* was not saved stops the session, no booking goes back, and the tools    *)
(* mounted are those of the booking's step.                                *)
THEOREM SlotsAreSold ==
    ASSUME BookingAssumption
    PROVE  Spec => SlotsAreSoldAsBooked
<1>1. Init => IInv
  BY BookingAssumption, IInvInit
<1>2. IInv /\ [Next]_vars => IInv'
  BY BookingAssumption, IInvNext
<1>3. IInv => BookingsAreSound
  BY InvariantMeansSound
<1>4. IInv /\ [Next]_vars => [StepsAreSound]_vars
  BY BookingAssumption, StepIsSound
<1> QED BY <1>1, <1>2, <1>3, <1>4, PTL DEF Spec, SlotsAreSoldAsBooked
===============================================================================
