------------------------------ MODULE MCExamples ------------------------------
(***************************************************************************)
(* The small examples for TLC, side by side: errorspy's campaigns, the     *)
(* databases of pgdatabase, asyncpg's widgets, llmport's bookings (twice:  *)
(* two callers, or two calls of one caller) and the minimal example's      *)
(* approvals (twice: one name with faults, two without).  In a behaviour   *)
(* one of them moves, the part; the others rest.                           *)
(***************************************************************************)
EXTENDS DatabaseLifecycle, TLC

CONSTANTS
    CampaignIds, CampaignSlugs, LinkCap, BodyCap,                     \* of the campaigns
    Requesters, Requests, WidgetNames, WidgetParts, Connections,      \* of the widgets
    ApprovalNames, Approvers, RacingNames, RacingHeld, Racers, Tries, \* of the approvals
    a1, a2, b1, b2, c,                      \* actors, alike in pairs: tasks, callers, slots, commands
    NoCall, NoRow, NoSlot                   \* what stands for none of them

VARIABLES
    part,
    rows, down, last,                                            \* of the campaigns
    widgets, keys, holder, users, schema, ready, request,        \* of the widgets
    free, reserved, stored, agent, calls,                        \* of the bookings
    made, standings, flow, promise, tries, paused, at, job       \* of the approvals

errorVars    == <<rows, down, last>>
databaseVars == vars
widgetVars   == <<widgets, keys, holder, users, schema, ready, request>>
bookingVars  == <<free, reserved, stored, agent, calls>>
approvalVars == <<made, standings, flow, promise, tries, paused, at, job>>

-----------------------------------------------------------------------------
(* Two tasks open the databases and one closes them while two use them.    *)

PoolTasks == {a1, a2, b1, b2, c}
PoolOps == [t \in PoolTasks |-> IF t \in {a1, a2} THEN "open" ELSE IF t = c THEN "close" ELSE "use"]
PoolOrder == <<"alpha", "beta">>

Campaigns ==
    INSTANCE ErrorMatrix WITH Ids <- CampaignIds, Slugs <- CampaignSlugs, MaxLinks <- LinkCap, MaxBody <- BodyCap

ASSUME CampaignsAreAskedAsMeant == Campaigns!TextsKnown /\ Campaigns!BoundsNat

(* Requests that meet on one widget, its name and its key.                 *)

Asked(op, of) == [op |-> op, name |-> "lamp", part |-> of]

LampRequests ==
    {Asked("add", "lamp"), Asked("add", "bulb"), Asked("take", "bulb"), Asked("take", "cord"),
     Asked("take", "lamp"), Asked("find", "lamp"), Asked("hold", "lamp")}

Store ==
    INSTANCE WidgetStore WITH Tasks <- Requesters, Calls <- Requests, Names <- WidgetNames, Parts <- WidgetParts,
        PoolSize <- Connections, table <- schema, task <- request

ASSUME WidgetsAreAskedAsMeant == Store!StoreAssumption

(* Two callers, slots enough for one of them or for both; or one caller    *)
(* whose model makes two tool calls at once.                               *)

TwoCallers ==
    INSTANCE SlotBooking WITH Bookings <- {a1, a2}, Slots <- {b1, b2}, Available <- {b1, b2},
        Calls <- {c}, Sessions <- 1

OneCaller ==
    INSTANCE SlotBooking WITH Bookings <- {c}, Slots <- {b1, b2}, Available <- {b1, b2},
        Calls <- {a1, a2}, Sessions <- 2

ASSUME BookingsAreAskedAsMeant == TwoCallers!BookingAssumption /\ OneCaller!BookingAssumption

(* Two commands on one name while attempts are lost and processes die; or  *)
(* one command, two names and a table to be made, while nothing fails.     *)

OneName ==
    INSTANCE WidgetApproval WITH Names <- ApprovalNames, Held <- {}, Commands <- Approvers, MaxTries <- Tries,
        Faults <- TRUE, table <- made, rows <- standings

TableRaces ==
    INSTANCE WidgetApproval WITH Names <- RacingNames, Held <- RacingHeld, Commands <- Racers, MaxTries <- Tries,
        Faults <- FALSE, table <- made, rows <- standings

ASSUME ApprovalsAreAskedAsMeant == OneName!ApprovalAssumption /\ TableRaces!ApprovalAssumption

-----------------------------------------------------------------------------

ErrorsRest == Campaigns!Init /\ ~down

PartInit ==
    \/ /\ part = "errors" /\ Campaigns!Init
       /\ Init /\ Store!Init /\ TwoCallers!Init /\ OneName!Init
    \/ /\ part \in {"databases", "widgets", "two callers", "one name"} /\ ErrorsRest
       /\ Init /\ Store!Init /\ TwoCallers!Init /\ OneName!Init
    \/ /\ part = "one caller" /\ ErrorsRest
       /\ Init /\ Store!Init /\ OneCaller!Init /\ OneName!Init
    \/ /\ part = "table races" /\ ErrorsRest
       /\ Init /\ Store!Init /\ TwoCallers!Init /\ TableRaces!Init

PartNext ==
    \/ /\ part = "errors" /\ Campaigns!Next
       /\ UNCHANGED <<part, databaseVars, widgetVars, bookingVars, approvalVars>>
    \/ /\ part = "databases" /\ Next
       /\ UNCHANGED <<part, errorVars, widgetVars, bookingVars, approvalVars>>
    \/ /\ part = "widgets" /\ Store!Next
       /\ UNCHANGED <<part, errorVars, databaseVars, bookingVars, approvalVars>>
    \/ /\ part = "two callers" /\ TwoCallers!Next
       /\ UNCHANGED <<part, errorVars, databaseVars, widgetVars, approvalVars>>
    \/ /\ part = "one caller" /\ OneCaller!Next
       /\ UNCHANGED <<part, errorVars, databaseVars, widgetVars, approvalVars>>
    \/ /\ part = "one name" /\ OneName!Next
       /\ UNCHANGED <<part, errorVars, databaseVars, widgetVars, bookingVars>>
    \/ /\ part = "table races" /\ TableRaces!Next
       /\ UNCHANGED <<part, errorVars, databaseVars, widgetVars, bookingVars>>

PartSpec ==
    PartInit /\ [][PartNext]_<<part, errorVars, databaseVars, widgetVars, bookingVars, approvalVars>>

Alike == Permutations({a1, a2}) \cup Permutations({b1, b2})

-----------------------------------------------------------------------------

\* Of errorspy: what is stored loads, an answer names every field that is
\* refused, a refusal changes nothing and blames the request only for what is
\* the request's.
ErrorsAreHonest ==
    /\ [](part = "errors" => Campaigns!StoredCampaignsLoad /\ Campaigns!EveryProblemAtOnce)
    /\ Campaigns!RefusalsChangeNothing
    /\ Campaigns!BlameIsRight

\* Of the widgets: a loaded row stands until it is saved, a stored one is
\* replaced only by who had loaded it, one add of a name is answered, a clearance
\* is still good when it is used, and a store that skips its schema has one.
WidgetChangesHold ==
    /\ [](part = "widgets" =>
            /\ Store!TypeOK
            /\ Store!LoadedRowsStand
            /\ Store!OneAddPerName
            /\ Store!ClearedNamesAreHeld
            /\ Store!ReadyMeansPresent)
    /\ Store!ChangesFollowLoads

\* Of the bookings: a slot is sold once, a booking that is booked has its slot, a
\* reservation that was not saved stops the session, no booking goes back, and
\* the tools mounted are those of the booking's step.
SlotsAreSoldAsBooked ==
    /\ [](part = "two callers" => TwoCallers!BookingsAreSound)
    /\ [](part = "one caller" => OneCaller!BookingsAreSound)
    /\ [][part = "two callers" => TwoCallers!StepsAreSound]_bookingVars
    /\ [][part = "one caller" => OneCaller!StepsAreSound]_bookingVars

\* Of the approvals: nothing is kept unapproved, an approval has a registration
\* that began and is never refused again, a registration that is over is found,
\* and commands that race for the table pause none.
ApprovalsHold ==
    /\ [](part = "one name" =>
            OneName!TypeOK /\ OneName!ApprovalsHaveARegistration /\ OneName!DoneIsFound)
    /\ [](part = "table races" => TableRaces!TheTableIsRacedForOnce)
    /\ [][part = "one name" => OneName!NothingKeptUnapproved /\ OneName!ApprovalsRepeat]_approvalVars
===============================================================================
