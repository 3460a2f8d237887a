--------------------------- MODULE MCDurableOrdering ---------------------------
(* Small instances of DurableOrdering: a menu of calls from which each     *)
(* configuration takes its Requests, and a price list scaled down so that  *)
(* one order on the menu passes the bound on a total.  A behaviour serves  *)
(* one sitting: some of the callers, and a bound on what fails.            *)
EXTENDS DurableOrdering

VARIABLE sitting

MCCatalog == [sku \in {"widget", "gadget"} |-> IF sku = "widget" THEN 2 ELSE 10]

LOCAL Ordered(order_id, sku, quantity, method) ==
    [order_id |-> order_id, sku |-> sku, quantity |-> quantity, method |-> method]
LOCAL Called(op, key, body) == [op |-> op, key |-> key, order |-> body]

MCMenu ==
    [pay_card       |-> Called("make_order_payment", "o1", Ordered("o1", "gadget", 2, "card")),
     pay_declined   |-> Called("make_order_payment", "o1", Ordered("o1", "gadget", 1, "declined")),
     pay_unpriced   |-> Called("make_order_payment", "o1", Ordered("o1", "sprocket", 1, "card")),
     pay_other      |-> Called("make_order_payment", "o2", Ordered("o2", "widget", 1, "card")),
     place          |-> Called("place_order", "o1", Ordered("o1", "widget", 2, "")),
     place_too_much |-> Called("place_order", "o1", Ordered("o1", "gadget", 3, "")),
     submit         |-> Called("submit_order", "o1", Ordered("o1", "gadget", 1, "")),
     submit_nothing |-> Called("submit_order", "o1", Ordered("o1", "gadget", 0, "")),
     run_foreign    |-> Called("confirm_order", "o1", Ordered("o2", "widget", 1, "")),
     run_unreadable |-> Called("confirm_order", "o1", Ordered("o1", "widget", 0, "")),
     pay_foreign    |-> Called("pay_for_order", "o2", Ordered("o1", "gadget", 1, "card")),
     pay_unreadable |-> Called("pay_for_order", "o2", Ordered("o2", "gadget", 0, "card"))]

MCBody == [r \in Requests |-> MCMenu[r]]

-------------------------------------------------------------------------------
LOCAL Sitting(requests, lost, restarted, killed) ==
    [requests |-> requests, drops |-> lost, restarts |-> restarted, kills |-> killed]

(* Four calls on one order id through every door, with a lost attempt, a   *)
(* restart of the host and a kill.                                         *)
Race == Sitting({"pay_card", "pay_declined", "place", "submit"}, 1, 1, 1)

(* Calls on the public ingress routes whose key is not the order id of the *)
(* body or whose body the serde refuses, and an honest one.                *)
Foreign == Sitting({"run_foreign", "pay_foreign", "pay_unreadable", "pay_other"}, 0, 1, 1)

(* Orders that are rejected at the door, unreadable, without a price or    *)
(* past the bound on a total, with a lost attempt and a kill.              *)
Refused == Sitting({"pay_unpriced", "place_too_much", "submit_nothing", "run_unreadable"}, 1, 0, 1)

(* Every failure but a kill, and fewer lost attempts than the retry policy *)
(* allows.                                                                 *)
Fair == Sitting({"pay_card", "pay_declined", "place"}, 2, 1, 0)

(* Only the sitting's callers call, and no more fails than it allows.      *)
InSitting ==
    /\ \A r \in Requests \ sitting.requests : call'[r] = "new"
    /\ drops' <= sitting.drops
    /\ restarts' <= sitting.restarts
    /\ kills' <= sitting.kills

SittingNext == Next /\ InSitting /\ UNCHANGED sitting

RaceInit == Init /\ sitting \in {Race, Foreign}

RaceSpec == RaceInit /\ [][SittingNext]_<<vars, sitting>>

FairInit == Init /\ sitting \in {Refused, Fair}

(* The fairness of FairSpec.                                               *)
FairSittings ==
    /\ FairInit /\ [][SittingNext]_<<vars, sitting>>
    /\ \A r \in Requests : WF_vars(AnswerCaller(r))
    /\ \A k \in OrderIds :
          /\ WF_vars(OrderStep(k)) /\ WF_vars(PricingStep(k))
          /\ WF_vars(PurchaseStep(k)) /\ WF_vars(PaymentStep(k))

(* In fair weather every workflow ends, a customer who was charged has a   *)
(* purchase that ends PAID whatever attempts and restarts were lost in     *)
(* between, and a caller that keeps waiting is answered.                   *)
FairWeatherServes ==
    sitting = Fair => WorkflowsEnd /\ ChargedIsPaid /\ WaitersAreAnswered
===============================================================================
