------------------------- MODULE DurableOrderingProofs -------------------------
(***************************************************************************)
(* Types, keys and the number of charges of DurableOrdering, where what    *)
(* its state holds came from, what the doors tell their callers and what   *)
(* the processor charges, for any callers, order ids, price list and       *)
(* bounds; and that the whole keeps the promise of OrderSettlement.        *)
(***************************************************************************)
EXTENDS DurableOrdering, TLAPS

-------------------------------------------------------------------------------
(* Types of what the steps are built from.                                 *)

(* A response is well formed when its parts are. *)
LEMMA ResponseType ==
    ASSUME NEW outcome \in Outcomes, NEW order_id \in OrderNames, NEW cents \in Int
    PROVE  Response(outcome, order_id, cents) \in Responses
BY DEF Response, Responses

(* The empty name and an order id are names. *)
LEMMA NamesType ==
    /\ NoName \in OrderNames
    /\ \A k \in OrderIds : k \in OrderNames
    /\ \A input \in Inputs : input.order_id \in OrderNames
BY DEF OrderNames

(* The responses that carry nothing but their outcome. *)
LEMMA BareResponseType ==
    ASSUME NEW outcome \in Outcomes
    PROVE  Response(outcome, NoName, 0) \in Responses
BY NamesType, ResponseType

LEMMA RefusalTypes ==
    /\ None \in Responses /\ AlreadyInvoked \in Responses /\ Killed \in Responses
    /\ ForeignOrder \in Responses /\ Unreadable \in Responses
BY BareResponseType DEF None, AlreadyInvoked, Killed, ForeignOrder, Unreadable, Outcomes

(* What a door says of a response is a response. *)
LEMMA SituationType ==
    ASSUME NEW response \in Responses
    PROVE  Situation(response) \in Responses
<1>1. \A outcome \in Outcomes : Response(outcome, NoName, 0) \in Responses
  BY BareResponseType
<1>2. CASE RecognisedRefusal(response) \/ StatusCode(response) # 200
  BY <1>1, <1>2 DEF Situation, Outcomes
<1>3. CASE ~RecognisedRefusal(response) /\ StatusCode(response) = 200
  <2>1. CASE response.outcome = "PRODUCT_PRICE_NOT_FOUND"
    BY <1>1, <1>3, <2>1 DEF Situation, Outcomes
  <2>2. CASE response.outcome = "ORDER_NOT_CONFIRMED"
    BY <1>1, <1>3, <2>2 DEF Situation, Outcomes
  <2>3. CASE response.outcome = "PAYMENT_DECLINED"
    BY <1>1, <1>3, <2>3 DEF Situation, Outcomes
  <2>4. CASE response.outcome \notin {"PRODUCT_PRICE_NOT_FOUND", "ORDER_NOT_CONFIRMED",
                                      "PAYMENT_DECLINED"}
    BY <1>3, <2>4 DEF Situation
  <2> QED BY <2>1, <2>2, <2>3, <2>4
<1> QED BY <1>2, <1>3

(* A new workflow and a new call of an action are well formed. *)
LEMMA WorkflowType ==
    ASSUME NEW S, NEW status \in S, NEW caller \in Callers, NEW input \in Inputs
    PROVE  Workflow(status, caller, input) \in Workflows(S)
BY RefusalTypes DEF Workflow, Workflows

LEMMA ActionType ==
    ASSUME NEW status \in ActionStatuses, NEW cents \in Nat, NEW input \in Inputs
    PROVE  Action(status, cents, input) \in Actions
BY RefusalTypes DEF Action, Actions

(* So they are after each of the updates that the steps make. *)
LEMMA UpdateTypes ==
    ASSUME NEW S, NEW w \in Workflows(S), NEW status \in S, NEW response \in Responses
    PROVE  /\ At(w, status) \in Workflows(S)
           /\ Acted(w, status, response) \in Workflows(S)
           /\ Finished(w, status, response) \in Workflows(S)
           /\ "confirmed" \in S => Confirmed(w, response) \in Workflows(S)
BY DEF At, Acted, Finished, Confirmed, Workflows

LEMMA ActionUpdateTypes ==
    ASSUME NEW a \in Actions, NEW status \in ActionStatuses, NEW response \in Responses
    PROVE  /\ At(a, status) \in Actions
           /\ Answered(a, response) \in Actions
BY DEF At, Answered, Actions, ActionStatuses

(* And after losing an attempt. *)
LEMMA RetriedWorkflowType ==
    ASSUME NEW S, "paused" \in S, NEW again \in S, NEW w \in Workflows(S)
    PROVE  Retried(w, again) \in Workflows(S)
<1> DEFINE status == IF w.attempts + 1 >= MaxAttempts THEN "paused" ELSE again
<1> DEFINE attempts == w.attempts + 1
<1>1. attempts \in Nat
  BY DEF Workflows
<1>2. status \in S
  OBVIOUS
<1>3. Retried(w, again) = [w EXCEPT !.attempts = attempts, !.status = status]
  BY DEF Retried
<1> HIDE DEF status, attempts
<1> QED BY <1>1, <1>2, <1>3 DEF Workflows

LEMMA RetriedActionType ==
    ASSUME NEW a \in Actions, NEW again \in ActionStatuses
    PROVE  Retried(a, again) \in Actions
<1> DEFINE status == IF a.attempts + 1 >= MaxAttempts THEN "paused" ELSE again
<1> DEFINE attempts == a.attempts + 1
<1>1. attempts \in Nat
  BY DEF Actions
<1>2. status \in ActionStatuses
  BY DEF ActionStatuses
<1>3. Retried(a, again) = [a EXCEPT !.attempts = attempts, !.status = status]
  BY DEF Retried
<1> HIDE DEF status, attempts
<1> QED BY <1>1, <1>2, <1>3 DEF Actions

(* The end of a workflow reaches a well formed caller or parent. *)
LEMMA ReplyAfterType ==
    ASSUME TypeOK, NEW caller \in Callers, NEW response \in Responses
    PROVE  ReplyAfter(caller, response) \in [Requests -> Responses]
<1>1. reply \in [Requests -> Responses]
  BY DEF TypeOK
<1> QED BY <1>1 DEF ReplyAfter

LEMMA ParentAfterType ==
    ASSUME TypeOK, NEW caller \in Callers, NEW response \in Responses
    PROVE  ParentAfter(caller, response) \in [OrderIds -> Workflows(PurchaseStatuses)]
<1>1. purchase \in [OrderIds -> Workflows(PurchaseStatuses)]
  BY DEF TypeOK
<1>2. "confirmed" \in PurchaseStatuses
  BY DEF PurchaseStatuses
<1>3. \A k \in OrderIds : Confirmed(purchase[k], response) \in Workflows(PurchaseStatuses)
  BY <1>1, <1>2, UpdateTypes
<1> QED BY <1>1, <1>3 DEF ParentAfter

(* What a call carries. *)
LEMMA BodyType ==
    ASSUME NEW r \in Requests
    PROVE  /\ Key(r) \in OrderIds /\ Sent(r) \in Inputs /\ Caller(r) \in Callers
BY RequestsAssumption DEF Key, Sent, BodyOf, Inputs, Callers

(* The units of any input are a number. *)
LEMMA InputType ==
    ASSUME NEW input \in Inputs
    PROVE  input.quantity \in Int
<1>1. CASE input = NoOrder
  BY <1>1 DEF NoOrder
<1>2. CASE input # NoOrder
  <2>1. PICK r \in Requests : input = Body[r].order
    BY <1>2 DEF Inputs, Sent
  <2>2. Body[r].order \in Orders
    BY RequestsAssumption DEF BodyOf
  <2> QED BY <2>1, <2>2 DEF Orders
<1> QED BY <1>1, <1>2

-------------------------------------------------------------------------------
(* Type correctness.                                                       *)

(* The statuses each step moves to are statuses. *)
LEMMA StatusTypes ==
    /\ {"begin", "pricing", "priced", "paused", "completed", "failed"} \subseteq OrderStatuses
    /\ {"begin", "confirming", "confirmed", "paying", "paid", "paused",
        "completed", "failed"} \subseteq PurchaseStatuses
    /\ {"called", "answered", "journaled", "paused"} \subseteq ActionStatuses
BY DEF OrderStatuses, PurchaseStatuses, ActionStatuses, Ended

(* A workflow ends in a well formed state. *)
LEMMA EndOrderType ==
    ASSUME TypeOK, NEW k \in OrderIds, NEW status \in Ended, NEW response \in Responses,
           EndOrder(k, status, response)
    PROVE  TypeOK'
<1>1. order[k] \in Workflows(OrderStatuses) /\ status \in OrderStatuses
  BY DEF TypeOK, OrderStatuses
<1>2. order[k].caller \in Callers
  BY <1>1 DEF Workflows
<1>3. Finished(order[k], status, response) \in Workflows(OrderStatuses)
  BY <1>1, UpdateTypes
<1> QED BY <1>2, <1>3, ReplyAfterType, ParentAfterType
        DEF TypeOK, EndOrder, moneyVars, failureVars

LEMMA EndPurchaseType ==
    ASSUME TypeOK, NEW k \in OrderIds, NEW status \in Ended, NEW response \in Responses,
           EndPurchase(k, status, response)
    PROVE  TypeOK'
<1>1. purchase[k] \in Workflows(PurchaseStatuses) /\ status \in PurchaseStatuses
  BY DEF TypeOK, PurchaseStatuses
<1>2. purchase[k].caller \in Callers
  BY <1>1 DEF Workflows
<1>3. Finished(purchase[k], status, response) \in Workflows(PurchaseStatuses)
  BY <1>1, UpdateTypes
<1> QED BY <1>2, <1>3, ReplyAfterType
        DEF TypeOK, EndPurchase, orderVars, moneyVars, failureVars

(* The parts of what a workflow or an action holds. *)
LEMMA PartTypes ==
    ASSUME TypeOK, NEW k \in OrderIds
    PROVE  /\ order[k] \in Workflows(OrderStatuses)
           /\ order[k].input \in Inputs /\ order[k].input.order_id \in OrderNames
           /\ order[k].acted \in Responses /\ order[k].acted.cents \in Int
           /\ order[k].caller \in Callers
           /\ purchase[k] \in Workflows(PurchaseStatuses)
           /\ purchase[k].input \in Inputs /\ purchase[k].input.order_id \in OrderNames
           /\ purchase[k].caller \in Callers
           /\ purchase[k].acted \in Responses /\ purchase[k].confirmed \in Responses
           /\ purchase[k].confirmed.cents \in Int
           /\ pricing[k] \in Actions /\ pricing[k].response \in Responses
           /\ payment[k] \in Actions /\ payment[k].response \in Responses
           /\ payment[k].input \in Inputs /\ payment[k].input.order_id \in OrderNames
           /\ payment[k].cents \in Nat
<1>1. order[k] \in Workflows(OrderStatuses) /\ purchase[k] \in Workflows(PurchaseStatuses)
  BY DEF TypeOK
<1>2. pricing[k] \in Actions /\ payment[k] \in Actions
  BY DEF TypeOK
<1>3. /\ order[k].input \in Inputs /\ order[k].acted \in Responses /\ order[k].caller \in Callers
      /\ purchase[k].input \in Inputs /\ purchase[k].acted \in Responses
      /\ purchase[k].confirmed \in Responses /\ purchase[k].caller \in Callers
  BY <1>1 DEF Workflows
<1>4. /\ pricing[k].response \in Responses /\ payment[k].response \in Responses
      /\ payment[k].input \in Inputs /\ payment[k].cents \in Nat
  BY <1>2 DEF Actions
<1>5. order[k].acted.cents \in Int /\ purchase[k].confirmed.cents \in Int
  BY <1>3 DEF Responses
<1> QED BY <1>1, <1>2, <1>3, <1>4, <1>5, NamesType

(* What each step of the order workflow preserves. *)
LEMMA OrderStepType ==
    ASSUME TypeOK, NEW k \in OrderIds, OrderStep(k) \/ PricingStep(k)
    PROVE  TypeOK'
<1> USE PartTypes, StatusTypes
<1>1. CASE UnreadableOrder(k)
  BY <1>1, EndOrderType, RefusalTypes DEF UnreadableOrder, Ended
<1>2. CASE RefuseForeignOrder(k)
  BY <1>2, EndOrderType, RefusalTypes DEF RefuseForeignOrder, Ended
<1>3. CASE RunPriceProduct(k)
  <2>1. At(order[k], "pricing") \in Workflows(OrderStatuses)
    BY UpdateTypes, RefusalTypes
  <2>2. Action("called", 0, order[k].input) \in Actions
    BY ActionType
  <2> QED BY <1>3, <2>1, <2>2
          DEF RunPriceProduct, TypeOK, doorVars, payVars, moneyVars, failureVars
<1>4. CASE PriceProduct(k)
  <2>1. PriceFor(pricing[k].input.sku) \in Responses
    <3>1. CASE Priced(pricing[k].input.sku)
      <4>1. Catalog[pricing[k].input.sku] \in Int
        BY <3>1, PricesAssumption DEF Priced
      <4> QED BY <3>1, <4>1, ResponseType, NamesType DEF PriceFor, Outcomes
    <3>2. CASE ~Priced(pricing[k].input.sku)
      BY <3>2, BareResponseType DEF PriceFor, Outcomes
    <3> QED BY <3>1, <3>2
  <2>2. Answered(pricing[k], PriceFor(pricing[k].input.sku)) \in Actions
    BY <2>1, ActionUpdateTypes
  <2> QED BY <1>4, <2>2 DEF PriceProduct, TypeOK, doorVars, payVars, moneyVars, failureVars
<1>5. CASE JournalPrice(k)
  <2>1. Acted(order[k], "priced", pricing[k].response) \in Workflows(OrderStatuses)
    BY UpdateTypes
  <2>2. At(pricing[k], "journaled") \in Actions
    BY ActionUpdateTypes
  <2> QED BY <1>5, <2>1, <2>2
          DEF JournalPrice, TypeOK, doorVars, payVars, moneyVars, failureVars
<1>6. CASE ConfirmOrder(k)
  <2>1. Total(order[k].input, order[k].acted.cents) \in Int
    BY InputType DEF Total
  <2>2. Response("CONFIRMED", order[k].input.order_id,
                 Total(order[k].input, order[k].acted.cents)) \in Responses
    BY <2>1, ResponseType DEF Outcomes
  <2> QED BY <1>6, <2>2, EndOrderType DEF ConfirmOrder, Ended
<1>7. CASE PriceNotFound(k)
  <2>1. Response("PRODUCT_PRICE_NOT_FOUND", order[k].input.order_id, 0) \in Responses
    BY ResponseType DEF Outcomes
  <2> QED BY <1>7, <2>1, EndOrderType DEF PriceNotFound, Ended
<1>8. CASE TotalRaises(k)
  <2>1. Retried(order[k], "priced") \in Workflows(OrderStatuses)
    BY RetriedWorkflowType
  <2> QED BY <1>8, <2>1 DEF TotalRaises, TypeOK, doorVars, payVars, moneyVars, failureVars
<1>9. CASE OrderActionFails(k)
  BY <1>9, EndOrderType DEF OrderActionFails, Ended
<1> QED BY <1>1, <1>2, <1>3, <1>4, <1>5, <1>6, <1>7, <1>8, <1>9 DEF OrderStep, PricingStep

(* What each step of the purchase workflow preserves. *)
LEMMA PurchaseStepType ==
    ASSUME TypeOK, KeyedByOwnOrder, NEW k \in OrderIds, PurchaseStep(k) \/ PaymentStep(k)
    PROVE  TypeOK'
<1> USE PartTypes, StatusTypes
<1>1. CASE UnreadablePurchase(k)
  BY <1>1, EndPurchaseType, RefusalTypes DEF UnreadablePurchase, Ended
<1>2. CASE RefuseForeignPurchase(k)
  BY <1>2, EndPurchaseType, RefusalTypes DEF RefuseForeignPurchase, Ended
<1>3. CASE RunChildOrder(k)
  <2>1. purchase[k].input.order_id = k
    BY <1>3 DEF RunChildOrder, OwnOrder
  <2>2. Workflow("begin", ParentWorkflow(k), purchase[k].input) \in Workflows(OrderStatuses)
    BY WorkflowType DEF Callers
  <2>3. /\ At(purchase[k], "confirming") \in Workflows(PurchaseStatuses)
        /\ Confirmed(purchase[k], Repeat(order[k])) \in Workflows(PurchaseStatuses)
    BY UpdateTypes, RefusalTypes DEF Repeat
  <2> QED BY <1>3, <2>1, <2>2, <2>3, ZenonT(60)
          DEF RunChildOrder, TypeOK, doorVars, moneyVars, failureVars
<1>4. CASE OrderNotConfirmed(k)
  <2>1. Response("ORDER_NOT_CONFIRMED", purchase[k].input.order_id, 0) \in Responses
    BY ResponseType DEF Outcomes
  <2> QED BY <1>4, <2>1, EndPurchaseType DEF OrderNotConfirmed, Ended
<1>5. CASE ChildOrderFails(k)
  BY <1>5, EndPurchaseType DEF ChildOrderFails, Ended
<1>6. CASE RunTakePayment(k)
  <2>1. /\ At(purchase[k], "paying") \in Workflows(PurchaseStatuses)
        /\ Retried(purchase[k], "confirmed") \in Workflows(PurchaseStatuses)
    BY UpdateTypes, RetriedWorkflowType, RefusalTypes
  <2>2. PurchaseAccepted(purchase[k].input.order_id, purchase[k].confirmed.order_id,
                         purchase[k].confirmed.cents)
            => Action("called", purchase[k].confirmed.cents, purchase[k].input) \in Actions
    BY ActionType, PricesAssumption DEF PurchaseAccepted, PriceAccepted
  <2> QED BY <1>6, <2>1, <2>2, ZenonT(60)
          DEF RunTakePayment, TypeOK, doorVars, orderVars, moneyVars, failureVars
<1>7. CASE SettlePurchase(k)
  <2>1. CASE PaymentSettles(purchase[k].input.order_id, purchase[k].confirmed.cents,
                            purchase[k].acted.order_id, purchase[k].acted.cents)
    <3>1. Response("PAID", purchase[k].input.order_id, purchase[k].confirmed.cents) \in Responses
      BY ResponseType DEF Outcomes
    <3> QED BY <1>7, <2>1, <3>1, EndPurchaseType DEF SettlePurchase, Ended
  <2>2. CASE ~PaymentSettles(purchase[k].input.order_id, purchase[k].confirmed.cents,
                             purchase[k].acted.order_id, purchase[k].acted.cents)
    <3>1. Retried(purchase[k], "paid") \in Workflows(PurchaseStatuses)
      BY RetriedWorkflowType
    <3> QED BY <1>7, <2>2, <3>1
            DEF SettlePurchase, TypeOK, doorVars, orderVars, moneyVars, failureVars
  <2> QED BY <2>1, <2>2
<1>8. CASE PaymentDeclined(k)
  <2>1. Response("PAYMENT_DECLINED", purchase[k].input.order_id, 0) \in Responses
    BY ResponseType DEF Outcomes
  <2> QED BY <1>8, <2>1, EndPurchaseType DEF PaymentDeclined, Ended
<1>9. CASE PaymentActionFails(k)
  BY <1>9, EndPurchaseType DEF PaymentActionFails, Ended
<1>10. CASE ChargePaymentMethod(k)
  <2> DEFINE o == payment[k].input.order_id
             response == IF Declines(payment[k]) THEN Response("DECLINED", o, 0)
                         ELSE Response("TAKEN", o, ReceiptFor(payment[k]))
  <2>0. o = k
    BY <1>10 DEF ChargePaymentMethod, KeyedByOwnOrder
  <2>1. ReceiptFor(payment[k]) \in Nat
    BY <2>0 DEF ReceiptFor, Held, TypeOK
  <2>2. Answered(payment[k], response) \in Actions
    BY <2>1, ActionUpdateTypes, ResponseType DEF Outcomes
  <2> HIDE DEF response
  <2>3. receipts' \in [OrderIds -> Nat \cup {NoReceipt}]
    BY <1>10, <2>0, <2>1 DEF ChargePaymentMethod, TypeOK
  <2>4. charges' \in [OrderIds -> Seq(Nat)]
    BY <1>10, <2>0 DEF ChargePaymentMethod, TypeOK
  <2> QED BY <1>10, <2>2, <2>3, <2>4
          DEF ChargePaymentMethod, response, TypeOK, doorVars, orderVars, failureVars
<1>11. CASE JournalPayment(k)
  <2>1. Acted(purchase[k], "paid", payment[k].response) \in Workflows(PurchaseStatuses)
    BY UpdateTypes
  <2>2. At(payment[k], "journaled") \in Actions
    BY ActionUpdateTypes
  <2> QED BY <1>11, <2>1, <2>2
          DEF JournalPayment, TypeOK, doorVars, orderVars, moneyVars, failureVars
<1> QED BY <1>1, <1>2, <1>3, <1>4, <1>5, <1>6, <1>7, <1>8, <1>9, <1>10, <1>11
        DEF PurchaseStep, PaymentStep

(* What a step of a caller or a door preserves. *)
LEMMA DoorStepType ==
    ASSUME TypeOK, NEW r \in Requests, DoorStep(r)
    PROVE  TypeOK'
<1> USE BodyType, StatusTypes
<1>1. /\ Response("fault", NoName, 0) \in Responses
      /\ Response("OrderRejected", NoName, 0) \in Responses
      /\ Response("STARTED", Key(r), 0) \in Responses
  BY BareResponseType, ResponseType, NamesType DEF Outcomes
<1>2. Nobody \in Callers
  BY DEF Callers
<1>3. CASE RejectOrder(r)
  BY <1>1, <1>3 DEF RejectOrder, TypeOK, orderVars, payVars, moneyVars, failureVars
<1>4. CASE IngressUnreachable(r)
  BY <1>1, <1>4 DEF IngressUnreachable, TypeOK, orderVars, payVars, moneyVars, failureVars
<1>5. CASE StartConfirmOrder(r)
  <2>1. Workflow("begin", Nobody, Sent(r)) \in Workflows(OrderStatuses)
    BY <1>2, WorkflowType
  <2> QED BY <1>1, <1>5, <2>1
          DEF StartConfirmOrder, TypeOK, payVars, moneyVars, failureVars
<1>6. CASE RunConfirmOrder(r)
  <2>1. Workflow("begin", Caller(r), Sent(r)) \in Workflows(OrderStatuses)
    BY WorkflowType
  <2>2. Repeat(order[Key(r)]) \in Responses
    BY RefusalTypes DEF Repeat
  <2> QED BY <1>6, <2>1, <2>2 DEF RunConfirmOrder, TypeOK, payVars, moneyVars, failureVars
<1>7. CASE RunPayForOrder(r)
  <2>1. Workflow("begin", Caller(r), Sent(r)) \in Workflows(PurchaseStatuses)
    BY WorkflowType
  <2>2. Repeat(purchase[Key(r)]) \in Responses
    BY RefusalTypes DEF Repeat
  <2> QED BY <1>7, <2>1, <2>2 DEF RunPayForOrder, TypeOK, orderVars, moneyVars, failureVars
<1>8. CASE CallerGivesUp(r)
  BY <1>1, <1>8 DEF CallerGivesUp, TypeOK, orderVars, payVars, moneyVars, failureVars
<1>9. CASE AnswerCaller(r)
  <2>1. reply[r] \in Responses /\ Situation(reply[r]) \in Responses
    BY SituationType DEF TypeOK
  <2> QED BY <1>9, <2>1 DEF AnswerCaller, TypeOK, orderVars, payVars, moneyVars, failureVars
<1> QED BY <1>3, <1>4, <1>5, <1>6, <1>7, <1>8, <1>9 DEF DoorStep

(* What a failure preserves. *)
LEMMA FailureType ==
    ASSUME TypeOK, NEW k \in OrderIds, Failure(k)
    PROVE  TypeOK'
<1> USE PartTypes, StatusTypes, BoundsAssumption
<1>1. CASE LoseWorkflowAttempt(k)
  <2>1. order[k].status \in OrderStatuses /\ purchase[k].status \in PurchaseStatuses
    BY DEF Workflows
  <2>2. /\ Retried(order[k], order[k].status) \in Workflows(OrderStatuses)
        /\ Retried(purchase[k], purchase[k].status) \in Workflows(PurchaseStatuses)
    BY <2>1, RetriedWorkflowType
  <2>3. order' \in [OrderIds -> Workflows(OrderStatuses)]
    BY <1>1, <2>2 DEF LoseWorkflowAttempt, TypeOK
  <2>4. purchase' \in [OrderIds -> Workflows(PurchaseStatuses)]
    BY <1>1, <2>2 DEF LoseWorkflowAttempt, TypeOK
  <2> QED BY <1>1, <2>3, <2>4 DEF LoseWorkflowAttempt, TypeOK, doorVars, moneyVars
<1>2. CASE LosePriceAttempt(k)
  <2>1. Retried(pricing[k], "called") \in Actions
    BY RetriedActionType
  <2> QED BY <1>2, <2>1 DEF LosePriceAttempt, TypeOK, doorVars, payVars, moneyVars
<1>3. CASE LosePaymentAttempt(k)
  <2>1. Retried(payment[k], "called") \in Actions
    BY RetriedActionType
  <2> QED BY <1>3, <2>1 DEF LosePaymentAttempt, TypeOK, doorVars, orderVars, moneyVars
<1>4. CASE KillOrder(k)
  <2>1. Finished(order[k], "failed", Killed) \in Workflows(OrderStatuses)
    BY UpdateTypes, RefusalTypes
  <2> QED BY <1>4, <2>1, ReplyAfterType, ParentAfterType, RefusalTypes
          DEF KillOrder, TypeOK, moneyVars
<1>5. CASE KillPurchase(k)
  <2>1. Finished(purchase[k], "failed", Killed) \in Workflows(PurchaseStatuses)
    BY UpdateTypes, RefusalTypes
  <2> QED BY <1>5, <2>1, ReplyAfterType, RefusalTypes
          DEF KillPurchase, TypeOK, orderVars, moneyVars
<1>6. CASE KillAction(k)
  <2>1. /\ Acted(order[k], "priced", Killed) \in Workflows(OrderStatuses)
        /\ Acted(purchase[k], "paid", Killed) \in Workflows(PurchaseStatuses)
    BY UpdateTypes, RefusalTypes
  <2>2. order' \in [OrderIds -> Workflows(OrderStatuses)]
    BY <1>6, <2>1 DEF KillAction, TypeOK
  <2>3. purchase' \in [OrderIds -> Workflows(PurchaseStatuses)]
    BY <1>6, <2>1 DEF KillAction, TypeOK
  <2> QED BY <1>6, <2>2, <2>3 DEF KillAction, TypeOK, doorVars, moneyVars
<1> QED BY <1>1, <1>2, <1>3, <1>4, <1>5, <1>6 DEF Failure

LEMMA RestartType ==
    ASSUME TypeOK, Restart
    PROVE  TypeOK'
<1>1. \A k \in OrderIds : /\ Retried(pricing[k], "called") \in Actions
                          /\ Retried(payment[k], "called") \in Actions
  BY PartTypes, StatusTypes, RetriedActionType
<1>2. Response("fault", NoName, 0) \in Responses
  BY BareResponseType DEF Outcomes
<1>3. /\ pricing' \in [OrderIds -> Actions]
      /\ payment' \in [OrderIds -> Actions]
  BY <1>1 DEF Restart, TypeOK
<1>4. /\ call' \in [Requests -> {"new", "open", "closed"}]
      /\ answer' \in [Requests -> Responses]
  BY <1>2 DEF Restart, TypeOK
<1>5. receipts' \in [OrderIds -> Nat \cup {NoReceipt}] /\ restarts' \in 0..MaxRestarts
  BY BoundsAssumption DEF Restart, TypeOK, NoReceipt
<1> QED BY <1>3, <1>4, <1>5 DEF Restart, TypeOK

LEMMA InitType == Init => TypeOK
<1> SUFFICES ASSUME Init PROVE TypeOK
  OBVIOUS
<1>1. NoOrder \in Inputs /\ Nobody \in Callers
  BY DEF Inputs, Callers
<1>2. Absent \in Workflows(OrderStatuses) /\ Absent \in Workflows(PurchaseStatuses)
  BY <1>1, WorkflowType DEF Absent, OrderStatuses, PurchaseStatuses
<1>3. NotCalled \in Actions
  BY <1>1, ActionType DEF NotCalled, ActionStatuses
<1> QED BY <1>2, <1>3, RefusalTypes, BoundsAssumption DEF Init, TypeOK, NoReceipt

-------------------------------------------------------------------------------
(* KeyedByOwnOrder: a workflow past its key check runs under its own key.  *)

(* Resuming a parent changes neither its input nor any workflow but one    *)
(* that waits for its child.                                               *)
LEMMA ParentAfterKeeps ==
    ASSUME TypeOK, NEW caller \in Callers, NEW response, NEW k \in OrderIds
    PROVE  LET after == ParentAfter(caller, response)[k] IN
           /\ after.input = purchase[k].input
           /\ \/ after.status = purchase[k].status
              \/ purchase[k].status = "confirming" /\ after.status = "confirmed"
BY PartTypes DEF ParentAfter, Confirmed, Workflows, TypeOK

(* Steps that call no payment and take no purchase past its key check keep *)
(* the keys.                                                               *)
LEMMA KeyedKept ==
    ASSUME KeyedByOwnOrder,
           \A k \in OrderIds :
               /\ payment'[k].input = payment[k].input
               /\ payment'[k].status # "absent" => payment[k].status # "absent"
               /\ purchase'[k].input = purchase[k].input
               /\ purchase'[k].status \in {"confirming", "confirmed", "paying", "paid"} =>
                      purchase[k].status \in {"confirming", "confirmed", "paying", "paid"}
    PROVE  KeyedByOwnOrder'
BY DEF KeyedByOwnOrder

LEMMA KeyedEndOrder ==
    ASSUME TypeOK, KeyedByOwnOrder, NEW k \in OrderIds, NEW status, NEW response,
           EndOrder(k, status, response)
    PROVE  KeyedByOwnOrder'
BY PartTypes, ParentAfterKeeps, KeyedKept DEF EndOrder

LEMMA KeyedEndPurchase ==
    ASSUME TypeOK, KeyedByOwnOrder, NEW k \in OrderIds, NEW status \in Ended, NEW response,
           EndPurchase(k, status, response)
    PROVE  KeyedByOwnOrder'
<1>1. /\ Finished(purchase[k], status, response).input = purchase[k].input
      /\ Finished(purchase[k], status, response).status = status
  BY PartTypes DEF Finished, Workflows
<1> QED BY <1>1, KeyedKept DEF EndPurchase, Ended, TypeOK

(* Losing an attempt keeps the input, and leaves the status or pauses.     *)
LEMMA RetriedKeeps ==
    ASSUME TypeOK, NEW k \in OrderIds, NEW again
    PROVE  /\ Retried(purchase[k], again).input = purchase[k].input
           /\ Retried(purchase[k], again).status \in {again, "paused"}
           /\ Retried(payment[k], again).input = payment[k].input
           /\ Retried(payment[k], again).status \in {again, "paused"}
BY PartTypes DEF Retried, Workflows, Actions

(* So do the other updates: the input stays, the status is what they say.  *)
LEMMA UpdatesKeep ==
    ASSUME TypeOK, NEW k \in OrderIds, NEW status, NEW response
    PROVE  /\ At(purchase[k], status).input = purchase[k].input
           /\ At(purchase[k], status).status = status
           /\ Confirmed(purchase[k], response).input = purchase[k].input
           /\ Confirmed(purchase[k], response).status = "confirmed"
           /\ Acted(purchase[k], status, response).input = purchase[k].input
           /\ Acted(purchase[k], status, response).status = status
           /\ Finished(purchase[k], status, response).input = purchase[k].input
           /\ Finished(purchase[k], status, response).status = status
           /\ At(payment[k], status).input = payment[k].input
           /\ At(payment[k], status).status = status
           /\ Answered(payment[k], response).input = payment[k].input
           /\ Answered(payment[k], response).status = "answered"
BY PartTypes DEF At, Confirmed, Acted, Finished, Answered, Workflows, Actions

LEMMA KeyedPurchaseStep ==
    ASSUME TypeOK, KeyedByOwnOrder, NEW k \in OrderIds, PurchaseStep(k) \/ PaymentStep(k)
    PROVE  KeyedByOwnOrder'
<1>0. /\ purchase \in [OrderIds -> Workflows(PurchaseStatuses)]
      /\ payment \in [OrderIds -> Actions]
  BY DEF TypeOK
<1>1. CASE UnreadablePurchase(k)
  BY <1>1, KeyedEndPurchase DEF UnreadablePurchase, Ended
<1>2. CASE RefuseForeignPurchase(k)
  BY <1>2, KeyedEndPurchase DEF RefuseForeignPurchase, Ended
<1>3. CASE RunChildOrder(k)
  <2>1. purchase[k].input.order_id = k /\ payment' = payment
    BY <1>3 DEF RunChildOrder, OwnOrder
  <2>2. \/ purchase' = [purchase EXCEPT ![k] = At(purchase[k], "confirming")]
        \/ purchase' = [purchase EXCEPT ![k] = Confirmed(purchase[k], Repeat(order[k]))]
    BY <1>3, <2>1 DEF RunChildOrder
  <2>3. purchase'[k].input = purchase[k].input
    BY <1>0, <2>2, UpdatesKeep
  <2>4. \A j \in OrderIds : j # k => purchase'[j] = purchase[j]
    BY <1>0, <2>2
  <2> QED BY <2>1, <2>3, <2>4 DEF KeyedByOwnOrder
<1>4. CASE OrderNotConfirmed(k)
  BY <1>4, KeyedEndPurchase DEF OrderNotConfirmed, Ended
<1>5. CASE ChildOrderFails(k)
  BY <1>5, KeyedEndPurchase DEF ChildOrderFails, Ended
<1>6. CASE RunTakePayment(k)
  <2>1. Action("called", purchase[k].confirmed.cents, purchase[k].input).input
            = purchase[k].input
    BY DEF Action
  <2>2. purchase[k].input.order_id = k
    BY <1>6 DEF RunTakePayment, KeyedByOwnOrder
  <2>3. \/ /\ purchase' = [purchase EXCEPT ![k] = At(purchase[k], "paying")]
           /\ payment' = [payment EXCEPT ![k] =
                             Action("called", purchase[k].confirmed.cents, purchase[k].input)]
        \/ /\ purchase' = [purchase EXCEPT ![k] = Retried(purchase[k], "confirmed")]
           /\ payment' = payment
    BY <1>6 DEF RunTakePayment
  <2>4. purchase'[k].input = purchase[k].input
    BY <1>0, <2>3, UpdatesKeep, RetriedKeeps
  <2>5. payment'[k].status # "absent" => payment'[k].input.order_id = k
    BY <1>0, <2>1, <2>2, <2>3 DEF KeyedByOwnOrder
  <2>6. \A j \in OrderIds : j # k => purchase'[j] = purchase[j] /\ payment'[j] = payment[j]
    BY <1>0, <2>3
  <2> QED BY <2>2, <2>4, <2>5, <2>6 DEF KeyedByOwnOrder
<1>7. CASE SettlePurchase(k)
  <2>1. CASE PaymentSettles(purchase[k].input.order_id, purchase[k].confirmed.cents,
                            purchase[k].acted.order_id, purchase[k].acted.cents)
    BY <1>7, <2>1, KeyedEndPurchase DEF SettlePurchase, Ended
  <2>2. CASE ~PaymentSettles(purchase[k].input.order_id, purchase[k].confirmed.cents,
                             purchase[k].acted.order_id, purchase[k].acted.cents)
    <3>1. /\ purchase[k].status = "paid" /\ payment' = payment
          /\ purchase' = [purchase EXCEPT ![k] = Retried(purchase[k], "paid")]
      BY <1>7, <2>2 DEF SettlePurchase
    <3> QED BY <1>0, <3>1, RetriedKeeps, KeyedKept
  <2> QED BY <2>1, <2>2
<1>8. CASE PaymentDeclined(k)
  BY <1>8, KeyedEndPurchase DEF PaymentDeclined, Ended
<1>9. CASE PaymentActionFails(k)
  BY <1>9, KeyedEndPurchase DEF PaymentActionFails, Ended
<1>10. CASE ChargePaymentMethod(k)
  <2>1. PICK response : /\ purchase' = purchase /\ payment[k].status # "absent"
                         /\ payment' = [payment EXCEPT ![k] = Answered(payment[k], response)]
    BY <1>10 DEF ChargePaymentMethod
  <2> QED BY <1>0, <2>1, UpdatesKeep, KeyedKept
<1>11. CASE JournalPayment(k)
  <2>1. /\ payment[k].status # "absent"
        /\ payment' = [payment EXCEPT ![k] = At(payment[k], "journaled")]
    BY <1>11 DEF JournalPayment
  <2>2. \/ purchase' = purchase
        \/ /\ purchase[k].status = "paying"
           /\ purchase' = [purchase EXCEPT ![k] = Acted(purchase[k], "paid", payment[k].response)]
    BY <1>11 DEF JournalPayment
  <2>3. \A j \in OrderIds :
          \/ purchase'[j] = purchase[j]
          \/ purchase'[j].input = purchase[j].input /\ purchase[j].status = "paying"
    BY <1>0, <2>2, UpdatesKeep
  <2>4. \A j \in OrderIds :
          /\ payment'[j].input = payment[j].input
          /\ payment'[j].status # "absent" => payment[j].status # "absent"
    BY <1>0, <2>1, UpdatesKeep
  <2> QED BY <2>3, <2>4, KeyedKept
<1> QED BY <1>1, <1>2, <1>3, <1>4, <1>5, <1>6, <1>7, <1>8, <1>9, <1>10, <1>11
        DEF PurchaseStep, PaymentStep

LEMMA KeyedOrderStep ==
    ASSUME TypeOK, KeyedByOwnOrder, NEW k \in OrderIds, OrderStep(k) \/ PricingStep(k)
    PROVE  KeyedByOwnOrder'
<1>1. CASE \E status, response : EndOrder(k, status, response)
  BY <1>1, KeyedEndOrder
<1>2. CASE purchase' = purchase /\ payment' = payment
  BY <1>2, KeyedKept
<1> QED BY <1>1, <1>2
        DEF OrderStep, PricingStep, UnreadableOrder, RefuseForeignOrder, RunPriceProduct,
            PriceProduct, JournalPrice, ConfirmOrder, PriceNotFound, TotalRaises,
            OrderActionFails, payVars

LEMMA KeyedFailure ==
    ASSUME TypeOK, KeyedByOwnOrder, NEW k \in OrderIds, Failure(k)
    PROVE  KeyedByOwnOrder'
<1>0. /\ purchase \in [OrderIds -> Workflows(PurchaseStatuses)]
      /\ payment \in [OrderIds -> Actions]
  BY DEF TypeOK
<1>1. CASE LoseWorkflowAttempt(k)
  <2>1. payment' = payment
    BY <1>1 DEF LoseWorkflowAttempt
  <2>2. \/ purchase' = purchase
        \/ purchase' = [purchase EXCEPT ![k] = Retried(purchase[k], purchase[k].status)]
    BY <1>1 DEF LoseWorkflowAttempt
  <2>3. \A j \in OrderIds :
          /\ purchase'[j].input = purchase[j].input
          /\ purchase'[j].status \in {purchase[j].status, "paused"}
    BY <1>0, <2>2, RetriedKeeps
  <2> QED BY <2>1, <2>3, KeyedKept
<1>2. CASE LosePriceAttempt(k)
  BY <1>2, KeyedKept DEF LosePriceAttempt, payVars
<1>3. CASE LosePaymentAttempt(k)
  <2>1. /\ purchase' = purchase /\ payment[k].status # "absent"
        /\ payment' = [payment EXCEPT ![k] = Retried(payment[k], "called")]
    BY <1>3 DEF LosePaymentAttempt
  <2> QED BY <1>0, <2>1, RetriedKeeps, KeyedKept
<1>4. CASE KillOrder(k)
  BY <1>4, PartTypes, ParentAfterKeeps, KeyedKept DEF KillOrder
<1>5. CASE KillPurchase(k)
  BY <1>0, <1>5, UpdatesKeep, KeyedKept DEF KillPurchase
<1>6. CASE KillAction(k)
  <2>1. payment' = payment
    BY <1>6 DEF KillAction
  <2>2. \/ purchase' = purchase
        \/ /\ purchase[k].status = "paying"
           /\ purchase' = [purchase EXCEPT ![k] = Acted(purchase[k], "paid", Killed)]
    BY <1>6 DEF KillAction
  <2>3. \A j \in OrderIds :
          \/ purchase'[j] = purchase[j]
          \/ purchase'[j].input = purchase[j].input /\ purchase[j].status = "paying"
    BY <1>0, <2>2, UpdatesKeep
  <2> QED BY <2>1, <2>3, KeyedKept
<1> QED BY <1>1, <1>2, <1>3, <1>4, <1>5, <1>6 DEF Failure

LEMMA KeyedDoorStep ==
    ASSUME TypeOK, KeyedByOwnOrder, NEW r \in Requests, DoorStep(r)
    PROVE  KeyedByOwnOrder'
<1>1. CASE RunPayForOrder(r)
  <2>1. Workflow("begin", Caller(r), Sent(r)).status = "begin"
    BY DEF Workflow
  <2> QED BY <1>1, <2>1, BodyType DEF RunPayForOrder, KeyedByOwnOrder, TypeOK
<1>2. CASE purchase' = purchase /\ payment' = payment
  BY <1>2, KeyedKept
<1> QED BY <1>1, <1>2
        DEF DoorStep, RejectOrder, IngressUnreachable, StartConfirmOrder, RunConfirmOrder,
            CallerGivesUp, AnswerCaller, payVars

LEMMA KeyedRestart ==
    ASSUME TypeOK, KeyedByOwnOrder, Restart
    PROVE  KeyedByOwnOrder'
BY RetriedKeeps DEF Restart, KeyedByOwnOrder

(* Every variable holds a state the code can put it in, and every workflow *)
(* past its key check runs under its own order's key.                      *)
Inv == TypeOK /\ KeyedByOwnOrder

LEMMA InvInductive ==
    /\ Init => Inv
    /\ Inv /\ [Next]_vars => Inv'
<1>1. Init => Inv
  BY InitType DEF Init, Inv, KeyedByOwnOrder, Absent, NotCalled, Workflow, Action
<1>2. ASSUME Inv, Next PROVE Inv'
  <2>1. CASE \E r \in Requests : DoorStep(r)
    BY <1>2, <2>1, DoorStepType, KeyedDoorStep DEF Inv
  <2>2. CASE \E k \in OrderIds : OrderStep(k) \/ PricingStep(k)
    BY <1>2, <2>2, OrderStepType, KeyedOrderStep DEF Inv
  <2>3. CASE \E k \in OrderIds : PurchaseStep(k) \/ PaymentStep(k)
    BY <1>2, <2>3, PurchaseStepType, KeyedPurchaseStep DEF Inv
  <2>4. CASE \E k \in OrderIds : Failure(k)
    BY <1>2, <2>4, FailureType, KeyedFailure DEF Inv
  <2>5. CASE Restart
    BY <1>2, <2>5, RestartType, KeyedRestart DEF Inv
  <2> QED BY <1>2, <2>1, <2>2, <2>3, <2>4, <2>5 DEF Next
<1>3. ASSUME Inv, UNCHANGED vars PROVE Inv'
  BY <1>3 DEF Inv, TypeOK, KeyedByOwnOrder, vars, doorVars, orderVars, payVars,
              moneyVars, failureVars
<1> QED BY <1>1, <1>2, <1>3

(* Every reachable state is well formed: the variables of the doors, the   *)
(* engine's journal, the processor and the failures have their types.      *)
THEOREM TypeCorrect == Spec => []TypeOK
<1>1. Inv => TypeOK
  BY DEF Inv
<1> QED BY <1>1, InvInductive, PTL DEF Spec

(* No purchase gets past its key check, and no payment is asked for, under *)
(* a key that is not its order's, whichever door or route it came by.      *)
THEOREM KeysAreOwn == Spec => []KeyedByOwnOrder
<1>1. Inv => KeyedByOwnOrder
  BY DEF Inv
<1> QED BY <1>1, InvInductive, PTL DEF Spec

-------------------------------------------------------------------------------
(* Charging and restarting are the only steps that touch the receipts, the *)
(* charges or the count of restarts.                                       *)
LEMMA WhoTouchesMoney ==
    /\ \A r \in Requests : DoorStep(r) => UNCHANGED <<moneyVars, restarts>>
    /\ \A k \in OrderIds :
          OrderStep(k) \/ PricingStep(k) => UNCHANGED <<moneyVars, restarts>>
    /\ \A k \in OrderIds : PurchaseStep(k) => UNCHANGED <<moneyVars, restarts>>
    /\ \A k \in OrderIds :
          PaymentStep(k) => ChargePaymentMethod(k) \/ UNCHANGED <<moneyVars, restarts>>
    /\ \A k \in OrderIds : Failure(k) => UNCHANGED <<moneyVars, restarts>>
<1>1. ASSUME NEW r \in Requests, DoorStep(r) PROVE UNCHANGED <<moneyVars, restarts>>
  BY <1>1 DEF DoorStep, RejectOrder, IngressUnreachable, StartConfirmOrder,
              RunConfirmOrder, RunPayForOrder, CallerGivesUp, AnswerCaller, failureVars
<1>2. ASSUME NEW k \in OrderIds, OrderStep(k) \/ PricingStep(k)
      PROVE  UNCHANGED <<moneyVars, restarts>>
  BY <1>2 DEF OrderStep, PricingStep, UnreadableOrder, RefuseForeignOrder,
              RunPriceProduct, PriceProduct, JournalPrice, ConfirmOrder, PriceNotFound,
              TotalRaises, OrderActionFails, EndOrder, failureVars
<1>3. ASSUME NEW k \in OrderIds, PurchaseStep(k) PROVE UNCHANGED <<moneyVars, restarts>>
  BY <1>3 DEF PurchaseStep, UnreadablePurchase, RefuseForeignPurchase, RunChildOrder,
              OrderNotConfirmed, ChildOrderFails, RunTakePayment, SettlePurchase,
              PaymentDeclined, PaymentActionFails, EndPurchase, failureVars
<1>4. ASSUME NEW k \in OrderIds, PaymentStep(k)
      PROVE  ChargePaymentMethod(k) \/ UNCHANGED <<moneyVars, restarts>>
  BY <1>4 DEF PaymentStep, JournalPayment, failureVars
<1>5. ASSUME NEW k \in OrderIds, Failure(k) PROVE UNCHANGED <<moneyVars, restarts>>
  BY <1>5 DEF Failure, LoseWorkflowAttempt, LosePriceAttempt, LosePaymentAttempt,
              KillOrder, KillPurchase, KillAction
<1> QED BY <1>1, <1>2, <1>3, <1>4, <1>5

(* The processor charges an order once for each life of its memory: an     *)
(* order is charged at most once more than the host has restarted, however *)
(* many attempts of take_payment are lost, late or repeated.               *)
THEOREM ChargedOncePerLife == Spec => []ChargedOnce
<1>1. Init => ChargedOnce
  BY DEF Init, ChargedOnce
<1>2. ASSUME Inv, ChargedOnce, [Next]_vars PROVE ChargedOnce'
  <2> USE DEF ChargedOnce
  <2>1. CASE \E k \in OrderIds : ChargePaymentMethod(k)
    <3>1. PICK k \in OrderIds : ChargePaymentMethod(k)
      BY <2>1
    <3>2. payment[k].input.order_id = k /\ payment[k].cents \in Nat
      BY <1>2, <3>1, PartTypes DEF ChargePaymentMethod, Inv, KeyedByOwnOrder
    <3>3. /\ receipts \in [OrderIds -> Nat \cup {NoReceipt}]
          /\ charges \in [OrderIds -> Seq(Nat)]
          /\ restarts \in Nat /\ restarts' = restarts
      BY <1>2, <3>1, BoundsAssumption DEF Inv, TypeOK, ChargePaymentMethod, failureVars
    <3>4. CASE Charges(payment[k])
      <4>1. /\ receipts[k] = NoReceipt
            /\ receipts' = [receipts EXCEPT ![k] = payment[k].cents]
            /\ charges' = [charges EXCEPT ![k] = Append(charges[k], payment[k].cents)]
        BY <3>1, <3>2, <3>4 DEF ChargePaymentMethod, Charges, ReceiptFor, Held
      <4>2. /\ Len(charges'[k]) = Len(charges[k]) + 1
            /\ receipts'[k] # NoReceipt
        BY <3>2, <3>3, <4>1 DEF NoReceipt
      <4>3. \A o \in OrderIds : o # k => charges'[o] = charges[o] /\ receipts'[o] = receipts[o]
        BY <3>3, <4>1
      <4> QED BY <1>2, <3>3, <4>1, <4>2, <4>3
    <3>5. CASE ~Charges(payment[k])
      <4>1. charges' = charges /\ receipts' = receipts
        BY <3>1, <3>2, <3>3, <3>5 DEF ChargePaymentMethod, Charges, Declines, ReceiptFor, Held
      <4> QED BY <1>2, <3>3, <4>1
    <3> QED BY <3>4, <3>5
  <2>2. CASE Restart
    <3>1. /\ charges' = charges /\ restarts' = restarts + 1
          /\ restarts \in Nat /\ charges \in [OrderIds -> Seq(Nat)]
      BY <1>2, <2>2, BoundsAssumption DEF Restart, Inv, TypeOK
    <3> QED BY <1>2, <2>2, <3>1 DEF Restart
  <2>3. CASE UNCHANGED <<moneyVars, restarts>>
    BY <1>2, <2>3 DEF moneyVars
  <2>4. Next => \/ \E k \in OrderIds : ChargePaymentMethod(k)
                \/ Restart
                \/ UNCHANGED <<moneyVars, restarts>>
    BY WhoTouchesMoney DEF Next
  <2> QED BY <1>2, <2>1, <2>2, <2>3, <2>4 DEF vars, failureVars
<1> QED BY <1>1, <1>2, InvInductive, PTL DEF Spec

-------------------------------------------------------------------------------
(* Where what a workflow, an action, a receipt or a reply holds came from: *)
(* the invariant behind the properties that relate an answer or a charge   *)
(* to the order that was sent.                                             *)

(* What a workflow that completed, or failed, ended with. *)
CompletedOrder(k, o) ==
    \/ /\ o.input.order_id = k /\ Priced(o.input.sku)
       /\ TotalAccepted(o.input, Catalog[o.input.sku])
       /\ o.result = Response("CONFIRMED", k, Total(o.input, Catalog[o.input.sku]))
    \/ o.result.outcome = "PRODUCT_PRICE_NOT_FOUND"

CompletedPurchase(k, u, y) ==
    \/ /\ y.status = "journaled" /\ y.response.outcome = "TAKEN"
       /\ u.result = Response("PAID", k, y.cents)
    \/ /\ y.status = "journaled" /\ y.response.outcome = "DECLINED"
       /\ u.result.outcome = "PAYMENT_DECLINED"
    \/ u.confirmed.outcome # "CONFIRMED" /\ u.result.outcome = "ORDER_NOT_CONFIRMED"

Refusals == {"killed", "foreign_order", "unreadable"}
FailedWorkflow(w) == w.result.outcome \in Refusals

(* What the order workflow o under key k owes to its price_product call p. *)
OrderHistory(k, o, p) ==
    /\ o.status = "absent" => o = Absent
    /\ p.status # "absent" =>
           o.status \notin {"absent", "begin"} /\ p.input = o.input /\ o.input.order_id = k
    /\ p.status \in {"answered", "journaled"} => p.response = PriceFor(p.input.sku)
    /\ o.status \in {"pricing", "priced"} => p.status # "absent"
    /\ o.status = "priced" => o.acted \in {PriceFor(o.input.sku), Killed}
    /\ o.status \notin Ended => o.result = None
    /\ o.status = "completed" => CompletedOrder(k, o)
    /\ o.status = "failed" => FailedWorkflow(o)

(* What the purchase workflow u under key k owes to the order o it runs as *)
(* its child, if it is the one that runs it.                               *)
ChildHistory(k, o, u) ==
    /\ u.status = "absent" => u = Absent
    /\ u.caller[1] # "purchase"
    /\ o.caller[1] = "purchase" =>
           /\ o.caller = ParentWorkflow(k) /\ o.input = u.input
           /\ u.status \notin {"absent", "begin"}
    /\ u.status \in {"begin", "confirming"} => u.confirmed = None
    /\ u.confirmed.outcome = "CONFIRMED" =>
           o.caller = ParentWorkflow(k) /\ o.status = "completed" /\ u.confirmed = o.result

(* What it owes to its take_payment call y. *)
PaymentHistory(k, u, y) ==
    /\ y.status # "absent" =>
           /\ u.status \notin {"absent", "begin", "confirming", "confirmed"}
           /\ u.confirmed.outcome = "CONFIRMED" /\ y.cents = u.confirmed.cents
           /\ y.input = u.input
    /\ u.status \in {"paying", "paid"} => y.status # "absent"
    /\ u.status = "paid" =>
           u.acted = Killed \/ (y.status = "journaled" /\ u.acted = y.response)
    /\ u.status \notin Ended => u.result = None
    /\ u.status = "completed" => CompletedPurchase(k, u, y)
    /\ u.status = "failed" => FailedWorkflow(u)

(* What the processor holds and has charged for k came from that call. *)
MoneyHistory(k, y, receipt, charged) ==
    /\ y.status \in {"answered", "journaled"} =>
           \/ y.response = Response("TAKEN", k, y.cents) /\ charged # <<>>
           \/ /\ y.response = Response("DECLINED", k, 0)
              /\ y.input.method = DeclinedPaymentMethod
    /\ charged # <<>> => y.status # "absent" /\ y.input.method # DeclinedPaymentMethod
    /\ \A i \in 1..Len(charged) : charged[i] = y.cents
    /\ receipt # NoReceipt => receipt = y.cents /\ charged # <<>>

Histories ==
    \A k \in OrderIds :
        /\ OrderHistory(k, order[k], pricing[k])
        /\ ChildHistory(k, order[k], purchase[k])
        /\ PaymentHistory(k, purchase[k], payment[k])
        /\ MoneyHistory(k, payment[k], receipts[k], charges[k])

-------------------------------------------------------------------------------
(* The fields of a workflow and of an action after each update.            *)

LEMMA WorkflowFields ==
    ASSUME NEW S, NEW w \in Workflows(S), NEW status, NEW response
    PROVE  /\ LET u == At(w, status) IN
              /\ u.status = status /\ u.caller = w.caller /\ u.input = w.input
              /\ u.confirmed = w.confirmed /\ u.acted = w.acted /\ u.result = w.result
           /\ LET u == Confirmed(w, response) IN
              /\ u.status = "confirmed" /\ u.caller = w.caller /\ u.input = w.input
              /\ u.confirmed = response /\ u.acted = w.acted /\ u.result = w.result
           /\ LET u == Acted(w, status, response) IN
              /\ u.status = status /\ u.caller = w.caller /\ u.input = w.input
              /\ u.confirmed = w.confirmed /\ u.acted = response /\ u.result = w.result
           /\ LET u == Finished(w, status, response) IN
              /\ u.status = status /\ u.caller = w.caller /\ u.input = w.input
              /\ u.confirmed = w.confirmed /\ u.acted = w.acted /\ u.result = response
           /\ LET u == Retried(w, status) IN
              /\ u.status \in {status, "paused"} /\ u.caller = w.caller /\ u.input = w.input
              /\ u.confirmed = w.confirmed /\ u.acted = w.acted /\ u.result = w.result
BY DEF At, Confirmed, Acted, Finished, Retried, Workflows

LEMMA ActionFields ==
    ASSUME NEW a \in Actions, NEW status, NEW response
    PROVE  /\ LET b == At(a, status) IN
              /\ b.status = status /\ b.cents = a.cents /\ b.input = a.input
              /\ b.response = a.response
           /\ LET b == Answered(a, response) IN
              /\ b.status = "answered" /\ b.cents = a.cents /\ b.input = a.input
              /\ b.response = response
           /\ LET b == Retried(a, status) IN
              /\ b.status \in {status, "paused"} /\ b.cents = a.cents /\ b.input = a.input
              /\ b.response = a.response
BY DEF At, Answered, Retried, Actions

(* The fields of a new workflow and of a new call. *)
LEMMA NewFields ==
    ASSUME NEW status, NEW caller, NEW input, NEW cents
    PROVE  /\ LET w == Workflow(status, caller, input) IN
              /\ w.status = status /\ w.caller = caller /\ w.input = input
              /\ w.confirmed = None /\ w.result = None
           /\ LET a == Action(status, cents, input) IN
              /\ a.status = status /\ a.cents = cents /\ a.input = input
BY DEF Workflow, Action

(* Responses are what their parts are, and callers who they are. *)
LEMMA ResponseFields ==
    ASSUME NEW outcome, NEW order_id, NEW cents
    PROVE  /\ Response(outcome, order_id, cents).outcome = outcome
           /\ Response(outcome, order_id, cents).order_id = order_id
           /\ Response(outcome, order_id, cents).cents = cents
BY DEF Response

LEMMA RefusalOutcomes ==
    /\ None.outcome = "none" /\ AlreadyInvoked.outcome = "already_invoked"
    /\ Killed.outcome = "killed" /\ ForeignOrder.outcome = "foreign_order"
    /\ Unreadable.outcome = "unreadable"
    /\ \A sku : PriceFor(sku).outcome \in {"PRICED", "PRICE_NOT_FOUND"}
BY DEF None, AlreadyInvoked, Killed, ForeignOrder, Unreadable, PriceFor, Response

(* The price action answers, and an answer is not a refusal. *)
LEMMA PriceFound == \A sku : StatusCode(PriceFor(sku)) = 200
<1>1. ASSUME NEW sku PROVE StatusCode(PriceFor(sku)) = 200
  BY RefusalOutcomes DEF StatusCode
<1> QED BY <1>1

LEMMA CallerFields ==
    /\ Nobody[1] = "nobody"
    /\ \A r : Caller(r)[1] = "request" /\ Caller(r)[2] = r
    /\ \A k : ParentWorkflow(k)[1] = "purchase" /\ ParentWorkflow(k)[2] = k
BY DEF Nobody, Caller, ParentWorkflow

LEMMA AbsentFields ==
    /\ Absent.status = "absent" /\ Absent.caller = Nobody /\ Absent.confirmed = None
    /\ Absent.result = None /\ NotCalled.status = "absent"
BY NewFields DEF Absent, NotCalled

-------------------------------------------------------------------------------
(* Each update of an order or of its price_product call keeps its history, *)
(* in the state the code makes it in.                                      *)

LEMMA OrderHistoryKept ==
    ASSUME NEW k, NEW o \in Workflows(OrderStatuses), NEW p \in Actions,
           OrderHistory(k, o, p)
    PROVE  /\ o.status = "absent" =>
                  \A caller, input : OrderHistory(k, Workflow("begin", caller, input), p)
           /\ o.status = "begin" /\ o.input.order_id = k =>
                  OrderHistory(k, At(o, "pricing"), Action("called", 0, o.input))
           /\ o.status \in {"begin", "priced"} => OrderHistory(k, Retried(o, o.status), p)
           /\ o.status = "pricing" => OrderHistory(k, Acted(o, "priced", Killed), p)
<1> USE WorkflowFields, NewFields, RefusalOutcomes
<1>1. ASSUME o.status = "absent", NEW caller, NEW input
      PROVE  OrderHistory(k, Workflow("begin", caller, input), p)
  BY <1>1 DEF OrderHistory, Ended
<1>2. ASSUME o.status = "begin", o.input.order_id = k
      PROVE  OrderHistory(k, At(o, "pricing"), Action("called", 0, o.input))
  BY <1>2 DEF OrderHistory, Ended
<1>3. ASSUME o.status \in {"begin", "priced"} PROVE OrderHistory(k, Retried(o, o.status), p)
  BY <1>3 DEF OrderHistory, Ended
<1>4. ASSUME o.status = "pricing" PROVE OrderHistory(k, Acted(o, "priced", Killed), p)
  BY <1>4 DEF OrderHistory, Ended
<1> QED BY <1>1, <1>2, <1>3, <1>4

LEMMA PriceHistoryKept ==
    ASSUME NEW k, NEW o \in Workflows(OrderStatuses), NEW p \in Actions,
           OrderHistory(k, o, p)
    PROVE  /\ p.status = "called" => OrderHistory(k, o, Answered(p, PriceFor(p.input.sku)))
           /\ p.status = "answered" =>
                  IF o.status = "pricing"
                  THEN OrderHistory(k, Acted(o, "priced", p.response), At(p, "journaled"))
                  ELSE OrderHistory(k, o, At(p, "journaled"))
           /\ p.status \in {"called", "answered"} => OrderHistory(k, o, Retried(p, "called"))
<1> USE WorkflowFields, ActionFields
<1>1. ASSUME p.status = "called" PROVE OrderHistory(k, o, Answered(p, PriceFor(p.input.sku)))
  BY <1>1 DEF OrderHistory, Ended
<1>2. ASSUME p.status = "answered", o.status = "pricing"
      PROVE  OrderHistory(k, Acted(o, "priced", p.response), At(p, "journaled"))
  BY <1>2 DEF OrderHistory, Ended
<1>3. ASSUME p.status = "answered", o.status # "pricing"
      PROVE  OrderHistory(k, o, At(p, "journaled"))
  BY <1>3 DEF OrderHistory, Ended
<1>4. ASSUME p.status \in {"called", "answered"} PROVE OrderHistory(k, o, Retried(p, "called"))
  BY <1>4 DEF OrderHistory, Ended
<1> QED BY <1>1, <1>2, <1>3, <1>4

(* How an order may end: failed with a refusal, or completed with the      *)
(* total at the catalog's price or without one.                            *)
OrderMayEnd(k, o, status, response) ==
    \/ status = "failed" /\ response.outcome \in Refusals
    \/ /\ status = "completed" /\ o.input.order_id = k /\ Priced(o.input.sku)
       /\ TotalAccepted(o.input, Catalog[o.input.sku])
       /\ response = Response("CONFIRMED", k, Total(o.input, Catalog[o.input.sku]))
    \/ status = "completed" /\ response.outcome = "PRODUCT_PRICE_NOT_FOUND"

LEMMA OrderHistoryEnds ==
    ASSUME NEW k, NEW o \in Workflows(OrderStatuses), NEW p \in Actions,
           NEW status, NEW response,
           OrderHistory(k, o, p), OrderMayEnd(k, o, status, response)
    PROVE  OrderHistory(k, Finished(o, status, response), p)
BY WorkflowFields
   DEF OrderHistory, OrderMayEnd, CompletedOrder, FailedWorkflow, Ended

-------------------------------------------------------------------------------
(* So it is for what a purchase owes to its child order.                   *)

(* An order that has not completed may move, under the same caller.        *)
LEMMA ChildHistoryMoves ==
    ASSUME NEW k, NEW o \in Workflows(OrderStatuses), NEW u, NEW status, NEW response,
           ChildHistory(k, o, u), o.status # "completed"
    PROVE  /\ ChildHistory(k, At(o, status), u)
           /\ ChildHistory(k, Acted(o, status, response), u)
           /\ ChildHistory(k, Finished(o, status, response), u)
           /\ ChildHistory(k, Retried(o, status), u)
<1>1. ASSUME NEW p, p.caller = o.caller, p.input = o.input PROVE ChildHistory(k, p, u)
  BY <1>1 DEF ChildHistory
<1>2. /\ At(o, status).caller = o.caller /\ At(o, status).input = o.input
      /\ Acted(o, status, response).caller = o.caller
      /\ Acted(o, status, response).input = o.input
      /\ Finished(o, status, response).caller = o.caller
      /\ Finished(o, status, response).input = o.input
      /\ Retried(o, status).caller = o.caller /\ Retried(o, status).input = o.input
  BY WorkflowFields
<1> QED BY <1>1, <1>2

LEMMA ChildHistoryCreated ==
    ASSUME NEW k, NEW o, NEW u, NEW caller, NEW input, ChildHistory(k, o, u),
           caller[1] # "purchase"
    PROVE  /\ o.status = "absent" => ChildHistory(k, Workflow("begin", caller, input), u)
           /\ u.status = "absent" => ChildHistory(k, o, Workflow("begin", caller, input))
BY NewFields, RefusalOutcomes DEF ChildHistory

(* A purchase moves on without another child. *)
LEMMA ChildHistoryParentMoves ==
    ASSUME NEW k, NEW o, NEW u \in Workflows(PurchaseStatuses), NEW status, NEW response,
           ChildHistory(k, o, u),
           u.status # "absent", status \notin {"absent", "confirming"},
           status = "begin" => u.status = "begin"
    PROVE  /\ ChildHistory(k, o, At(u, status))
           /\ ChildHistory(k, o, Acted(u, status, response))
           /\ ChildHistory(k, o, Finished(u, status, response))
           /\ ChildHistory(k, o, Retried(u, status))
<1>1. ASSUME NEW v, v.caller = u.caller, v.input = u.input, v.confirmed = u.confirmed,
             v.status \in {status, "paused"}
      PROVE  ChildHistory(k, o, v)
  BY <1>1 DEF ChildHistory
<1> DEFINE Same(v) == /\ v.caller = u.caller /\ v.input = u.input
                      /\ v.confirmed = u.confirmed /\ v.status \in {status, "paused"}
<1>2. Same(At(u, status)) /\ Same(Acted(u, status, response))
  BY WorkflowFields
<1>3. Same(Finished(u, status, response)) /\ Same(Retried(u, status))
  BY WorkflowFields
<1> QED BY <1>1, <1>2, <1>3

LEMMA ChildHistoryRun ==
    ASSUME NEW k, NEW o, NEW u \in Workflows(PurchaseStatuses), ChildHistory(k, o, u),
           u.status = "begin"
    PROVE  /\ ChildHistory(k, o, Confirmed(u, AlreadyInvoked))
           /\ ChildHistory(k, Workflow("begin", ParentWorkflow(k), u.input),
                              At(u, "confirming"))
<1> USE WorkflowFields, NewFields, RefusalOutcomes
<1>1. ChildHistory(k, o, Confirmed(u, AlreadyInvoked))
  BY DEF ChildHistory
<1>2. ChildHistory(k, Workflow("begin", ParentWorkflow(k), u.input), At(u, "confirming"))
  BY DEF ChildHistory
<1> QED BY <1>1, <1>2

(* The order ends, and resumes the purchase that waits for it. *)
LEMMA ChildHistoryResumed ==
    ASSUME NEW k, NEW o \in Workflows(OrderStatuses), NEW u \in Workflows(PurchaseStatuses),
           NEW status, NEW response,
           ChildHistory(k, o, u), OrderMayEnd(k, o, status, response),
           u.status = "confirming", o.caller[1] = "purchase"
    PROVE  ChildHistory(k, Finished(o, status, response), Confirmed(u, response))
BY WorkflowFields, RefusalOutcomes DEF ChildHistory, OrderMayEnd, Refusals

-------------------------------------------------------------------------------
(* And for what a purchase owes to its payment.                            *)

LEMMA PaymentHistoryKept ==
    ASSUME NEW k, NEW u \in Workflows(PurchaseStatuses), NEW y \in Actions,
           PaymentHistory(k, u, y)
    PROVE  /\ u.status = "absent" =>
                  \A caller, input : PaymentHistory(k, Workflow("begin", caller, input), y)
           /\ u.status = "begin" => PaymentHistory(k, At(u, "confirming"), y)
           /\ u.status = "confirmed" /\ u.confirmed.outcome = "CONFIRMED" =>
                  PaymentHistory(k, At(u, "paying"),
                                    Action("called", u.confirmed.cents, u.input))
           /\ u.status \in PurchaseWorking => PaymentHistory(k, Retried(u, u.status), y)
           /\ u.status = "paying" => PaymentHistory(k, Acted(u, "paid", Killed), y)
<1> USE WorkflowFields, NewFields, RefusalOutcomes
<1>1. ASSUME u.status = "absent", NEW caller, NEW input
      PROVE  PaymentHistory(k, Workflow("begin", caller, input), y)
  BY <1>1 DEF PaymentHistory, Ended
<1>2. ASSUME u.status = "begin" PROVE PaymentHistory(k, At(u, "confirming"), y)
  BY <1>2 DEF PaymentHistory, Ended
<1>3. ASSUME u.status = "confirmed", u.confirmed.outcome = "CONFIRMED"
      PROVE  PaymentHistory(k, At(u, "paying"),
                               Action("called", u.confirmed.cents, u.input))
  BY <1>3 DEF PaymentHistory, Ended
<1>4. ASSUME u.status \in PurchaseWorking PROVE PaymentHistory(k, Retried(u, u.status), y)
  BY <1>4 DEF PaymentHistory, PurchaseWorking, Ended
<1>5. ASSUME u.status = "paying" PROVE PaymentHistory(k, Acted(u, "paid", Killed), y)
  BY <1>5 DEF PaymentHistory, Ended
<1> QED BY <1>1, <1>2, <1>3, <1>4, <1>5

(* The child answers the purchase that waits for it, or was not run. *)
LEMMA PaymentHistoryResumed ==
    ASSUME NEW k, NEW u \in Workflows(PurchaseStatuses), NEW y \in Actions, NEW response,
           PaymentHistory(k, u, y), u.status \in {"begin", "confirming"}
    PROVE  PaymentHistory(k, Confirmed(u, response), y)
BY WorkflowFields DEF PaymentHistory, Ended

LEMMA PaymentHistoryActs ==
    ASSUME NEW k, NEW u \in Workflows(PurchaseStatuses), NEW y \in Actions,
           PaymentHistory(k, u, y)
    PROVE  /\ y.status = "called" =>
                  \A response : PaymentHistory(k, u, Answered(y, response))
           /\ y.status = "answered" =>
                  IF u.status = "paying"
                  THEN PaymentHistory(k, Acted(u, "paid", y.response), At(y, "journaled"))
                  ELSE PaymentHistory(k, u, At(y, "journaled"))
           /\ y.status \in {"called", "answered"} => PaymentHistory(k, u, Retried(y, "called"))
<1> USE WorkflowFields, ActionFields
<1>1. ASSUME y.status = "called", NEW response
      PROVE  PaymentHistory(k, u, Answered(y, response))
  BY <1>1 DEF PaymentHistory, CompletedPurchase
<1>2. ASSUME y.status = "answered", u.status = "paying"
      PROVE  PaymentHistory(k, Acted(u, "paid", y.response), At(y, "journaled"))
  BY <1>2 DEF PaymentHistory, Ended
<1>3. ASSUME y.status = "answered", u.status # "paying"
      PROVE  PaymentHistory(k, u, At(y, "journaled"))
  BY <1>3 DEF PaymentHistory, CompletedPurchase
<1>4. ASSUME y.status \in {"called", "answered"} PROVE PaymentHistory(k, u, Retried(y, "called"))
  BY <1>4 DEF PaymentHistory, CompletedPurchase
<1> QED BY <1>1, <1>2, <1>3, <1>4

(* How a purchase may end. *)
PurchaseMayEnd(k, u, y, status, response) ==
    \/ status = "failed" /\ response.outcome \in Refusals
    \/ /\ status = "completed" /\ y.status = "journaled" /\ y.response.outcome = "TAKEN"
       /\ response = Response("PAID", k, y.cents)
    \/ /\ status = "completed" /\ y.status = "journaled" /\ y.response.outcome = "DECLINED"
       /\ response.outcome = "PAYMENT_DECLINED"
    \/ /\ status = "completed" /\ u.confirmed.outcome # "CONFIRMED"
       /\ response.outcome = "ORDER_NOT_CONFIRMED"

LEMMA PaymentHistoryEnds ==
    ASSUME NEW k, NEW u \in Workflows(PurchaseStatuses), NEW y \in Actions,
           NEW status, NEW response,
           PaymentHistory(k, u, y), PurchaseMayEnd(k, u, y, status, response),
           u.status \notin {"absent", "begin", "confirming", "confirmed"} \/ y.status = "absent"
    PROVE  PaymentHistory(k, Finished(u, status, response), y)
BY WorkflowFields
   DEF PaymentHistory, PurchaseMayEnd, CompletedPurchase, FailedWorkflow, Ended

-------------------------------------------------------------------------------
(* And for the money: what charging once more appends.                    *)

LEMMA AppendFacts ==
    ASSUME NEW s \in Seq(Nat), NEW n \in Nat
    PROVE  /\ Len(s) \in Nat /\ Len(Append(s, n)) = Len(s) + 1
           /\ Append(s, n) # <<>> /\ Append(s, n)[Len(s) + 1] = n
           /\ \A i \in 1..Len(s) : Append(s, n)[i] = s[i]
<1>1. Len(s) \in Nat /\ Len(Append(s, n)) = Len(s) + 1 /\ Append(s, n) # <<>>
  OBVIOUS
<1>2. Append(s, n)[Len(s) + 1] = n
  OBVIOUS
<1>3. \A i \in 1..Len(s) : Append(s, n)[i] = s[i]
  OBVIOUS
<1> QED BY <1>1, <1>2, <1>3

LEMMA MoneyHistoryKept ==
    ASSUME NEW k, NEW y \in Actions, NEW receipt, NEW charged \in Seq(Nat),
           MoneyHistory(k, y, receipt, charged)
    PROVE  /\ y.status = "absent" =>
                  \A cents, input : MoneyHistory(k, Action("called", cents, input),
                                                receipt, charged)
           /\ y.status = "answered" => MoneyHistory(k, At(y, "journaled"), receipt, charged)
           /\ y.status \in {"called", "answered"} =>
                  MoneyHistory(k, Retried(y, "called"), receipt, charged)
           /\ MoneyHistory(k, y, NoReceipt, charged)
<1> USE ActionFields, NewFields
<1>1. ASSUME y.status = "absent", NEW cents, NEW input
      PROVE  MoneyHistory(k, Action("called", cents, input), receipt, charged)
  <2>1. charged = <<>> /\ receipt = NoReceipt
    BY <1>1 DEF MoneyHistory
  <2> QED BY <2>1 DEF MoneyHistory
<1>2. ASSUME y.status = "answered"
      PROVE  MoneyHistory(k, At(y, "journaled"), receipt, charged)
  BY <1>2 DEF MoneyHistory
<1>3. ASSUME y.status \in {"called", "answered"}
      PROVE  MoneyHistory(k, Retried(y, "called"), receipt, charged)
  BY <1>3 DEF MoneyHistory
<1>4. MoneyHistory(k, y, NoReceipt, charged)
  BY DEF MoneyHistory
<1> QED BY <1>1, <1>2, <1>3, <1>4

(* One run of the processor: it answers with the receipt it holds, refuses *)
(* the method, or charges and keeps a receipt.                             *)
LEMMA MoneyHistoryCharged ==
    ASSUME NEW k, NEW y \in Actions, NEW receipt, NEW charged \in Seq(Nat),
           MoneyHistory(k, y, receipt, charged), y.status = "called"
    PROVE  /\ receipt # NoReceipt =>
                  MoneyHistory(k, Answered(y, Response("TAKEN", k, receipt)), receipt, charged)
           /\ receipt = NoReceipt /\ y.input.method = DeclinedPaymentMethod =>
                  MoneyHistory(k, Answered(y, Response("DECLINED", k, 0)), receipt, charged)
           /\ receipt = NoReceipt /\ y.input.method # DeclinedPaymentMethod =>
                  MoneyHistory(k, Answered(y, Response("TAKEN", k, y.cents)),
                               y.cents, Append(charged, y.cents))
<1> USE ActionFields
<1>1. y.cents \in Nat
  BY DEF Actions
<1>2. ASSUME receipt # NoReceipt
      PROVE  MoneyHistory(k, Answered(y, Response("TAKEN", k, receipt)), receipt, charged)
  BY <1>2 DEF MoneyHistory
<1>3. ASSUME receipt = NoReceipt, y.input.method = DeclinedPaymentMethod
      PROVE  MoneyHistory(k, Answered(y, Response("DECLINED", k, 0)), receipt, charged)
  BY <1>3 DEF MoneyHistory
<1>4. ASSUME receipt = NoReceipt, y.input.method # DeclinedPaymentMethod
      PROVE  MoneyHistory(k, Answered(y, Response("TAKEN", k, y.cents)),
                          y.cents, Append(charged, y.cents))
  <2> DEFINE more == Append(charged, y.cents)
  <2>1. /\ Len(charged) \in Nat /\ Len(more) = Len(charged) + 1
        /\ more # <<>> /\ more[Len(charged) + 1] = y.cents
        /\ \A i \in 1..Len(charged) : more[i] = charged[i]
    BY <1>1, AppendFacts
  <2> HIDE DEF more
  <2>2. \A i \in 1..Len(more) : more[i] = y.cents
    BY <2>1 DEF MoneyHistory
  <2> QED BY <1>4, <2>1, <2>2 DEF MoneyHistory
<1> QED BY <1>2, <1>3, <1>4

-------------------------------------------------------------------------------
(* Histories is kept by every step: a step at one key leaves the others    *)
(* alone, and keeps the four histories of its own.                         *)

LEMMA HistoriesAt ==
    ASSUME Histories, NEW k \in OrderIds,
           \A j \in OrderIds \ {k} :
               /\ order'[j] = order[j] /\ pricing'[j] = pricing[j]
               /\ purchase'[j] = purchase[j] /\ payment'[j] = payment[j]
               /\ receipts'[j] = receipts[j] /\ charges'[j] = charges[j],
           OrderHistory(k, order'[k], pricing'[k]),
           ChildHistory(k, order'[k], purchase'[k]),
           PaymentHistory(k, purchase'[k], payment'[k]),
           MoneyHistory(k, payment'[k], receipts'[k], charges'[k])
    PROVE  Histories'
BY DEF Histories

(* A step that touches only the order at one key, or only the purchase.    *)
LEMMA HistoriesOfOrder ==
    ASSUME Histories, NEW k \in OrderIds,
           \A j \in OrderIds \ {k} : order'[j] = order[j] /\ pricing'[j] = pricing[j],
           UNCHANGED <<purchase, payment, receipts, charges>>,
           OrderHistory(k, order'[k], pricing'[k]),
           ChildHistory(k, order'[k], purchase[k])
    PROVE  Histories'
BY DEF Histories

LEMMA HistoriesOfPurchase ==
    ASSUME Histories, NEW k \in OrderIds,
           \A j \in OrderIds \ {k} : purchase'[j] = purchase[j] /\ payment'[j] = payment[j],
           UNCHANGED <<order, pricing, receipts, charges>>,
           ChildHistory(k, order[k], purchase'[k]),
           PaymentHistory(k, purchase'[k], payment'[k]),
           MoneyHistory(k, payment'[k], receipts[k], charges[k])
    PROVE  Histories'
BY DEF Histories

(* The four histories at one key, with the types of what they are about.   *)
LEMMA HistoriesHere ==
    ASSUME TypeOK, Histories, NEW k \in OrderIds
    PROVE  /\ OrderHistory(k, order[k], pricing[k])
           /\ ChildHistory(k, order[k], purchase[k])
           /\ PaymentHistory(k, purchase[k], payment[k])
           /\ MoneyHistory(k, payment[k], receipts[k], charges[k])
           /\ order[k] \in Workflows(OrderStatuses) /\ pricing[k] \in Actions
           /\ purchase[k] \in Workflows(PurchaseStatuses) /\ payment[k] \in Actions
           /\ charges[k] \in Seq(Nat) /\ receipts[k] \in Nat \cup {NoReceipt}
BY PartTypes DEF Histories, TypeOK

LEMMA Domains ==
    ASSUME TypeOK
    PROVE  /\ order \in [OrderIds -> Workflows(OrderStatuses)]
           /\ purchase \in [OrderIds -> Workflows(PurchaseStatuses)]
           /\ pricing \in [OrderIds -> Actions] /\ payment \in [OrderIds -> Actions]
           /\ receipts \in [OrderIds -> Nat \cup {NoReceipt}]
           /\ charges \in [OrderIds -> Seq(Nat)]
           /\ call \in [Requests -> {"new", "open", "closed"}]
           /\ reply \in [Requests -> Responses] /\ answer \in [Requests -> Responses]
BY DEF TypeOK

(* An order ends, and the purchase that waits for it is resumed. *)
LEMMA HistoriesOrderEnds ==
    ASSUME TypeOK, Histories, NEW k \in OrderIds, NEW status, NEW response,
           order[k].status # "completed", OrderMayEnd(k, order[k], status, response),
           order' = [order EXCEPT ![k] = Finished(order[k], status, response)],
           purchase' = ParentAfter(order[k].caller, response),
           UNCHANGED <<pricing, payment, moneyVars>>
    PROVE  Histories'
<1> USE HistoriesHere, Domains
<1> DEFINE o == order[k]
<1>1. /\ order'[k] = Finished(o, status, response)
      /\ \A j \in OrderIds \ {k} : order'[j] = order[j]
      /\ pricing' = pricing /\ payment' = payment
      /\ receipts' = receipts /\ charges' = charges
  BY DEF moneyVars
<1>2. OrderHistory(k, order'[k], pricing'[k])
  BY <1>1, OrderHistoryEnds
<1>3. CASE o.caller[1] = "purchase" /\ purchase[o.caller[2]].status = "confirming"
  <2>1. o.caller[2] = k
    BY <1>3, CallerFields DEF ChildHistory
  <2>2. /\ purchase'[k] = Confirmed(purchase[k], response)
        /\ \A j \in OrderIds \ {k} : purchase'[j] = purchase[j]
    BY <1>3, <2>1 DEF ParentAfter
  <2>3. ChildHistory(k, order'[k], purchase'[k])
    BY <1>1, <1>3, <2>1, <2>2, ChildHistoryResumed
  <2>4. PaymentHistory(k, Confirmed(purchase[k], response), payment[k])
    BY <1>3, <2>1, PaymentHistoryResumed
  <2> QED BY <1>1, <1>2, <2>2, <2>3, <2>4, HistoriesAt, ZenonT(60)
<1>4. CASE ~(o.caller[1] = "purchase" /\ purchase[o.caller[2]].status = "confirming")
  <2>1. purchase' = purchase
    BY <1>4 DEF ParentAfter
  <2>2. ChildHistory(k, order'[k], purchase'[k])
    BY <1>1, <2>1, ChildHistoryMoves
  <2> QED BY <1>1, <1>2, <2>1, <2>2, HistoriesAt
<1> QED BY <1>3, <1>4

(* A purchase ends. *)
LEMMA HistoriesPurchaseEnds ==
    ASSUME TypeOK, Histories, NEW k \in OrderIds, NEW status \in Ended, NEW response,
           purchase[k].status # "absent",
           PurchaseMayEnd(k, purchase[k], payment[k], status, response),
           purchase' = [purchase EXCEPT ![k] = Finished(purchase[k], status, response)],
           UNCHANGED <<orderVars, payment, moneyVars>>
    PROVE  Histories'
<1> USE HistoriesHere, Domains
<1>1. /\ purchase'[k] = Finished(purchase[k], status, response)
      /\ \A j \in OrderIds \ {k} : purchase'[j] = purchase[j]
      /\ order' = order /\ pricing' = pricing /\ payment' = payment
      /\ receipts' = receipts /\ charges' = charges
  BY DEF moneyVars, orderVars
<1>2. ChildHistory(k, order[k], Finished(purchase[k], status, response))
  BY ChildHistoryParentMoves DEF Ended
<1>3. purchase[k].status \in {"absent", "begin", "confirming", "confirmed"}
          => payment[k].status = "absent"
  BY DEF PaymentHistory
<1>4. PaymentHistory(k, Finished(purchase[k], status, response), payment[k])
  BY <1>3, PaymentHistoryEnds
<1> QED BY <1>1, <1>2, <1>4, HistoriesAt

LEMMA HistoriesOrderStep ==
    ASSUME TypeOK, Histories, NEW k \in OrderIds, OrderStep(k) \/ PricingStep(k)
    PROVE  Histories'
<1> USE Domains
<1> DEFINE o == order[k]
           p == pricing[k]
<1>0. /\ OrderHistory(k, o, p) /\ ChildHistory(k, o, purchase[k])
      /\ o \in Workflows(OrderStatuses) /\ p \in Actions
  BY HistoriesHere
<1> USE <1>0
<1>1. CASE \E status \in Ended : \E response :
               /\ EndOrder(k, status, response) /\ o.status # "completed"
               /\ OrderMayEnd(k, o, status, response)
  BY <1>1, HistoriesOrderEnds DEF EndOrder, moneyVars
<1>2. CASE UnreadableOrder(k) \/ RefuseForeignOrder(k)
  BY <1>1, <1>2, RefusalOutcomes
     DEF UnreadableOrder, RefuseForeignOrder, OrderMayEnd, Refusals, Ended
<1>3. CASE RunPriceProduct(k)
  <2>1. /\ order'[k] = At(o, "pricing") /\ pricing'[k] = Action("called", 0, o.input)
        /\ \A j \in OrderIds \ {k} : order'[j] = order[j] /\ pricing'[j] = pricing[j]
        /\ UNCHANGED <<purchase, payment, receipts, charges>>
    BY <1>3 DEF RunPriceProduct, payVars, moneyVars
  <2>2. OrderHistory(k, At(o, "pricing"), Action("called", 0, o.input))
    BY <1>3, OrderHistoryKept DEF RunPriceProduct, OwnOrder
  <2>3. ChildHistory(k, At(o, "pricing"), purchase[k])
    BY <1>3, ChildHistoryMoves DEF RunPriceProduct
  <2> QED BY <2>1, <2>2, <2>3, HistoriesOfOrder
<1>4. CASE PriceProduct(k)
  <2>1. /\ pricing'[k] = Answered(p, PriceFor(p.input.sku)) /\ p.status = "called"
        /\ \A j \in OrderIds \ {k} : pricing'[j] = pricing[j]
        /\ order' = order /\ UNCHANGED <<purchase, payment, receipts, charges>>
    BY <1>4 DEF PriceProduct, payVars, moneyVars
  <2>2. OrderHistory(k, o, Answered(p, PriceFor(p.input.sku)))
    BY <2>1, PriceHistoryKept
  <2> QED BY <2>1, <2>2, HistoriesOfOrder
<1>5. CASE JournalPrice(k)
  <2>1. /\ pricing'[k] = At(p, "journaled") /\ p.status = "answered"
        /\ order'[k] = IF o.status = "pricing" THEN Acted(o, "priced", p.response) ELSE o
        /\ \A j \in OrderIds \ {k} : order'[j] = order[j] /\ pricing'[j] = pricing[j]
        /\ UNCHANGED <<purchase, payment, receipts, charges>>
    BY <1>5 DEF JournalPrice, payVars, moneyVars
  <2>2. OrderHistory(k, order'[k], At(p, "journaled"))
    BY <2>1, PriceHistoryKept
  <2>3. ChildHistory(k, order'[k], purchase[k])
    <3>1. CASE o.status = "pricing"
      BY <2>1, <3>1, ChildHistoryMoves
    <3>2. CASE o.status # "pricing"
      BY <2>1, <3>2
    <3> QED BY <3>1, <3>2
  <2> QED BY <2>1, <2>2, <2>3, HistoriesOfOrder
<1>6. CASE ConfirmOrder(k)
  <2>1. /\ o.status = "priced" /\ o.acted.outcome = "PRICED"
        /\ TotalAccepted(o.input, o.acted.cents)
        /\ EndOrder(k, "completed", Response("CONFIRMED", o.input.order_id,
                                             Total(o.input, o.acted.cents)))
    BY <1>6 DEF ConfirmOrder
  <2>2. o.input.order_id = k /\ o.acted = PriceFor(o.input.sku)
    BY <2>1, RefusalOutcomes DEF OrderHistory
  <2>3. Priced(o.input.sku) /\ o.acted.cents = Catalog[o.input.sku]
    BY <2>1, <2>2 DEF PriceFor, Response
  <2> QED BY <1>1, <2>1, <2>2, <2>3 DEF OrderMayEnd, Ended
<1>7. CASE PriceNotFound(k)
  BY <1>1, <1>7, ResponseFields DEF PriceNotFound, OrderMayEnd, Ended
<1>8. CASE TotalRaises(k)
  <2>1. /\ order'[k] = Retried(o, "priced") /\ o.status = "priced"
        /\ \A j \in OrderIds \ {k} : order'[j] = order[j]
        /\ pricing' = pricing /\ UNCHANGED <<purchase, payment, receipts, charges>>
    BY <1>8 DEF TotalRaises, payVars, moneyVars
  <2>2. OrderHistory(k, Retried(o, "priced"), p)
    BY <2>1, OrderHistoryKept
  <2>3. ChildHistory(k, Retried(o, "priced"), purchase[k])
    BY <2>1, ChildHistoryMoves
  <2> QED BY <2>1, <2>2, <2>3, HistoriesOfOrder
<1>9. CASE OrderActionFails(k)
  <2>1. /\ o.status = "priced" /\ StatusCode(o.acted) # 200
        /\ EndOrder(k, "failed", o.acted)
    BY <1>9 DEF OrderActionFails
  <2>2. o.acted = Killed
    BY <2>1, PriceFound DEF OrderHistory
  <2> QED BY <1>1, <2>1, <2>2, RefusalOutcomes DEF OrderMayEnd, Refusals, Ended
<1> QED BY <1>2, <1>3, <1>4, <1>5, <1>6, <1>7, <1>8, <1>9 DEF OrderStep, PricingStep

(* A refusal that is not the recognised one, which a child may end with.   *)
LEMMA RefusedStatus ==
    ASSUME NEW response, StatusCode(response) # 200
    PROVE  /\ response.outcome \in {"already_invoked", "killed", "foreign_order", "unreadable"}
           /\ response.outcome = "already_invoked" => RecognisedRefusal(response)
BY DEF StatusCode, RecognisedRefusal

LEMMA HistoriesPurchaseStep ==
    ASSUME TypeOK, Histories, NEW k \in OrderIds, PurchaseStep(k)
    PROVE  Histories'
<1> DEFINE o == order[k]
           u == purchase[k]
           y == payment[k]
<1>0. /\ ChildHistory(k, o, u) /\ PaymentHistory(k, u, y)
      /\ MoneyHistory(k, y, receipts[k], charges[k]) /\ OrderHistory(k, o, pricing[k])
      /\ o \in Workflows(OrderStatuses) /\ charges[k] \in Seq(Nat)
      /\ u \in Workflows(PurchaseStatuses) /\ y \in Actions /\ pricing[k] \in Actions
  BY HistoriesHere
<1>1. CASE \E status \in Ended : \E response :
               /\ EndPurchase(k, status, response) /\ u.status # "absent"
               /\ PurchaseMayEnd(k, u, y, status, response)
  BY <1>1, HistoriesPurchaseEnds DEF EndPurchase
<1>2. CASE UnreadablePurchase(k) \/ RefuseForeignPurchase(k)
  BY <1>1, <1>2, RefusalOutcomes
     DEF UnreadablePurchase, RefuseForeignPurchase, PurchaseMayEnd, Refusals, Ended
<1>3. CASE RunChildOrder(k)
  <2>1. /\ u.status = "begin" /\ u.input.order_id = k
        /\ UNCHANGED <<pricing, payment, receipts, charges>>
    BY <1>3 DEF RunChildOrder, OwnOrder, moneyVars
  <2>2. CASE o.status = "absent"
    <3>1. /\ order' = [order EXCEPT ![k] = Workflow("begin", ParentWorkflow(k), u.input)]
          /\ purchase' = [purchase EXCEPT ![k] = At(u, "confirming")]
      BY <1>3, <2>1, <2>2 DEF RunChildOrder
    <3>2. OrderHistory(k, Workflow("begin", ParentWorkflow(k), u.input), pricing[k])
      BY <1>0, <2>2, OrderHistoryKept
    <3>3. ChildHistory(k, Workflow("begin", ParentWorkflow(k), u.input), At(u, "confirming"))
      BY <1>0, <2>1, ChildHistoryRun
    <3>4. PaymentHistory(k, At(u, "confirming"), y)
      BY <1>0, <2>1, PaymentHistoryKept
    <3>5. /\ order'[k] = Workflow("begin", ParentWorkflow(k), u.input)
          /\ purchase'[k] = At(u, "confirming")
          /\ \A j \in OrderIds \ {k} : order'[j] = order[j] /\ purchase'[j] = purchase[j]
      BY <3>1, Domains
    <3> QED BY <1>0, <2>1, <3>2, <3>3, <3>4, <3>5, HistoriesAt
  <2>3. CASE o.status # "absent"
    <3>1. purchase' = [purchase EXCEPT ![k] = Confirmed(u, AlreadyInvoked)] /\ order' = order
      BY <1>3, <2>1, <2>3 DEF RunChildOrder, Repeat
    <3>2. ChildHistory(k, o, Confirmed(u, AlreadyInvoked))
      BY <1>0, <2>1, ChildHistoryRun
    <3>3. PaymentHistory(k, Confirmed(u, AlreadyInvoked), y)
      BY <1>0, <2>1, PaymentHistoryResumed
    <3>4. /\ purchase'[k] = Confirmed(u, AlreadyInvoked)
          /\ \A j \in OrderIds \ {k} : purchase'[j] = purchase[j]
      BY <3>1, Domains
    <3> QED BY <1>0, <2>1, <3>1, <3>2, <3>3, <3>4, HistoriesOfPurchase
  <2> QED BY <2>2, <2>3
<1>4. CASE OrderNotConfirmed(k)
  <2>1. /\ u.status = "confirmed" /\ u.confirmed.outcome # "CONFIRMED"
        /\ EndPurchase(k, "completed", Response("ORDER_NOT_CONFIRMED", u.input.order_id, 0))
    BY <1>4 DEF OrderNotConfirmed, RecognisedRefusal
  <2> QED BY <1>1, <2>1, ResponseFields DEF PurchaseMayEnd, Ended
<1>5. CASE ChildOrderFails(k)
  <2>1. /\ u.status = "confirmed" /\ EndPurchase(k, "failed", u.confirmed)
        /\ u.confirmed.outcome \in Refusals
    BY <1>5, RefusedStatus DEF ChildOrderFails, Refusals
  <2> QED BY <1>1, <2>1 DEF PurchaseMayEnd, Ended
<1>6. CASE RunTakePayment(k)
  <2> DEFINE asked == Action("called", u.confirmed.cents, u.input)
  <2>1. /\ u.status = "confirmed" /\ u.confirmed.outcome = "CONFIRMED"
        /\ UNCHANGED <<order, pricing, receipts, charges>>
        /\ \/ /\ purchase' = [purchase EXCEPT ![k] = At(u, "paying")]
              /\ payment' = [payment EXCEPT ![k] = asked]
           \/ /\ purchase' = [purchase EXCEPT ![k] = Retried(u, "confirmed")]
              /\ payment' = payment
    BY <1>6 DEF RunTakePayment, orderVars, moneyVars
  <2>2. CASE /\ purchase' = [purchase EXCEPT ![k] = At(u, "paying")]
             /\ payment' = [payment EXCEPT ![k] = asked]
    <3>1. /\ purchase'[k] = At(u, "paying") /\ payment'[k] = asked
          /\ \A j \in OrderIds \ {k} : purchase'[j] = purchase[j] /\ payment'[j] = payment[j]
      BY <2>2, Domains
    <3>2. ChildHistory(k, o, At(u, "paying"))
      BY <1>0, <2>1, ChildHistoryParentMoves
    <3>3. PaymentHistory(k, At(u, "paying"), asked)
      BY <1>0, <2>1, PaymentHistoryKept
    <3>4. y.status = "absent"
      BY <1>0, <2>1 DEF PaymentHistory
    <3>5. MoneyHistory(k, asked, receipts[k], charges[k])
      BY <1>0, <3>4, MoneyHistoryKept
    <3> QED BY <2>1, <3>1, <3>2, <3>3, <3>5, HistoriesOfPurchase
  <2>3. CASE /\ purchase' = [purchase EXCEPT ![k] = Retried(u, "confirmed")]
             /\ payment' = payment
    <3>1. /\ purchase'[k] = Retried(u, "confirmed")
          /\ \A j \in OrderIds \ {k} : purchase'[j] = purchase[j]
      BY <2>3, Domains
    <3>2. ChildHistory(k, o, Retried(u, "confirmed"))
      BY <1>0, <2>1, ChildHistoryParentMoves
    <3>3. PaymentHistory(k, Retried(u, "confirmed"), y)
      BY <1>0, <2>1, PaymentHistoryKept DEF PurchaseWorking
    <3> QED BY <1>0, <2>1, <2>3, <3>1, <3>2, <3>3, HistoriesOfPurchase
  <2> QED BY <2>1, <2>2, <2>3
<1>7. CASE SettlePurchase(k)
  <2>1. /\ u.status = "paid" /\ u.acted.outcome = "TAKEN"
    BY <1>7 DEF SettlePurchase
  <2>2. /\ y.status = "journaled" /\ u.acted = y.response
        /\ u.confirmed.outcome = "CONFIRMED" /\ y.cents = u.confirmed.cents
    BY <1>0, <2>1, RefusalOutcomes DEF PaymentHistory
  <2>3. u.input.order_id = k /\ u.acted = Response("TAKEN", k, u.confirmed.cents)
    <3>1. u.confirmed = o.result /\ o.status = "completed" /\ o.input = u.input
      BY <1>0, <2>2, CallerFields DEF ChildHistory
    <3>2. o.input.order_id = k
      BY <1>0, <2>2, <3>1, RefusalOutcomes DEF OrderHistory, CompletedOrder
    <3>3. y.response = Response("TAKEN", k, y.cents)
      BY <1>0, <2>1, <2>2, ResponseFields DEF MoneyHistory
    <3> QED BY <2>2, <3>1, <3>2, <3>3
  <2>4. EndPurchase(k, "completed", Response("PAID", k, y.cents))
    BY <1>7, <2>2, <2>3, ResponseFields DEF SettlePurchase, PaymentSettles
  <2> QED BY <1>1, <2>1, <2>2, <2>4 DEF PurchaseMayEnd, Ended
<1>8. CASE PaymentDeclined(k)
  <2>1. /\ u.status = "paid" /\ u.acted.outcome = "DECLINED"
        /\ EndPurchase(k, "completed", Response("PAYMENT_DECLINED", u.input.order_id, 0))
    BY <1>8 DEF PaymentDeclined
  <2>2. y.status = "journaled" /\ y.response.outcome = "DECLINED"
    BY <1>0, <2>1, RefusalOutcomes DEF PaymentHistory
  <2> QED BY <1>1, <2>1, <2>2, ResponseFields DEF PurchaseMayEnd, Ended
<1>9. CASE PaymentActionFails(k)
  <2>1. /\ u.status = "paid" /\ StatusCode(u.acted) # 200 /\ EndPurchase(k, "failed", u.acted)
    BY <1>9 DEF PaymentActionFails
  <2>2. u.acted = Killed
    <3>1. y.response.outcome \in {"TAKEN", "DECLINED"} => StatusCode(y.response) = 200
      BY DEF StatusCode
    <3> QED BY <1>0, <2>1, <3>1, ResponseFields DEF PaymentHistory, MoneyHistory
  <2> QED BY <1>1, <2>1, <2>2, RefusalOutcomes DEF PurchaseMayEnd, Refusals, Ended
<1> QED BY <1>2, <1>3, <1>4, <1>5, <1>6, <1>7, <1>8, <1>9 DEF PurchaseStep

LEMMA HistoriesPaymentStep ==
    ASSUME TypeOK, KeyedByOwnOrder, Histories, NEW k \in OrderIds, PaymentStep(k)
    PROVE  Histories'
<1> DEFINE u == purchase[k]
           y == payment[k]
<1>0. /\ ChildHistory(k, order[k], u) /\ PaymentHistory(k, u, y)
      /\ MoneyHistory(k, y, receipts[k], charges[k]) /\ OrderHistory(k, order[k], pricing[k])
      /\ u \in Workflows(PurchaseStatuses) /\ y \in Actions
      /\ charges[k] \in Seq(Nat) /\ receipts[k] \in Nat \cup {NoReceipt}
  BY HistoriesHere
<1>1. CASE ChargePaymentMethod(k)
  <2>1. y.status = "called" /\ y.input.order_id = k
    BY <1>1 DEF ChargePaymentMethod, KeyedByOwnOrder
  <2>2. /\ UNCHANGED <<order, pricing, purchase>>
        /\ \A j \in OrderIds \ {k} : /\ payment'[j] = payment[j]
                                     /\ receipts'[j] = receipts[j] /\ charges'[j] = charges[j]
    BY <1>1, <2>1, Domains DEF ChargePaymentMethod, orderVars
  <2>3. \A response : PaymentHistory(k, u, Answered(y, response))
    BY <1>0, <2>1, PaymentHistoryActs
  <2>4. CASE receipts[k] # NoReceipt
    <3>1. /\ payment'[k] = Answered(y, Response("TAKEN", k, receipts[k]))
          /\ receipts'[k] = receipts[k] /\ charges'[k] = charges[k]
      BY <1>1, <2>1, <2>4, Domains
         DEF ChargePaymentMethod, Declines, Charges, ReceiptFor, Held
    <3>2. MoneyHistory(k, payment'[k], receipts'[k], charges'[k])
      BY <1>0, <2>1, <2>4, <3>1, MoneyHistoryCharged
    <3> QED BY <1>0, <2>2, <2>3, <3>1, <3>2, HistoriesAt
  <2>5. CASE receipts[k] = NoReceipt /\ y.input.method = DeclinedPaymentMethod
    <3>1. /\ payment'[k] = Answered(y, Response("DECLINED", k, 0))
          /\ receipts'[k] = receipts[k] /\ charges'[k] = charges[k]
      BY <1>1, <2>1, <2>5, Domains
         DEF ChargePaymentMethod, Declines, Charges, ReceiptFor, Held
    <3>2. MoneyHistory(k, payment'[k], receipts'[k], charges'[k])
      BY <1>0, <2>1, <2>5, <3>1, MoneyHistoryCharged
    <3> QED BY <1>0, <2>2, <2>3, <3>1, <3>2, HistoriesAt
  <2>6. CASE receipts[k] = NoReceipt /\ y.input.method # DeclinedPaymentMethod
    <3>1. /\ payment'[k] = Answered(y, Response("TAKEN", k, y.cents))
          /\ receipts'[k] = y.cents /\ charges'[k] = Append(charges[k], y.cents)
      BY <1>1, <2>1, <2>6, Domains
         DEF ChargePaymentMethod, Declines, Charges, ReceiptFor, Held
    <3>2. MoneyHistory(k, payment'[k], receipts'[k], charges'[k])
      BY <1>0, <2>1, <2>6, <3>1, MoneyHistoryCharged
    <3> QED BY <1>0, <2>2, <2>3, <3>1, <3>2, HistoriesAt, ZenonT(60)
  <2> QED BY <2>4, <2>5, <2>6
<1>2. CASE JournalPayment(k)
  <2>1. /\ y.status = "answered" /\ UNCHANGED <<order, pricing, receipts, charges>>
        /\ payment'[k] = At(y, "journaled")
        /\ purchase'[k] = IF u.status = "paying" THEN Acted(u, "paid", y.response) ELSE u
        /\ \A j \in OrderIds \ {k} : purchase'[j] = purchase[j] /\ payment'[j] = payment[j]
    BY <1>2, Domains DEF JournalPayment, orderVars, moneyVars
  <2>2. PaymentHistory(k, purchase'[k], At(y, "journaled"))
    BY <1>0, <2>1, PaymentHistoryActs
  <2>3. u.status = "paying" => ChildHistory(k, order[k], Acted(u, "paid", y.response))
    BY <1>0, ChildHistoryParentMoves
  <2>4. ChildHistory(k, order[k], purchase'[k])
    BY <1>0, <2>1, <2>3
  <2>5. MoneyHistory(k, At(y, "journaled"), receipts[k], charges[k])
    BY <1>0, <2>1, MoneyHistoryKept
  <2> QED BY <2>1, <2>2, <2>4, <2>5, HistoriesOfPurchase
<1> QED BY <1>1, <1>2 DEF PaymentStep

LEMMA HistoriesFailure ==
    ASSUME TypeOK, Histories, NEW k \in OrderIds, Failure(k)
    PROVE  Histories'
<1> DEFINE o == order[k]
           p == pricing[k]
           u == purchase[k]
           y == payment[k]
<1>0. /\ OrderHistory(k, o, p) /\ ChildHistory(k, o, u)
      /\ PaymentHistory(k, u, y) /\ MoneyHistory(k, y, receipts[k], charges[k])
      /\ o \in Workflows(OrderStatuses) /\ p \in Actions
      /\ u \in Workflows(PurchaseStatuses) /\ y \in Actions /\ charges[k] \in Seq(Nat)
  BY HistoriesHere
<1>1. CASE LoseWorkflowAttempt(k)
  <2>1. UNCHANGED <<pricing, payment, receipts, charges>>
    BY <1>1 DEF LoseWorkflowAttempt, moneyVars
  <2>2. CASE /\ o.status \in OrderWorking /\ purchase' = purchase
             /\ order' = [order EXCEPT ![k] = Retried(o, o.status)]
    <3>1. /\ OrderHistory(k, Retried(o, o.status), p)
          /\ ChildHistory(k, Retried(o, o.status), u)
      BY <1>0, <2>2, OrderHistoryKept, ChildHistoryMoves DEF OrderWorking
    <3>2. /\ order'[k] = Retried(o, o.status)
          /\ \A j \in OrderIds \ {k} : order'[j] = order[j]
      BY <2>2, Domains
    <3> QED BY <2>1, <2>2, <3>1, <3>2, HistoriesOfOrder
  <2>3. CASE /\ u.status \in PurchaseWorking /\ order' = order
             /\ purchase' = [purchase EXCEPT ![k] = Retried(u, u.status)]
    <3>1. /\ ChildHistory(k, o, Retried(u, u.status))
          /\ PaymentHistory(k, Retried(u, u.status), y)
      BY <1>0, <2>3, PaymentHistoryKept, ChildHistoryParentMoves DEF PurchaseWorking
    <3>2. /\ purchase'[k] = Retried(u, u.status)
          /\ \A j \in OrderIds \ {k} : purchase'[j] = purchase[j]
      BY <2>3, Domains
    <3> QED BY <1>0, <2>1, <2>3, <3>1, <3>2, HistoriesOfPurchase
  <2> QED BY <1>1, <2>2, <2>3 DEF LoseWorkflowAttempt
<1>2. CASE LosePriceAttempt(k)
  <2>1. /\ p.status \in {"called", "answered"} /\ pricing'[k] = Retried(p, "called")
        /\ \A j \in OrderIds \ {k} : pricing'[j] = pricing[j]
        /\ order' = order /\ UNCHANGED <<purchase, payment, receipts, charges>>
    BY <1>2, Domains DEF LosePriceAttempt, payVars, moneyVars
  <2>2. OrderHistory(k, o, Retried(p, "called"))
    BY <1>0, <2>1, PriceHistoryKept
  <2> QED BY <1>0, <2>1, <2>2, HistoriesOfOrder
<1>3. CASE LosePaymentAttempt(k)
  <2>1. /\ y.status \in {"called", "answered"} /\ payment'[k] = Retried(y, "called")
        /\ \A j \in OrderIds \ {k} : payment'[j] = payment[j]
        /\ purchase' = purchase /\ UNCHANGED <<order, pricing, receipts, charges>>
    BY <1>3, Domains DEF LosePaymentAttempt, orderVars, moneyVars
  <2>2. /\ PaymentHistory(k, u, Retried(y, "called"))
        /\ MoneyHistory(k, Retried(y, "called"), receipts[k], charges[k])
    BY <1>0, <2>1, PaymentHistoryActs, MoneyHistoryKept
  <2> QED BY <1>0, <2>1, <2>2, HistoriesOfPurchase
<1>4. CASE KillOrder(k)
  <2>1. o.status # "completed" /\ OrderMayEnd(k, o, "failed", Killed)
    BY <1>4, RefusalOutcomes DEF KillOrder, OrderMayEnd, Refusals, Ended
  <2> QED BY <1>4, <2>1, HistoriesOrderEnds DEF KillOrder
<1>5. CASE KillPurchase(k)
  <2>1. u.status # "absent" /\ PurchaseMayEnd(k, u, y, "failed", Killed)
    BY <1>5, RefusalOutcomes DEF KillPurchase, PurchaseMayEnd, Refusals
  <2> QED BY <1>5, <2>1, HistoriesPurchaseEnds DEF KillPurchase, Ended
<1>6. CASE KillAction(k)
  <2>1. UNCHANGED <<pricing, payment, receipts, charges>>
    BY <1>6 DEF KillAction, moneyVars
  <2>2. CASE /\ o.status = "pricing" /\ purchase' = purchase
             /\ order' = [order EXCEPT ![k] = Acted(o, "priced", Killed)]
    <3>1. /\ OrderHistory(k, Acted(o, "priced", Killed), p)
          /\ ChildHistory(k, Acted(o, "priced", Killed), u)
      BY <1>0, <2>2, OrderHistoryKept, ChildHistoryMoves
    <3>2. /\ order'[k] = Acted(o, "priced", Killed)
          /\ \A j \in OrderIds \ {k} : order'[j] = order[j]
      BY <2>2, Domains
    <3> QED BY <2>1, <2>2, <3>1, <3>2, HistoriesOfOrder
  <2>3. CASE /\ u.status = "paying" /\ order' = order
             /\ purchase' = [purchase EXCEPT ![k] = Acted(u, "paid", Killed)]
    <3>1. /\ ChildHistory(k, o, Acted(u, "paid", Killed))
          /\ PaymentHistory(k, Acted(u, "paid", Killed), y)
      BY <1>0, <2>3, PaymentHistoryKept, ChildHistoryParentMoves
    <3>2. /\ purchase'[k] = Acted(u, "paid", Killed)
          /\ \A j \in OrderIds \ {k} : purchase'[j] = purchase[j]
      BY <2>3, Domains
    <3> QED BY <1>0, <2>1, <2>3, <3>1, <3>2, HistoriesOfPurchase
  <2> QED BY <1>6, <2>2, <2>3 DEF KillAction
<1> QED BY <1>1, <1>2, <1>3, <1>4, <1>5, <1>6 DEF Failure

LEMMA HistoriesDoorStep ==
    ASSUME TypeOK, Histories, NEW r \in Requests, DoorStep(r)
    PROVE  Histories'
<1> DEFINE k == Key(r)
<1>0. /\ k \in OrderIds
      /\ OrderHistory(k, order[k], pricing[k]) /\ ChildHistory(k, order[k], purchase[k])
      /\ PaymentHistory(k, purchase[k], payment[k])
      /\ MoneyHistory(k, payment[k], receipts[k], charges[k])
      /\ order[k] \in Workflows(OrderStatuses) /\ pricing[k] \in Actions
      /\ purchase[k] \in Workflows(PurchaseStatuses) /\ payment[k] \in Actions
  BY HistoriesHere, BodyType
<1> HIDE DEF k
<1>1. CASE UNCHANGED <<orderVars, payVars, moneyVars>>
  BY <1>1 DEF Histories, orderVars, payVars, moneyVars
<1>2. ASSUME NEW caller, caller[1] # "purchase", order[k].status = "absent",
             order' = [order EXCEPT ![k] = Workflow("begin", caller, Sent(r))],
             UNCHANGED <<pricing, payVars, moneyVars>>
      PROVE  Histories'
  <2>1. /\ OrderHistory(k, Workflow("begin", caller, Sent(r)), pricing[k])
        /\ ChildHistory(k, Workflow("begin", caller, Sent(r)), purchase[k])
    BY <1>0, <1>2, OrderHistoryKept, ChildHistoryCreated
  <2>2. /\ order'[k] = Workflow("begin", caller, Sent(r))
        /\ \A j \in OrderIds \ {k} : order'[j] = order[j]
        /\ pricing' = pricing /\ UNCHANGED <<purchase, payment, receipts, charges>>
    BY <1>0, <1>2, Domains DEF payVars, moneyVars
  <2> QED BY <1>0, <2>1, <2>2, HistoriesOfOrder
<1>3. CASE StartConfirmOrder(r)
  BY <1>0, <1>1, <1>2, <1>3, CallerFields DEF StartConfirmOrder, k, orderVars
<1>4. CASE RunConfirmOrder(r)
  BY <1>0, <1>1, <1>2, <1>4, CallerFields DEF RunConfirmOrder, k, orderVars
<1>5. CASE RunPayForOrder(r)
  <2>1. CASE purchase[k].status = "absent"
    <3>1. /\ ChildHistory(k, order[k], Workflow("begin", Caller(r), Sent(r)))
          /\ PaymentHistory(k, Workflow("begin", Caller(r), Sent(r)), payment[k])
      BY <1>0, <2>1, CallerFields, ChildHistoryCreated, PaymentHistoryKept
    <3>2. /\ purchase'[k] = Workflow("begin", Caller(r), Sent(r))
          /\ \A j \in OrderIds \ {k} : purchase'[j] = purchase[j]
          /\ payment' = payment /\ UNCHANGED <<order, pricing, receipts, charges>>
      BY <1>0, <1>5, <2>1, Domains DEF RunPayForOrder, k, orderVars, moneyVars
    <3> QED BY <1>0, <3>1, <3>2, HistoriesOfPurchase
  <2>2. CASE purchase[k].status # "absent"
    BY <1>1, <1>5, <2>2 DEF RunPayForOrder, k, payVars
  <2> QED BY <2>1, <2>2
<1> QED BY <1>1, <1>3, <1>4, <1>5
        DEF DoorStep, RejectOrder, IngressUnreachable, CallerGivesUp, AnswerCaller

LEMMA HistoriesRestart ==
    ASSUME TypeOK, Histories, Restart
    PROVE  Histories'
<1> SUFFICES ASSUME NEW k \in OrderIds
             PROVE  /\ OrderHistory(k, order[k], pricing'[k])
                    /\ ChildHistory(k, order[k], purchase[k])
                    /\ PaymentHistory(k, purchase[k], payment'[k])
                    /\ MoneyHistory(k, payment'[k], NoReceipt, charges[k])
  BY DEF Histories, Restart
<1> DEFINE p == pricing[k]
           y == payment[k]
<1>0. /\ OrderHistory(k, order[k], p) /\ ChildHistory(k, order[k], purchase[k])
      /\ PaymentHistory(k, purchase[k], y) /\ MoneyHistory(k, y, receipts[k], charges[k])
      /\ order[k] \in Workflows(OrderStatuses) /\ p \in Actions
      /\ purchase[k] \in Workflows(PurchaseStatuses) /\ y \in Actions
      /\ charges[k] \in Seq(Nat)
  BY HistoriesHere
<1>1. /\ pricing'[k] = IF p.status = "answered" THEN Retried(p, "called") ELSE p
      /\ payment'[k] = IF y.status = "answered" THEN Retried(y, "called") ELSE y
  BY DEF Restart
<1>2. p.status = "answered" => OrderHistory(k, order[k], Retried(p, "called"))
  BY <1>0, PriceHistoryKept
<1>3. y.status = "answered" => PaymentHistory(k, purchase[k], Retried(y, "called"))
  BY <1>0, PaymentHistoryActs
<1>4. MoneyHistory(k, y, NoReceipt, charges[k])
  BY <1>0, MoneyHistoryKept
<1>5. y.status = "answered" => MoneyHistory(k, Retried(y, "called"), NoReceipt, charges[k])
  BY <1>0, <1>4, MoneyHistoryKept
<1> QED BY <1>0, <1>1, <1>2, <1>3, <1>4, <1>5

-------------------------------------------------------------------------------
(* A workflow keeps its caller and its input, and keeps its result once it *)
(* has ended; no step but a caller's starts one for a caller.              *)
Stands(w, v) ==
    /\ w.status # "absent" => v.status # "absent" /\ v.caller = w.caller /\ v.input = w.input
    /\ w.status \in Ended => v.status = w.status /\ v.result = w.result

StartedForNoCall(w, v) == w.status = "absent" => v.caller[1] # "request"

LEMMA StandsWhenMoved ==
    ASSUME NEW S, NEW w \in Workflows(S), NEW status, NEW response,
           w.status \notin Ended \cup {"absent"}, status # "absent"
    PROVE  \A v \in {At(w, status), Confirmed(w, response), Acted(w, status, response),
                     Finished(w, status, response), Retried(w, status)} :
               Stands(w, v) /\ StartedForNoCall(w, v)
<1>1. Stands(w, At(w, status)) /\ Stands(w, Confirmed(w, response))
  BY WorkflowFields DEF Stands
<1>2. Stands(w, Acted(w, status, response)) /\ Stands(w, Finished(w, status, response))
  BY WorkflowFields DEF Stands
<1>3. Stands(w, Retried(w, status))
  BY WorkflowFields DEF Stands
<1> QED BY <1>1, <1>2, <1>3 DEF StartedForNoCall

(* One order, or one purchase, moves and the others stand.                 *)
OrdersStand    == \A k \in OrderIds : /\ Stands(order[k], order'[k])
                                       /\ StartedForNoCall(order[k], order'[k])
PurchasesStand == \A k \in OrderIds : /\ Stands(purchase[k], purchase'[k])
                                       /\ StartedForNoCall(purchase[k], purchase'[k])

LEMMA UnmovedStands ==
    ASSUME TypeOK, Histories
    PROVE  /\ \A k \in OrderIds : /\ Stands(order[k], order[k])
                                  /\ StartedForNoCall(order[k], order[k])
           /\ \A k \in OrderIds : /\ Stands(purchase[k], purchase[k])
                                  /\ StartedForNoCall(purchase[k], purchase[k])
           /\ order' = order => OrdersStand
           /\ purchase' = purchase => PurchasesStand
<1>1. ASSUME NEW k \in OrderIds
      PROVE  /\ Stands(order[k], order[k]) /\ StartedForNoCall(order[k], order[k])
             /\ Stands(purchase[k], purchase[k]) /\ StartedForNoCall(purchase[k], purchase[k])
  BY HistoriesHere, AbsentFields, CallerFields
     DEF OrderHistory, ChildHistory, Stands, StartedForNoCall
<1> QED BY <1>1 DEF OrdersStand, PurchasesStand

LEMMA OneOrderMoves ==
    ASSUME TypeOK, Histories, NEW k \in OrderIds, NEW w,
           order' = [order EXCEPT ![k] = w],
           Stands(order[k], w), StartedForNoCall(order[k], w)
    PROVE  OrdersStand
<1>1. order'[k] = w /\ \A j \in OrderIds \ {k} : order'[j] = order[j]
  BY Domains
<1> QED BY <1>1, UnmovedStands DEF OrdersStand

LEMMA OnePurchaseMoves ==
    ASSUME TypeOK, Histories, NEW k \in OrderIds, NEW w,
           purchase' = [purchase EXCEPT ![k] = w],
           Stands(purchase[k], w), StartedForNoCall(purchase[k], w)
    PROVE  PurchasesStand
<1>1. purchase'[k] = w /\ \A j \in OrderIds \ {k} : purchase'[j] = purchase[j]
  BY Domains
<1> QED BY <1>1, UnmovedStands DEF PurchasesStand

LEMMA ParentsStand ==
    ASSUME TypeOK, Histories, NEW caller \in Callers, NEW response,
           purchase' = ParentAfter(caller, response)
    PROVE  PurchasesStand
<1>1. CASE caller[1] = "purchase" /\ purchase[caller[2]].status = "confirming"
  <2>1. caller[2] \in OrderIds
    BY <1>1, CallerFields DEF Callers
  <2>2. /\ Stands(purchase[caller[2]], Confirmed(purchase[caller[2]], response))
        /\ StartedForNoCall(purchase[caller[2]], Confirmed(purchase[caller[2]], response))
    BY <1>1, <2>1, PartTypes, StandsWhenMoved DEF Ended
  <2> QED BY <1>1, <2>1, <2>2, OnePurchaseMoves DEF ParentAfter
<1>2. CASE ~(caller[1] = "purchase" /\ purchase[caller[2]].status = "confirming")
  BY <1>2, UnmovedStands DEF ParentAfter
<1> QED BY <1>1, <1>2

(* What the steps other than a caller's or a door's do to the workflows.   *)
LEMMA OrderStepStands ==
    ASSUME TypeOK, Histories, NEW k \in OrderIds, OrderStep(k) \/ PricingStep(k)
    PROVE  OrdersStand /\ PurchasesStand
<1> DEFINE o == order[k]
<1>0. o \in Workflows(OrderStatuses) /\ o.caller \in Callers
  BY PartTypes
<1>1. ASSUME o.status \in {"begin", "priced"}, NEW status \in Ended, NEW response,
             EndOrder(k, status, response)
      PROVE  OrdersStand /\ PurchasesStand
  <2>1. Stands(o, Finished(o, status, response)) /\ StartedForNoCall(o, Finished(o, status, response))
    BY <1>0, <1>1, StandsWhenMoved DEF Ended
  <2>2. OrdersStand
    BY <1>1, <2>1, OneOrderMoves DEF EndOrder
  <2> QED BY <1>0, <1>1, <2>2, ParentsStand DEF EndOrder
<1>2. CASE UnreadableOrder(k) \/ RefuseForeignOrder(k)
  BY <1>1, <1>2 DEF UnreadableOrder, RefuseForeignOrder, Ended
<1>3. CASE ConfirmOrder(k) \/ PriceNotFound(k) \/ OrderActionFails(k)
  BY <1>1, <1>3 DEF ConfirmOrder, PriceNotFound, OrderActionFails, Ended
<1>4. CASE RunPriceProduct(k)
  <2>1. Stands(o, At(o, "pricing")) /\ StartedForNoCall(o, At(o, "pricing"))
    BY <1>0, <1>4, StandsWhenMoved DEF RunPriceProduct, Ended
  <2> QED BY <1>4, <2>1, OneOrderMoves, UnmovedStands DEF RunPriceProduct, payVars
<1>5. CASE PriceProduct(k)
  BY <1>5, UnmovedStands DEF PriceProduct, payVars
<1>6. CASE JournalPrice(k)
  <2>1. CASE o.status = "pricing"
    <3>1. /\ Stands(o, Acted(o, "priced", pricing[k].response))
          /\ StartedForNoCall(o, Acted(o, "priced", pricing[k].response))
      BY <1>0, <2>1, StandsWhenMoved DEF Ended
    <3> QED BY <1>6, <2>1, <3>1, OneOrderMoves, UnmovedStands DEF JournalPrice, payVars
  <2>2. CASE o.status # "pricing"
    BY <1>6, <2>2, UnmovedStands DEF JournalPrice, payVars
  <2> QED BY <2>1, <2>2
<1>7. CASE TotalRaises(k)
  <2>1. Stands(o, Retried(o, "priced")) /\ StartedForNoCall(o, Retried(o, "priced"))
    BY <1>0, <1>7, StandsWhenMoved DEF TotalRaises, Ended
  <2> QED BY <1>7, <2>1, OneOrderMoves, UnmovedStands DEF TotalRaises, payVars
<1> QED BY <1>2, <1>3, <1>4, <1>5, <1>6, <1>7 DEF OrderStep, PricingStep

LEMMA PurchaseStepStands ==
    ASSUME TypeOK, Histories, NEW k \in OrderIds, PurchaseStep(k) \/ PaymentStep(k)
    PROVE  OrdersStand /\ PurchasesStand
<1> DEFINE u == purchase[k]
<1>0. u \in Workflows(PurchaseStatuses)
  BY PartTypes
<1>1. ASSUME u.status \in {"begin", "confirmed", "paid"}, NEW status \in Ended, NEW response,
             EndPurchase(k, status, response)
      PROVE  OrdersStand /\ PurchasesStand
  <2>1. Stands(u, Finished(u, status, response)) /\ StartedForNoCall(u, Finished(u, status, response))
    BY <1>0, <1>1, StandsWhenMoved DEF Ended
  <2> QED BY <1>1, <2>1, OnePurchaseMoves, UnmovedStands DEF EndPurchase, orderVars
<1>2. CASE UnreadablePurchase(k) \/ RefuseForeignPurchase(k)
  BY <1>1, <1>2 DEF UnreadablePurchase, RefuseForeignPurchase, Ended
<1>3. CASE OrderNotConfirmed(k) \/ ChildOrderFails(k)
  BY <1>1, <1>3 DEF OrderNotConfirmed, ChildOrderFails, Ended
<1>4. CASE PaymentDeclined(k) \/ PaymentActionFails(k)
  BY <1>1, <1>4 DEF PaymentDeclined, PaymentActionFails, Ended
<1>5. CASE RunChildOrder(k)
  <2>1. u.status = "begin" /\ u.input.order_id = k
    BY <1>5 DEF RunChildOrder, OwnOrder
  <2>2. /\ Stands(u, At(u, "confirming")) /\ StartedForNoCall(u, At(u, "confirming"))
        /\ Stands(u, Confirmed(u, AlreadyInvoked))
        /\ StartedForNoCall(u, Confirmed(u, AlreadyInvoked))
    BY <1>0, <2>1, StandsWhenMoved DEF Ended
  <2>3. CASE order[k].status = "absent"
    <3>1. /\ Stands(order[k], Workflow("begin", ParentWorkflow(k), u.input))
          /\ StartedForNoCall(order[k], Workflow("begin", ParentWorkflow(k), u.input))
      BY <2>3, NewFields, CallerFields DEF Stands, StartedForNoCall, Ended
    <3>2. /\ order' = [order EXCEPT ![k] = Workflow("begin", ParentWorkflow(k), u.input)]
          /\ purchase' = [purchase EXCEPT ![k] = At(u, "confirming")]
      BY <1>5, <2>1, <2>3 DEF RunChildOrder
    <3>3. OrdersStand
      BY <3>1, <3>2, OneOrderMoves
    <3> QED BY <2>2, <3>2, <3>3, OnePurchaseMoves
  <2>4. CASE order[k].status # "absent"
    <3>1. order' = order /\ purchase' = [purchase EXCEPT ![k] = Confirmed(u, AlreadyInvoked)]
      BY <1>5, <2>1, <2>4 DEF RunChildOrder, Repeat
    <3> QED BY <2>2, <3>1, OnePurchaseMoves, UnmovedStands
  <2> QED BY <2>3, <2>4
<1>6. CASE RunTakePayment(k)
  <2>1. /\ Stands(u, At(u, "paying")) /\ StartedForNoCall(u, At(u, "paying"))
        /\ Stands(u, Retried(u, "confirmed")) /\ StartedForNoCall(u, Retried(u, "confirmed"))
    BY <1>0, <1>6, StandsWhenMoved DEF RunTakePayment, Ended
  <2>2. /\ order' = order
        /\ \/ purchase' = [purchase EXCEPT ![k] = At(u, "paying")]
           \/ purchase' = [purchase EXCEPT ![k] = Retried(u, "confirmed")]
    BY <1>6 DEF RunTakePayment, orderVars
  <2> QED BY <2>1, <2>2, OnePurchaseMoves, UnmovedStands
<1>7. CASE SettlePurchase(k)
  <2>1. /\ Stands(u, Retried(u, "paid")) /\ StartedForNoCall(u, Retried(u, "paid"))
    BY <1>0, <1>7, StandsWhenMoved DEF SettlePurchase, Ended
  <2>2. \/ order' = order /\ purchase' = [purchase EXCEPT ![k] = Retried(u, "paid")]
        \/ \E response : u.status = "paid" /\ EndPurchase(k, "completed", response)
    BY <1>7 DEF SettlePurchase, orderVars
  <2> QED BY <1>1, <2>1, <2>2, OnePurchaseMoves, UnmovedStands DEF Ended
<1>8. CASE ChargePaymentMethod(k)
  BY <1>8, UnmovedStands DEF ChargePaymentMethod, orderVars
<1>9. CASE JournalPayment(k)
  <2>1. CASE u.status = "paying"
    <3>1. /\ Stands(u, Acted(u, "paid", payment[k].response))
          /\ StartedForNoCall(u, Acted(u, "paid", payment[k].response))
      BY <1>0, <2>1, StandsWhenMoved DEF Ended
    <3> QED BY <1>9, <2>1, <3>1, OnePurchaseMoves, UnmovedStands DEF JournalPayment, orderVars
  <2>2. CASE u.status # "paying"
    BY <1>9, <2>2, UnmovedStands DEF JournalPayment, orderVars
  <2> QED BY <2>1, <2>2
<1> QED BY <1>2, <1>3, <1>4, <1>5, <1>6, <1>7, <1>8, <1>9 DEF PurchaseStep, PaymentStep

LEMMA FailureStands ==
    ASSUME TypeOK, Histories, NEW k \in OrderIds, Failure(k)
    PROVE  OrdersStand /\ PurchasesStand
<1> DEFINE o == order[k]
           u == purchase[k]
<1>0. o \in Workflows(OrderStatuses) /\ u \in Workflows(PurchaseStatuses) /\ o.caller \in Callers
  BY PartTypes
<1>1. CASE LoseWorkflowAttempt(k)
  <2>1. CASE o.status \in OrderWorking /\ purchase' = purchase
             /\ order' = [order EXCEPT ![k] = Retried(o, o.status)]
    <3>1. Stands(o, Retried(o, o.status)) /\ StartedForNoCall(o, Retried(o, o.status))
      BY <1>0, <2>1, StandsWhenMoved DEF OrderWorking, Ended
    <3> QED BY <2>1, <3>1, OneOrderMoves, UnmovedStands
  <2>2. CASE u.status \in PurchaseWorking /\ order' = order
             /\ purchase' = [purchase EXCEPT ![k] = Retried(u, u.status)]
    <3>1. Stands(u, Retried(u, u.status)) /\ StartedForNoCall(u, Retried(u, u.status))
      BY <1>0, <2>2, StandsWhenMoved DEF PurchaseWorking, Ended
    <3> QED BY <2>2, <3>1, OnePurchaseMoves, UnmovedStands
  <2> QED BY <1>1, <2>1, <2>2 DEF LoseWorkflowAttempt
<1>2. CASE LosePriceAttempt(k) \/ LosePaymentAttempt(k)
  BY <1>2, UnmovedStands DEF LosePriceAttempt, LosePaymentAttempt, payVars, orderVars
<1>3. CASE KillOrder(k)
  <2>1. Stands(o, Finished(o, "failed", Killed)) /\ StartedForNoCall(o, Finished(o, "failed", Killed))
    BY <1>0, <1>3, StandsWhenMoved DEF KillOrder, Ended
  <2>2. OrdersStand
    BY <1>3, <2>1, OneOrderMoves DEF KillOrder
  <2> QED BY <1>0, <1>3, <2>2, ParentsStand DEF KillOrder
<1>4. CASE KillPurchase(k)
  <2>1. Stands(u, Finished(u, "failed", Killed)) /\ StartedForNoCall(u, Finished(u, "failed", Killed))
    BY <1>0, <1>4, StandsWhenMoved DEF KillPurchase, Ended
  <2> QED BY <1>4, <2>1, OnePurchaseMoves, UnmovedStands DEF KillPurchase, orderVars
<1>5. CASE KillAction(k)
  <2>1. CASE o.status = "pricing" /\ purchase' = purchase
             /\ order' = [order EXCEPT ![k] = Acted(o, "priced", Killed)]
    <3>1. /\ Stands(o, Acted(o, "priced", Killed))
          /\ StartedForNoCall(o, Acted(o, "priced", Killed))
      BY <1>0, <2>1, StandsWhenMoved DEF Ended
    <3> QED BY <2>1, <3>1, OneOrderMoves, UnmovedStands
  <2>2. CASE u.status = "paying" /\ order' = order
             /\ purchase' = [purchase EXCEPT ![k] = Acted(u, "paid", Killed)]
    <3>1. /\ Stands(u, Acted(u, "paid", Killed))
          /\ StartedForNoCall(u, Acted(u, "paid", Killed))
      BY <1>0, <2>2, StandsWhenMoved DEF Ended
    <3> QED BY <2>2, <3>1, OnePurchaseMoves, UnmovedStands
  <2> QED BY <1>5, <2>1, <2>2 DEF KillAction
<1> QED BY <1>1, <1>2, <1>3, <1>4, <1>5 DEF Failure

-------------------------------------------------------------------------------
(* The workflow a call runs, and what its reply and its answer owe to it.  *)

Purchases == {"make_order_payment", "pay_for_order"}
Run(r) == IF Op(r) \in Purchases THEN purchase[Key(r)] ELSE order[Key(r)]

EndedFor(r, response) ==
    Run(r).caller = Caller(r) /\ Run(r).status \in Ended /\ response = Run(r).result
TakenByAnother(r) == Run(r).status # "absent" /\ Run(r).caller # Caller(r)

(* A workflow that waits for a caller runs under the key the caller called *)
(* with the order it sent.                                                 *)
CallersAreKnown ==
    \A r \in Requests, k \in OrderIds :
        /\ order[k].caller = Caller(r) =>
               /\ call[r] # "new" /\ Key(r) = k /\ Op(r) \notin Purchases
               /\ order[k].input = Sent(r)
        /\ purchase[k].caller = Caller(r) =>
               /\ call[r] # "new" /\ Key(r) = k /\ Op(r) \in Purchases
               /\ purchase[k].input = Sent(r)

ReplyIsEarned(r, response) ==
    \/ response = None
    \/ response.outcome = "STARTED"
    \/ response = AlreadyInvoked /\ TakenByAnother(r)
    \/ EndedFor(r, response)

(* A call is replied to by the workflow it started, when that ended, by    *)
(* the send it made, or by a refusal because another took its key.         *)
RepliesAreEarned ==
    \A r \in Requests : /\ ReplyIsEarned(r, reply[r])
                        /\ call[r] = "new" => reply[r] = None

AnswerIsEarned(r, response) ==
    /\ response.outcome \in {"CONFIRMED", "PAID"} => EndedFor(r, response)
    /\ response.outcome = "OrderAlreadyStarted" => TakenByAnother(r) /\ Op(r) \in Doors

AnswersAreEarned == \A r \in Requests : AnswerIsEarned(r, answer[r])

(* The workflow a call runs stands, in any step.                           *)
CallsStand ==
    /\ \A k \in OrderIds : Stands(order[k], order'[k]) /\ Stands(purchase[k], purchase'[k])
    /\ \A r \in Requests : call[r] # "new" => call'[r] # "new"

LEMMA EarnedStands ==
    ASSUME CallsStand, NEW r \in Requests, NEW response
    PROVE  /\ ReplyIsEarned(r, response) => ReplyIsEarned(r, response)'
           /\ AnswerIsEarned(r, response) => AnswerIsEarned(r, response)'
<1>1. Stands(Run(r), Run(r)')
  BY BodyType DEF CallsStand, Run
<1>2. EndedFor(r, response) => EndedFor(r, response)'
  BY <1>1 DEF EndedFor, Stands, Ended
<1>3. TakenByAnother(r) => TakenByAnother(r)'
  BY <1>1 DEF TakenByAnother, Stands
<1> QED BY <1>2, <1>3 DEF ReplyIsEarned, AnswerIsEarned

(* A reply changes only to the result of the workflow the call started.    *)
RepliesFollow == \A r \in Requests : reply'[r] = reply[r] \/ EndedFor(r, reply[r])'

LEMMA OrderReplies ==
    ASSUME TypeOK, CallersAreKnown, NEW k \in OrderIds, NEW status \in Ended, NEW response,
           order' = [order EXCEPT ![k] = Finished(order[k], status, response)],
           reply' = ReplyAfter(order[k].caller, response)
    PROVE  RepliesFollow
<1>0. order[k].caller \in Callers /\ order[k] \in Workflows(OrderStatuses)
  BY PartTypes
<1>1. CASE order[k].caller[1] = "request"
  <2>1. PICK r \in Requests : order[k].caller = Caller(r)
    BY <1>0, <1>1, CallerFields DEF Callers
  <2>2. /\ reply'[r] = response
        /\ \A s \in Requests \ {r} : reply'[s] = reply[s]
    BY <1>1, <2>1, CallerFields, Domains DEF ReplyAfter
  <2>3. Op(r) \notin Purchases /\ Key(r) = k
    BY <2>1 DEF CallersAreKnown
  <2>4. order'[k] = Finished(order[k], status, response)
    BY Domains
  <2>5. EndedFor(r, response)'
    BY <1>0, <2>1, <2>3, <2>4, WorkflowFields DEF EndedFor, Run
  <2> QED BY <2>2, <2>5 DEF RepliesFollow
<1>2. CASE order[k].caller[1] # "request"
  BY <1>2 DEF ReplyAfter, RepliesFollow
<1> QED BY <1>1, <1>2

LEMMA PurchaseReplies ==
    ASSUME TypeOK, CallersAreKnown, NEW k \in OrderIds, NEW status \in Ended, NEW response,
           purchase' = [purchase EXCEPT ![k] = Finished(purchase[k], status, response)],
           reply' = ReplyAfter(purchase[k].caller, response)
    PROVE  RepliesFollow
<1>0. purchase[k].caller \in Callers /\ purchase[k] \in Workflows(PurchaseStatuses)
  BY PartTypes
<1>1. CASE purchase[k].caller[1] = "request"
  <2>1. PICK r \in Requests : purchase[k].caller = Caller(r)
    BY <1>0, <1>1, CallerFields DEF Callers
  <2>2. /\ reply'[r] = response
        /\ \A s \in Requests \ {r} : reply'[s] = reply[s]
    BY <1>1, <2>1, CallerFields, Domains DEF ReplyAfter
  <2>3. Op(r) \in Purchases /\ Key(r) = k
    BY <2>1 DEF CallersAreKnown
  <2>4. purchase'[k] = Finished(purchase[k], status, response)
    BY Domains
  <2>5. EndedFor(r, response)'
    BY <1>0, <2>1, <2>3, <2>4, WorkflowFields DEF EndedFor, Run
  <2> QED BY <2>2, <2>5 DEF RepliesFollow
<1>2. CASE purchase[k].caller[1] # "request"
  BY <1>2 DEF ReplyAfter, RepliesFollow
<1> QED BY <1>1, <1>2

LEMMA StepReplies ==
    ASSUME TypeOK, CallersAreKnown, NEW k \in OrderIds,
           \/ OrderStep(k) \/ PricingStep(k) \/ PurchaseStep(k) \/ PaymentStep(k) \/ Failure(k)
    PROVE  RepliesFollow /\ call' = call /\ answer' = answer
<1>1. ASSUME NEW status \in Ended, NEW response, EndOrder(k, status, response)
      PROVE  RepliesFollow /\ call' = call /\ answer' = answer
  BY <1>1, OrderReplies DEF EndOrder
<1>2. ASSUME NEW status \in Ended, NEW response, EndPurchase(k, status, response)
      PROVE  RepliesFollow /\ call' = call /\ answer' = answer
  BY <1>2, PurchaseReplies DEF EndPurchase
<1>3. CASE UNCHANGED doorVars
  BY <1>3 DEF doorVars, RepliesFollow
<1>4. CASE KillOrder(k)
  BY <1>4, OrderReplies DEF KillOrder, Ended
<1>5. CASE KillPurchase(k)
  BY <1>5, PurchaseReplies DEF KillPurchase, Ended
<1>6. CASE OrderStep(k) \/ PricingStep(k)
  BY <1>1, <1>3, <1>6
     DEF OrderStep, PricingStep, UnreadableOrder, RefuseForeignOrder, RunPriceProduct,
         PriceProduct, JournalPrice, ConfirmOrder, PriceNotFound, TotalRaises,
         OrderActionFails, Ended
<1>7. CASE PurchaseStep(k) \/ PaymentStep(k)
  BY <1>2, <1>3, <1>7
     DEF PurchaseStep, PaymentStep, UnreadablePurchase, RefuseForeignPurchase,
         RunChildOrder, OrderNotConfirmed, ChildOrderFails, RunTakePayment, SettlePurchase,
         PaymentDeclined, PaymentActionFails, ChargePaymentMethod, JournalPayment, Ended
<1>8. CASE Failure(k)
  BY <1>3, <1>4, <1>5, <1>8
     DEF Failure, LoseWorkflowAttempt, LosePriceAttempt, LosePaymentAttempt, KillAction
<1> QED BY <1>6, <1>7, <1>8

(* The three facts about the callers, together.                            *)
DoorsAreHonest == CallersAreKnown /\ RepliesAreEarned /\ AnswersAreEarned

LEMMA CallersStayKnown ==
    ASSUME CallersAreKnown, OrdersStand, PurchasesStand,
           \A r \in Requests : call[r] # "new" => call'[r] # "new"
    PROVE  CallersAreKnown' /\ CallsStand
<1>1. ASSUME NEW r \in Requests, NEW k \in OrderIds, order'[k].caller = Caller(r)
      PROVE  /\ call'[r] # "new" /\ Key(r) = k /\ Op(r) \notin Purchases
             /\ order'[k].input = Sent(r)
  <2>1. order[k].status # "absent"
    BY <1>1, CallerFields DEF OrdersStand, StartedForNoCall
  <2> QED BY <1>1, <2>1 DEF OrdersStand, Stands, CallersAreKnown
<1>2. ASSUME NEW r \in Requests, NEW k \in OrderIds, purchase'[k].caller = Caller(r)
      PROVE  /\ call'[r] # "new" /\ Key(r) = k /\ Op(r) \in Purchases
             /\ purchase'[k].input = Sent(r)
  <2>1. purchase[k].status # "absent"
    BY <1>2, CallerFields DEF PurchasesStand, StartedForNoCall
  <2> QED BY <1>2, <2>1 DEF PurchasesStand, Stands, CallersAreKnown
<1>3. CallersAreKnown'
  BY <1>1, <1>2 DEF CallersAreKnown
<1> QED BY <1>3 DEF CallsStand, OrdersStand, PurchasesStand

LEMMA HonestStep ==
    ASSUME TypeOK, Histories, DoorsAreHonest, NEW k \in OrderIds,
           \/ OrderStep(k) \/ PricingStep(k) \/ PurchaseStep(k) \/ PaymentStep(k) \/ Failure(k)
    PROVE  DoorsAreHonest'
<1>1. CallersAreKnown /\ RepliesAreEarned /\ AnswersAreEarned
  BY DEF DoorsAreHonest
<1>2. OrdersStand /\ PurchasesStand
  BY OrderStepStands, PurchaseStepStands, FailureStands
<1>3. RepliesFollow /\ call' = call /\ answer' = answer
  BY <1>1, StepReplies
<1>4. CallersAreKnown' /\ CallsStand
  BY <1>1, <1>2, <1>3, CallersStayKnown
<1>5. RepliesAreEarned'
  <2> SUFFICES ASSUME NEW r \in Requests
               PROVE  /\ ReplyIsEarned(r, reply[r])'
                      /\ call'[r] = "new" => reply'[r] = None
    BY DEF RepliesAreEarned
  <2>1. CASE reply'[r] = reply[r]
    BY <1>1, <1>3, <1>4, <2>1, EarnedStands DEF RepliesAreEarned
  <2>2. CASE EndedFor(r, reply[r])'
    <3>1. call'[r] # "new"
      BY <1>4, <2>2, BodyType DEF EndedFor, Run, CallersAreKnown
    <3> QED BY <2>2, <3>1 DEF ReplyIsEarned
  <2> QED BY <1>3, <2>1, <2>2 DEF RepliesFollow
<1>6. AnswersAreEarned'
  BY <1>1, <1>3, <1>4, EarnedStands DEF AnswersAreEarned
<1> QED BY <1>4, <1>5, <1>6 DEF DoorsAreHonest

(* What a door makes of a reply. *)
LEMMA SituationKeeps ==
    ASSUME NEW response, response.outcome # "OrderAlreadyStarted"
    PROVE  /\ Situation(response).outcome \in {"CONFIRMED", "PAID"} =>
                  Situation(response) = response
           /\ Situation(response).outcome = "OrderAlreadyStarted" =>
                  response.outcome = "already_invoked"
<1>1. CASE RecognisedRefusal(response)
  BY <1>1, ResponseFields DEF Situation, RecognisedRefusal
<1>2. CASE ~RecognisedRefusal(response) /\ StatusCode(response) # 200
  BY <1>2, ResponseFields DEF Situation
<1>3. CASE ~RecognisedRefusal(response) /\ StatusCode(response) = 200
  BY <1>3, ResponseFields DEF Situation
<1> QED BY <1>1, <1>2, <1>3

(* The results of workflows are no situations and no refusals of a repeat. *)
LEMMA EndedOutcomes ==
    ASSUME TypeOK, Histories, NEW r \in Requests, Run(r).status \in Ended
    PROVE  Run(r).result.outcome \notin {"OrderAlreadyStarted", "already_invoked"}
<1>1. ASSUME NEW k \in OrderIds, order[k].status \in Ended
      PROVE  order[k].result.outcome \notin {"OrderAlreadyStarted", "already_invoked"}
  BY <1>1, HistoriesHere, ResponseFields
     DEF OrderHistory, CompletedOrder, FailedWorkflow, Refusals, Ended
<1>2. ASSUME NEW k \in OrderIds, purchase[k].status \in Ended
      PROVE  purchase[k].result.outcome \notin {"OrderAlreadyStarted", "already_invoked"}
  BY <1>2, HistoriesHere, ResponseFields
     DEF PaymentHistory, CompletedPurchase, FailedWorkflow, Refusals, Ended
<1> QED BY <1>1, <1>2, BodyType DEF Run

LEMMA EarnedAnswer ==
    ASSUME TypeOK, Histories, NEW r \in Requests, NEW response, ReplyIsEarned(r, response)
    PROVE  /\ AnswerIsEarned(r, response)
           /\ Op(r) \in Doors => AnswerIsEarned(r, Situation(response))
<1>1. CASE response = None \/ response.outcome = "STARTED"
  BY <1>1, SituationKeeps, RefusalOutcomes DEF AnswerIsEarned
<1>2. CASE response = AlreadyInvoked /\ TakenByAnother(r)
  BY <1>2, SituationKeeps, RefusalOutcomes DEF AnswerIsEarned
<1>3. CASE EndedFor(r, response)
  BY <1>3, SituationKeeps, EndedOutcomes DEF AnswerIsEarned, EndedFor
<1> QED BY <1>1, <1>2, <1>3 DEF ReplyIsEarned

(* A step of one caller or its door. *)
LEMMA HonestAt ==
    ASSUME DoorsAreHonest, CallsStand, CallersAreKnown', NEW r \in Requests,
           \A s \in Requests \ {r} :
               call'[s] = call[s] /\ reply'[s] = reply[s] /\ answer'[s] = answer[s],
           ReplyIsEarned(r, reply[r])', call'[r] = "new" => reply'[r] = None,
           AnswerIsEarned(r, answer[r])'
    PROVE  DoorsAreHonest'
<1>1. RepliesAreEarned'
  BY EarnedStands DEF RepliesAreEarned, DoorsAreHonest
<1>2. AnswersAreEarned'
  BY EarnedStands DEF AnswersAreEarned, DoorsAreHonest
<1> QED BY <1>1, <1>2 DEF DoorsAreHonest

LEMMA HonestDoorStep ==
    ASSUME TypeOK, Histories, DoorsAreHonest, NEW r \in Requests, DoorStep(r)
    PROVE  DoorsAreHonest'
<1> DEFINE k == Key(r)
<1>0. /\ CallersAreKnown /\ k \in OrderIds
      /\ ReplyIsEarned(r, reply[r]) /\ AnswerIsEarned(r, answer[r])
      /\ call[r] = "new" => reply[r] = None
  BY BodyType DEF DoorsAreHonest, RepliesAreEarned, AnswersAreEarned
<1> HIDE DEF k
<1>1. /\ \A s \in Requests \ {r} :
            call'[s] = call[s] /\ reply'[s] = reply[s] /\ answer'[s] = answer[s]
      /\ call'[r] # "new"
  BY Domains
     DEF DoorStep, RejectOrder, IngressUnreachable, StartConfirmOrder, RunConfirmOrder,
         RunPayForOrder, CallerGivesUp, AnswerCaller
<1>2. CASE UNCHANGED <<order, purchase, reply>> /\ AnswerIsEarned(r, answer'[r])
  <2>1. OrdersStand /\ PurchasesStand
    BY <1>2, UnmovedStands
  <2>2. CallersAreKnown' /\ CallsStand
    BY <1>0, <1>1, <2>1, CallersStayKnown
  <2>3. ReplyIsEarned(r, reply[r])' /\ AnswerIsEarned(r, answer[r])'
    BY <1>0, <1>2, <2>2, EarnedStands
  <2> QED BY <1>1, <2>2, <2>3, HonestAt
<1>3. CASE RejectOrder(r) \/ IngressUnreachable(r) \/ CallerGivesUp(r)
  <2>1. UNCHANGED <<order, purchase, reply>> /\ answer'[r].outcome \in {"OrderRejected", "fault"}
    BY <1>3, Domains, ResponseFields
       DEF RejectOrder, IngressUnreachable, CallerGivesUp, orderVars, payVars
  <2> QED BY <1>2, <2>1 DEF AnswerIsEarned
<1>4. CASE AnswerCaller(r)
  <2>1. /\ UNCHANGED <<order, purchase, reply>>
        /\ answer'[r] = IF Op(r) \in Doors THEN Situation(reply[r]) ELSE reply[r]
    BY <1>4, Domains DEF AnswerCaller, orderVars, payVars
  <2>2. /\ AnswerIsEarned(r, reply[r])
        /\ Op(r) \in Doors => AnswerIsEarned(r, Situation(reply[r]))
    BY <1>0, EarnedAnswer
  <2>3. AnswerIsEarned(r, answer'[r])
    BY <2>1, <2>2
  <2> QED BY <1>2, <2>1, <2>3
<1>5. CASE StartConfirmOrder(r)
  <2>1. OrdersStand
    <3>1. CASE order[k].status = "absent"
      <4>1. /\ Stands(order[k], Workflow("begin", Nobody, Sent(r)))
            /\ StartedForNoCall(order[k], Workflow("begin", Nobody, Sent(r)))
        BY <3>1, NewFields, CallerFields DEF Stands, StartedForNoCall, Ended
      <4>2. order' = [order EXCEPT ![k] = Workflow("begin", Nobody, Sent(r))]
        BY <1>5, <3>1 DEF StartConfirmOrder, k
      <4> QED BY <1>0, <4>1, <4>2, OneOrderMoves
    <3>2. CASE order[k].status # "absent"
      BY <1>5, <3>2, UnmovedStands DEF StartConfirmOrder, k
    <3> QED BY <3>1, <3>2
  <2>2. /\ purchase' = purchase /\ answer' = answer
        /\ reply'[r] = Response("STARTED", Key(r), 0)
    BY <1>5, Domains DEF StartConfirmOrder, payVars
  <2>3. CallersAreKnown' /\ CallsStand
    BY <1>0, <1>1, <2>1, <2>2, UnmovedStands, CallersStayKnown
  <2>4. ReplyIsEarned(r, reply[r])'
    BY <2>2, ResponseFields DEF ReplyIsEarned
  <2>5. AnswerIsEarned(r, answer[r])'
    BY <1>0, <2>2, <2>3, EarnedStands
  <2> QED BY <1>1, <2>3, <2>4, <2>5, HonestAt
<1>6. CASE RunConfirmOrder(r)
  <2>1. /\ call[r] = "new" /\ Op(r) \notin Purchases
        /\ purchase' = purchase /\ answer' = answer
    BY <1>6 DEF RunConfirmOrder, Sendable, Purchases, payVars
  <2>2. PurchasesStand
    BY <2>1, UnmovedStands
  <2>3. CASE order[k].status = "absent"
    <3> DEFINE w == Workflow("begin", Caller(r), Sent(r))
    <3>1. order' = [order EXCEPT ![k] = w] /\ reply' = reply
      BY <1>6, <2>3 DEF RunConfirmOrder, k
    <3>2. Stands(order[k], w) /\ w.caller = Caller(r) /\ w.input = Sent(r)
      BY <2>3, NewFields DEF Stands, Ended
    <3> HIDE DEF w
    <3>3. order'[k] = w /\ \A j \in OrderIds \ {k} : order'[j] = order[j]
      BY <1>0, <3>1, Domains
    <3>4. CallsStand
      BY <1>1, <2>2, <3>2, <3>3, UnmovedStands DEF CallsStand, PurchasesStand
    <3>5. CallersAreKnown'
      <4>1. \A s \in Requests : Caller(r) = Caller(s) => r = s
        BY CallerFields
      <4>2. \A s \in Requests : call[s] # "new" => call'[s] # "new"
        BY <1>1
      <4> QED BY <1>0, <1>1, <2>1, <3>2, <3>3, <4>1, <4>2 DEF CallersAreKnown, k
    <3>6. ReplyIsEarned(r, reply[r])' /\ AnswerIsEarned(r, answer[r])'
      BY <1>0, <2>1, <3>1, <3>4, EarnedStands
    <3> QED BY <1>1, <3>4, <3>5, <3>6, HonestAt
  <2>4. CASE order[k].status # "absent"
    <3>1. order' = order /\ reply'[r] = AlreadyInvoked
      BY <1>6, <2>4, Domains DEF RunConfirmOrder, Repeat, k
    <3>2. CallersAreKnown' /\ CallsStand
      BY <1>0, <1>1, <2>2, <3>1, UnmovedStands, CallersStayKnown
    <3>3. TakenByAnother(r)
      BY <1>0, <2>1, <2>4 DEF TakenByAnother, Run, CallersAreKnown, k
    <3>4. ReplyIsEarned(r, AlreadyInvoked)
      BY <3>3 DEF ReplyIsEarned
    <3>5. ReplyIsEarned(r, reply[r])' /\ AnswerIsEarned(r, answer[r])'
      BY <1>0, <2>1, <3>1, <3>2, <3>4, EarnedStands
    <3> QED BY <1>1, <3>2, <3>5, HonestAt
  <2> QED BY <2>3, <2>4
<1>7. CASE RunPayForOrder(r)
  <2>1. /\ call[r] = "new" /\ Op(r) \in Purchases
        /\ order' = order /\ answer' = answer
    BY <1>7 DEF RunPayForOrder, Sendable, Purchases, orderVars
  <2>2. OrdersStand
    BY <2>1, UnmovedStands
  <2>3. CASE purchase[k].status = "absent"
    <3> DEFINE w == Workflow("begin", Caller(r), Sent(r))
    <3>1. purchase' = [purchase EXCEPT ![k] = w] /\ reply' = reply
      BY <1>7, <2>3 DEF RunPayForOrder, k
    <3>2. Stands(purchase[k], w) /\ w.caller = Caller(r) /\ w.input = Sent(r)
      BY <2>3, NewFields DEF Stands, Ended
    <3> HIDE DEF w
    <3>3. purchase'[k] = w /\ \A j \in OrderIds \ {k} : purchase'[j] = purchase[j]
      BY <1>0, <3>1, Domains
    <3>4. CallsStand
      BY <1>1, <2>2, <3>2, <3>3, UnmovedStands DEF CallsStand, OrdersStand
    <3>5. CallersAreKnown'
      <4>1. \A s \in Requests : Caller(r) = Caller(s) => r = s
        BY CallerFields
      <4>2. \A s \in Requests : call[s] # "new" => call'[s] # "new"
        BY <1>1
      <4> QED BY <1>0, <1>1, <2>1, <3>2, <3>3, <4>1, <4>2 DEF CallersAreKnown, k
    <3>6. ReplyIsEarned(r, reply[r])' /\ AnswerIsEarned(r, answer[r])'
      BY <1>0, <2>1, <3>1, <3>4, EarnedStands
    <3> QED BY <1>1, <3>4, <3>5, <3>6, HonestAt
  <2>4. CASE purchase[k].status # "absent"
    <3>1. purchase' = purchase /\ reply'[r] = AlreadyInvoked
      BY <1>7, <2>4, Domains DEF RunPayForOrder, Repeat, k
    <3>2. CallersAreKnown' /\ CallsStand
      BY <1>0, <1>1, <2>2, <3>1, UnmovedStands, CallersStayKnown
    <3>3. TakenByAnother(r)
      BY <1>0, <2>1, <2>4 DEF TakenByAnother, Run, CallersAreKnown, k
    <3>4. ReplyIsEarned(r, AlreadyInvoked)
      BY <3>3 DEF ReplyIsEarned
    <3>5. ReplyIsEarned(r, reply[r])' /\ AnswerIsEarned(r, answer[r])'
      BY <1>0, <2>1, <3>1, <3>2, <3>4, EarnedStands
    <3> QED BY <1>1, <3>2, <3>5, HonestAt
  <2> QED BY <2>3, <2>4
<1> QED BY <1>3, <1>4, <1>5, <1>6, <1>7 DEF DoorStep

LEMMA HonestRestart ==
    ASSUME TypeOK, Histories, DoorsAreHonest, Restart
    PROVE  DoorsAreHonest'
<1>1. UNCHANGED <<order, purchase, reply>>
  BY DEF Restart
<1>2. \A r \in Requests : /\ call[r] # "new" => call'[r] # "new"
                          /\ call'[r] = "new" => call[r] = "new"
                          /\ answer'[r] = answer[r] \/ answer'[r] = Response("fault", NoName, 0)
  BY DEF Restart
<1>3. CallersAreKnown /\ RepliesAreEarned /\ AnswersAreEarned
  BY DEF DoorsAreHonest
<1>4. CallersAreKnown' /\ CallsStand
  BY <1>1, <1>2, <1>3, UnmovedStands, CallersStayKnown
<1>5. RepliesAreEarned'
  BY <1>1, <1>2, <1>3, <1>4, EarnedStands DEF RepliesAreEarned
<1>6. AnswersAreEarned'
  <2> SUFFICES ASSUME NEW r \in Requests PROVE AnswerIsEarned(r, answer[r])'
    BY DEF AnswersAreEarned
  <2>1. AnswerIsEarned(r, Response("fault", NoName, 0))
    BY ResponseFields DEF AnswerIsEarned
  <2>2. AnswerIsEarned(r, answer[r])
    BY <1>3 DEF AnswersAreEarned
  <2> QED BY <1>2, <1>4, <2>1, <2>2, EarnedStands
<1> QED BY <1>4, <1>5, <1>6 DEF DoorsAreHonest

-------------------------------------------------------------------------------
(* The inductive invariant: the types and the keys, where every result     *)
(* came from, and what every reply and answer owes to the workflow its     *)
(* call started.                                                           *)
IInv == Inv /\ Histories /\ DoorsAreHonest

LEMMA IInvInit == Init => IInv
<1> SUFFICES ASSUME Init PROVE IInv
  OBVIOUS
<1>1. Inv
  BY InvInductive
<1>2. Histories
  <2> SUFFICES ASSUME NEW k \in OrderIds
               PROVE  /\ OrderHistory(k, Absent, NotCalled)
                      /\ ChildHistory(k, Absent, Absent)
                      /\ PaymentHistory(k, Absent, NotCalled)
                      /\ MoneyHistory(k, NotCalled, NoReceipt, <<>>)
    BY DEF Histories, Init
  <2>1. OrderHistory(k, Absent, NotCalled) /\ ChildHistory(k, Absent, Absent)
    BY AbsentFields, CallerFields, RefusalOutcomes DEF OrderHistory, ChildHistory, Ended
  <2>2. PaymentHistory(k, Absent, NotCalled) /\ MoneyHistory(k, NotCalled, NoReceipt, <<>>)
    BY AbsentFields DEF PaymentHistory, MoneyHistory, Ended
  <2> QED BY <2>1, <2>2
<1>3. CallersAreKnown
  BY AbsentFields, CallerFields DEF Init, CallersAreKnown
<1>4. RepliesAreEarned /\ AnswersAreEarned
  BY RefusalOutcomes
     DEF Init, RepliesAreEarned, ReplyIsEarned, AnswersAreEarned, AnswerIsEarned
<1> QED BY <1>1, <1>2, <1>3, <1>4 DEF IInv, DoorsAreHonest

LEMMA IInvNext == IInv /\ [Next]_vars => IInv'
<1> SUFFICES ASSUME IInv, [Next]_vars PROVE IInv'
  OBVIOUS
<1>0. TypeOK /\ KeyedByOwnOrder /\ Histories /\ DoorsAreHonest
  BY DEF IInv, Inv
<1>1. Inv'
  BY InvInductive DEF IInv
<1>2. CASE \E r \in Requests : DoorStep(r)
  BY <1>0, <1>1, <1>2, HistoriesDoorStep, HonestDoorStep DEF IInv
<1>3. CASE \E k \in OrderIds : OrderStep(k) \/ PricingStep(k)
  BY <1>0, <1>1, <1>3, HistoriesOrderStep, HonestStep DEF IInv
<1>4. CASE \E k \in OrderIds : PurchaseStep(k)
  BY <1>0, <1>1, <1>4, HistoriesPurchaseStep, HonestStep DEF IInv
<1>5. CASE \E k \in OrderIds : PaymentStep(k)
  BY <1>0, <1>1, <1>5, HistoriesPaymentStep, HonestStep DEF IInv
<1>6. CASE \E k \in OrderIds : Failure(k)
  BY <1>0, <1>1, <1>6, HistoriesFailure, HonestStep DEF IInv
<1>7. CASE Restart
  BY <1>0, <1>1, <1>7, HistoriesRestart, HonestRestart DEF IInv
<1>8. CASE UNCHANGED vars
  <2>1. Histories'
    BY <1>0, <1>8 DEF Histories, vars, orderVars, payVars, moneyVars
  <2>2. DoorsAreHonest'
    BY <1>0, <1>8
       DEF DoorsAreHonest, CallersAreKnown, RepliesAreEarned, AnswersAreEarned,
           ReplyIsEarned, AnswerIsEarned, EndedFor, TakenByAnother, Run,
           vars, doorVars, orderVars, payVars
  <2> QED BY <1>1, <2>1, <2>2 DEF IInv
<1> QED BY <1>2, <1>3, <1>4, <1>5, <1>6, <1>7, <1>8 DEF Next

-------------------------------------------------------------------------------
(* What the invariant says of money and of a purchase past its payment.    *)

(* Money was taken for k only for the purchase its child order confirmed.  *)
LEMMA ChargedPurchase ==
    ASSUME TypeOK, KeyedByOwnOrder, Histories, NEW k \in OrderIds, charges[k] # <<>>
    PROVE  LET o == order[k]
               u == purchase[k]
               y == payment[k]
           IN  /\ o.status = "completed" /\ o.caller = ParentWorkflow(k)
               /\ o.input = u.input /\ o.result.outcome = "CONFIRMED"
               /\ u.confirmed = o.result /\ y.status # "absent"
               /\ y.input = u.input /\ y.cents = o.result.cents
               /\ u.input.order_id = k /\ u.input.method # DeclinedPaymentMethod
<1>1. /\ ChildHistory(k, order[k], purchase[k]) /\ PaymentHistory(k, purchase[k], payment[k])
      /\ MoneyHistory(k, payment[k], receipts[k], charges[k])
      /\ payment[k].status # "absent" => payment[k].input.order_id = k
  BY HistoriesHere DEF KeyedByOwnOrder
<1>2. payment[k].status # "absent" /\ payment[k].input.method # DeclinedPaymentMethod
  BY <1>1 DEF MoneyHistory
<1>3. /\ purchase[k].confirmed.outcome = "CONFIRMED" /\ payment[k].input = purchase[k].input
      /\ payment[k].cents = purchase[k].confirmed.cents
  BY <1>1, <1>2 DEF PaymentHistory
<1>4. /\ order[k].caller = ParentWorkflow(k) /\ order[k].status = "completed"
      /\ purchase[k].confirmed = order[k].result
  BY <1>1, <1>3 DEF ChildHistory
<1>5. order[k].input = purchase[k].input
  BY <1>1, <1>4, CallerFields DEF ChildHistory
<1> QED BY <1>1, <1>2, <1>3, <1>4, <1>5

(* A confirmed order is the order of its key at the catalog's price. *)
LEMMA ConfirmedOrder ==
    ASSUME TypeOK, Histories, NEW k \in OrderIds, order[k].status \in Ended,
           order[k].result.outcome \in {"CONFIRMED", "PAID"}
    PROVE  LET input == order[k].input IN
           /\ order[k].status = "completed" /\ input.order_id = k /\ Priced(input.sku)
           /\ order[k].result = Response("CONFIRMED", k, Total(input, Catalog[input.sku]))
<1>1. OrderHistory(k, order[k], pricing[k])
  BY HistoriesHere
<1>2. order[k].status = "completed"
  BY <1>1 DEF OrderHistory, FailedWorkflow, Refusals, Ended
<1>3. CompletedOrder(k, order[k])
  BY <1>1, <1>2 DEF OrderHistory
<1> QED BY <1>2, <1>3 DEF CompletedOrder

(* A purchase that ended PAID was charged, and its child order was confirmed. *)
LEMMA PaidPurchase ==
    ASSUME TypeOK, KeyedByOwnOrder, Histories, NEW k \in OrderIds,
           purchase[k].status \in Ended,
           purchase[k].result.outcome \in {"CONFIRMED", "PAID"}
    PROVE  /\ charges[k] # <<>> /\ purchase[k].status = "completed"
           /\ purchase[k].result = Response("PAID", k, payment[k].cents)
<1>1. /\ PaymentHistory(k, purchase[k], payment[k])
      /\ MoneyHistory(k, payment[k], receipts[k], charges[k])
  BY HistoriesHere
<1>2. purchase[k].status = "completed"
  BY <1>1 DEF PaymentHistory, FailedWorkflow, Refusals, Ended
<1>3. CompletedPurchase(k, purchase[k], payment[k])
  BY <1>1, <1>2 DEF PaymentHistory
<1>4. /\ payment[k].status = "journaled" /\ payment[k].response.outcome = "TAKEN"
      /\ purchase[k].result = Response("PAID", k, payment[k].cents)
  BY <1>3 DEF CompletedPurchase
<1>5. charges[k] # <<>>
  BY <1>1, <1>4, ResponseFields DEF MoneyHistory
<1> QED BY <1>2, <1>4, <1>5

LEMMA EarnedCharges == IInv => EveryChargeIsEarned
<1> SUFFICES ASSUME IInv, NEW o \in OrderIds, NEW i \in 1..Len(charges[o])
             PROVE  LET bought == purchase[o].input IN
                    /\ bought.order_id = o /\ bought.method # DeclinedPaymentMethod
                    /\ Priced(bought.sku)
                    /\ charges[o][i] = Total(bought, Catalog[bought.sku])
                    /\ order[o].status = "completed" /\ order[o].caller = ParentWorkflow(o)
                    /\ order[o].result = Response("CONFIRMED", o, charges[o][i])
  BY DEF EveryChargeIsEarned
<1>0. TypeOK /\ KeyedByOwnOrder /\ Histories
  BY DEF IInv, Inv
<1>1. charges[o] # <<>>
  BY <1>0, HistoriesHere
<1>2. charges[o][i] = payment[o].cents
  BY <1>0, HistoriesHere DEF MoneyHistory
<1>3. order[o].status = "completed" /\ order[o].result.outcome = "CONFIRMED"
  BY <1>0, <1>1, ChargedPurchase
<1>4. /\ Priced(order[o].input.sku)
      /\ order[o].result =
             Response("CONFIRMED", o, Total(order[o].input, Catalog[order[o].input.sku]))
  BY <1>0, <1>3, ConfirmedOrder DEF Ended
<1>5. charges[o][i] = Total(order[o].input, Catalog[order[o].input.sku])
  BY <1>0, <1>1, <1>2, <1>4, ChargedPurchase, ResponseFields
<1> QED BY <1>0, <1>1, <1>3, <1>4, <1>5, ChargedPurchase

(* Money is taken for an order only by its own purchase, whose child order *)
(* was confirmed for it and not for an earlier placed order, and the amount *)
(* is the catalog's price of what that purchase asked for, through every   *)
(* lost attempt, restart and kill.                                         *)
THEOREM ChargesAreEarned == Spec => []EveryChargeIsEarned
<1> QED BY IInvInit, IInvNext, EarnedCharges, PTL DEF Spec

LEMMA PaidSettles == IInv => NoPaymentMismatch
<1> SUFFICES ASSUME IInv, NEW k \in OrderIds, purchase[k].status = "paid",
                    purchase[k].acted.outcome = "TAKEN"
             PROVE  PaymentSettles(purchase[k].input.order_id, purchase[k].confirmed.cents,
                                   purchase[k].acted.order_id, purchase[k].acted.cents)
  BY DEF NoPaymentMismatch
<1>1. /\ TypeOK /\ PaymentHistory(k, purchase[k], payment[k])
      /\ MoneyHistory(k, payment[k], receipts[k], charges[k])
      /\ purchase[k].input.order_id = k
  BY HistoriesHere DEF IInv, Inv, KeyedByOwnOrder
<1>2. payment[k].status = "journaled" /\ purchase[k].acted = payment[k].response
  BY <1>1, RefusalOutcomes DEF PaymentHistory
<1>3. purchase[k].acted = Response("TAKEN", k, payment[k].cents)
  BY <1>1, <1>2, ResponseFields DEF MoneyHistory
<1>4. payment[k].cents = purchase[k].confirmed.cents
  BY <1>1, <1>2 DEF PaymentHistory
<1> QED BY <1>1, <1>3, <1>4, ResponseFields DEF PaymentSettles

(* Purchase.paid is never handed the receipt of another order or amount,   *)
(* so no purchase is left paused with its money taken.                     *)
THEOREM PaymentsAlwaysSettle == Spec => []NoPaymentMismatch
<1> QED BY IInvInit, IInvNext, PaidSettles, PTL DEF Spec

LEMMA DeclinedIsFree == IInv => DeclinedNeverCharged
<1> SUFFICES ASSUME IInv, NEW k \in OrderIds,
                    purchase[k].result.outcome = "PAYMENT_DECLINED"
             PROVE  charges[k] = <<>>
  BY DEF DeclinedNeverCharged
<1>1. /\ TypeOK /\ PaymentHistory(k, purchase[k], payment[k])
      /\ MoneyHistory(k, payment[k], receipts[k], charges[k])
  BY HistoriesHere DEF IInv, Inv
<1>2. purchase[k].status \in Ended
  BY <1>1, RefusalOutcomes DEF PaymentHistory
<1>3. CompletedPurchase(k, purchase[k], payment[k])
  BY <1>1, <1>2 DEF PaymentHistory, FailedWorkflow, Refusals, Ended
<1>4. payment[k].status = "journaled" /\ payment[k].response.outcome = "DECLINED"
  BY <1>3, ResponseFields DEF CompletedPurchase
<1>5. payment[k].input.method = DeclinedPaymentMethod
  BY <1>1, <1>4, ResponseFields DEF MoneyHistory
<1> QED BY <1>1, <1>5 DEF MoneyHistory

(* A purchase that ends PAYMENT_DECLINED was never charged, though its     *)
(* action may have run several times and the processor forgets its         *)
(* receipts when the host restarts.                                        *)
THEOREM DeclinedTakesNothing == Spec => []DeclinedNeverCharged
<1> QED BY IInvInit, IInvNext, DeclinedIsFree, PTL DEF Spec

-------------------------------------------------------------------------------
(* What the invariant says of answers.                                     *)

(* A caller told it succeeded, by the order or by the purchase it started. *)
LEMMA ToldByOrder ==
    ASSUME IInv, NEW r \in Requests, Op(r) \notin Purchases,
           answer[r].outcome \in {"CONFIRMED", "PAID"}
    PROVE  LET k == Key(r) IN
           /\ k \in OrderIds /\ order[k].caller = Caller(r)
           /\ order[k].input = Sent(r) /\ Sent(r).order_id = k /\ Priced(Sent(r).sku)
           /\ answer[r] = Response("CONFIRMED", k, Total(Sent(r), Catalog[Sent(r).sku]))
<1> DEFINE k == Key(r)
<1>1. /\ k \in OrderIds /\ TypeOK /\ Histories
      /\ order[k].caller = Caller(r) /\ order[k].status \in Ended
      /\ answer[r] = order[k].result
  BY BodyType DEF IInv, Inv, DoorsAreHonest, AnswersAreEarned, AnswerIsEarned, EndedFor, Run
<1>2. order[k].input = Sent(r)
  BY <1>1 DEF IInv, DoorsAreHonest, CallersAreKnown
<1> HIDE DEF k
<1>3. /\ order[k].input.order_id = k /\ Priced(order[k].input.sku)
      /\ order[k].result =
            Response("CONFIRMED", k, Total(order[k].input, Catalog[order[k].input.sku]))
  BY <1>1, ConfirmedOrder
<1> QED BY <1>1, <1>2, <1>3 DEF k

LEMMA ToldByPurchase ==
    ASSUME IInv, NEW r \in Requests, Op(r) \in Purchases,
           answer[r].outcome \in {"CONFIRMED", "PAID"}
    PROVE  LET k == Key(r) IN
           /\ k \in OrderIds /\ purchase[k].caller = Caller(r)
           /\ order[k].caller = ParentWorkflow(k) /\ charges[k] # <<>>
           /\ Sent(r).order_id = k /\ Priced(Sent(r).sku)
           /\ answer[r] = Response("PAID", k, Total(Sent(r), Catalog[Sent(r).sku]))
           /\ \A i \in 1..Len(charges[k]) : charges[k][i] = answer[r].cents
<1> DEFINE k == Key(r)
<1>1. /\ k \in OrderIds /\ TypeOK /\ Histories /\ KeyedByOwnOrder
      /\ purchase[k].caller = Caller(r) /\ purchase[k].status \in Ended
      /\ answer[r] = purchase[k].result
  BY BodyType DEF IInv, Inv, DoorsAreHonest, AnswersAreEarned, AnswerIsEarned, EndedFor, Run
<1>2. purchase[k].input = Sent(r)
  BY <1>1 DEF IInv, DoorsAreHonest, CallersAreKnown
<1> HIDE DEF k
<1>3. charges[k] # <<>> /\ purchase[k].result = Response("PAID", k, payment[k].cents)
  BY <1>1, PaidPurchase
<1>4. /\ order[k].status = "completed" /\ order[k].caller = ParentWorkflow(k)
      /\ order[k].input = Sent(r) /\ order[k].result.outcome = "CONFIRMED"
      /\ payment[k].cents = order[k].result.cents
  BY <1>1, <1>2, <1>3, ChargedPurchase
<1>5. /\ order[k].input.order_id = k /\ Priced(order[k].input.sku)
      /\ order[k].result =
            Response("CONFIRMED", k, Total(order[k].input, Catalog[order[k].input.sku]))
  BY <1>1, <1>4, ConfirmedOrder DEF Ended
<1>6. payment[k].cents = Total(Sent(r), Catalog[Sent(r).sku])
  BY <1>4, <1>5, ResponseFields
<1>7. \A i \in 1..Len(charges[k]) : charges[k][i] = payment[k].cents
  BY <1>1, HistoriesHere DEF MoneyHistory
<1> QED BY <1>1, <1>3, <1>4, <1>5, <1>6, <1>7, ResponseFields DEF k

LEMMA OwnAnswers == IInv => AnswersAreTheCallersOwn
<1> SUFFICES ASSUME IInv, NEW r \in Requests, answer[r].outcome \in {"CONFIRMED", "PAID"}
             PROVE  /\ answer[r].order_id = Sent(r).order_id /\ answer[r].order_id = Key(r)
                    /\ Priced(Sent(r).sku)
                    /\ answer[r].cents = Total(Sent(r), Catalog[Sent(r).sku])
                    /\ answer[r].outcome = "PAID" =>
                           \E i \in 1..Len(charges[Key(r)]) :
                               charges[Key(r)][i] = answer[r].cents
  BY DEF AnswersAreTheCallersOwn
<1>1. CASE Op(r) \notin Purchases
  BY <1>1, ToldByOrder, ResponseFields
<1>2. CASE Op(r) \in Purchases
  <2>1. 1 \in 1..Len(charges[Key(r)])
    BY <1>2, ToldByPurchase, HistoriesHere DEF IInv, Inv
  <2> QED BY <1>2, <2>1, ToldByPurchase, ResponseFields
<1> QED BY <1>1, <1>2

(* Whoever is told a total is told the total of the very order it sent,    *)
(* under the key it called, whichever callers and doors share that key;    *)
(* and whoever is told PAID was charged exactly that.                      *)
THEOREM AnswersAreOwn == Spec => []AnswersAreTheCallersOwn
<1> QED BY IInvInit, IInvNext, OwnAnswers, PTL DEF Spec

LEMMA HonestRefusals == IInv => AlreadyStartedIsHonest
BY DEF IInv, DoorsAreHonest, AnswersAreEarned, AnswerIsEarned, TakenByAnother, Run,
       Purchases, Doors, AlreadyStartedIsHonest

(* A door says OrderAlreadyStarted only when another call took the key:    *)
(* never for the 409 of a workflow that was killed.                        *)
THEOREM RefusalsAreHonest == Spec => []AlreadyStartedIsHonest
<1> QED BY IInvInit, IInvNext, HonestRefusals, PTL DEF Spec

LEMMA WinnersAreOne == IInv => OneWinner
<1> SUFFICES ASSUME IInv, NEW r \in Requests, NEW s \in Requests,
                    answer[r].outcome \in {"CONFIRMED", "PAID"},
                    answer[s].outcome \in {"CONFIRMED", "PAID"},
                    answer[r].order_id = answer[s].order_id
             PROVE  r = s
  BY DEF OneWinner
<1>1. Key(r) = Key(s)
  BY ToldByOrder, ToldByPurchase, ResponseFields
<1>2. CASE Op(r) \notin Purchases /\ Op(s) \notin Purchases
  BY <1>1, <1>2, ToldByOrder, CallerFields
<1>3. CASE Op(r) \in Purchases /\ Op(s) \in Purchases
  BY <1>1, <1>3, ToldByPurchase, CallerFields
<1>4. CASE Op(r) \notin Purchases /\ Op(s) \in Purchases
  BY <1>1, <1>4, ToldByOrder, ToldByPurchase, CallerFields
<1>5. CASE Op(r) \in Purchases /\ Op(s) \notin Purchases
  BY <1>1, <1>5, ToldByOrder, ToldByPurchase, CallerFields
<1> QED BY <1>2, <1>3, <1>4, <1>5

(* Of all the calls that name one order, at most one is told it succeeded, *)
(* however many callers race for its key through whatever doors.           *)
THEOREM WinnersAreUnique == Spec => []OneWinner
<1> QED BY IInvInit, IInvNext, WinnersAreOne, PTL DEF Spec

-------------------------------------------------------------------------------
(* The promise of OrderSettlement.                                         *)

(* What the verdict of an order is, in any reachable state. *)
LEMMA Verdicts ==
    ASSUME TypeOK, KeyedByOwnOrder, Histories, NEW k \in OrderIds
    PROVE  /\ Act(k) \in {"none", "confirm", "pay"}
           /\ charges[k] # <<>> => Act(k) = "pay"
           /\ Act(k) = "none" => Verdict(k) = "open"
           /\ \/ Verdict(k) = "open"
              \/ /\ Verdict(k) \in Settlement!Outcomes(Act(k))
                 /\ Verdict(k) = "paid" => charges[k] # <<>>
                 /\ Verdict(k) \in {"declined", "unpriced"} => charges[k] = <<>>
<1>0. /\ OrderHistory(k, order[k], pricing[k]) /\ ChildHistory(k, order[k], purchase[k])
      /\ PaymentHistory(k, purchase[k], payment[k])
      /\ MoneyHistory(k, payment[k], receipts[k], charges[k])
  BY HistoriesHere
<1>1. charges[k] # <<>> => Act(k) = "pay"
  BY ChargedPurchase DEF Act
<1>2. CASE Act(k) = "none"
  BY <1>1, <1>2 DEF Verdict
<1>3. CASE Act(k) = "confirm"
  <2>1. Verdict(k) = VerdictOf(order[k]) /\ charges[k] = <<>>
    BY <1>1, <1>3 DEF Verdict
  <2>2. CASE order[k].status \notin Ended
    <3>1. order[k].result.outcome = "none"
      BY <1>0, <2>2, RefusalOutcomes DEF OrderHistory
    <3> QED BY <1>1, <1>3, <2>1, <2>2, <3>1 DEF VerdictOf
  <2>3. CASE order[k].status = "completed"
    <3>1. order[k].result.outcome \in {"CONFIRMED", "PRODUCT_PRICE_NOT_FOUND"}
      BY <1>0, <2>3, ResponseFields DEF OrderHistory, CompletedOrder
    <3>2. VerdictOf(order[k]) \in {"confirmed", "unpriced"}
      BY <2>3, <3>1 DEF VerdictOf, Ended
    <3> QED BY <1>3, <2>1, <3>2 DEF Settlement!Outcomes
  <2>4. CASE order[k].status = "failed"
    <3>1. order[k].result.outcome \in Refusals
      BY <1>0, <2>4 DEF OrderHistory, FailedWorkflow
    <3>2. VerdictOf(order[k]) = "dead"
      BY <2>4, <3>1 DEF VerdictOf, Ended, Refusals
    <3> QED BY <1>3, <2>1, <3>2 DEF Settlement!Outcomes
  <2> QED BY <2>2, <2>3, <2>4 DEF Ended
<1>4. CASE Act(k) = "pay"
  <2>1. Verdict(k) = VerdictOf(purchase[k])
    BY <1>4 DEF Verdict
  <2>2. CASE purchase[k].status \notin Ended
    <3>1. purchase[k].result.outcome = "none"
      BY <1>0, <2>2, RefusalOutcomes DEF PaymentHistory
    <3> QED BY <1>1, <1>4, <2>1, <2>2, <3>1 DEF VerdictOf
  <2>3. CASE purchase[k].status = "failed"
    <3>1. purchase[k].result.outcome \in Refusals
      BY <1>0, <2>3 DEF PaymentHistory, FailedWorkflow
    <3>2. VerdictOf(purchase[k]) = "dead"
      BY <2>3, <3>1 DEF VerdictOf, Ended, Refusals
    <3> QED BY <1>4, <2>1, <3>2 DEF Settlement!Outcomes
  <2>4. CASE purchase[k].status = "completed"
    <3>0. CompletedPurchase(k, purchase[k], payment[k])
      BY <1>0, <2>4 DEF PaymentHistory
    <3>1. CASE payment[k].status = "journaled" /\ payment[k].response.outcome = "TAKEN"
               /\ purchase[k].result = Response("PAID", k, payment[k].cents)
      <4>1. charges[k] # <<>>
        BY <1>0, <3>1, ResponseFields DEF MoneyHistory
      <4>2. VerdictOf(purchase[k]) = "paid"
        BY <2>4, <3>1, ResponseFields DEF VerdictOf, Ended
      <4> QED BY <1>4, <2>1, <4>1, <4>2 DEF Settlement!Outcomes
    <3>2. CASE payment[k].status = "journaled" /\ payment[k].response.outcome = "DECLINED"
               /\ purchase[k].result.outcome = "PAYMENT_DECLINED"
      <4>1. charges[k] = <<>>
        BY <1>0, <3>2, ResponseFields DEF MoneyHistory
      <4>2. VerdictOf(purchase[k]) = "declined"
        BY <2>4, <3>2 DEF VerdictOf, Ended
      <4> QED BY <1>4, <2>1, <4>1, <4>2 DEF Settlement!Outcomes
    <3>3. CASE purchase[k].confirmed.outcome # "CONFIRMED"
               /\ purchase[k].result.outcome = "ORDER_NOT_CONFIRMED"
      <4>1. charges[k] = <<>>
        BY <1>0, <3>3, ChargedPurchase
      <4>2. VerdictOf(purchase[k]) = "unpriced"
        BY <2>4, <3>3 DEF VerdictOf, Ended
      <4> QED BY <1>4, <2>1, <4>1, <4>2 DEF Settlement!Outcomes
    <3> QED BY <3>0, <3>1, <3>2, <3>3 DEF CompletedPurchase
  <2> QED BY <2>2, <2>3, <2>4 DEF Ended
<1>5. Act(k) \in {"none", "confirm", "pay"}
  BY DEF Act
<1> QED BY <1>1, <1>2, <1>3, <1>4, <1>5

(* While a payment action runs, the purchase has no verdict that denies it. *)
LEMMA VerdictWhilePaying ==
    ASSUME TypeOK, KeyedByOwnOrder, Histories, NEW k \in OrderIds,
           payment[k].status = "called"
    PROVE  Act(k) = "pay" /\ Verdict(k) \in {"open", "dead"}
<1>0. /\ ChildHistory(k, order[k], purchase[k]) /\ PaymentHistory(k, purchase[k], payment[k])
  BY HistoriesHere
<1>1. purchase[k].confirmed.outcome = "CONFIRMED"
  BY <1>0 DEF PaymentHistory
<1>2. Act(k) = "pay"
  BY <1>0, <1>1 DEF ChildHistory, Act
<1>3. purchase[k].status # "completed"
  BY <1>0, <1>1 DEF PaymentHistory, CompletedPurchase
<1>4. CASE purchase[k].status \notin Ended
  <2>1. purchase[k].result.outcome = "none"
    BY <1>0, <1>4, RefusalOutcomes DEF PaymentHistory
  <2> QED BY <1>2, <1>4, <2>1 DEF Verdict, VerdictOf
<1>5. CASE purchase[k].status = "failed"
  <2>1. purchase[k].result.outcome \in Refusals
    BY <1>0, <1>5 DEF PaymentHistory, FailedWorkflow
  <2> QED BY <1>2, <1>5, <2>1 DEF Verdict, VerdictOf, Ended, Refusals
<1> QED BY <1>2, <1>3, <1>4, <1>5 DEF Ended

(* An act and a verdict, once given, stand as their workflow does. *)
LEMMA ActStands ==
    ASSUME NEW k \in OrderIds, Stands(order[k], order'[k]),
           Stands(purchase[k], purchase'[k]), order[k].status # "absent"
    PROVE  /\ Act(k)' = Act(k) /\ Act(k) # "none"
           /\ Verdict(k) # "open" => Verdict(k)' = Verdict(k)
<1>1. Act(k)' = Act(k) /\ Act(k) \in {"confirm", "pay"}
  BY DEF Act, Stands
<1>2. CASE Act(k) = "confirm"
  BY <1>1, <1>2 DEF Verdict, VerdictOf, Stands
<1>3. CASE Act(k) = "pay"
  BY <1>1, <1>3 DEF Verdict, VerdictOf, Stands
<1> QED BY <1>1, <1>2, <1>3

(* The verdict on an order is open while the workflow that settles it runs. *)
LEMMA OpenVerdicts ==
    ASSUME TypeOK, Histories, NEW k \in OrderIds
    PROVE  /\ Act(k) = "confirm" /\ order[k].status \notin Ended => Verdict(k) = "open"
           /\ Act(k) = "pay" /\ purchase[k].status \notin Ended => Verdict(k) = "open"
<1>1. /\ order[k].status \notin Ended => order[k].result.outcome = "none"
      /\ purchase[k].status \notin Ended => purchase[k].result.outcome = "none"
  BY HistoriesHere, RefusalOutcomes DEF OrderHistory, PaymentHistory
<1>2. /\ order[k].status \notin Ended => VerdictOf(order[k]) = "open"
      /\ purchase[k].status \notin Ended => VerdictOf(purchase[k]) = "open"
  BY <1>1 DEF VerdictOf
<1> QED BY <1>2 DEF Verdict

(* The verdicts of every order, named so that they can be read off the     *)
(* state after a step as well as off the one before it.                    *)
VerdictsAgree ==
    \A k \in OrderIds :
        /\ Act(k) = "none" => Verdict(k) = "open"
        /\ Act(k) = "confirm" /\ order[k].status \notin Ended => Verdict(k) = "open"
        /\ Act(k) = "pay" /\ purchase[k].status \notin Ended => Verdict(k) = "open"
        /\ \/ Verdict(k) = "open"
           \/ /\ Verdict(k) \in Settlement!Outcomes(Act(k))
              /\ Verdict(k) = "paid" => charges[k] # <<>>
              /\ Verdict(k) \in {"declined", "unpriced"} => charges[k] = <<>>

LEMMA VerdictsHold == IInv => VerdictsAgree
BY Verdicts, OpenVerdicts DEF IInv, Inv, VerdictsAgree

LEMMA VerdictsHoldNext == IInv' => VerdictsAgree'
BY VerdictsHold, PTL

(* What one step does to the other orders: nothing that OrderSettlement sees. *)
Elsewhere(k) ==
    \A j \in OrderIds \ {k} :
        order'[j] = order[j] /\ purchase'[j] = purchase[j] /\ charges'[j] = charges[j]

(* Three ways a step may touch the order k: the order begins, money may be *)
(* taken for a payment that runs, or its workflows move on.                *)
Begins(k) ==
    /\ order[k].status = "absent" /\ order'[k].status = "begin" /\ charges'[k] = charges[k]
    /\ order'[k].caller = ParentWorkflow(k) => purchase'[k].status = "confirming"
MayTake(k) ==
    /\ order'[k] = order[k] /\ purchase'[k] = purchase[k] /\ payment[k].status = "called"
    /\ charges'[k] = charges[k] \/ charges'[k] # <<>>
MovesOn(k) ==
    /\ order[k].status = "absent" => order'[k].status = "absent"
    /\ charges'[k] = charges[k]

LEMMA PromiseAt ==
    ASSUME IInv, IInv', NEW k \in OrderIds, Elsewhere(k),
           Stands(order[k], order'[k]), Stands(purchase[k], purchase'[k]),
           Begins(k) \/ MayTake(k) \/ MovesOn(k)
    PROVE  [Settlement!Next]_(Settlement!settlement)
<1>0. TypeOK /\ KeyedByOwnOrder /\ Histories
  BY DEF IInv, Inv
<1>1. \A j \in OrderIds \ {k} :
          Act(j)' = Act(j) /\ Verdict(j)' = Verdict(j) /\ charges'[j] = charges[j]
  BY DEF Elsewhere, Act, Verdict, VerdictOf
<1>2. /\ Act(k) \in {"none", "confirm", "pay"}
      /\ charges[k] # <<>> => Act(k) = "pay"
      /\ Act(k) = "none" => Verdict(k) = "open"
  BY <1>0, Verdicts
<1>3. /\ Act(k)' = "none" => Verdict(k)' = "open"
      /\ \/ Verdict(k)' = "open"
         \/ /\ Verdict(k)' \in Settlement!Outcomes(Act(k)')
            /\ Verdict(k)' = "paid" => charges'[k] # <<>>
            /\ Verdict(k)' \in {"declined", "unpriced"} => charges'[k] = <<>>
  BY VerdictsHoldNext DEF VerdictsAgree
<1>4. CASE Begins(k)
  <2>1. Act(k) = "none" /\ Act(k)' \in {"confirm", "pay"}
    BY <1>4 DEF Begins, Act
  <2>2. Verdict(k) = "open" /\ Verdict(k)' = "open"
    <3>1. /\ Act(k)' = "confirm" /\ order'[k].status \notin Ended => Verdict(k)' = "open"
          /\ Act(k)' = "pay" /\ purchase'[k].status \notin Ended => Verdict(k)' = "open"
      BY VerdictsHoldNext DEF VerdictsAgree
    <3>2. Act(k)' = "pay" => order'[k].caller = ParentWorkflow(k)
      BY DEF Act
    <3> QED BY <1>2, <1>4, <2>1, <3>1, <3>2 DEF Begins, Ended
  <2> QED BY <1>1, <1>4, <2>1, <2>2
          DEF Begins, Settlement!Next, Settlement!Begin
<1>5. CASE MayTake(k)
  <2>1. Act(k) = "pay" /\ Verdict(k) \in {"open", "dead"}
    BY <1>0, <1>5, VerdictWhilePaying DEF MayTake
  <2>2. Act(k)' = Act(k) /\ Verdict(k)' = Verdict(k)
    BY <1>5 DEF MayTake, Act, Verdict, VerdictOf
  <2> QED BY <1>1, <1>5, <2>1, <2>2, ZenonT(60)
          DEF MayTake, Settlement!Next, Settlement!Take, Settlement!settlement
<1>6. CASE MovesOn(k)
  <2>1. CASE order[k].status = "absent"
    <3>1. Act(k) = "none" /\ Act(k)' = "none"
      BY <1>6, <2>1 DEF MovesOn, Act
    <3> QED BY <1>1, <1>2, <1>3, <1>6, <3>1 DEF MovesOn, Settlement!settlement
  <2>2. CASE order[k].status # "absent"
    <3>1. /\ Act(k)' = Act(k) /\ Act(k) # "none"
          /\ Verdict(k) # "open" => Verdict(k)' = Verdict(k)
      BY <2>2, ActStands
    <3>2. CASE Verdict(k)' = Verdict(k)
      BY <1>1, <1>6, <3>1, <3>2 DEF MovesOn, Settlement!settlement
    <3>3. CASE Verdict(k)' # Verdict(k)
      BY <1>1, <1>3, <1>6, <3>1, <3>3 DEF MovesOn, Settlement!Next, Settlement!Settle
    <3> QED BY <3>2, <3>3
  <2> QED BY <2>1, <2>2
<1> QED BY <1>4, <1>5, <1>6

(* A workflow that ends at a key resumes at most the purchase of that key. *)
LEMMA ParentIsHere ==
    ASSUME TypeOK, Histories, NEW k \in OrderIds, NEW response,
           purchase' = ParentAfter(order[k].caller, response)
    PROVE  \A j \in OrderIds \ {k} : purchase'[j] = purchase[j]
<1>1. order[k].caller[1] = "purchase" => order[k].caller[2] = k
  BY HistoriesHere, CallerFields DEF ChildHistory
<1> QED BY <1>1, Domains DEF ParentAfter

LEMMA OrderStepPromise ==
    ASSUME TypeOK, Histories, NEW k \in OrderIds, OrderStep(k) \/ PricingStep(k)
    PROVE  Elsewhere(k) /\ MovesOn(k)
<1>0. order[k] \in Workflows(OrderStatuses)
  BY PartTypes
<1>1. charges' = charges
  BY WhoTouchesMoney DEF moneyVars
<1>2. \A j \in OrderIds \ {k} : order'[j] = order[j]
  BY Domains
     DEF OrderStep, PricingStep, UnreadableOrder, RefuseForeignOrder, RunPriceProduct,
         PriceProduct, JournalPrice, ConfirmOrder, PriceNotFound, TotalRaises,
         OrderActionFails, EndOrder
<1>3. \/ purchase' = purchase
      \/ \E response : purchase' = ParentAfter(order[k].caller, response)
  BY DEF OrderStep, PricingStep, UnreadableOrder, RefuseForeignOrder, RunPriceProduct,
         PriceProduct, JournalPrice, ConfirmOrder, PriceNotFound, TotalRaises,
         OrderActionFails, EndOrder, payVars
<1>4. order[k].status = "absent" => order' = order
  BY DEF OrderStep, PricingStep, UnreadableOrder, RefuseForeignOrder, RunPriceProduct,
         PriceProduct, JournalPrice, ConfirmOrder, PriceNotFound, TotalRaises,
         OrderActionFails
<1> QED BY <1>1, <1>2, <1>3, <1>4, ParentIsHere DEF Elsewhere, MovesOn

LEMMA PurchaseStepPromise ==
    ASSUME TypeOK, Histories, NEW k \in OrderIds, PurchaseStep(k)
    PROVE  Elsewhere(k) /\ (Begins(k) \/ MovesOn(k))
<1>1. charges' = charges
  BY WhoTouchesMoney DEF moneyVars
<1>2. CASE RunChildOrder(k)
  <2>1. purchase[k].input.order_id = k
    BY <1>2 DEF RunChildOrder, OwnOrder
  <2>2. CASE order[k].status = "absent"
    <3>1. /\ order' = [order EXCEPT ![k] =
                           Workflow("begin", ParentWorkflow(k), purchase[k].input)]
          /\ purchase' = [purchase EXCEPT ![k] = At(purchase[k], "confirming")]
      BY <1>2, <2>1, <2>2 DEF RunChildOrder
    <3>2. order'[k].status = "begin" /\ purchase'[k].status = "confirming"
      <4>1. /\ order'[k] = Workflow("begin", ParentWorkflow(k), purchase[k].input)
            /\ purchase'[k] = At(purchase[k], "confirming")
        BY <3>1, Domains
      <4>2. purchase[k] \in Workflows(PurchaseStatuses)
        BY PartTypes
      <4>3. At(purchase[k], "confirming").status = "confirming"
        BY <4>2, WorkflowFields
      <4> QED BY <4>1, <4>3, NewFields
    <3> QED BY <1>1, <2>2, <3>1, <3>2, Domains DEF Elsewhere, Begins
  <2>3. CASE order[k].status # "absent"
    BY <1>1, <1>2, <2>1, <2>3, Domains DEF RunChildOrder, Elsewhere, MovesOn
  <2> QED BY <2>2, <2>3
<1>3. CASE ~RunChildOrder(k)
  <2>1. order' = order
    BY <1>3
       DEF PurchaseStep, UnreadablePurchase, RefuseForeignPurchase, OrderNotConfirmed,
           ChildOrderFails, RunTakePayment, SettlePurchase, PaymentDeclined,
           PaymentActionFails, EndPurchase, orderVars
  <2>2. \A j \in OrderIds \ {k} : purchase'[j] = purchase[j]
    BY <1>3, Domains
       DEF PurchaseStep, UnreadablePurchase, RefuseForeignPurchase, OrderNotConfirmed,
           ChildOrderFails, RunTakePayment, SettlePurchase, PaymentDeclined,
           PaymentActionFails, EndPurchase
  <2> QED BY <1>1, <2>1, <2>2 DEF Elsewhere, MovesOn
<1> QED BY <1>2, <1>3

LEMMA PaymentStepPromise ==
    ASSUME TypeOK, KeyedByOwnOrder, Histories, NEW k \in OrderIds, PaymentStep(k)
    PROVE  Elsewhere(k) /\ (MayTake(k) \/ MovesOn(k))
<1>1. CASE ChargePaymentMethod(k)
  <2>1. payment[k].input.order_id = k /\ payment[k].status = "called"
    BY <1>1 DEF ChargePaymentMethod, KeyedByOwnOrder
  <2>2. /\ order' = order /\ purchase' = purchase
        /\ charges' \in {charges, [charges EXCEPT ![k] = Append(charges[k], payment[k].cents)]}
    BY <1>1, <2>1 DEF ChargePaymentMethod, orderVars
  <2>3. charges[k] \in Seq(Nat) /\ payment[k].cents \in Nat
    BY HistoriesHere DEF Actions
  <2>4. Append(charges[k], payment[k].cents) # <<>>
    BY <2>3
  <2> QED BY <2>1, <2>2, <2>4, Domains DEF Elsewhere, MayTake
<1>2. CASE JournalPayment(k)
  BY <1>2, Domains DEF JournalPayment, Elsewhere, MovesOn, orderVars, moneyVars
<1> QED BY <1>1, <1>2 DEF PaymentStep

LEMMA FailurePromise ==
    ASSUME TypeOK, Histories, NEW k \in OrderIds, Failure(k)
    PROVE  Elsewhere(k) /\ MovesOn(k)
<1>1. charges' = charges
  BY WhoTouchesMoney DEF moneyVars
<1>2. CASE KillOrder(k)
  BY <1>1, <1>2, Domains, ParentIsHere DEF KillOrder, Elsewhere, MovesOn
<1>3. CASE ~KillOrder(k)
  BY <1>1, <1>3, Domains
     DEF Failure, LoseWorkflowAttempt, LosePriceAttempt, LosePaymentAttempt, KillPurchase,
         KillAction, Elsewhere, MovesOn, orderVars, payVars, OrderWorking
<1> QED BY <1>2, <1>3

LEMMA DoorStepPromise ==
    ASSUME TypeOK, Histories, NEW r \in Requests, DoorStep(r)
    PROVE  LET k == Key(r) IN
           /\ k \in OrderIds /\ Elsewhere(k) /\ (Begins(k) \/ MovesOn(k))
           /\ Stands(order[k], order'[k]) /\ Stands(purchase[k], purchase'[k])
<1> DEFINE k == Key(r)
<1>1. k \in OrderIds /\ charges' = charges
  BY BodyType, WhoTouchesMoney DEF moneyVars
<1>2. /\ Stands(order[k], order[k]) /\ Stands(purchase[k], purchase[k])
      /\ \A v, w : w.status = "absent" => Stands(w, v)
  BY <1>1, UnmovedStands DEF Stands, Ended
<1>3. CASE UNCHANGED <<order, purchase>>
  BY <1>1, <1>2, <1>3 DEF Elsewhere, MovesOn
<1>4. CASE StartConfirmOrder(r) \/ RunConfirmOrder(r)
  <2>1. CASE order[k].status = "absent"
    <3>1. /\ purchase' = purchase
          /\ \E caller \in {Nobody, Caller(r)} :
                 order' = [order EXCEPT ![k] = Workflow("begin", caller, Sent(r))]
      BY <1>4, <2>1 DEF StartConfirmOrder, RunConfirmOrder, payVars
    <3>2. order'[k].status = "begin" /\ order'[k].caller[1] # "purchase"
      <4>1. PICK caller \in {Nobody, Caller(r)} :
                order'[k] = Workflow("begin", caller, Sent(r))
        BY <1>1, <3>1, Domains
      <4>2. order'[k].status = "begin" /\ order'[k].caller = caller
        BY <4>1, NewFields
      <4> QED BY <4>2, CallerFields
    <3> QED BY <1>1, <1>2, <2>1, <3>1, <3>2, Domains, CallerFields DEF Elsewhere, Begins
  <2>2. CASE order[k].status # "absent"
    BY <1>3, <1>4, <2>2 DEF StartConfirmOrder, RunConfirmOrder, payVars
  <2> QED BY <2>1, <2>2
<1>5. CASE RunPayForOrder(r)
  <2>1. CASE purchase[k].status = "absent"
    <3>1. /\ order' = order
          /\ purchase' = [purchase EXCEPT ![k] = Workflow("begin", Caller(r), Sent(r))]
      BY <1>5, <2>1 DEF RunPayForOrder, orderVars
    <3> QED BY <1>1, <1>2, <2>1, <3>1, Domains DEF Elsewhere, MovesOn
  <2>2. CASE purchase[k].status # "absent"
    BY <1>3, <1>5, <2>2 DEF RunPayForOrder, orderVars
  <2> QED BY <2>1, <2>2
<1>6. CASE RejectOrder(r) \/ IngressUnreachable(r) \/ CallerGivesUp(r) \/ AnswerCaller(r)
  BY <1>3, <1>6
     DEF RejectOrder, IngressUnreachable, CallerGivesUp, AnswerCaller, orderVars, payVars
<1> QED BY <1>4, <1>5, <1>6 DEF DoorStep

LEMMA PromiseStep ==
    IInv /\ [Next]_vars /\ IInv' => [Settlement!Next]_(Settlement!settlement)
<1> SUFFICES ASSUME IInv, [Next]_vars, IInv'
             PROVE  [Settlement!Next]_(Settlement!settlement)
  OBVIOUS
<1>0. TypeOK /\ KeyedByOwnOrder /\ Histories
  BY DEF IInv, Inv
<1>1. ASSUME NEW k \in OrderIds,
             \/ OrderStep(k) \/ PricingStep(k) \/ PurchaseStep(k) \/ PaymentStep(k) \/ Failure(k)
      PROVE  [Settlement!Next]_(Settlement!settlement)
  <2>1. Elsewhere(k) /\ (Begins(k) \/ MayTake(k) \/ MovesOn(k))
    BY <1>0, <1>1, OrderStepPromise, PurchaseStepPromise, PaymentStepPromise, FailurePromise
  <2>2. Stands(order[k], order'[k]) /\ Stands(purchase[k], purchase'[k])
    BY <1>0, <1>1, OrderStepStands, PurchaseStepStands, FailureStands
       DEF OrdersStand, PurchasesStand
  <2> QED BY <2>1, <2>2, PromiseAt
<1>2. CASE \E r \in Requests : DoorStep(r)
  BY <1>0, <1>2, DoorStepPromise, PromiseAt
<1>3. CASE Restart \/ UNCHANGED vars
  <2>1. UNCHANGED <<order, purchase, charges>>
    BY <1>3 DEF Restart, vars, orderVars, payVars, moneyVars
  <2> QED BY <2>1 DEF Settlement!settlement, Act, Verdict, VerdictOf
<1> QED BY <1>1, <1>2, <1>3 DEF Next

LEMMA PromiseInit == Init => Settlement!Init
BY AbsentFields, ZenonT(60) DEF Init, Settlement!Init, Act, Verdict

(* The workflows, the engine's retries, kills and restarts and the         *)
(* processor together implement OrderSettlement: on every order one act,   *)
(* one verdict that stands, and money that agrees with it.                 *)
THEOREM SettlementIsKept == Spec => KeepsSettlement
<1> QED BY IInvInit, IInvNext, PromiseInit, PromiseStep, PTL
        DEF Spec, KeepsSettlement, Settlement!Spec

===============================================================================
