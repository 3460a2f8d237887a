---------------------------- MODULE DurableOrdering ----------------------------
(***************************************************************************)
(* examples/durable-execution: three HTTP doors over two keyed workflows   *)
(* that Restate journals and retries.                                      *)
(*                                                                         *)
(*   order[k]     the OrderOrchestrator workflow under key k               *)
(*   pricing[k]   the OrderActions/price_product call order[k] makes       *)
(*   purchase[k]  the PurchaseOrchestrator workflow under key k            *)
(*   payment[k]   the PurchaseActions/take_payment call purchase[k] makes  *)
(*                                                                         *)
(* A workflow's status names the next thing its handler does once the      *)
(* journal has been replayed: the steps between two durable calls are      *)
(* deterministic and touch nothing, so a lost attempt costs an attempt and *)
(* leaves the status alone.  An action is not journaled inside: losing its *)
(* attempt runs the whole handler again, whatever it had already done.     *)
(***************************************************************************)
EXTENDS OrderingDomain, Sequences

CONSTANTS
    MaxAttempts,   \* _RETRY_POLICY.max_attempts, then the engine pauses
    MaxDrops,      \* attempts the network may lose
    MaxRestarts,   \* times the host process may restart
    MaxKills       \* invocations an operator may kill

ASSUME BoundsAssumption ==
    /\ MaxAttempts \in Nat \ {0}
    /\ MaxDrops \in Nat /\ MaxRestarts \in Nat /\ MaxKills \in Nat

VARIABLES
    call,       \* [Requests -> "new" | "open" | "closed"]
    reply,      \* [Requests -> what the ingress has answered]
    answer,     \* [Requests -> what the caller is told]
    order, pricing, purchase, payment,
    receipts,   \* MemoryPaymentProcessor._receipts, NoReceipt when absent
    charges,    \* every amount ever charged for an order, oldest first
    drops, restarts, kills

doorVars    == <<call, reply, answer>>
orderVars   == <<order, pricing>>
payVars     == <<purchase, payment>>
moneyVars   == <<receipts, charges>>
failureVars == <<drops, restarts, kills>>
vars == <<doorVars, orderVars, payVars, moneyVars, failureVars>>

NoReceipt == -1
NoName    == ""

(* A response or a refusal, wherever it travels: the outcome, the order it *)
(* names and the cents it carries.                                         *)
Response(outcome, order_id, cents) ==
    [outcome |-> outcome, order_id |-> order_id, cents |-> cents]
None           == Response("none", NoName, 0)
AlreadyInvoked == Response("already_invoked", NoName, 0)   \* 409, the engine's wording
Killed         == Response("killed", NoName, 0)            \* 409, another wording
ForeignOrder   == Response("foreign_order", NoName, 0)     \* terminal 400
Unreadable     == Response("unreadable", NoName, 0)        \* terminal 500, input serde

NoOrder == [order_id |-> NoName, sku |-> NoName, quantity |-> 0, method |-> NoName]

(* Who waits for a workflow: nobody after a send, a call at the ingress,   *)
(* or the purchase workflow that runs it as its child.                     *)
Nobody          == <<"nobody", "">>
Caller(r)       == <<"request", r>>
ParentWorkflow(k) == <<"purchase", k>>

Workflow(status, caller, input) ==
    [status |-> status, caller |-> caller, input |-> input,
     attempts |-> 0, confirmed |-> None, acted |-> None, result |-> None]
Action(status, cents, input) ==
    [status |-> status, cents |-> cents, input |-> input,
     attempts |-> 0, response |-> None]

(* The updates of a workflow and of an action that its steps make. *)
At(invocation, status)  == [invocation EXCEPT !.status = status]
Confirmed(w, response)  == [w EXCEPT !.status = "confirmed", !.confirmed = response]
Acted(w, status, response)    == [w EXCEPT !.status = status, !.acted = response]
Finished(w, status, response) == [w EXCEPT !.status = status, !.result = response]
Answered(action, response)    == [action EXCEPT !.status = "answered", !.response = response]

Absent    == Workflow("absent", Nobody, NoOrder)
NotCalled == Action("absent", 0, NoOrder)

Init ==
    /\ call     = [r \in Requests |-> "new"]
    /\ reply    = [r \in Requests |-> None]
    /\ answer   = [r \in Requests |-> None]
    /\ order    = [k \in OrderIds |-> Absent]
    /\ purchase = [k \in OrderIds |-> Absent]
    /\ pricing  = [k \in OrderIds |-> NotCalled]
    /\ payment  = [k \in OrderIds |-> NotCalled]
    /\ receipts = [o \in OrderIds |-> NoReceipt]
    /\ charges  = [o \in OrderIds |-> <<>>]
    /\ drops = 0 /\ restarts = 0 /\ kills = 0

-------------------------------------------------------------------------------
(* The doors.                                                              *)

Op(r)   == Body[r].op
Key(r)  == Body[r].key
Sent(r) == Body[r].order

(* The service builds the domain objects before it calls anything. *)
Acceptable(r) ==
    /\ OrderAccepted(Sent(r))
    /\ Op(r) = "make_order_payment" => MethodAccepted(Sent(r).method)

(* OrderService / PurchaseService: a DomainError at the door is            *)
(* client.OrderRejected and nothing is sent.                               *)
RejectOrder(r) ==
    /\ call[r] = "new" /\ Op(r) \in Doors /\ ~Acceptable(r)
    /\ call'   = [call EXCEPT ![r] = "closed"]
    /\ answer' = [answer EXCEPT ![r] = Response("OrderRejected", NoName, 0)]
    /\ UNCHANGED <<reply, orderVars, payVars, moneyVars, failureVars>>

(* A call leaves the caller: a door lets only an acceptable order through. *)
Sendable(r) == call[r] = "new" /\ (Op(r) \in Doors => Acceptable(r))

(* The ingress cannot be reached: a transport error, a fault at the door. *)
IngressUnreachable(r) ==
    /\ Sendable(r)
    /\ call'   = [call EXCEPT ![r] = "closed"]
    /\ answer' = [answer EXCEPT ![r] = Response("fault", NoName, 0)]
    /\ UNCHANGED <<reply, orderVars, payVars, moneyVars, failureVars>>

(* start_confirm_order: workflow_send.  A repeat send on a taken key is    *)
(* PreviouslyAccepted, which reads as STARTED too.                         *)
StartConfirmOrder(r) ==
    /\ Sendable(r) /\ Op(r) = "submit_order"
    /\ call'  = [call EXCEPT ![r] = "open"]
    /\ reply' = [reply EXCEPT ![r] = Response("STARTED", Key(r), 0)]
    /\ order' = IF order[Key(r)].status = "absent"
                THEN [order EXCEPT ![Key(r)] = Workflow("begin", Nobody, Sent(r))]
                ELSE order
    /\ UNCHANGED <<answer, pricing, payVars, moneyVars, failureVars>>

(* What the engine answers a call on a key that has been invoked: always a *)
(* refusal, it never attaches a second caller to a result.                 *)
RepeatAttached(workflow) ==
    IF workflow.status = "completed" THEN workflow.result ELSE AlreadyInvoked
Repeat(workflow) == AlreadyInvoked

(* run_confirm_order: workflow_call under the order's id. *)
RunConfirmOrder(r) ==
    /\ Sendable(r) /\ Op(r) \in {"place_order", "confirm_order"}
    /\ call' = [call EXCEPT ![r] = "open"]
    /\ IF order[Key(r)].status = "absent"
       THEN /\ order' = [order EXCEPT ![Key(r)] = Workflow("begin", Caller(r), Sent(r))]
            /\ reply' = reply
       ELSE /\ reply' = [reply EXCEPT ![r] = Repeat(order[Key(r)])]
            /\ order' = order
    /\ UNCHANGED <<answer, pricing, payVars, moneyVars, failureVars>>

(* run_pay_for_order, under the same key in the other workflow service. *)
RunPayForOrder(r) ==
    /\ Sendable(r) /\ Op(r) \in {"make_order_payment", "pay_for_order"}
    /\ call' = [call EXCEPT ![r] = "open"]
    /\ IF purchase[Key(r)].status = "absent"
       THEN /\ purchase' = [purchase EXCEPT ![Key(r)] = Workflow("begin", Caller(r), Sent(r))]
            /\ reply' = reply
       ELSE /\ reply' = [reply EXCEPT ![r] = Repeat(purchase[Key(r)])]
            /\ purchase' = purchase
    /\ UNCHANGED <<answer, orderVars, payment, moneyVars, failureVars>>

(* The read timeout of _RUN_TIMEOUT, or the connection dropping: the       *)
(* caller is told a fault while the workflow goes on.                      *)
CallerGivesUp(r) ==
    /\ call[r] = "open"
    /\ call'   = [call EXCEPT ![r] = "closed"]
    /\ answer' = [answer EXCEPT ![r] = Response("fault", NoName, 0)]
    /\ UNCHANGED <<reply, orderVars, payVars, moneyVars, failureVars>>

(* The status the engine gives a refusal. *)
StatusCode(response) ==
    CASE response.outcome \in {"already_invoked", "killed"} -> 409
      [] response.outcome = "foreign_order" -> 400
      [] response.outcome = "unreadable" -> 500
      [] OTHER -> 200

(* The one refusal a run dispatcher recognises, by status and wording. *)
RecognisedByStatus(response) == StatusCode(response) = 409
RecognisedRefusal(response) ==
    StatusCode(response) = 409 /\ response.outcome = "already_invoked"

(* What a door says of a reply: the dispatcher, the service's match and  *)
(* the handler's.  Every refusal but the recognised one is a fault.        *)
Situation(response) ==
    IF RecognisedRefusal(response) THEN Response("OrderAlreadyStarted", NoName, 0)
    ELSE IF StatusCode(response) # 200 THEN Response("fault", NoName, 0)
    ELSE CASE response.outcome = "PRODUCT_PRICE_NOT_FOUND" -> Response("ProductPriceNotFound", NoName, 0)
           [] response.outcome = "ORDER_NOT_CONFIRMED" -> Response("OrderNotConfirmed", NoName, 0)
           [] response.outcome = "PAYMENT_DECLINED" -> Response("PaymentDeclined", NoName, 0)
           [] OTHER -> response

AnswerCaller(r) ==
    /\ call[r] = "open" /\ reply[r] # None
    /\ call'   = [call EXCEPT ![r] = "closed"]
    /\ answer' = [answer EXCEPT ![r] = IF Op(r) \in Doors THEN Situation(reply[r]) ELSE reply[r]]
    /\ UNCHANGED <<reply, orderVars, payVars, moneyVars, failureVars>>

-------------------------------------------------------------------------------
(* What the engine does with a workflow that ended: it answers the call at *)
(* the ingress that waits, or resumes the parent that waits.               *)

ReplyToNobody(caller, response) == reply
ReplyAfter(caller, response) ==
    IF caller[1] = "request" THEN [reply EXCEPT ![caller[2]] = response] ELSE reply

ParentLeftWaiting(caller, response) == purchase
ParentMisplaced(caller, response) ==
    IF caller[1] = "purchase" THEN [purchase EXCEPT ![caller[2]] = At(@, "priced")] ELSE purchase
ParentAfter(caller, response) ==
    IF caller[1] = "purchase" /\ purchase[caller[2]].status = "confirming"
    THEN [purchase EXCEPT ![caller[2]] = Confirmed(@, response)]
    ELSE purchase

(* An attempt was lost: the next one starts at `again', unless the retry   *)
(* policy is exhausted and the invocation is paused.                       *)
RetriedTooFew(invocation, again) ==
    [invocation EXCEPT !.attempts = @ + 1,
                       !.status = IF invocation.attempts + 2 >= MaxAttempts
                                  THEN "paused" ELSE again]
Retried(invocation, again) ==
    [invocation EXCEPT !.attempts = @ + 1,
                       !.status = IF invocation.attempts + 1 >= MaxAttempts
                                  THEN "paused" ELSE again]

-------------------------------------------------------------------------------
(* OrderOrchestrator/confirm_order, the workflow under key k.              *)

(* The workflow ends with a response or a terminal error. *)
EndOrder(k, status, response) ==
    /\ order'    = [order EXCEPT ![k] = Finished(@, status, response)]
    /\ reply'    = ReplyAfter(order[k].caller, response)
    /\ purchase' = ParentAfter(order[k].caller, response)
    /\ UNCHANGED <<call, answer, pricing, payment, moneyVars, failureVars>>

(* The order the body names is the one the workflow is keyed by. *)
AnyOrder(k, input) == TRUE
OwnOrder(k, input) == input.order_id = k

(* The input serde cannot rebuild the order: the SDK ends the call with a  *)
(* terminal 500.                                                           *)
UnreadableOrder(k) ==
    /\ order[k].status = "begin" /\ ~OrderAccepted(order[k].input)
    /\ EndOrder(k, "failed", Unreadable)

(* The body names another order than the key the workflow runs under. *)
RefuseForeignOrder(k) ==
    /\ order[k].status = "begin" /\ OrderAccepted(order[k].input)
    /\ ~OwnOrder(k, order[k].input)
    /\ EndOrder(k, "failed", ForeignOrder)

(* OrderOrchestrator.confirm_order up to its first await: run_price_product. *)
RunPriceProduct(k) ==
    /\ order[k].status = "begin" /\ OrderAccepted(order[k].input)
    /\ OwnOrder(k, order[k].input)
    /\ order'   = [order EXCEPT ![k] = At(@, "pricing")]
    /\ pricing' = [pricing EXCEPT ![k] = Action("called", 0, order[k].input)]
    /\ UNCHANGED <<doorVars, payVars, moneyVars, failureVars>>

(* OrderActions.price_product over the catalog. *)
PriceFor(sku) ==
    IF Priced(sku) THEN Response("PRICED", NoName, Catalog[sku])
    ELSE Response("PRICE_NOT_FOUND", NoName, 0)

PriceProduct(k) ==
    /\ pricing[k].status = "called"
    /\ pricing' = [pricing EXCEPT ![k] = Answered(@, PriceFor(pricing[k].input.sku))]
    /\ UNCHANGED <<doorVars, order, payVars, moneyVars, failureVars>>

(* The engine records the action's result and hands it to the workflow. *)
JournalPrice(k) ==
    /\ pricing[k].status = "answered"
    /\ pricing' = [pricing EXCEPT ![k] = At(@, "journaled")]
    /\ order' = IF order[k].status = "pricing"
                THEN [order EXCEPT ![k] = Acted(@, "priced", pricing[k].response)]
                ELSE order
    /\ UNCHANGED <<doorVars, payVars, moneyVars, failureVars>>

ConfirmOrder(k) ==
    /\ order[k].status = "priced" /\ order[k].acted.outcome = "PRICED"
    /\ TotalAccepted(order[k].input, order[k].acted.cents)
    /\ EndOrder(k, "completed",
                Response("CONFIRMED", order[k].input.order_id,
                         Total(order[k].input, order[k].acted.cents)))

PriceNotFound(k) ==
    /\ order[k].status = "priced" /\ order[k].acted.outcome = "PRICE_NOT_FOUND"
    /\ EndOrder(k, "completed",
                Response("PRODUCT_PRICE_NOT_FOUND", order[k].input.order_id, 0))

(* Order.total raises past the bound: not terminal, so every attempt       *)
(* raises alike until the retry policy pauses the workflow.                *)
TotalRaises(k) ==
    /\ order[k].status = "priced" /\ order[k].acted.outcome = "PRICED"
    /\ ~TotalAccepted(order[k].input, order[k].acted.cents)
    /\ order' = [order EXCEPT ![k] = Retried(@, "priced")]
    /\ UNCHANGED <<doorVars, pricing, payVars, moneyVars, failureVars>>

(* The action ended terminally, so its workflow does, with its error. *)
OrderActionFails(k) ==
    /\ order[k].status = "priced" /\ StatusCode(order[k].acted) # 200
    /\ EndOrder(k, "failed", order[k].acted)

-------------------------------------------------------------------------------
(* PurchaseOrchestrator/pay_for_order, the workflow under key k.           *)

EndPurchase(k, status, response) ==
    /\ purchase' = [purchase EXCEPT ![k] = Finished(@, status, response)]
    /\ reply'    = ReplyAfter(purchase[k].caller, response)
    /\ UNCHANGED <<call, answer, orderVars, payment, moneyVars, failureVars>>

PurchaseReadable(input) == OrderAccepted(input) /\ MethodAccepted(input.method)

UnreadablePurchase(k) ==
    /\ purchase[k].status = "begin" /\ ~PurchaseReadable(purchase[k].input)
    /\ EndPurchase(k, "failed", Unreadable)

RefuseForeignPurchase(k) ==
    /\ purchase[k].status = "begin" /\ PurchaseReadable(purchase[k].input)
    /\ ~OwnOrder(k, purchase[k].input)
    /\ EndPurchase(k, "failed", ForeignOrder)

(* run_confirm_order from inside the invocation: a child workflow under    *)
(* the order's own id, never attached to one that was invoked before.      *)
RunChildOrder(k) ==
    LET child == purchase[k].input.order_id IN
    /\ purchase[k].status = "begin" /\ PurchaseReadable(purchase[k].input)
    /\ OwnOrder(k, purchase[k].input)
    /\ IF order[child].status = "absent"
       THEN /\ order' = [order EXCEPT ![child] =
                            Workflow("begin", ParentWorkflow(k), purchase[k].input)]
            /\ purchase' = [purchase EXCEPT ![k] = At(@, "confirming")]
       ELSE /\ purchase' = [purchase EXCEPT ![k] = Confirmed(@, Repeat(order[child]))]
            /\ order' = order
    /\ UNCHANGED <<doorVars, pricing, payment, moneyVars, failureVars>>

(* The child has no total for this purchase: it found no price, or the     *)
(* child dispatcher read the refusal as ALREADY_STARTED.                   *)
OrderNotConfirmed(k) ==
    /\ purchase[k].status = "confirmed"
    /\ \/ purchase[k].confirmed.outcome = "PRODUCT_PRICE_NOT_FOUND"
       \/ RecognisedRefusal(purchase[k].confirmed)
    /\ EndPurchase(k, "completed", Response("ORDER_NOT_CONFIRMED", purchase[k].input.order_id, 0))

(* Any other terminal error of the child is the purchase's own. *)
ChildOrderFails(k) ==
    /\ purchase[k].status = "confirmed"
    /\ StatusCode(purchase[k].confirmed) # 200 /\ ~RecognisedRefusal(purchase[k].confirmed)
    /\ EndPurchase(k, "failed", purchase[k].confirmed)

(* The Purchase is built on the child's total, then run_take_payment.  A   *)
(* pricing of another order raises, which the engine retries.              *)
RunTakePayment(k) ==
    LET input == purchase[k].input
        child == purchase[k].confirmed
    IN  /\ purchase[k].status = "confirmed" /\ child.outcome = "CONFIRMED"
        /\ IF PurchaseAccepted(input.order_id, child.order_id, child.cents)
           THEN /\ purchase' = [purchase EXCEPT ![k] = At(@, "paying")]
                /\ payment'  = [payment EXCEPT ![k] = Action("called", child.cents, input)]
           ELSE /\ purchase' = [purchase EXCEPT ![k] = Retried(@, "confirmed")]
                /\ payment'  = payment
        /\ UNCHANGED <<doorVars, orderVars, moneyVars, failureVars>>

(* MemoryPaymentProcessor holds a receipt for the order. *)
NeverHeld(o) == FALSE
Held(o) == receipts[o] # NoReceipt

(* It refuses the method "declined", but the receipt wins over the refusal. *)
DeclinesRepeats(action) ==
    Held(action.input.order_id) \/ action.input.method = DeclinedPaymentMethod
Declines(action) ==
    ~Held(action.input.order_id) /\ action.input.method = DeclinedPaymentMethod

(* setdefault: the receipt held, or a new one for what is asked. *)
ReceiptSummed(action) ==
    IF Held(action.input.order_id) THEN receipts[action.input.order_id] + action.cents
    ELSE action.cents
ReceiptFor(action) ==
    IF Held(action.input.order_id) THEN receipts[action.input.order_id] ELSE action.cents

(* Whether an action takes money. *)
ChargesFirst(action) == ~Held(action.input.order_id)
Charges(action) == ~Held(action.input.order_id) /\ ~Declines(action)

(* PurchaseActions.take_payment, one synchronous run of the processor's    *)
(* charge_payment_method.                                                  *)
ChargePaymentMethod(k) ==
    LET o == payment[k].input.order_id
        declined == Declines(payment[k])
    IN  /\ payment[k].status = "called"
        /\ payment' = [payment EXCEPT ![k] =
                Answered(@, IF declined THEN Response("DECLINED", o, 0)
                            ELSE Response("TAKEN", o, ReceiptFor(payment[k])))]
        /\ receipts' = IF declined THEN receipts
                       ELSE [receipts EXCEPT ![o] = ReceiptFor(payment[k])]
        /\ charges'  = IF Charges(payment[k])
                       THEN [charges EXCEPT ![o] = Append(@, payment[k].cents)]
                       ELSE charges
        /\ UNCHANGED <<doorVars, orderVars, purchase, failureVars>>

(* The engine records what the payment action answered. *)
JournalPayment(k) ==
    /\ payment[k].status = "answered"
    /\ payment' = [payment EXCEPT ![k] = At(@, "journaled")]
    /\ purchase' = IF purchase[k].status = "paying"
                   THEN [purchase EXCEPT ![k] = Acted(@, "paid", payment[k].response)]
                   ELSE purchase
    /\ UNCHANGED <<doorVars, orderVars, moneyVars, failureVars>>

(* Purchase.paid accepts the receipt and the workflow answers PAID; a      *)
(* receipt for another order or amount raises, which the engine retries.   *)
SettlePurchase(k) ==
    LET input == purchase[k].input
        total == purchase[k].confirmed.cents
        taken == purchase[k].acted
    IN  /\ purchase[k].status = "paid" /\ taken.outcome = "TAKEN"
        /\ IF PaymentSettles(input.order_id, total, taken.order_id, taken.cents)
           THEN EndPurchase(k, "completed", Response("PAID", input.order_id, total))
           ELSE /\ purchase' = [purchase EXCEPT ![k] = Retried(@, "paid")]
                /\ UNCHANGED <<doorVars, orderVars, payment, moneyVars, failureVars>>

PaymentDeclined(k) ==
    /\ purchase[k].status = "paid" /\ purchase[k].acted.outcome = "DECLINED"
    /\ EndPurchase(k, "completed", Response("PAYMENT_DECLINED", purchase[k].input.order_id, 0))

PaymentActionFails(k) ==
    /\ purchase[k].status = "paid" /\ StatusCode(purchase[k].acted) # 200
    /\ EndPurchase(k, "failed", purchase[k].acted)

-------------------------------------------------------------------------------
(* Failures.                                                               *)

Ended == {"completed", "failed"}

(* The statuses at which an attempt of a workflow has work of its own to   *)
(* do; in the others it is suspended on a call it made.                    *)
OrderWorking    == {"begin", "priced"}
PurchaseWorking == {"begin", "confirmed", "paid"}

(* The connection to the endpoint drops while a workflow is replaying.     *)
LoseWorkflowAttempt(k) ==
    /\ drops < MaxDrops /\ drops' = drops + 1
    /\ \/ /\ order[k].status \in OrderWorking
          /\ order' = [order EXCEPT ![k] = Retried(@, order[k].status)]
          /\ purchase' = purchase
       \/ /\ purchase[k].status \in PurchaseWorking
          /\ purchase' = [purchase EXCEPT ![k] = Retried(@, purchase[k].status)]
          /\ order' = order
    /\ UNCHANGED <<doorVars, pricing, payment, moneyVars, restarts, kills>>

(* The connection drops before the engine has recorded what the action     *)
(* answered: the action runs again, charge and all.                        *)
LosePriceAttempt(k) ==
    /\ drops < MaxDrops /\ drops' = drops + 1
    /\ pricing[k].status \in {"called", "answered"}
    /\ pricing' = [pricing EXCEPT ![k] = Retried(@, "called")]
    /\ UNCHANGED <<doorVars, order, payVars, moneyVars, restarts, kills>>

LosePaymentAttempt(k) ==
    /\ drops < MaxDrops /\ drops' = drops + 1
    /\ payment[k].status \in {"called", "answered"}
    /\ payment' = [payment EXCEPT ![k] = Retried(@, "called")]
    /\ UNCHANGED <<doorVars, orderVars, purchase, moneyVars, restarts, kills>>

(* The host restarts: the processor's receipts were in its memory, what    *)
(* its actions answered and the engine had not recorded is lost, and so    *)
(* are the connections its doors held.                                     *)
Restart ==
    LET unrecorded(action) == IF action.status = "answered" THEN Retried(action, "called")
                              ELSE action
        cut == {r \in Requests : call[r] = "open" /\ Op(r) \in Doors}
    IN  /\ restarts < MaxRestarts /\ restarts' = restarts + 1
        /\ receipts' = [o \in OrderIds |-> NoReceipt]
        /\ pricing'  = [k \in OrderIds |-> unrecorded(pricing[k])]
        /\ payment'  = [k \in OrderIds |-> unrecorded(payment[k])]
        /\ call'     = [r \in Requests |-> IF r \in cut THEN "closed" ELSE call[r]]
        /\ answer'   = [r \in Requests |-> IF r \in cut THEN Response("fault", NoName, 0)
                                          ELSE answer[r]]
        /\ UNCHANGED <<reply, order, purchase, charges, drops, kills>>

(* An operator kills a workflow: it fails with the engine's 409 and its    *)
(* caller is told.  What it had called may still be running at the host.   *)
KillOrder(k) ==
    /\ kills < MaxKills /\ kills' = kills + 1
    /\ order[k].status \notin Ended \cup {"absent"}
    /\ order'    = [order EXCEPT ![k] = Finished(@, "failed", Killed)]
    /\ reply'    = ReplyAfter(order[k].caller, Killed)
    /\ purchase' = ParentAfter(order[k].caller, Killed)
    /\ UNCHANGED <<call, answer, pricing, payment, moneyVars, drops, restarts>>

KillPurchase(k) ==
    /\ kills < MaxKills /\ kills' = kills + 1
    /\ purchase[k].status \notin Ended \cup {"absent"}
    /\ purchase' = [purchase EXCEPT ![k] = Finished(@, "failed", Killed)]
    /\ reply'    = ReplyAfter(purchase[k].caller, Killed)
    /\ UNCHANGED <<call, answer, orderVars, payment, moneyVars, drops, restarts>>

(* An operator kills an action: its workflow resumes with the 409, and the *)
(* attempt the host may be running is not interrupted.                     *)
KillAction(k) ==
    /\ kills < MaxKills /\ kills' = kills + 1
    /\ \/ /\ order[k].status = "pricing"
          /\ order' = [order EXCEPT ![k] = Acted(@, "priced", Killed)]
          /\ purchase' = purchase
       \/ /\ purchase[k].status = "paying"
          /\ purchase' = [purchase EXCEPT ![k] = Acted(@, "paid", Killed)]
          /\ order' = order
    /\ UNCHANGED <<doorVars, pricing, payment, moneyVars, drops, restarts>>

-------------------------------------------------------------------------------
DoorStep(r) ==
    \/ RejectOrder(r) \/ IngressUnreachable(r) \/ StartConfirmOrder(r)
    \/ RunConfirmOrder(r) \/ RunPayForOrder(r) \/ CallerGivesUp(r) \/ AnswerCaller(r)

OrderStep(k) ==
    \/ UnreadableOrder(k) \/ RefuseForeignOrder(k) \/ RunPriceProduct(k)
    \/ ConfirmOrder(k) \/ PriceNotFound(k) \/ TotalRaises(k) \/ OrderActionFails(k)

PricingStep(k) == PriceProduct(k) \/ JournalPrice(k)

PurchaseStep(k) ==
    \/ UnreadablePurchase(k) \/ RefuseForeignPurchase(k) \/ RunChildOrder(k)
    \/ OrderNotConfirmed(k) \/ ChildOrderFails(k) \/ RunTakePayment(k)
    \/ SettlePurchase(k) \/ PaymentDeclined(k) \/ PaymentActionFails(k)

PaymentStep(k) == ChargePaymentMethod(k) \/ JournalPayment(k)

Failure(k) ==
    \/ LoseWorkflowAttempt(k) \/ LosePriceAttempt(k) \/ LosePaymentAttempt(k)
    \/ KillOrder(k) \/ KillPurchase(k) \/ KillAction(k)

Next ==
    \/ \E r \in Requests : DoorStep(r)
    \/ \E k \in OrderIds : \/ OrderStep(k) \/ PricingStep(k)
                           \/ PurchaseStep(k) \/ PaymentStep(k) \/ Failure(k)
    \/ Restart

Spec == Init /\ [][Next]_vars

(* The engine keeps delivering what it has journaled, and keeps retrying;  *)
(* nothing obliges a caller to call or to wait, or anything to fail.       *)
FairSpec ==
    /\ Spec
    /\ \A r \in Requests : WF_vars(AnswerCaller(r))
    /\ \A k \in OrderIds :
          /\ WF_vars(OrderStep(k)) /\ WF_vars(PricingStep(k))
          /\ WF_vars(PurchaseStep(k)) /\ WF_vars(PaymentStep(k))

-------------------------------------------------------------------------------
(* What it should mean.                                                    *)

Inputs     == {Sent(r) : r \in Requests} \cup {NoOrder}
OrderNames == {input.order_id : input \in Inputs} \cup OrderIds \cup {NoName}
Outcomes   ==
    {"none", "already_invoked", "killed", "foreign_order", "unreadable",
     "STARTED", "PRICED", "PRICE_NOT_FOUND", "CONFIRMED", "PRODUCT_PRICE_NOT_FOUND",
     "ORDER_NOT_CONFIRMED", "TAKEN", "DECLINED", "PAID", "PAYMENT_DECLINED",
     "OrderRejected", "OrderAlreadyStarted", "ProductPriceNotFound",
     "OrderNotConfirmed", "PaymentDeclined", "fault"}
Responses  == [outcome : Outcomes, order_id : OrderNames, cents : Int]
Callers    == {Nobody} \cup {Caller(r) : r \in Requests} \cup {ParentWorkflow(k) : k \in OrderIds}

OrderStatuses    == {"absent", "begin", "pricing", "priced", "paused"} \cup Ended
PurchaseStatuses == {"absent", "begin", "confirming", "confirmed", "paying", "paid", "paused"}
                        \cup Ended
ActionStatuses   == {"absent", "called", "answered", "journaled", "paused"}

Workflows(statuses) ==
    [status : statuses, caller : Callers, input : Inputs, attempts : Nat,
     confirmed : Responses, acted : Responses, result : Responses]
Actions ==
    [status : ActionStatuses, cents : Nat, input : Inputs, attempts : Nat,
     response : Responses]

(* Every variable holds a state the code can put it in. *)
TypeOK ==
    /\ call \in [Requests -> {"new", "open", "closed"}]
    /\ reply \in [Requests -> Responses] /\ answer \in [Requests -> Responses]
    /\ order \in [OrderIds -> Workflows(OrderStatuses)]
    /\ purchase \in [OrderIds -> Workflows(PurchaseStatuses)]
    /\ pricing \in [OrderIds -> Actions] /\ payment \in [OrderIds -> Actions]
    /\ receipts \in [OrderIds -> Nat \cup {NoReceipt}]
    /\ charges \in [OrderIds -> Seq(Nat)]
    /\ drops \in 0..MaxDrops /\ restarts \in 0..MaxRestarts /\ kills \in 0..MaxKills

(* Keys are shared and chosen by callers, and the ingress routes take a    *)
(* key beside the body: past its first step a purchase runs under the key  *)
(* of its own order, and so does the payment it asks for.                  *)
KeyedByOwnOrder ==
    \A k \in OrderIds :
        /\ purchase[k].status \in {"confirming", "confirmed", "paying", "paid"} =>
               purchase[k].input.order_id = k
        /\ payment[k].status # "absent" => payment[k].input.order_id = k

(* However often the engine runs take_payment again, an order is charged   *)
(* once for each life of the processor's memory: the receipt held for the  *)
(* order is what stops the second charge, and only a restart loses it.     *)
ChargedOnce ==
    \A o \in OrderIds :
        Len(charges[o]) <= restarts + (IF receipts[o] = NoReceipt THEN 0 ELSE 1)

(* An order is charged only what its own purchase owes: its child order    *)
(* was confirmed for that purchase and not for an earlier placed order, at *)
(* the catalog's price of what the purchase asked for.                     *)
EveryChargeIsEarned ==
    \A o \in OrderIds : \A i \in 1..Len(charges[o]) :
        LET bought == purchase[o].input IN
        /\ bought.order_id = o /\ bought.method # DeclinedPaymentMethod
        /\ Priced(bought.sku)
        /\ charges[o][i] = Total(bought, Catalog[bought.sku])
        /\ order[o].status = "completed" /\ order[o].caller = ParentWorkflow(o)
        /\ order[o].result = Response("CONFIRMED", o, charges[o][i])

(* A caller that is told a total is told the total of the order it sent,   *)
(* under the key it called, though keys are shared by every caller and     *)
(* every door; and a caller told PAID was charged exactly that.            *)
AnswersAreTheCallersOwn ==
    \A r \in Requests : answer[r].outcome \in {"CONFIRMED", "PAID"} =>
        /\ answer[r].order_id = Sent(r).order_id /\ answer[r].order_id = Key(r)
        /\ Priced(Sent(r).sku)
        /\ answer[r].cents = Total(Sent(r), Catalog[Sent(r).sku])
        /\ answer[r].outcome = "PAID" =>
               \E i \in 1..Len(charges[Key(r)]) : charges[Key(r)][i] = answer[r].cents

(* Purchase.paid never meets the receipt of another order or amount, even  *)
(* after lost attempts and a restart: payment_mismatch and                 *)
(* payment_for_another_order, which would leave the money taken and the    *)
(* invocation paused, need a processor that answers for another purchase.  *)
NoPaymentMismatch ==
    \A k \in OrderIds :
        purchase[k].status = "paid" /\ purchase[k].acted.outcome = "TAKEN" =>
            PaymentSettles(purchase[k].input.order_id, purchase[k].confirmed.cents,
                           purchase[k].acted.order_id, purchase[k].acted.cents)

(* A door answers OrderAlreadyStarted only to a caller whose key another   *)
(* call took first: never for the 409 of a killed workflow, and never for  *)
(* a workflow the caller itself started.                                   *)
AlreadyStartedIsHonest ==
    \A r \in Requests : answer[r].outcome = "OrderAlreadyStarted" =>
        LET taken == IF Op(r) = "make_order_payment" THEN purchase[Key(r)] ELSE order[Key(r)]
        IN  taken.status # "absent" /\ taken.caller # Caller(r)

(* A purchase that ends PAYMENT_DECLINED took no money, though the action  *)
(* that declined it may have run several times.                            *)
DeclinedNeverCharged ==
    \A k \in OrderIds : purchase[k].result.outcome = "PAYMENT_DECLINED" => charges[k] = <<>>

(* Of all the calls that name one order, through every door and route, at  *)
(* most one is told it succeeded: placed and paid exclude each other.      *)
OneWinner ==
    \A r, s \in Requests :
        /\ answer[r].outcome \in {"CONFIRMED", "PAID"}
        /\ answer[s].outcome \in {"CONFIRMED", "PAID"}
        /\ answer[r].order_id = answer[s].order_id
        => r = s

(* Every workflow the engine accepts ends, when its total is within bounds *)
(* and fewer attempts are lost than the retry policy allows.               *)
WorkflowsEnd ==
    \A k \in OrderIds :
        /\ order[k].status # "absent" ~> order[k].status \in Ended
        /\ purchase[k].status # "absent" ~> purchase[k].status \in Ended

(* A customer who was charged has a purchase that ends PAID, whatever      *)
(* attempts and restarts were lost between the charge and its record.      *)
ChargedIsPaid ==
    \A k \in OrderIds : charges[k] # <<>> ~> purchase[k].result.outcome = "PAID"

(* Whatever is lost or killed, no workflow waits for ever on a call that   *)
(* has ended: it ends too, or it or what it waits for is paused.           *)
NothingHangs ==
    \A k \in OrderIds :
        LET orderPaused == "paused" \in {order[k].status, pricing[k].status} IN
        /\ order[k].status # "absent" ~> order[k].status \in Ended \/ orderPaused
        /\ purchase[k].status # "absent" ~>
               \/ purchase[k].status \in Ended \cup {"paused"}
               \/ purchase[k].status = "confirming" /\ orderPaused
               \/ purchase[k].status = "paying" /\ payment[k].status = "paused"

(* A caller that keeps waiting is answered, when nothing is paused. *)
WaitersAreAnswered ==
    \A r \in Requests : call[r] = "open" ~> call[r] = "closed"

-------------------------------------------------------------------------------
(* Each order id seen as OrderSettlement sees it.  A purchase refused      *)
(* because the order was already started is no act on the order.           *)
Act(k) ==
    IF order[k].status = "absent" THEN "none"
    ELSE IF order[k].caller = ParentWorkflow(k) THEN "pay" ELSE "confirm"

VerdictOf(workflow) ==
    CASE workflow.status \notin Ended -> "open"
      [] workflow.result.outcome = "CONFIRMED" -> "confirmed"
      [] workflow.result.outcome \in {"PRODUCT_PRICE_NOT_FOUND", "ORDER_NOT_CONFIRMED"} -> "unpriced"
      [] workflow.result.outcome = "PAID" -> "paid"
      [] workflow.result.outcome = "PAYMENT_DECLINED" -> "declined"
      [] OTHER -> "dead"

Verdict(k) ==
    CASE Act(k) = "none"    -> "open"
      [] Act(k) = "confirm" -> VerdictOf(order[k])
      [] Act(k) = "pay"     -> VerdictOf(purchase[k])

Settlement == INSTANCE OrderSettlement WITH
    act     <- [k \in OrderIds |-> Act(k)],
    taken   <- [k \in OrderIds |-> charges[k] # <<>>],
    verdict <- [k \in OrderIds |-> Verdict(k)]

(* The workflows, the engine's retries and the processor together keep     *)
(* the promise of OrderSettlement.                                         *)
KeepsSettlement == Settlement!Spec
===============================================================================
