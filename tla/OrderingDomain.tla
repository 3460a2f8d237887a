---------------------------- MODULE OrderingDomain ----------------------------
(***************************************************************************)
(* The pure part of examples/durable-execution/ordering: what an order, a  *)
(* price and a purchase accept, and what the price list answers.  The      *)
(* bodies that callers send are given as a constant function, so a model   *)
(* lists the orders its callers send.                                      *)
(***************************************************************************)
EXTENDS Integers

CONSTANTS
    Requests,     \* the calls that callers make, each made at most once
    Body,         \* [Requests -> what the call carries], see BodyOf
    OrderIds,     \* the ids kernel.OrderId accepts
    Catalog,      \* [priced sku -> cents], MemoryProductCatalogRepository._prices
    MaxUnits,     \* _MAX_UNITS of kernel/price.py (1_000_000 in the code)
    MaxCents      \* _MAX_CENTS of kernel/price.py (10**12 in the code)

(* The three doors of the HTTP host, and the two workflow routes that the  *)
(* engine's public ingress offers beside them.                             *)
Doors  == {"submit_order", "place_order", "make_order_payment"}
Routes == {"confirm_order", "pay_for_order"}

(* An order as it travels: in the body of a call, in a workflow's input.   *)
Orders == [order_id : STRING, sku : STRING, quantity : Int, method : STRING]

(* A call: the door or route it is made on, the workflow key it addresses  *)
(* (a door takes it from the body) and the order it carries.               *)
BodyOf == [op : Doors \cup Routes, key : OrderIds, order : Orders]

ASSUME RequestsAssumption ==
    /\ Body \in [Requests -> BodyOf]
    /\ OrderIds \subseteq STRING
ASSUME PricesAssumption ==
    /\ \A sku \in DOMAIN Catalog : Catalog[sku] \in Nat
    /\ MaxUnits \in Nat
    /\ MaxCents \in Nat

DeclinedPaymentMethod == "declined"   \* _DECLINED_PAYMENT_METHOD

-------------------------------------------------------------------------------
(* domain.Order(OrderSpec(...)) succeeds: the id, sku and quantity guards. *)
OrderAccepted(order) ==
    /\ order.order_id \in OrderIds
    /\ order.sku # ""
    /\ order.quantity \in 1..MaxUnits

(* domain.PaymentMethod(value) succeeds. *)
MethodAccepted(method) == method # ""

(* kernel.Price(PriceSpec(cents)) succeeds. *)
PriceAccepted(cents) == cents \in 0..MaxCents

(* OrderActions.price_product finds a price for the sku. *)
Priced(sku) == sku \in DOMAIN Catalog

(* Order.total: the unit price over the quantity, before the bound. *)
Total(order, cents) == cents * order.quantity

(* Order.total returns rather than raising. *)
TotalAccepted(order, cents) ==
    PriceAccepted(cents) /\ PriceAccepted(Total(order, cents))

(* Purchase(PurchaseSpec(order_id, priced_order_id, total_cents)) succeeds. *)
PurchaseAccepted(order_id, priced_order_id, cents) ==
    priced_order_id = order_id /\ PriceAccepted(cents)

(* Purchase.paid(PaymentSpec) succeeds: the receipt names this order and   *)
(* the amount charged is the total.                                        *)
PaymentSettles(order_id, total, paid_order_id, cents) ==
    paid_order_id = order_id /\ cents = total
===============================================================================
