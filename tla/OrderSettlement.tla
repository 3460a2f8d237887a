---------------------------- MODULE OrderSettlement ----------------------------
(***************************************************************************)
(* What the ordering service promises about one order id, without the      *)
(* engine: the first workflow to run under the id decides the act it is    *)
(* for, at most one verdict is given and stands, money is taken only for   *)
(* the act of paying, never once an answer is out, and a paid or declined  *)
(* verdict says what happened to the money.                                *)
(***************************************************************************)
CONSTANT OrderIds

VARIABLES
    act,       \* [OrderIds -> "none" | "confirm" | "pay"]
    taken,     \* [OrderIds -> BOOLEAN], whether the customer was charged
    verdict    \* "open", "confirmed", "unpriced", "paid", "declined" or "dead"

settlement == <<act, taken, verdict>>

Init ==
    /\ act     = [o \in OrderIds |-> "none"]
    /\ taken   = [o \in OrderIds |-> FALSE]
    /\ verdict = [o \in OrderIds |-> "open"]

(* A workflow runs under the id for the first time. *)
Begin(o) ==
    /\ act[o] = "none"
    /\ \E a \in {"confirm", "pay"} : act' = [act EXCEPT ![o] = a]
    /\ UNCHANGED <<taken, verdict>>

(* Money is taken for a purchase in progress, or by what a killed one      *)
(* left running.                                                           *)
Take(o) ==
    /\ act[o] = "pay" /\ ~taken[o] /\ verdict[o] \in {"open", "dead"}
    /\ taken' = [taken EXCEPT ![o] = TRUE]
    /\ UNCHANGED <<act, verdict>>

Outcomes(a) == IF a = "pay" THEN {"unpriced", "paid", "declined", "dead"}
               ELSE {"confirmed", "unpriced", "dead"}

Settle(o) ==
    /\ act[o] # "none" /\ verdict[o] = "open"
    /\ \E v \in Outcomes(act[o]) :
          /\ v = "paid" => taken[o]
          /\ v \in {"declined", "unpriced"} => ~taken[o]
          /\ verdict' = [verdict EXCEPT ![o] = v]
    /\ UNCHANGED <<act, taken>>

Next == \E o \in OrderIds : Begin(o) \/ Take(o) \/ Settle(o)

Spec == Init /\ [][Next]_settlement
===============================================================================
