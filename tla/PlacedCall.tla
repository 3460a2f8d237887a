------------------------------ MODULE PlacedCall ------------------------------
(***************************************************************************)
(* What the voice example promises about one placed call, without rooms,   *)
(* agents or retries: at most one name is ever heard in it, the line drops *)
(* only after that, the name goes on record after the line dropped, and    *)
(* the caller of place_call is answered last.                              *)
(***************************************************************************)
CONSTANTS Calls, Names

VARIABLES
    stage,     \* [Calls -> "open" | "named" | "unnamed" | "dropped" | "recorded" | "answered"]
    name       \* [Calls -> the name heard, Nobody before]

placedCall == <<stage, name>>
Nobody == "nobody"

Init ==
    /\ stage = [c \in Calls |-> "open"]
    /\ name  = [c \in Calls |-> Nobody]

Move(c, from, to) == stage[c] = from /\ stage' = [stage EXCEPT ![c] = to]

(* The first turn that counts says a name, or only punctuation. *)
Hear(c) ==
    \/ Move(c, "open", "named") /\ \E n \in Names : name' = [name EXCEPT ![c] = n]
    \/ Move(c, "open", "unnamed") /\ UNCHANGED name
Drop(c)   == Move(c, "named", "dropped")     /\ UNCHANGED name
Record(c) == Move(c, "dropped", "recorded")  /\ UNCHANGED name
Answer(c) == Move(c, "recorded", "answered") /\ UNCHANGED name

Next == \E c \in Calls : Hear(c) \/ Drop(c) \/ Record(c) \/ Answer(c)
Spec == Init /\ [][Next]_placedCall
===============================================================================
