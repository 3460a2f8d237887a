----------------------------- MODULE MCVoiceCall -----------------------------
(***************************************************************************)
(* Persons who say a name, something else first, punctuation or nothing.   *)
(* A behaviour is one of two evenings: how many calls are placed, how many *)
(* agent jobs LiveKit has for them and how much the network loses.         *)
(***************************************************************************)
EXTENDS VoiceCall, TLC

VARIABLE evening

MCNameOf ==
    [text \in Texts |-> CASE text = "Sarah." -> "Sarah" [] text = "Hello?" -> "Hello" [] OTHER -> ""]

Evening(placed, dispatched, lost, said) ==
    [calls |-> placed, jobs |-> dispatched, faults |-> lost, texts |-> said]

(* One call that is dialled up to three times, and two calls at once. *)
Retries == Evening(1, 3, MaxFaults, Texts)
TwoCalls == Evening(2, 2, 0, {"Sarah.", "?!"})

InEvening ==
    /\ Cardinality({c \in Calls : caller'[c] # "none"}) <= evening.calls
    /\ Cardinality({j \in Jobs : job'[j].at # "idle"}) <= evening.jobs
    /\ faults' <= evening.faults
    /\ \A m \in wire' : m.text \in evening.texts \cup {NoText}

EveningInit == Init /\ evening \in {Retries, TwoCalls}

EveningSpec == EveningInit /\ [][Next /\ InEvening /\ UNCHANGED evening]_<<vars, evening>>

Alike == Permutations(Jobs) \cup Permutations(Calls)
=============================================================================
