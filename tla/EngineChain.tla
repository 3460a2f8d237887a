---------------------------- MODULE EngineChain ----------------------------
(***************************************************************************)
(* The rules of the Python analyzer on the chain through a durable engine  *)
(* (src/tessercheck-py/tessercheck/domain/checks.py): a relay protocol, the*)
(* dispatcher that implements it, the handler an activity, a workflow or a *)
(* signal registers, and the container a component registers it in.  The   *)
(* ends meet by name at run time, and no type checker sees the names.      *)
(*                                                                         *)
(* The tree is one context: an orchestrator Order whose main is place and  *)
(* whose signal is paid, and the actions Payment.charge and Shipping.ship. *)
(* It starts in order, its authors edit it, and a tree the rules accept is *)
(* deployed and called.  The engine (routing by container and handler      *)
(* name, one value per promise) is external.                               *)
(***************************************************************************)
EXTENDS Naturals, SequencesExt

CONSTANTS
    MaxEdits,       \* edits from the tree in order
    OneClient,      \* authors give an activity one application client
    SetsFirst,      \* authors set the started state before they wait
    Obeys,          \* authors of a signal refuse when the state is not set
    EverySignal,    \* authors await only what a signal resolves
    RunsItsName,    \* authors name a workflow's handler for what it runs
    OneHome         \* authors carry an operation to one far side


VARIABLES
    tree,       \* the source tree
    edits,      \* edits made so far
    running,    \* it is deployed
    last,       \* the last call of a relay and what it did, if any
    main,       \* where the workflow's main is, on one key
    state,      \* workflow state set on the key
    promises,   \* promises resolved on the key
    signal      \* where the call of the signal is

vars == <<tree, edits, running, last, main, state, promises, signal>>

Registrations == {"Place", "Charge", "Ship", "Paid"}

Kind == [Place |-> "workflow", Charge |-> "activity", Ship |-> "activity",
         Paid |-> "signal"]

Activities == {"Charge", "Ship"}

Operations == {"place", "charge", "ship", "paid"}

Modes == {"start", "run", "await"}

Relays == {"main", "pay", "send", "wait"}

\* The actions that have a method.
Does == [charge |-> "Payment", ship |-> "Shipping"]

Clients == {"Payment", "Shipping"}

Sides == {"Order", "Payment", "Shipping"}

Method(verb, prefix, to) == [verb |-> verb, prefix |-> prefix, to |-> to]

\* A function with one more argument, or one that has another value there.
With(f, x, v) == [y \in DOMAIN f \cup {x} |-> IF y = x THEN v ELSE f[y]]

Without(f, x) == [y \in DOMAIN f \ {x} |-> f[y]]

Only(x, v) == [y \in {x} |-> v]

\* The tree in order.
Sound ==
    LET own == [Place |-> "place", Charge |-> "charge", Ship |-> "ship", Paid |-> "paid"]
    IN  [handler |-> own, registered |-> own,
         takes |-> [Charge |-> {"Payment"}, Ship |-> {"Shipping"}],
         calls |-> [Charge |-> "charge", Ship |-> "ship", Place |-> "place"],
         container |-> [Place |-> "orders", Paid |-> "orders",
                        Charge |-> "payments", Ship |-> "shipments"],
         named |-> [orders |-> "Order", spare |-> "Ledger",
                    payments |-> "Payment", shipments |-> "Shipping"],
         relay |-> [main |-> <<"Order", FALSE>>, pay |-> <<"Payment", FALSE>>,
                    send |-> <<"Shipping", FALSE>>, wait |-> <<"Order", TRUE>>],
         carries |-> [main |-> {<<"start", "place">>, <<"run", "paid">>},
                      pay |-> {<<"run", "charge">>}, send |-> {<<"start", "ship">>},
                      wait |-> {<<"await", "paid">>}],
         methods |-> [main |-> With(Only(<<"start", "place">>, Method("send", "workflow", "Place")),
                                    <<"run", "paid">>, Method("call", "workflow", "Paid")),
                      pay |-> Only(<<"run", "charge">>, Method("call", "service", "Charge")),
                      send |-> Only(<<"start", "ship">>, Method("send", "service", "Ship")),
                      wait |-> Only(<<"await", "paid">>, Method("promise", "", "PAID"))],
         constants |-> [PLACE |-> <<"place">>, PAID |-> <<"paid">>],
         sets |-> "PLACE", setsFirst |-> TRUE,
         reads |-> "PLACE", readsFirst |-> TRUE, obeys |-> TRUE, resolves |-> "PAID"]

-----------------------------------------------------------------------------
(* What the analyzer derives from a tree.                                  *)

Sorted == [charge |-> 1, paid |-> 2, place |-> 3, ship |-> 4]

\* Of a relays constant assigned more than once the analyzer reads the value
\* that sorts first; Python keeps the one assigned last.
Read(t, c) ==
    IF c \notin DOMAIN t.constants THEN "unread"
    ELSE CHOOSE v \in Range(t.constants[c]) :
            \A w \in Range(t.constants[c]) : Sorted[v] <= Sorted[w]

Kept(t, c) == IF c \in DOMAIN t.constants THEN Last(t.constants[c]) ELSE "none"

Handed(t, attr) == {r \in Registrations : t.container[r] = attr}

\* The far side of a registration: of an activity, the home of the one
\* application client it takes; of a workflow, the orchestrator it builds; of
\* a signal, the workflow's in its container.
FarSide(t, r) ==
    CASE Kind[r] = "activity" ->
            IF Cardinality(t.takes[r]) = 1 THEN CHOOSE s \in t.takes[r] : TRUE ELSE "unread"
      [] Kind[r] = "workflow" -> "Order"
      [] Kind[r] = "signal" ->
            IF "Place" \in Handed(t, t.container[r]) THEN "Order" ELSE "unread"

\* The methods of the dispatchers: which relay, mode and operation, and how.
Methods(t) ==
    UNION {{[relay |-> k, mode |-> p[1], op |-> p[2], by |-> t.methods[k][p]] :
               p \in DOMAIN t.methods[k]} : k \in Relays}

Calls(t) == {m \in Methods(t) : m.mode # "await"}

Dispatched(t) == {m.by.to : m \in Calls(t)}

\* The far side of an operation, where all its dispatchers agree on one.
SideOf(t, op) ==
    LET sides == {FarSide(t, m.by.to) : m \in {c \in Calls(t) : c.op = op}} \ {"unread"}
    IN  IF Cardinality(sides) = 1 THEN sides ELSE {}

-----------------------------------------------------------------------------
(* The rules.                                                              *)

ConstantsAssignedOnce(t) == \A c \in DOMAIN t.constants : Len(t.constants[c]) = 1

\* No two relays carry one operation in one mode, and what the orchestrator
\* does no actions do.
OperationsUnique(t) ==
    /\ \A k, j \in Relays : k # j => t.carries[k] \cap t.carries[j] = {}
    /\ t.calls["Place"] \notin DOMAIN Does

\* A mutant: the far side a relay is named for is not looked up.
SignalFormOnly(t) ==
    \A k \in Relays :
        {p \in t.carries[k] : (p[1] = "await") # t.relay[k][2]} = {}

\* Signal relays carry await_ and no other relay does; a relay is named for
\* the one far side its operations reach.
RelayNamed(t) ==
    \A k \in Relays :
        LET sides == UNION {SideOf(t, p[2]) : p \in t.carries[k]}
        IN  /\ \A p \in t.carries[k] : (p[1] = "await") = t.relay[k][2]
            /\ Cardinality(sides) <= 1
            /\ sides \subseteq {t.relay[k][1]}

MirrorsItsRelay(t) == \A k \in Relays : DOMAIN t.methods[k] = t.carries[k]

Verb(mode) == CASE mode = "run" -> "call" [] mode = "start" -> "send" [] mode = "await" -> "promise"

Prefix(r) == IF Kind[r] = "activity" THEN "service" ELSE "workflow"

\* A dispatcher method passes the handler named for its operation, in its
\* mode and by its kind; an await_ method reads the promise of that name.
PassesItsHandler(t) ==
    \A m \in Methods(t) :
        /\ m.by.verb = Verb(m.mode)
        /\ IF m.mode = "await"
             THEN Read(t, m.by.to) = m.op
             ELSE /\ m.by.prefix = Prefix(m.by.to)
                  /\ t.registered[m.by.to] \in {m.op, "unread"}

RegistersItsHandler(t) ==
    \A r \in Registrations : r \in Dispatched(t) /\ t.registered[r] = t.handler[r]

PerformsItsOperation(t) == \A r \in Activities : t.calls[r] = t.handler[r]

\* Mutants: the main may set any state; a signal may read it late, or resolve
\* any promise.
SetsAnyState(t) ==
    LET signals == "Paid" \in Handed(t, t.container["Place"])
    IN  /\ t.sets # "none" => Read(t, t.sets) # "unread"
        /\ signals => t.sets # "none"

ReadsAndResolves(t) ==
    /\ t.reads # "none"
    /\ FarSide(t, "Paid") # "unread" => Read(t, t.reads) = t.registered["Place"]
    /\ Read(t, t.resolves) = t.handler["Paid"]

\* The main sets only the state named for itself, and sets it when its
\* container has a signal.
SetsItsState(t) ==
    LET signals == "Paid" \in Handed(t, t.container["Place"])
    IN  /\ t.sets # "none" => Read(t, t.sets) = t.handler["Place"]
        /\ signals => t.sets # "none"

ReadsThenResolvesAny(t) ==
    /\ t.reads # "none"
    /\ FarSide(t, "Paid") # "unread" => Read(t, t.reads) = t.registered["Place"]
    /\ t.readsFirst
    /\ t.resolves # "none"

\* A signal reads that state, and only then resolves the promise of its name.
ReadsThenResolves(t) ==
    /\ t.reads # "none"
    /\ FarSide(t, "Paid") # "unread" => Read(t, t.reads) = t.registered["Place"]
    /\ t.readsFirst
    /\ Read(t, t.resolves) = t.handler["Paid"]

\* A mutant: a container may hold two handlers of one name.
ContainersByFarSide(t) ==
    \A r \in Registrations :
        IF Kind[r] = "signal"
          THEN "Place" \in Handed(t, t.container[r])
          ELSE FarSide(t, r) \in {"unread", t.named[t.container[r]]}

\* Handler names are unique in a container, a container is named for the far
\* side of what registers in it, and a signal's holds the workflow.
ContainersNamed(t) ==
    /\ \A r, q \in Registrations :
          r # q /\ t.container[r] = t.container[q] => t.registered[r] # t.registered[q]
    /\ \A r \in Registrations :
          IF Kind[r] = "signal"
            THEN "Place" \in Handed(t, t.container[r])
            ELSE FarSide(t, r) \in {"unread", t.named[t.container[r]]}

Accepted(t) ==
    /\ ConstantsAssignedOnce(t)
    /\ OperationsUnique(t)
    /\ RelayNamed(t)
    /\ MirrorsItsRelay(t)
    /\ PassesItsHandler(t)
    /\ RegistersItsHandler(t)
    /\ PerformsItsOperation(t)
    /\ SetsItsState(t)
    /\ ReadsThenResolves(t)
    /\ ContainersNamed(t)

\* What the type checker sees to: an activity calls a method of a client it
\* takes.  What the authors see to and no rule asks: the rest.
Assured(t) ==
    /\ \A a \in Activities : t.calls[a] \in DOMAIN Does /\ Does[t.calls[a]] \in t.takes[a]
    /\ OneClient => \A r \in Activities : Cardinality(t.takes[r]) = 1
    /\ SetsFirst => t.setsFirst
    /\ Obeys => t.obeys
    /\ EverySignal =>
          \A k \in Relays : \A p \in t.carries[k] : p[1] = "await" => p[2] = t.handler["Paid"]
    /\ RunsItsName => t.calls["Place"] = t.handler["Place"]
    /\ OneHome => \A m, n \in Calls(t) : m.op = n.op => FarSide(t, m.by.to) = FarSide(t, n.by.to)

-----------------------------------------------------------------------------
(* Edits.  The engine refuses two containers of one name, and Python gives *)
(* a registration its function's name unless it says another.              *)

Attrs(r) == IF Kind[r] = "activity" THEN {"payments", "shipments"} ELSE {"orders", "spare"}

\* Another name of a handler or of its registration, one activity in the place
\* of another, other clients, another call in a handler.
EditRegistration ==
    \/ \E r \in Registrations : \E o \in Operations :
          tree' = [tree EXCEPT !.handler[r] = o, !.registered[r] = o]
    \/ \E a, b \in Activities :
          tree' = [tree EXCEPT !.handler[a] = tree.handler[b], !.registered[a] = tree.registered[b],
                               !.takes[a] = tree.takes[b], !.calls[a] = tree.calls[b],
                               !.container[a] = tree.container[b]]
    \/ \E r \in Registrations : \E n \in Operations \cup {"unread", "never"} :
          tree' = [tree EXCEPT !.registered[r] = n]
    \/ \E a \in Activities : \E s \in (SUBSET Clients) \ {{}} : tree' = [tree EXCEPT !.takes[a] = s]
    \/ \E r \in Activities \cup {"Place"} : \E o \in Operations : tree' = [tree EXCEPT !.calls[r] = o]

EditContainer ==
    \/ \E r \in Registrations : \E c \in Attrs(r) : tree' = [tree EXCEPT !.container[r] = c]
    \/ \E c \in DOMAIN tree.named :
          \E s \in {"Payment", "Shipping", "Order", "Ledger"} \ Range(tree.named) :
             tree' = [tree EXCEPT !.named[c] = s]
    \/ \E c, d \in DOMAIN tree.named :
          tree' = [tree EXCEPT !.named[c] = tree.named[d], !.named[d] = tree.named[c]]

\* Other values of the relays' constants, other states and promises.
EditState ==
    \/ \E c \in DOMAIN tree.constants : \E v \in Operations :
          \/ tree' = [tree EXCEPT !.constants[c] = <<v>>]
          \/ tree' = [tree EXCEPT !.constants[c] = Append(@, v)]
    \/ \E c \in DOMAIN tree.constants \cup {"none"} :
          \/ tree' = [tree EXCEPT !.sets = c]
          \/ tree' = [tree EXCEPT !.reads = c]
          \/ tree' = [tree EXCEPT !.resolves = c]
    \/ tree' = [tree EXCEPT !.setsFirst = ~@]
    \/ tree' = [tree EXCEPT !.readsFirst = ~@]
    \/ tree' = [tree EXCEPT !.obeys = ~@]

\* A method of either mode that passes a handler, or reads a promise.
Bodies(mode) ==
    IF mode = "await" THEN {Method("promise", "", c) : c \in {"PLACE", "PAID"}}
    ELSE {Method(Verb(mode), Prefix(r), r) : r \in Registrations}

\* Another name of a relay, or an operation more or less, with its method or
\* without.
EditRelay ==
    \E k \in Relays :
        \/ \E n \in Sides \X BOOLEAN : tree' = [tree EXCEPT !.relay[k] = n]
        \/ \E p \in tree.carries[k] : tree' = [tree EXCEPT !.carries[k] = @ \ {p}]
        \/ \E p \in DOMAIN tree.methods[k] : tree' = [tree EXCEPT !.methods[k] = Without(@, p)]
        \/ \E p \in Modes \X Operations : \E b \in Bodies(p[1]) :
              tree' = [tree EXCEPT !.carries[k] = @ \cup {p}, !.methods[k] = With(@, p, b)]

\* A tree with another carries and methods for a relay.
Changed(t, k, ps, ms) == [t EXCEPT !.carries[k] = ps, !.methods[k] = ms]

\* A method p of relay k moves to relay j under another operation, or has
\* another body.
EditMethod ==
    \E k \in Relays : \E p \in DOMAIN tree.methods[k] :
        \/ /\ p[1] # "await"
           /\ \/ \E j \in Relays : \E o \in Operations :
                    LET q == <<p[1], o>>
                        t == Changed(tree, k, tree.carries[k] \ {p}, Without(tree.methods[k], p))
                    IN  tree' = Changed(t, j, t.carries[j] \cup {q}, With(t.methods[j], q, tree.methods[k][p]))
              \/ \E v \in {"call", "send"} : tree' = [tree EXCEPT !.methods[k][p].verb = v]
              \/ \E f \in {"service", "workflow"} : tree' = [tree EXCEPT !.methods[k][p].prefix = f]
              \/ \E r \in Registrations : tree' = [tree EXCEPT !.methods[k][p].to = r]
        \/ /\ p[1] = "await"
           /\ \E c \in {"PLACE", "PAID", "unread"} : tree' = [tree EXCEPT !.methods[k][p].to = c]

Edit ==
    /\ ~running /\ edits < MaxEdits
    /\ edits' = edits + 1
    /\ EditRegistration \/ EditContainer \/ EditState \/ EditRelay \/ EditMethod
    /\ UNCHANGED <<running, last, main, state, promises, signal>>

Deploy ==
    /\ ~running /\ Accepted(tree) /\ Assured(tree)
    /\ running' = TRUE
    /\ UNCHANGED <<tree, edits, last, main, state, promises, signal>>

-----------------------------------------------------------------------------
(* The engine, on one key of the workflow.                                 *)

\* The handlers bound under the names a passed handler carries.
Bound(r) ==
    IF tree.registered[r] = "never" THEN {}
    ELSE {q \in Registrations :
            /\ tree.named[tree.container[q]] = tree.named[tree.container[r]]
            /\ tree.registered[q] = tree.registered[r]}

\* What runs when a relay method is called: a handler bound under the name, of
\* the kind of container the call is for; nobody, if there is none or no
\* dispatcher has the method.
Runs(k, p) ==
    LET by == tree.methods[k][p]
        found == IF p \in DOMAIN tree.methods[k]
                   THEN {r \in Bound(by.to) : by.prefix = Prefix(r)} ELSE {}
    IN  IF found = {} THEN {"nobody"} ELSE found

Invoke(k, p) ==
    /\ running /\ p \in tree.carries[k] /\ p[1] # "await"
    /\ \E r \in Runs(k, p) :
        /\ last' = {[relay |-> k, mode |-> p[1], op |-> p[2], ran |-> r]}
        /\ main' = IF r = "Place" /\ main = "idle" THEN "started" ELSE main
        /\ signal' = IF r = "Paid" /\ signal \in {"idle", "refused", "heard"}
                       THEN "arrived" ELSE signal
    /\ UNCHANGED <<tree, edits, running, state, promises>>

\* The main sets its state, before it waits or after.
Set == IF tree.sets = "none" THEN {} ELSE {Kept(tree, tree.sets)}

Begin ==
    /\ main = "started"
    /\ main' = "waiting"
    /\ state' = IF tree.setsFirst THEN state \cup Set ELSE state
    /\ UNCHANGED <<tree, edits, running, last, promises, signal>>

Awaited == {Kept(tree, m.by.to) : m \in {a \in Methods(tree) : a.mode = "await"}}

Finish ==
    /\ main = "waiting" /\ Awaited \subseteq promises
    /\ main' = "done"
    /\ state' = state \cup Set
    /\ UNCHANGED <<tree, edits, running, last, promises, signal>>

\* The signal's handler, which meets the main only in its own container.
Together == tree.container["Paid"] = tree.container["Place"]

ReadState ==
    LET seen == Together /\ tree.reads # "none" /\ Kept(tree, tree.reads) \in state
    IN  /\ signal = IF tree.readsFirst THEN "arrived" ELSE "resolved"
        /\ signal' = CASE tree.obeys /\ ~seen /\ tree.reads # "none" -> "refused"
                       [] OTHER -> IF tree.readsFirst THEN "read" ELSE "heard"
        /\ UNCHANGED <<tree, edits, running, last, main, state, promises>>

Resolve ==
    /\ signal = IF tree.readsFirst THEN "read" ELSE "arrived"
    /\ signal' = IF tree.readsFirst THEN "heard" ELSE "resolved"
    /\ promises' = IF Together /\ tree.resolves # "none"
                     THEN promises \cup {Kept(tree, tree.resolves)} ELSE promises
    /\ UNCHANGED <<tree, edits, running, last, main, state>>

Init ==
    /\ tree = Sound /\ edits = 0 /\ running = FALSE
    /\ last = {} /\ main = "idle" /\ state = {} /\ promises = {} /\ signal = "idle"

Signal == \E k \in Relays, p \in Modes \X Operations :
    Invoke(k, p) /\ tree.methods[k][p].to = "Paid"

Next ==
    \/ Edit \/ Deploy
    \/ \E k \in Relays, p \in Modes \X Operations : Invoke(k, p)
    \/ Begin \/ Finish \/ ReadState \/ Resolve

\* The engine retries a handler until it ends, and whoever signals retries
\* while it is refused.
Fairness ==
    /\ WF_vars(Begin) /\ WF_vars(Finish)
    /\ WF_vars(ReadState) /\ WF_vars(Resolve)
    /\ WF_vars(signal \in {"idle", "refused"} /\ Signal)

Spec == Init /\ [][Next]_vars /\ Fairness

-----------------------------------------------------------------------------
(* Properties of accepted trees.                                           *)

\* The operation a handler performs: the method it calls, or the promise it
\* resolves; and whose it is.
Performs(r) == IF r = "Paid" THEN tree.handler[r] ELSE tree.calls[r]

PerformedBy(r) == IF r \in Activities THEN Does[tree.calls[r]] ELSE "Order"

\* A call of a relay operation runs the very handler the dispatcher passed,
\* that handler performs that operation, and the caller waits exactly when
\* the operation is a run_: renames on either side, containers shared by two
\* handlers and names given to the engine cannot part the two ends.
CallsDoWhatTheirNameSays ==
    \A c \in last :
        LET by == tree.methods[c.relay][<<c.mode, c.op>>]
        IN  /\ c.ran # "nobody"
            /\ c.ran = by.to
            /\ Performs(c.ran) = c.op
            /\ (by.verb = "call") = (c.mode = "run")

\* What a relay's operations reach is the far side the relay is named for.
RelaysNameTheFarSide ==
    \A c \in last : c.ran # "nobody" => tree.relay[c.relay][1] = PerformedBy(c.ran)

\* No promise is resolved on a key whose main never started: the engine runs
\* a signal's handler on such a key and keeps what it resolves.
NoPromiseBeforeTheMain == promises # {} => main # "idle"

\* A signal is refused only while the main has not begun to wait.
SignalsHeardWhileWaiting ==
    [][signal # "refused" /\ signal' = "refused" => main # "waiting"]_vars
=============================================================================
