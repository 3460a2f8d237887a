---------------------------- MODULE RunnerChain ----------------------------
(***************************************************************************)
(* The rules of the Python analyzer on the chain through an engine that is *)
(* reached by strings (src/tessercheck-py/tessercheck/domain/checks.py): a *)
(* relay, the runner that implements it, the runtime that registers its    *)
(* handlers, and the application client in front of the actions.           *)
(*                                                                         *)
(* One context: Order.place and Payment.charge, and the promise paid.  The *)
(* tree starts in order, its authors edit it, and a tree the rules accept  *)
(* is deployed and its relays are called.  Names a rule cannot read        *)
(* (anything but a literal) are "unread".                                  *)
(***************************************************************************)
EXTENDS Naturals, SequencesExt

CONSTANTS
    MaxEdits    \* edits from the tree in order

VARIABLES
    tree,       \* the source tree
    edits,      \* edits made so far
    running,    \* it is deployed
    last        \* the last call of a relay and what it did, if any

vars == <<tree, edits, running, last>>

Does == [place |-> "Order", charge |-> "Payment", paid |-> "Order"]

Operations == DOMAIN Does

Modes == {"start", "run", "await"}

\* The far side in the name of a relay; the last is the signal relay.
Named == [Order |-> "Order", Payment |-> "Payment", OrderSignal |-> "Order"]

Relays == DOMAIN Named

Call(verb, service, handler) == [verb |-> verb, service |-> service, handler |-> handler]

Handler(service, op) ==
    [on |-> service, name |-> op, byKeyword |-> TRUE, invokes |-> {op}, exposed |-> op]

\* A function with one more argument, or one that has another value there.
With(f, x, v) == [y \in DOMAIN f \cup {x} |-> IF y = x THEN v ELSE f[y]]

Without(f, x) == [y \in DOMAIN f \ {x} |-> f[y]]

Only(x, v) == [y \in {x} |-> v]

\* The tree in order: a runner method per relay method, a function of the
\* runtime per handler.
Sound ==
    [carries |-> [Order |-> {<<"start", "place">>}, Payment |-> {<<"run", "charge">>},
                  OrderSignal |-> {<<"await", "paid">>}],
     runners |-> [Order |-> Only(<<"start", "place">>, Call("send", "Order", "place")),
                  Payment |-> Only(<<"run", "charge">>, Call("call", "Payment", "charge")),
                  OrderSignal |-> Only(<<"await", "paid">>, Call("promise", "", "paid"))],
     named |-> [orders |-> "Order", payments |-> "Payment"],
     handlers |-> [place |-> Handler("orders", "place"),
                   charge |-> Handler("payments", "charge")],
     promises |-> {"paid"},
     client |-> {"place", "charge"},
     actions |-> {"place", "charge"}]

-----------------------------------------------------------------------------
(* What the analyzer derives.  It knows a handler by its function's name.  *)

Registered(t) == {<<t.named[t.handlers[f].on], f>> : f \in DOMAIN t.handlers}

CallsOf(t) == UNION {Range(t.runners[k]) : k \in Relays}

Targets(t) == {<<c.service, c.handler>> : c \in {d \in CallsOf(t) : d.verb # "promise"}}

AwaitedNames(t) == {c.handler : c \in {d \in CallsOf(t) : d.verb = "promise"}}

\* The far sides of the functions on one service, taken together.
SidesOn(t, attr) ==
    {Does[o] : o \in UNION {t.handlers[f].invokes : f \in {g \in DOMAIN t.handlers : t.handlers[g].on = attr}}}

FarSide(t, op) ==
    IF op \in DOMAIN t.handlers /\ Cardinality(SidesOn(t, t.handlers[op].on)) = 1
      THEN SidesOn(t, t.handlers[op].on) ELSE {}

-----------------------------------------------------------------------------
(* The rules.                                                              *)

\* Mutants: a runner may call anything registered, in any mode; a runtime may
\* register what no runner calls.
CallsSomething(t) ==
    \A k \in Relays : \A p \in DOMAIN t.runners[k] :
        LET c == t.runners[k][p]
        IN  IF p[1] = "await" THEN c.verb = "promise" /\ c.handler \in t.promises
            ELSE c.verb # "promise" /\ <<c.service, c.handler>> \in Registered(t)

RegistersAnything(t) == "unread" \notin Range(t.named) /\ "unread" \notin t.promises

RelayNamed(t) ==
    \A k \in Relays :
        LET sides == UNION {FarSide(t, p[2]) : p \in t.carries[k]}
        IN  /\ \A p \in t.carries[k] : (p[1] = "await") = (k = "OrderSignal")
            /\ Cardinality(sides) <= 1
            /\ sides \subseteq {Named[k]}

MirrorsItsRelay(t) == \A k \in Relays : DOMAIN t.runners[k] = t.carries[k]

\* A runner method calls the handler named for its operation on the service
\* named for its relay's far side, in its mode; an await_ method reads the
\* promise of its name.  A runtime registers them.
CallsItsFarSide(t) ==
    \A k \in Relays : \A p \in DOMAIN t.runners[k] :
        LET c == t.runners[k][p]
        IN  IF p[1] = "await"
              THEN c.verb = "promise" /\ c.handler = p[2] /\ c.handler \in t.promises
              ELSE /\ c.verb = (IF p[1] = "run" THEN "call" ELSE "send")
                   /\ <<c.service, c.handler>> = <<Named[k], p[2]>>
                   /\ <<c.service, c.handler>> \in Registered(t)

\* A mutant: a handler may invoke another operation too.
HandlersNamed(t) ==
    \A f \in DOMAIN t.handlers :
        LET h == t.handlers[f]
        IN  h.exposed = f /\ (h.byKeyword => h.name = f) /\ f \in h.invokes

\* A handler is exposed under its name, registers under it as far as a name=
\* says, and invokes the one operation it is named for.
HandlersInvoke(t) ==
    \A f \in DOMAIN t.handlers :
        LET h == t.handlers[f]
        IN  /\ h.exposed = f
            /\ h.byKeyword => h.name = f
            /\ h.invokes \cap (t.client \cup t.actions) = {f}

\* A runtime registers only what a runner reaches, under literals.
RegistersWhatIsCalled(t) ==
    /\ "unread" \notin Range(t.named) \cup t.promises
    /\ Registered(t) \subseteq Targets(t)
    /\ t.promises \subseteq AwaitedNames(t)

ActionsMirrorTheirClient(t) == t.actions = t.client

Accepted(t) ==
    /\ RelayNamed(t)
    /\ MirrorsItsRelay(t)
    /\ CallsItsFarSide(t)
    /\ HandlersInvoke(t)
    /\ RegistersWhatIsCalled(t)
    /\ ActionsMirrorTheirClient(t)

-----------------------------------------------------------------------------
(* Edits.                                                                  *)

Bodies ==
    {Call(v, s, o) : v \in {"call", "send"}, s \in Range(tree.named), o \in Operations}
      \cup {Call("promise", "", o) : o \in Operations \cup {"unread"}}

\* A runner method with another body, one more or less of them, alone or with
\* the relay's, or one moved with the relay's to another relay.
EditRunner ==
    \E k \in Relays :
        \/ \E p \in DOMAIN tree.runners[k] : \E b \in Bodies : tree' = [tree EXCEPT !.runners[k][p] = b]
        \/ \E p \in Modes \X Operations : \E v \in {<<"call", k>>, <<"send", k>>, <<"promise", "">>} :
              tree' = [tree EXCEPT !.carries[k] = @ \cup {p},
                                   !.runners[k] = With(@, p, Call(v[1], v[2], p[2]))]
        \/ \E p \in DOMAIN tree.runners[k] :
              \/ tree' = [tree EXCEPT !.carries[k] = @ \ {p}]
              \/ tree' = [tree EXCEPT !.carries[k] = @ \ {p}, !.runners[k] = Without(@, p)]
        \/ \E p \in tree.carries[k] \cap DOMAIN tree.runners[k] : \E j \in Relays \ {k} :
              LET moved == [tree.runners[k][p] EXCEPT !.service = Named[j]]
                  carries == [tree.carries EXCEPT ![k] = @ \ {p}, ![j] = @ \cup {p}]
                  runners == [tree.runners EXCEPT ![k] = Without(@, p), ![j] = With(@, p, moved)]
              IN  tree' = [tree EXCEPT !.carries = carries, !.runners = runners]

\* One more handler, or one that is registered otherwise or does otherwise.
EditHandler ==
    \/ \E a \in DOMAIN tree.named : \E o \in Operations :
          tree' = [tree EXCEPT !.handlers = With(@, o, Handler(a, o))]
    \/ \E f \in DOMAIN tree.handlers :
          \/ \E a \in DOMAIN tree.named : tree' = [tree EXCEPT !.handlers[f].on = a]
          \/ \E n \in Operations : \E b \in BOOLEAN :
                tree' = [tree EXCEPT !.handlers[f] = [@ EXCEPT !.name = n, !.byKeyword = b]]
          \/ \E s \in SUBSET Operations : tree' = [tree EXCEPT !.handlers[f].invokes = s]
          \/ \E n \in Operations : tree' = [tree EXCEPT !.handlers[f].exposed = n]

\* Another name of a service, other promises, another client or other actions.
EditShell ==
    \/ \E a \in DOMAIN tree.named :
          \E s \in {"Order", "Payment", "Ledger", "unread"} \ Range(tree.named) :
             tree' = [tree EXCEPT !.named[a] = s]
    \/ \E s \in SUBSET (Operations \cup {"unread"}) : tree' = [tree EXCEPT !.promises = s]
    \/ \E s \in SUBSET Operations :
          tree' = [tree EXCEPT !.client = s] \/ tree' = [tree EXCEPT !.actions = s]
    \/ \E o \in Operations : tree' = [tree EXCEPT !.client = @ \cup {o}, !.actions = @ \cup {o}]

Edit ==
    /\ ~running /\ edits < MaxEdits
    /\ edits' = edits + 1
    /\ EditRunner \/ EditHandler \/ EditShell
    /\ UNCHANGED <<running, last>>

Deploy ==
    /\ ~running /\ Accepted(tree)
    /\ running' = TRUE
    /\ UNCHANGED <<tree, edits, last>>

\* What the engine finds under a service and a handler name: the name a
\* registration gives, wherever it gives it.
Found(c) ==
    IF c.verb = "promise"
      THEN IF c.handler \in tree.promises THEN {c.handler} ELSE {}
      ELSE {f \in DOMAIN tree.handlers :
              tree.named[tree.handlers[f].on] = c.service /\ tree.handlers[f].name = c.handler}

Invoke(k, p) ==
    /\ running /\ p \in tree.carries[k]
    /\ LET found == IF p \in DOMAIN tree.runners[k] THEN Found(tree.runners[k][p]) ELSE {}
       IN  \E f \in (IF found = {} THEN {"nobody"} ELSE found) :
            last' = {[relay |-> k, mode |-> p[1], op |-> p[2], ran |-> f]}
    /\ UNCHANGED <<tree, edits, running>>

Init == tree = Sound /\ edits = 0 /\ running = FALSE /\ last = {}

Next == Edit \/ Deploy \/ \E k \in Relays : \E p \in tree.carries[k] : Invoke(k, p)

Spec == Init /\ [][Next]_vars

-----------------------------------------------------------------------------
(* Properties of accepted trees.                                           *)

\* What a handler does of what it invokes: the actions have the method.
Done(f) == tree.handlers[f].invokes \cap tree.actions

\* A handler of the service is registered under another name than its function's,
\* which a name by position may be, and the operation is that function or that
\* name.
Misnamed(service, op) ==
    \E f \in DOMAIN tree.handlers :
        LET h == tree.handlers[f]
        IN  tree.named[h.on] = service /\ h.name # f /\ op \in {f, h.name}

\* A relay operation keeps its name to the other end: the caller waits exactly
\* for a run_, and the call finds a handler that does that operation and no
\* other, except where a handler is registered by position under another name
\* and it or its name is what is called; a promise that is awaited is one the
\* runtime resolves.
OneNameAcross ==
    \A c \in last :
        IF c.mode = "await" THEN c.ran = c.op
        ELSE /\ (tree.runners[c.relay][<<c.mode, c.op>>].verb = "call") = (c.mode = "run")
             /\ \/ c.ran # "nobody" /\ Done(c.ran) = {c.op}
                \/ Misnamed(Named[c.relay], c.op)

\* A relay reaches the far side it is named for, whatever handler answers,
\* except on a service whose handlers have more than one far side.
RelaysNameTheFarSide ==
    \A c \in last : c.mode # "await" /\ c.ran # "nobody" =>
        \/ \A o \in Done(c.ran) : Does[o] = Named[c.relay]
        \/ Cardinality(SidesOn(tree, tree.handlers[c.ran].on)) > 1

\* Nothing is registered with the engine, under the name it is registered by,
\* that no runner calls, except under another name than its function's; and no
\* promise is kept that nobody awaits.
NothingRegisteredIsIdle ==
    running =>
        /\ \A f \in DOMAIN tree.handlers :
              \/ <<tree.named[tree.handlers[f].on], tree.handlers[f].name>> \in Targets(tree)
              \/ tree.handlers[f].name # f
        /\ tree.promises \subseteq AwaitedNames(tree)
=============================================================================
