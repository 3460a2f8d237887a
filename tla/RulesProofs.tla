------------------------------ MODULE RulesProofs ------------------------------
(***************************************************************************)
(* That what the rules of the Python analyzer accept runs as the rules are *)
(* meant, for any number of edits: relays and what they reach, outcomes    *)
(* and what decides on them, specs and what reads them; and that chains of *)
(* imports end where they may.                                             *)
(***************************************************************************)
EXTENDS MCRules, FiniteSetTheorems, TLAPS

-------------------------------------------------------------------------------
(* Relays and runners.                                                     *)

(* Of a tree: its parts, and as much of their types as the rules go by.    *)
HandlerMaps ==
    UNION {[names -> [on : {"orders", "payments"}, name : Runner!Operations, byKeyword : BOOLEAN,
                      invokes : SUBSET Runner!Operations, exposed : Runner!Operations]] :
             names \in SUBSET Runner!Operations}

RunnerTree(t) ==
    /\ DOMAIN t = {"carries", "runners", "named", "handlers", "promises", "client", "actions"}
    /\ t.handlers \in HandlerMaps
    /\ t.carries \in [Runner!Relays -> SUBSET (Runner!Modes \X Runner!Operations)]
    /\ DOMAIN t.named = {"orders", "payments"} /\ t.named.orders # t.named.payments

(* A call of a relay that was made is one its tree carries, and ran what   *)
(* the engine found for it, or nobody if nothing was found.                *)
RunnersInv ==
    /\ RunnerTree(tree)
    /\ running => Runner!Accepted(tree)
    /\ \A c \in last :
         /\ running /\ c.relay \in Runner!Relays /\ <<c.mode, c.op>> \in tree.carries[c.relay]
         /\ LET found == Runner!Found(tree.runners[c.relay][<<c.mode, c.op>>])
            IN  c.ran \in found \/ (c.ran = "nobody" /\ found = {})

LEMMA RelayNames == Runner!Relays = {"Order", "Payment", "OrderSignal"}
BY DEF Runner!Relays, Runner!Named

LEMMA OperationNames == Runner!Operations = {"place", "charge", "paid"}
BY DEF Runner!Operations, Runner!Does

(* What is counted in a copy of a module is counted everywhere.            *)
LEMMA RunnersCount == \A S : Runner!Cardinality(S) = Cardinality(S)
BY Zenon DEF Cardinality, Runner!Cardinality

(* In a tree that is accepted whatever a relay's call finds does what its  *)
(* function is named for, on the far side of the relay unless its service  *)
(* has more than one; and it finds the handler of its operation unless one *)
(* is registered under another name.                                       *)
LEMMA CallsAreFound ==
    ASSUME RunnerTree(tree), Runner!Accepted(tree),
           NEW k \in Runner!Relays, NEW p \in tree.carries[k]
    PROVE  LET c == tree.runners[k][p] IN
           /\ p \in DOMAIN tree.runners[k]
           /\ p[1] = "await" => Runner!Found(c) = {p[2]}
           /\ p[1] # "await" =>
                /\ (c.verb = "call") = (p[1] = "run")
                /\ ~Runner!Misnamed(Runner!Named[k], p[2]) => Runner!Found(c) = {p[2]}
                /\ \A f \in Runner!Found(c) :
                     /\ Runner!Done(f) = {f}
                     /\ \/ Runner!Does[f] = Runner!Named[k]
                        \/ Runner!Cardinality(Runner!SidesOn(tree, tree.handlers[f].on)) > 1
<1> DEFINE c == tree.runners[k][p]
<1>1. p \in DOMAIN tree.runners[k]
  BY DEF Runner!Accepted, Runner!MirrorsItsRelay
<1>2. IF p[1] = "await" THEN c.verb = "promise" /\ c.handler = p[2] /\ c.handler \in tree.promises
      ELSE /\ c.verb = (IF p[1] = "run" THEN "call" ELSE "send")
           /\ <<c.service, c.handler>> = <<Runner!Named[k], p[2]>>
           /\ <<c.service, c.handler>> \in Runner!Registered(tree)
  BY <1>1 DEF Runner!Accepted, Runner!CallsItsFarSide
<1> HIDE DEF c
<1>3. CASE p[1] = "await"
  <2>1. Runner!Found(c) = {p[2]}
    BY <1>2, <1>3 DEF Runner!Found
  <2> QED BY <1>1, <1>3, <2>1 DEF c
<1>4. CASE p[1] # "await"
  <2>1. /\ c.verb = (IF p[1] = "run" THEN "call" ELSE "send") /\ c.verb # "promise"
        /\ c.service = Runner!Named[k] /\ c.handler = p[2]
    BY <1>2, <1>4
  <2>2. PICK g \in DOMAIN tree.handlers : <<c.service, c.handler>> = <<tree.named[tree.handlers[g].on], g>>
    BY <1>2, <1>4 DEF Runner!Registered
  <2>3. /\ \A h \in DOMAIN tree.handlers : tree.handlers[h].invokes \cap (tree.client \cup tree.actions) = {h}
        /\ tree.actions = tree.client
    BY DEF Runner!Accepted, Runner!HandlersInvoke, Runner!ActionsMirrorTheirClient
  <2>4. g = p[2] /\ tree.named[tree.handlers[g].on] = Runner!Named[k]
    BY <2>1, <2>2
  <2>5. Runner!Found(c) = {f \in DOMAIN tree.handlers :
                             tree.named[tree.handlers[f].on] = Runner!Named[k] /\ tree.handlers[f].name = p[2]}
    BY <2>1 DEF Runner!Found
  <2>6. ~Runner!Misnamed(Runner!Named[k], p[2]) => Runner!Found(c) = {p[2]}
    BY <2>2, <2>4, <2>5 DEF Runner!Misnamed
  <2>7. ASSUME NEW f \in Runner!Found(c) PROVE Runner!Done(f) = {f}
    <3>1. f \in DOMAIN tree.handlers
      BY <2>5
    <3> QED BY <2>3, <3>1 DEF Runner!Done
  <2>8. ASSUME NEW f \in Runner!Found(c),
               ~(Runner!Cardinality(Runner!SidesOn(tree, tree.handlers[f].on)) > 1)
        PROVE  Runner!Does[f] = Runner!Named[k]
    <3> DEFINE sides == Runner!SidesOn(tree, tree.handlers[f].on)
    <3>1. f \in DOMAIN tree.handlers /\ tree.named[tree.handlers[f].on] = Runner!Named[k]
      BY <2>5
    <3>2. tree.handlers[g].on = tree.handlers[f].on
      BY <2>2, <2>4, <3>1 DEF RunnerTree, HandlerMaps
    <3>3. Runner!Does[f] \in sides
      BY <2>3, <3>1 DEF Runner!SidesOn
    <3>4. sides \subseteq {"Order", "Payment"}
      <4>1. \A h \in DOMAIN tree.handlers : tree.handlers[h].invokes \subseteq Runner!Operations
        BY DEF RunnerTree, HandlerMaps
      <4>2. \A o \in Runner!Operations : Runner!Does[o] \in {"Order", "Payment"}
        BY OperationNames DEF Runner!Does
      <4> QED BY <4>1, <4>2 DEF Runner!SidesOn
    <3>5. IsFiniteSet(sides)
      <4>1. IsFiniteSet({"Order", "Payment"})
        <5>1. IsFiniteSet({"Order"} \cup {"Payment"})
          BY FS_Singleton, FS_AddElement
        <5>2. {"Order"} \cup {"Payment"} = {"Order", "Payment"}
          OBVIOUS
        <5> QED BY <5>1, <5>2
      <4> HIDE DEF sides
      <4> QED BY <3>4, <4>1, FS_Subset
    <3>6. ~(Cardinality(sides) > 1)
      BY <2>8, RunnersCount
    <3>7. Cardinality(sides) = 1
      <4> HIDE DEF sides
      <4> QED BY <3>3, <3>5, <3>6, FS_EmptySet, FS_CardinalityType
    <3>8. sides = Runner!FarSide(tree, p[2])
      BY <2>2, <2>4, <3>2, <3>7, RunnersCount DEF Runner!FarSide
    <3>9. UNION {Runner!FarSide(tree, q[2]) : q \in tree.carries[k]} \subseteq {Runner!Named[k]}
      BY DEF Runner!Accepted, Runner!RelayNamed
    <3>10. Runner!FarSide(tree, p[2]) \subseteq {Runner!Named[k]}
      <4> HIDE DEF sides
      <4> QED BY <3>9
    <3> QED BY <3>3, <3>8, <3>10
  <2>9. (c.verb = "call") = (p[1] = "run")
    BY <2>1
  <2> QED BY <1>1, <1>4, <2>6, <2>7, <2>8, <2>9 DEF c
<1> QED BY <1>3, <1>4

(* What an edit makes of a tree is one. *)
LEMMA TreesAreEdited ==
    ASSUME RunnerTree(tree), Runner!EditRunner \/ Runner!EditHandler \/ Runner!EditShell
    PROVE  RunnerTree(tree')
<1> DEFINE O == Runner!Operations
           M == Runner!Modes \X O
           H == [on : {"orders", "payments"}, name : O, byKeyword : BOOLEAN, invokes : SUBSET O, exposed : O]
           C == [Runner!Relays -> SUBSET M]
<1>1. /\ DOMAIN tree.named = {"orders", "payments"} /\ tree.named.orders # tree.named.payments
      /\ tree.handlers \in HandlerMaps
      /\ tree.carries \in C
      /\ DOMAIN tree = {"carries", "runners", "named", "handlers", "promises", "client", "actions"}
  BY DEF RunnerTree
<1>2. PICK names \in SUBSET O : tree.handlers \in [names -> H]
  BY <1>1 DEF HandlerMaps
<1>3. CASE Runner!EditRunner
  <2> HIDE DEF O, M
  <2>1. PICK k \in Runner!Relays :
          \/ \E p \in DOMAIN tree.runners[k] : \E b \in Runner!Bodies : tree' = [tree EXCEPT !.runners[k][p] = b]
          \/ \E p \in M : \E v \in {<<"call", k>>, <<"send", k>>, <<"promise", "">>} :
                tree' = [tree EXCEPT !.carries[k] = @ \cup {p},
                                     !.runners[k] = Runner!With(@, p, Runner!Call(v[1], v[2], p[2]))]
          \/ \E p \in DOMAIN tree.runners[k] :
                \/ tree' = [tree EXCEPT !.carries[k] = @ \ {p}]
                \/ tree' = [tree EXCEPT !.carries[k] = @ \ {p}, !.runners[k] = Runner!Without(@, p)]
          \/ \E p \in tree.carries[k] \cap DOMAIN tree.runners[k] : \E j \in Runner!Relays \ {k} :
                LET turned == [tree.runners[k][p] EXCEPT !.service = Runner!Named[j]]
                    carries == [tree.carries EXCEPT ![k] = @ \ {p}, ![j] = @ \cup {p}]
                    runners == [tree.runners EXCEPT ![k] = Runner!Without(@, p), ![j] = Runner!With(@, p, turned)]
                IN  tree' = [tree EXCEPT !.carries = carries, !.runners = runners]
    BY <1>3 DEF Runner!EditRunner, M, O
  <2>2. CASE \E p \in DOMAIN tree.runners[k] : \E b \in Runner!Bodies : tree' = [tree EXCEPT !.runners[k][p] = b]
    <3>1. /\ tree'.carries = tree.carries /\ tree'.handlers = tree.handlers
          /\ tree'.named = tree.named /\ DOMAIN tree' = DOMAIN tree
      BY <1>1, <2>2
    <3> QED BY <1>1, <3>1 DEF RunnerTree, M, O
  <2>3. ASSUME NEW s \in SUBSET M, NEW r,
               tree' = [tree EXCEPT !.carries[k] = s, !.runners[k] = r]
        PROVE  RunnerTree(tree')
    <3>1. /\ tree'.carries = [tree.carries EXCEPT ![k] = s] /\ tree'.handlers = tree.handlers
          /\ tree'.named = tree.named /\ DOMAIN tree' = DOMAIN tree
      BY <1>1, <2>3
    <3>2. tree'.carries \in C
      BY <1>1, <3>1
    <3> QED BY <1>1, <3>1, <3>2 DEF RunnerTree, M, O
  <2>4. CASE \E p \in M : \E v \in {<<"call", k>>, <<"send", k>>, <<"promise", "">>} :
                tree' = [tree EXCEPT !.carries[k] = @ \cup {p},
                                     !.runners[k] = Runner!With(@, p, Runner!Call(v[1], v[2], p[2]))]
    <3>1. PICK p \in M, v \in {<<"call", k>>, <<"send", k>>, <<"promise", "">>} :
            tree' = [tree EXCEPT !.carries[k] = tree.carries[k] \cup {p},
                                 !.runners[k] = Runner!With(tree.runners[k], p, Runner!Call(v[1], v[2], p[2]))]
      BY <2>4
    <3>2. tree.carries[k] \cup {p} \in SUBSET M
      BY <1>1
    <3> QED BY <2>3, <3>1, <3>2
  <2>5. CASE \E p \in DOMAIN tree.runners[k] : tree' = [tree EXCEPT !.carries[k] = @ \ {p}]
    <3>1. PICK p \in DOMAIN tree.runners[k] : tree' = [tree EXCEPT !.carries[k] = tree.carries[k] \ {p}]
      BY <2>5
    <3>2. tree.carries[k] \ {p} \in SUBSET M
      BY <1>1
    <3>3. /\ tree'.carries = [tree.carries EXCEPT ![k] = tree.carries[k] \ {p}]
          /\ tree'.handlers = tree.handlers /\ tree'.named = tree.named /\ DOMAIN tree' = DOMAIN tree
      BY <1>1, <3>1
    <3>4. tree'.carries \in C
      BY <1>1, <3>2, <3>3
    <3> QED BY <1>1, <3>3, <3>4 DEF RunnerTree, M, O
  <2>6. CASE \E p \in DOMAIN tree.runners[k] :
               tree' = [tree EXCEPT !.carries[k] = @ \ {p}, !.runners[k] = Runner!Without(@, p)]
    <3>1. PICK p \in DOMAIN tree.runners[k] :
            tree' = [tree EXCEPT !.carries[k] = tree.carries[k] \ {p},
                                 !.runners[k] = Runner!Without(tree.runners[k], p)]
      BY <2>6
    <3>2. tree.carries[k] \ {p} \in SUBSET M
      BY <1>1
    <3> QED BY <2>3, <3>1, <3>2
  <2>7. CASE \E p \in tree.carries[k] \cap DOMAIN tree.runners[k] : \E j \in Runner!Relays \ {k} :
                LET turned == [tree.runners[k][p] EXCEPT !.service = Runner!Named[j]]
                    carries == [tree.carries EXCEPT ![k] = @ \ {p}, ![j] = @ \cup {p}]
                    runners == [tree.runners EXCEPT ![k] = Runner!Without(@, p), ![j] = Runner!With(@, p, turned)]
                IN  tree' = [tree EXCEPT !.carries = carries, !.runners = runners]
    <3>0. PICK p \in tree.carries[k] \cap DOMAIN tree.runners[k], j \in Runner!Relays \ {k} :
                LET turned == [tree.runners[k][p] EXCEPT !.service = Runner!Named[j]]
                    carries == [tree.carries EXCEPT ![k] = @ \ {p}, ![j] = @ \cup {p}]
                    runners == [tree.runners EXCEPT ![k] = Runner!Without(@, p), ![j] = Runner!With(@, p, turned)]
                IN  tree' = [tree EXCEPT !.carries = carries, !.runners = runners]
      BY <2>7
    <3> DEFINE moved == [tree.carries EXCEPT ![k] = @ \ {p}, ![j] = @ \cup {p}]
               turned == [tree.runners[k][p] EXCEPT !.service = Runner!Named[j]]
               others == [tree.runners EXCEPT ![k] = Runner!Without(@, p), ![j] = Runner!With(@, p, turned)]
    <3>1. tree' = [tree EXCEPT !.carries = moved, !.runners = others]
      BY <3>0
    <3> HIDE DEF others
    <3> HIDE DEF moved
    <3>2. /\ tree'.carries = moved
          /\ tree'.handlers = tree.handlers /\ tree'.named = tree.named /\ DOMAIN tree' = DOMAIN tree
      BY <1>1, <3>1
    <3>3. ASSUME NEW c \in C
          PROVE  [c EXCEPT ![k] = @ \ {p}, ![j] = @ \cup {p}] \in C
      <4>1. p \in M
        BY <1>1
      <4>2. [c EXCEPT ![k] = @ \ {p}] \in C
        OBVIOUS
      <4>3. \A d \in C : [d EXCEPT ![j] = @ \cup {p}] \in C
        BY <4>1
      <4> QED BY <4>2, <4>3
    <3>4. tree'.carries \in C
      BY <1>1, <3>2, <3>3 DEF moved
    <3> QED BY <1>1, <3>2, <3>4 DEF RunnerTree, M, O
  <2> QED BY <2>1, <2>2, <2>4, <2>5, <2>6, <2>7
<1>4. CASE Runner!EditHandler
  <2> HIDE DEF O, H
  <2>1. ASSUME NEW h \in HandlerMaps, tree' = [tree EXCEPT !.handlers = h]
        PROVE  RunnerTree(tree')
    <3>1. /\ tree'.carries = tree.carries /\ tree'.handlers = h
          /\ tree'.named = tree.named /\ DOMAIN tree' = DOMAIN tree
      BY <1>1, <2>1
    <3> QED BY <1>1, <3>1 DEF RunnerTree, O
  <2>2. ASSUME NEW f \in DOMAIN tree.handlers, NEW h \in H, tree' = [tree EXCEPT !.handlers[f] = h]
        PROVE  RunnerTree(tree')
    <3>1. [tree.handlers EXCEPT ![f] = h] \in [names -> H]
      BY <1>2
    <3>2. [tree.handlers EXCEPT ![f] = h] \in HandlerMaps
      BY <3>1 DEF HandlerMaps, O, H
    <3> QED BY <2>1, <2>2, <3>2
  <2>3. CASE \E a \in DOMAIN tree.named : \E o \in O :
               tree' = [tree EXCEPT !.handlers = Runner!With(@, o, Runner!Handler(a, o))]
    <3>1. PICK a \in DOMAIN tree.named, o \in O :
            tree' = [tree EXCEPT !.handlers = Runner!With(tree.handlers, o, Runner!Handler(a, o))]
      BY <2>3
    <3>2. Runner!Handler(a, o) \in H
      BY <1>1, <3>1 DEF Runner!Handler, H
    <3>3. Runner!With(tree.handlers, o, Runner!Handler(a, o)) \in [names \cup {o} -> H]
      BY <1>2, <3>2 DEF Runner!With
    <3>4. Runner!With(tree.handlers, o, Runner!Handler(a, o)) \in HandlerMaps
      BY <3>3 DEF HandlerMaps, O, H
    <3> QED BY <2>1, <3>1, <3>4
  <2>4. CASE \E f \in DOMAIN tree.handlers :
               \/ \E a \in DOMAIN tree.named : tree' = [tree EXCEPT !.handlers[f].on = a]
               \/ \E n \in O : \E b \in BOOLEAN :
                     tree' = [tree EXCEPT !.handlers[f] = [@ EXCEPT !.name = n, !.byKeyword = b]]
               \/ \E s \in SUBSET O : tree' = [tree EXCEPT !.handlers[f].invokes = s]
               \/ \E n \in O : tree' = [tree EXCEPT !.handlers[f].exposed = n]
    <3>1. PICK f \in DOMAIN tree.handlers :
            \/ \E a \in DOMAIN tree.named : tree' = [tree EXCEPT !.handlers[f].on = a]
            \/ \E n \in O : \E b \in BOOLEAN :
                  tree' = [tree EXCEPT !.handlers[f] = [@ EXCEPT !.name = n, !.byKeyword = b]]
            \/ \E s \in SUBSET O : tree' = [tree EXCEPT !.handlers[f].invokes = s]
            \/ \E n \in O : tree' = [tree EXCEPT !.handlers[f].exposed = n]
      BY <2>4
    <3>2. tree.handlers[f] \in H
      BY <1>2
    <3>3. CASE \E a \in DOMAIN tree.named : tree' = [tree EXCEPT !.handlers[f].on = a]
      <4>1. PICK a \in {"orders", "payments"} : tree' = [tree EXCEPT !.handlers[f] = [tree.handlers[f] EXCEPT !.on = a]]
        BY <1>1, <3>3
      <4>2. [tree.handlers[f] EXCEPT !.on = a] \in H
        BY <3>2 DEF H
      <4> QED BY <2>2, <4>1, <4>2
    <3>4. CASE \E n \in O : \E b \in BOOLEAN :
                  tree' = [tree EXCEPT !.handlers[f] = [@ EXCEPT !.name = n, !.byKeyword = b]]
      <4>1. PICK n \in O, b \in BOOLEAN :
              tree' = [tree EXCEPT !.handlers[f] = [tree.handlers[f] EXCEPT !.name = n, !.byKeyword = b]]
        BY <3>4
      <4>2. [tree.handlers[f] EXCEPT !.name = n, !.byKeyword = b] \in H
        BY <3>2 DEF H
      <4> QED BY <2>2, <4>1, <4>2
    <3>5. CASE \E s \in SUBSET O : tree' = [tree EXCEPT !.handlers[f].invokes = s]
      <4>1. PICK s \in SUBSET O : tree' = [tree EXCEPT !.handlers[f] = [tree.handlers[f] EXCEPT !.invokes = s]]
        BY <3>5
      <4>2. [tree.handlers[f] EXCEPT !.invokes = s] \in H
        BY <3>2 DEF H
      <4> QED BY <2>2, <4>1, <4>2
    <3>6. CASE \E n \in O : tree' = [tree EXCEPT !.handlers[f].exposed = n]
      <4>1. PICK n \in O : tree' = [tree EXCEPT !.handlers[f] = [tree.handlers[f] EXCEPT !.exposed = n]]
        BY <3>6
      <4>2. [tree.handlers[f] EXCEPT !.exposed = n] \in H
        BY <3>2 DEF H
      <4> QED BY <2>2, <4>1, <4>2
    <3> QED BY <3>1, <3>3, <3>4, <3>5, <3>6
  <2> QED BY <1>4, <2>3, <2>4 DEF Runner!EditHandler, O
<1>5. CASE Runner!EditShell
  <2>1. /\ tree'.carries = tree.carries /\ tree'.handlers = tree.handlers
        /\ DOMAIN tree'.named = DOMAIN tree.named /\ DOMAIN tree' = DOMAIN tree
    BY <1>1, <1>5 DEF Runner!EditShell
  <2>2. \/ tree'.named = tree.named
        \/ \E a \in {"orders", "payments"} : \E s :
              s \notin Runner!Range(tree.named) /\ tree'.named = [tree.named EXCEPT ![a] = s]
    BY <1>1, <1>5 DEF Runner!EditShell
  <2>3. tree'.named.orders # tree'.named.payments
    BY <1>1, <2>2 DEF Runner!Range
  <2> QED BY <1>1, <2>1, <2>3 DEF RunnerTree
<1> QED BY <1>3, <1>4, <1>5

LEMMA RunnersInit == Runner!Init => RunnersInv
<1> SUFFICES ASSUME Runner!Init PROVE RunnersInv
  OBVIOUS
<1> DEFINE O == Runner!Operations
           H == [on : {"orders", "payments"}, name : O, byKeyword : BOOLEAN, invokes : SUBSET O, exposed : O]
<1>1. tree = Runner!Sound /\ running = FALSE /\ last = {}
  BY DEF Runner!Init
<1>2. /\ DOMAIN Runner!Sound = {"carries", "runners", "named", "handlers", "promises", "client", "actions"}
      /\ DOMAIN Runner!Sound.named = {"orders", "payments"}
      /\ Runner!Sound.named.orders # Runner!Sound.named.payments
  BY DEF Runner!Sound
<1>3. Runner!Sound.carries \in [Runner!Relays -> SUBSET (Runner!Modes \X Runner!Operations)]
  BY RelayNames, OperationNames DEF Runner!Sound, Runner!Modes
<1>4. Runner!Sound.handlers \in HandlerMaps
  <2>1. Runner!Handler("orders", "place") \in H /\ Runner!Handler("payments", "charge") \in H
    BY OperationNames DEF Runner!Handler
  <2>2. Runner!Sound.handlers \in [{"place", "charge"} -> H]
    <3> HIDE DEF H
    <3> QED BY <2>1 DEF Runner!Sound
  <2>3. {"place", "charge"} \in SUBSET O
    BY OperationNames
  <2> QED BY <2>2, <2>3 DEF HandlerMaps
<1> QED BY <1>1, <1>2, <1>3, <1>4 DEF RunnersInv, RunnerTree

LEMMA RunnersNext == RunnersInv /\ Runner!Next => RunnersInv'
<1> SUFFICES ASSUME RunnersInv, Runner!Next PROVE RunnersInv'
  OBVIOUS
<1>1. CASE Runner!Edit
  <2>1. RunnerTree(tree')
    BY <1>1, TreesAreEdited DEF Runner!Edit, RunnersInv
  <2>2. ~running' /\ last = {} /\ last' = last
    BY <1>1 DEF Runner!Edit, RunnersInv
  <2> QED BY <2>1, <2>2 DEF RunnersInv
<1>2. CASE Runner!Deploy
  <2>1. /\ tree' = tree /\ last' = last /\ running' = TRUE /\ last = {}
        /\ Runner!Accepted(tree)
    BY <1>2 DEF Runner!Deploy, RunnersInv
  <2> QED BY <2>1 DEF RunnersInv
<1>3. CASE \E k \in Runner!Relays : \E p \in tree.carries[k] : Runner!Invoke(k, p)
  <2>0. PICK k \in Runner!Relays : \E p \in tree.carries[k] : Runner!Invoke(k, p)
    BY <1>3
  <2>1. PICK p \in tree.carries[k] : Runner!Invoke(k, p)
    BY <2>0
  <2>2. running /\ running' = running /\ tree' = tree
    BY <2>1 DEF Runner!Invoke
  <2>3. p \in DOMAIN tree.runners[k]
    BY <2>2, CallsAreFound DEF RunnersInv
  <2> DEFINE found == Runner!Found(tree.runners[k][p])
  <2>4. \E f : /\ f \in found \/ (f = "nobody" /\ found = {})
               /\ last' = {[relay |-> k, mode |-> p[1], op |-> p[2], ran |-> f]}
    BY <2>1, <2>3 DEF Runner!Invoke
  <2>5. p = <<p[1], p[2]>>
    BY DEF RunnersInv, RunnerTree
  <2>6. Runner!Found(tree.runners[k][p])' = found
    BY <2>2 DEF Runner!Found
  <2> HIDE DEF found
  <2>7. PICK f : /\ f \in found \/ (f = "nobody" /\ found = {})
                 /\ last' = {[relay |-> k, mode |-> p[1], op |-> p[2], ran |-> f]}
    BY <2>4
  <2>8. \A c \in last' :
          /\ running' /\ c.relay \in Runner!Relays /\ <<c.mode, c.op>> \in tree'.carries[c.relay]
          /\ LET new == Runner!Found(tree.runners[c.relay][<<c.mode, c.op>>])'
             IN  c.ran \in new \/ (c.ran = "nobody" /\ new = {})
    BY <2>2, <2>5, <2>6, <2>7
  <2> QED BY <2>2, <2>8 DEF RunnersInv, Runner!Found
<1> QED BY <1>1, <1>2, <1>3 DEF Runner!Next

LEMMA RunnersSound ==
    RunnersInv => Runner!OneNameAcross /\ Runner!RelaysNameTheFarSide /\ Runner!NothingRegisteredIsIdle
<1> SUFFICES ASSUME RunnersInv
             PROVE  Runner!OneNameAcross /\ Runner!RelaysNameTheFarSide /\ Runner!NothingRegisteredIsIdle
  OBVIOUS
<1>1. ASSUME NEW c \in last
      PROVE  /\ c.mode = "await" => c.ran = c.op
             /\ c.mode # "await" =>
                  /\ (tree.runners[c.relay][<<c.mode, c.op>>].verb = "call") = (c.mode = "run")
                  /\ \/ Runner!Misnamed(Runner!Named[c.relay], c.op)
                     \/ c.ran # "nobody" /\ Runner!Done(c.ran) = {c.op}
                  /\ c.ran # "nobody" =>
                       /\ Runner!Done(c.ran) = {c.ran}
                       /\ \/ Runner!Does[c.ran] = Runner!Named[c.relay]
                          \/ Runner!Cardinality(Runner!SidesOn(tree, tree.handlers[c.ran].on)) > 1
  <2> DEFINE p == <<c.mode, c.op>>
             found == Runner!Found(tree.runners[c.relay][p])
  <2>1. /\ running /\ c.relay \in Runner!Relays /\ p \in tree.carries[c.relay]
        /\ c.ran \in found \/ (c.ran = "nobody" /\ found = {})
    BY DEF RunnersInv
  <2>2. p[1] = c.mode /\ p[2] = c.op /\ c.op \in Runner!Operations
    BY <2>1 DEF RunnersInv, RunnerTree
  <2>3. /\ p[1] = "await" => found = {p[2]}
        /\ p[1] # "await" =>
             /\ (tree.runners[c.relay][p].verb = "call") = (p[1] = "run")
             /\ ~Runner!Misnamed(Runner!Named[c.relay], p[2]) => found = {p[2]}
             /\ \A f \in found :
                  /\ Runner!Done(f) = {f}
                  /\ \/ Runner!Does[f] = Runner!Named[c.relay]
                     \/ Runner!Cardinality(Runner!SidesOn(tree, tree.handlers[f].on)) > 1
    <3> HIDE DEF p
    <3> QED BY <2>1, CallsAreFound DEF RunnersInv
  <2>4. c.op # "nobody"
    BY <2>2, OperationNames
  <2> HIDE DEF p, found
  <2>5. c.mode = "await" => c.ran = c.op
    BY <2>1, <2>2, <2>3
  <2>6. ASSUME c.mode # "await", ~Runner!Misnamed(Runner!Named[c.relay], c.op)
        PROVE  c.ran # "nobody" /\ Runner!Done(c.ran) = {c.op}
    <3>1. c.ran = c.op /\ c.ran \in found
      BY <2>1, <2>2, <2>3, <2>6
    <3> QED BY <2>2, <2>3, <2>4, <2>6, <3>1
  <2>7. c.mode # "await" => /\ (tree.runners[c.relay][<<c.mode, c.op>>].verb = "call") = (c.mode = "run")
                            /\ c.ran # "nobody" => c.ran \in found
    BY <2>1, <2>2, <2>3 DEF p
  <2> QED BY <2>2, <2>3, <2>5, <2>6, <2>7
<1>2. Runner!OneNameAcross
  BY <1>1 DEF Runner!OneNameAcross
<1>3. Runner!RelaysNameTheFarSide
  BY <1>1 DEF Runner!RelaysNameTheFarSide
<1>4. Runner!NothingRegisteredIsIdle
  BY DEF RunnersInv, Runner!NothingRegisteredIsIdle, Runner!Accepted, Runner!RegistersWhatIsCalled,
         Runner!Registered
<1> QED BY <1>2, <1>3, <1>4

(* In every tree the runner rules accept, however it was edited: a relay's *)
(* name leads to the handler that does it, and nothing registered is never *)
(* called, except where a handler is registered by position under another  *)
(* name than its function's; and it leads to the side the relay is named   *)
(* for, except on a service whose handlers have more than one far side     *)
(* (RunnersMeet).                                                          *)
THEOREM RelaysMeetTheirHandlers == PartSpec => []RunnersMeet
<1> DEFINE I == part = "runners" => RunnersInv
<1>1. PartInit => I
  BY RunnersInit DEF PartInit
<1>2. I /\ [PartNext]_partVars => I'
  <2> SUFFICES ASSUME I, [PartNext]_partVars PROVE I'
    OBVIOUS
  <2>1. CASE part = "runners" /\ Runner!Next /\ part' = part
    BY <2>1, RunnersNext
  <2>2. CASE UNCHANGED partVars
    BY <2>2 DEF partVars, treeVars, RunnersInv, Runner!Found
  <2>3. part # "runners" => I' \/ UNCHANGED partVars
    BY DEF PartNext, partVars
  <2> QED BY <2>1, <2>2, <2>3 DEF PartNext
<1>3. I => RunnersMeet
  BY RunnersSound DEF RunnersMeet
<1> QED BY <1>1, <1>2, <1>3, PTL DEF PartSpec

-------------------------------------------------------------------------------
(* Relays and the engine.                                                  *)

(* The containers' attributes.                                             *)
Containers == {"orders", "spare", "payments", "shipments"}

(* The methods of a dispatcher, as much of them as the rules leave open.   *)
Dispatches(methods) ==
    \A p \in DOMAIN methods :
        /\ p \in Engine!Modes \X Engine!Operations
        /\ p[1] # "await" => methods[p].to \in Engine!Registrations

(* Of a tree: its parts, and as much of their types as the rules go by.    *)
EngineTree(t) ==
    /\ DOMAIN t = {"handler", "registered", "takes", "calls", "container", "named", "relay", "carries",
                   "methods", "constants", "sets", "setsFirst", "reads", "readsFirst", "obeys", "resolves"}
    /\ t.handler \in [Engine!Registrations -> Engine!Operations]
    /\ t.container \in [Engine!Registrations -> Containers]
    /\ DOMAIN t.named = Containers /\ \A c, d \in Containers : t.named[c] = t.named[d] => c = d
    /\ t.takes \in [Engine!Activities -> SUBSET Engine!Clients]
    /\ t.constants \in [{"PLACE", "PAID"} -> Seq(Engine!Operations)]
    /\ DOMAIN t.methods = Engine!Relays /\ \A k \in Engine!Relays : Dispatches(t.methods[k])

(* What runs was accepted, and nothing has run before; a call ran what its *)
(* dispatcher passes; a main that waits has set its state, and a promise   *)
(* is resolved only where a main was begun.                                *)
EngineInv ==
    /\ EngineTree(tree)
    /\ running => Engine!Accepted(tree) /\ Engine!Assured(tree)
    /\ ~running => last = {} /\ main = "idle" /\ signal = "idle"
    /\ \A c \in last :
         /\ running /\ c.relay \in Engine!Relays
         /\ <<c.mode, c.op>> \in Engine!Modes \X Engine!Operations
         /\ <<c.mode, c.op>> \in tree.carries[c.relay] /\ c.mode # "await"
         /\ c.ran = tree.methods[c.relay][<<c.mode, c.op>>].to
    /\ main \in {"idle", "started", "waiting", "done"}
    /\ main \in {"idle", "started"} => state = {}
    /\ main \in {"waiting", "done"} => tree.handler["Place"] \in state
    /\ main = "idle" => promises = {} /\ signal # "read"

(* What is counted in the engine's copy is counted everywhere.             *)
LEMMA EnginesCount == \A S : Engine!Cardinality(S) = Cardinality(S)
BY Zenon DEF Cardinality, Engine!Cardinality

(* The kinds of the handlers, written out.                                 *)
LEMMA HandlersKinds ==
    /\ Engine!Registrations = {"Place", "Charge", "Ship", "Paid"} /\ Engine!Activities = {"Charge", "Ship"}
    /\ Engine!Kind["Place"] = "workflow" /\ Engine!Kind["Paid"] = "signal"
    /\ \A a \in Engine!Activities : Engine!Kind[a] = "activity"
    /\ Engine!Operations = {"place", "charge", "ship", "paid"}
BY DEF Engine!Registrations, Engine!Activities, Engine!Kind, Engine!Operations

(* A constant that is assigned once is kept as it is read.                 *)
LEMMA ReadIsKept ==
    ASSUME EngineTree(tree), Engine!ConstantsAssignedOnce(tree), NEW c,
           Engine!Read(tree, c) \in Engine!Operations
    PROVE  Engine!Kept(tree, c) = Engine!Read(tree, c)
<1>1. c \in DOMAIN tree.constants
  BY HandlersKinds DEF Engine!Read
<1> DEFINE s == tree.constants[c]
           x == s[1]
<1>2. s \in Seq(Engine!Operations) /\ Len(s) = 1 /\ x \in Engine!Operations
  BY <1>1 DEF EngineTree, Engine!ConstantsAssignedOnce
<1>3. Engine!Range(s) = {x}
  BY <1>2 DEF Engine!Range
<1>4. Engine!Sorted[x] \in Nat
  BY <1>2, HandlersKinds DEF Engine!Sorted
<1> DEFINE P(v) == \A w \in Engine!Range(s) : Engine!Sorted[v] <= Engine!Sorted[w]
<1>5. P(x) /\ x \in Engine!Range(s)
  BY <1>3, <1>4
<1> DEFINE v == CHOOSE v \in Engine!Range(s) : P(v)
<1>6. v \in Engine!Range(s)
  <2> HIDE DEF P
  <2> QED BY <1>5
<1>7. Engine!Read(tree, c) = v
  BY <1>1 DEF Engine!Read
<1>8. v = x
  <2> HIDE DEF v, x
  <2> QED BY <1>3, <1>6
<1>9. Engine!Kept(tree, c) = x
  BY <1>1, <1>2 DEF Engine!Kept, Engine!Last
<1> QED BY <1>7, <1>8, <1>9

(* Of an accepted tree a registration's far side is whose operation its    *)
(* handler performs.                                                       *)
LEMMA FarSidesAreRead ==
    ASSUME EngineTree(tree), Engine!Accepted(tree), Engine!Assured(tree), NEW r \in Engine!Registrations
    PROVE  /\ Engine!FarSide(tree, r) = Engine!PerformedBy(r)
           /\ Engine!PerformedBy(r) \in {"Order", "Payment", "Shipping"}
<1>1. CASE r \in Engine!Activities
  <2>1. /\ tree.calls[r] \in DOMAIN Engine!Does
        /\ Engine!Does[tree.calls[r]] \in tree.takes[r]
        /\ Cardinality(tree.takes[r]) = 1
    BY <1>1, EnginesCount DEF Engine!Assured
  <2>2. tree.takes[r] \in SUBSET Engine!Clients
    BY <1>1 DEF EngineTree
  <2> DEFINE S == tree.takes[r]
             d == Engine!Does[tree.calls[r]]
  <2>3. IsFiniteSet(S)
    <3>1. IsFiniteSet(Engine!Clients)
      <4>1. IsFiniteSet({"Payment"} \cup {"Shipping"})
        BY FS_Singleton, FS_AddElement
      <4>2. {"Payment"} \cup {"Shipping"} = Engine!Clients
        BY DEF Engine!Clients
      <4> QED BY <4>1, <4>2
    <3> HIDE DEF S
    <3> QED BY <2>2, <3>1, FS_Subset DEF S
  <2>4. S = {d}
    <3>1. PICK e : S = {e}
      <4> HIDE DEF S
      <4> QED BY <2>1, <2>3, FS_Singleton DEF S
    <3> HIDE DEF d, S
    <3> QED BY <2>1, <3>1 DEF d, S
  <2>5. Engine!FarSide(tree, r) = d
    <3>1. Engine!FarSide(tree, r) = CHOOSE s \in S : TRUE
      BY <1>1, <2>1, HandlersKinds, EnginesCount DEF Engine!FarSide
    <3> HIDE DEF S, d
    <3> QED BY <2>4, <3>1
  <2>6. d \in {"Payment", "Shipping"}
    BY <2>1, <2>2 DEF Engine!Clients
  <2> QED BY <1>1, <2>5, <2>6 DEF Engine!PerformedBy
<1>2. CASE r = "Place"
  BY <1>2, HandlersKinds DEF Engine!FarSide, Engine!PerformedBy
<1>3. CASE r = "Paid"
  <2>1. "Place" \in Engine!Handed(tree, tree.container["Paid"])
    BY HandlersKinds DEF Engine!Accepted, Engine!ContainersNamed
  <2> QED BY <1>3, <2>1, HandlersKinds DEF Engine!FarSide, Engine!PerformedBy
<1> QED BY <1>1, <1>2, <1>3, HandlersKinds

(* The main sets, and its signal looks for, the name of the main.          *)
LEMMA StatesAgree ==
    ASSUME EngineTree(tree), Engine!Accepted(tree), Engine!Assured(tree)
    PROVE  /\ Engine!Together
           /\ tree.sets # "none" /\ Engine!Kept(tree, tree.sets) = tree.handler["Place"]
           /\ tree.reads # "none" /\ Engine!Kept(tree, tree.reads) = tree.handler["Place"]
           /\ tree.setsFirst /\ tree.readsFirst /\ tree.obeys
<1>1. tree.handler["Place"] \in Engine!Operations /\ "Paid" \in Engine!Registrations
      /\ "Place" \in Engine!Registrations
  BY HandlersKinds DEF EngineTree
<1>2. "Place" \in Engine!Handed(tree, tree.container["Paid"])
  BY HandlersKinds DEF Engine!Accepted, Engine!ContainersNamed
<1>3. tree.container["Place"] = tree.container["Paid"]
  BY <1>2 DEF Engine!Handed
<1>4. "Paid" \in Engine!Handed(tree, tree.container["Place"])
  BY <1>1, <1>3 DEF Engine!Handed
<1>5. tree.sets # "none" /\ Engine!Read(tree, tree.sets) = tree.handler["Place"]
  BY <1>4 DEF Engine!Accepted, Engine!SetsItsState
<1>6. Engine!FarSide(tree, "Paid") # "unread"
  BY <1>1, FarSidesAreRead
<1>7. tree.reads # "none" /\ Engine!Read(tree, tree.reads) = tree.registered["Place"] /\ tree.readsFirst
  BY <1>6 DEF Engine!Accepted, Engine!ReadsThenResolves
<1>8. tree.registered["Place"] = tree.handler["Place"]
  BY <1>1 DEF Engine!Accepted, Engine!RegistersItsHandler
<1>9. tree.setsFirst /\ tree.obeys
  BY DEF Engine!Assured
<1>10. Engine!ConstantsAssignedOnce(tree)
  BY DEF Engine!Accepted
<1> QED BY <1>1, <1>3, <1>5, <1>7, <1>8, <1>9, <1>10, ReadIsKept DEF Engine!Together

(* In a tree that is accepted a relay's call runs the handler that its     *)
(* dispatcher passes, which does what the relay's method is named for.     *)
LEMMA CallsAreRouted ==
    ASSUME EngineTree(tree), Engine!Accepted(tree), Engine!Assured(tree),
           NEW k \in Engine!Relays, NEW p \in tree.carries[k],
           p \in Engine!Modes \X Engine!Operations, p[1] # "await"
    PROVE  LET by == tree.methods[k][p] IN
           /\ by.to \in Engine!Registrations
           /\ Engine!Runs(k, p) = {by.to}
           /\ Engine!Performs(by.to) = p[2]
           /\ (by.verb = "call") = (p[1] = "run")
           /\ tree.relay[k][1] = Engine!PerformedBy(by.to)
<1> DEFINE by == tree.methods[k][p]
           r == by.to
           m == [relay |-> k, mode |-> p[1], op |-> p[2], by |-> by]
<1>1. p \in DOMAIN tree.methods[k]
  BY DEF Engine!Accepted, Engine!MirrorsItsRelay
<1>2. r \in Engine!Registrations
  BY <1>1 DEF EngineTree, Dispatches
<1>3. m \in Engine!Methods(tree)
  BY <1>1 DEF Engine!Methods
<1>4. m \in Engine!Calls(tree)
  BY <1>3 DEF Engine!Calls
<1>5. /\ by.verb = Engine!Verb(p[1]) /\ by.prefix = Engine!Prefix(r)
      /\ tree.registered[r] \in {p[2], "unread"}
  BY <1>3 DEF Engine!Accepted, Engine!PassesItsHandler
<1>6. \A q \in Engine!Registrations : tree.registered[q] = tree.handler[q] /\ tree.handler[q] \in Engine!Operations
  BY DEF Engine!Accepted, Engine!RegistersItsHandler, EngineTree
<1>7. tree.registered[r] = p[2] /\ tree.handler[r] = p[2] /\ p[2] \in Engine!Operations
  BY <1>2, <1>5, <1>6, HandlersKinds
<1>8. (by.verb = "call") = (p[1] = "run")
  BY <1>5 DEF Engine!Verb, Engine!Modes
<1>9. Engine!Performs(r) = p[2]
  <2>1. r \in Engine!Activities => tree.calls[r] = tree.handler[r]
    BY DEF Engine!Accepted, Engine!PerformsItsOperation
  <2>2. tree.calls["Place"] = tree.handler["Place"]
    BY DEF Engine!Assured
  <2> QED BY <1>2, <1>7, <2>1, <2>2, HandlersKinds DEF Engine!Performs
<1>10. Engine!Runs(k, p) = {r}
  <2>1. Engine!Bound(r) =
          {q \in Engine!Registrations :
             /\ tree.named[tree.container[q]] = tree.named[tree.container[r]]
             /\ tree.registered[q] = tree.registered[r]}
    BY <1>7, HandlersKinds DEF Engine!Bound
  <2>2. ASSUME NEW q \in Engine!Registrations, q \in Engine!Bound(r) PROVE q = r
    <3>1. tree.named[tree.container[q]] = tree.named[tree.container[r]] /\ tree.registered[q] = tree.registered[r]
      BY <2>1, <2>2
    <3>2. tree.container[q] \in Containers /\ tree.container[r] \in Containers
      BY <1>2 DEF EngineTree
    <3>3. tree.container[q] = tree.container[r]
      BY <3>1, <3>2 DEF EngineTree
    <3>4. q # r /\ tree.container[q] = tree.container[r] => tree.registered[q] # tree.registered[r]
      BY <1>2 DEF Engine!Accepted, Engine!ContainersNamed
    <3> QED BY <3>1, <3>3, <3>4
  <2>3. r \in Engine!Bound(r)
    BY <1>2, <2>1
  <2>4. {q \in Engine!Bound(r) : by.prefix = Engine!Prefix(q)} = {r}
    <3>1. Engine!Bound(r) = {r}
      BY <2>1, <2>2, <2>3
    <3> HIDE DEF by, r
    <3> QED BY <1>5, <3>1
  <2>5. Engine!Runs(k, p) = LET found == {q \in Engine!Bound(r) : by.prefix = Engine!Prefix(q)}
                            IN  IF found = {} THEN {"nobody"} ELSE found
    BY <1>1 DEF Engine!Runs
  <2> HIDE DEF by, r
  <2> QED BY <2>4, <2>5
<1>11. tree.relay[k][1] = Engine!PerformedBy(r)
  <2> DEFINE F == Engine!FarSide(tree, r)
             same == {c \in Engine!Calls(tree) : c.op = p[2]}
             sides == {Engine!FarSide(tree, n.by.to) : n \in same} \ {"unread"}
  <2>1. F = Engine!PerformedBy(r) /\ F # "unread"
    BY <1>2, FarSidesAreRead
  <2>2. m \in same
    BY <1>4
  <2>3. \A n \in same : Engine!FarSide(tree, n.by.to) = F
    BY <1>4 DEF Engine!Assured
  <2>4. F \in sides
    BY <2>1, <2>2
  <2>5. sides = {F}
    <3> HIDE DEF F, same
    <3> QED BY <2>3, <2>4
  <2>6. Engine!SideOf(tree, p[2]) = {F}
    <3>1. Engine!SideOf(tree, p[2]) = IF Engine!Cardinality(sides) = 1 THEN sides ELSE {}
      BY DEF Engine!SideOf
    <3> HIDE DEF sides, F
    <3> QED BY <2>5, <3>1, EnginesCount, FS_Singleton
  <2>7. UNION {Engine!SideOf(tree, o[2]) : o \in tree.carries[k]} \subseteq {tree.relay[k][1]}
    BY DEF Engine!Accepted, Engine!RelayNamed
  <2>8. Engine!SideOf(tree, p[2]) \subseteq {tree.relay[k][1]}
    BY <2>7
  <2> HIDE DEF F
  <2> QED BY <2>1, <2>6, <2>8
<1> QED BY <1>2, <1>8, <1>9, <1>10, <1>11

(* What an edit makes of a tree is one.                                    *)
LEMMA EngineTreesAreEdited ==
    ASSUME EngineTree(tree),
           \/ Engine!EditRegistration \/ Engine!EditContainer \/ Engine!EditState
           \/ Engine!EditRelay \/ Engine!EditMethod
    PROVE  EngineTree(tree')
<1> DEFINE Fields == {"handler", "registered", "takes", "calls", "container", "named", "relay", "carries",
                      "methods", "constants", "sets", "setsFirst", "reads", "readsFirst", "obeys", "resolves"}
           Handlers == [Engine!Registrations -> Engine!Operations]
           Places == [Engine!Registrations -> Containers]
           Taken == [Engine!Activities -> SUBSET Engine!Clients]
           Named(f) == DOMAIN f = Containers /\ \A c, d \in Containers : f[c] = f[d] => c = d
           Values == [{"PLACE", "PAID"} -> Seq(Engine!Operations)]
           Bodies(f) == DOMAIN f = Engine!Relays /\ \A k \in Engine!Relays : Dispatches(f[k])
           Full(t) == /\ DOMAIN t = Fields /\ t.handler \in Handlers /\ t.container \in Places
                      /\ Named(t.named) /\ t.takes \in Taken /\ t.constants \in Values /\ Bodies(t.methods)
<1>1. \A t : EngineTree(t) = Full(t)
  BY DEF EngineTree
<1>2. Full(tree)
  BY <1>1
<1> SUFFICES Full(tree')
  BY <1>1
<1>3. /\ \A r \in Engine!Registrations : \A c \in Engine!Attrs(r) : c \in Containers
      /\ Engine!Activities \subseteq Engine!Registrations
  BY HandlersKinds DEF Engine!Attrs, Containers
<1>4. CASE Engine!EditRegistration
  <2> HIDE DEF Handlers, Places, Taken, Named, Values, Bodies
  <2>1. CASE \E r \in Engine!Registrations : \E o \in Engine!Operations :
               tree' = [tree EXCEPT !.handler[r] = o, !.registered[r] = o]
    <3>1. PICK r \in Engine!Registrations, o \in Engine!Operations :
            tree' = [tree EXCEPT !.handler[r] = o, !.registered[r] = o]
      BY <2>1
    <3>2. /\ tree'.handler = [tree.handler EXCEPT ![r] = o] /\ DOMAIN tree' = Fields
          /\ tree'.container = tree.container /\ tree'.named = tree.named /\ tree'.takes = tree.takes
          /\ tree'.constants = tree.constants /\ tree'.methods = tree.methods
      BY <1>2, <3>1
    <3>3. tree'.handler \in Handlers
      BY <1>2, <3>1, <3>2 DEF Handlers
    <3> QED BY <1>2, <3>2, <3>3
  <2>2. CASE \E a, b \in Engine!Activities :
               tree' = [tree EXCEPT !.handler[a] = tree.handler[b], !.registered[a] = tree.registered[b],
                                    !.takes[a] = tree.takes[b], !.calls[a] = tree.calls[b],
                                    !.container[a] = tree.container[b]]
    <3>1. PICK a \in Engine!Activities, b \in Engine!Activities :
            tree' = [tree EXCEPT !.handler[a] = tree.handler[b], !.registered[a] = tree.registered[b],
                                 !.takes[a] = tree.takes[b], !.calls[a] = tree.calls[b],
                                 !.container[a] = tree.container[b]]
      BY <2>2
    <3>2. /\ tree'.handler = [tree.handler EXCEPT ![a] = tree.handler[b]] /\ DOMAIN tree' = Fields
          /\ tree'.container = [tree.container EXCEPT ![a] = tree.container[b]]
          /\ tree'.takes = [tree.takes EXCEPT ![a] = tree.takes[b]]
          /\ tree'.named = tree.named
          /\ tree'.constants = tree.constants /\ tree'.methods = tree.methods
      BY <1>2, <3>1
    <3>3. tree'.handler \in Handlers
      BY <1>2, <1>3, <3>1, <3>2 DEF Handlers
    <3>4. tree'.container \in Places
      BY <1>2, <1>3, <3>1, <3>2 DEF Places
    <3>5. tree'.takes \in Taken
      BY <1>2, <3>1, <3>2 DEF Taken
    <3> QED BY <1>2, <3>2, <3>3, <3>4, <3>5
  <2>3. CASE \E a \in Engine!Activities : \E s \in (SUBSET Engine!Clients) \ {{}} :
               tree' = [tree EXCEPT !.takes[a] = s]
    <3>1. PICK a \in Engine!Activities, s \in SUBSET Engine!Clients : tree' = [tree EXCEPT !.takes[a] = s]
      BY <2>3
    <3>2. /\ tree'.takes = [tree.takes EXCEPT ![a] = s] /\ DOMAIN tree' = Fields
          /\ tree'.container = tree.container /\ tree'.named = tree.named /\ tree'.handler = tree.handler
          /\ tree'.constants = tree.constants /\ tree'.methods = tree.methods
      BY <1>2, <3>1
    <3>3. tree'.takes \in Taken
      BY <1>2, <3>1, <3>2 DEF Taken
    <3> QED BY <1>2, <3>2, <3>3
  <2>4. CASE \/ \E r \in Engine!Registrations : \E n \in Engine!Operations \cup {"unread", "never"} :
                   tree' = [tree EXCEPT !.registered[r] = n]
             \/ \E r \in Engine!Activities \cup {"Place"} : \E o \in Engine!Operations :
                   tree' = [tree EXCEPT !.calls[r] = o]
    <3>1. /\ tree'.handler = tree.handler /\ tree'.takes = tree.takes /\ DOMAIN tree' = Fields
          /\ tree'.container = tree.container /\ tree'.named = tree.named
          /\ tree'.constants = tree.constants /\ tree'.methods = tree.methods
      BY <1>2, <2>4
    <3> QED BY <1>2, <3>1
  <2> QED BY <1>4, <2>1, <2>2, <2>3, <2>4 DEF Engine!EditRegistration
<1>5. CASE Engine!EditContainer
  <2> HIDE DEF Handlers, Places, Taken, Values, Bodies
  <2>1. CASE \E r \in Engine!Registrations : \E c \in Engine!Attrs(r) :
               tree' = [tree EXCEPT !.container[r] = c]
    <3>1. PICK r \in Engine!Registrations : \E c \in Engine!Attrs(r) : tree' = [tree EXCEPT !.container[r] = c]
      BY <2>1
    <3>2. PICK c \in Containers : tree' = [tree EXCEPT !.container[r] = c]
      BY <1>3, <3>1
    <3>3. /\ tree'.container = [tree.container EXCEPT ![r] = c] /\ DOMAIN tree' = Fields
          /\ tree'.handler = tree.handler /\ tree'.named = tree.named /\ tree'.takes = tree.takes
          /\ tree'.constants = tree.constants /\ tree'.methods = tree.methods
      BY <1>2, <3>2
    <3>4. tree'.container \in Places
      BY <1>2, <3>1, <3>2, <3>3 DEF Places
    <3> QED BY <1>2, <3>3, <3>4
  <2>2. ASSUME NEW f, Named(f), tree' = [tree EXCEPT !.named = f] PROVE Full(tree')
    <3>1. /\ tree'.named = f /\ DOMAIN tree' = Fields
          /\ tree'.handler = tree.handler /\ tree'.container = tree.container /\ tree'.takes = tree.takes
          /\ tree'.constants = tree.constants /\ tree'.methods = tree.methods
      BY <1>2, <2>2
    <3> HIDE DEF Named
    <3> QED BY <1>2, <2>2, <3>1
  <2>3. CASE \E c \in DOMAIN tree.named :
               \E s \in {"Payment", "Shipping", "Order", "Ledger"} \ Engine!Range(tree.named) :
                  tree' = [tree EXCEPT !.named[c] = s]
    <3>1. PICK c \in DOMAIN tree.named :
               \E s \in {"Payment", "Shipping", "Order", "Ledger"} \ Engine!Range(tree.named) :
                  tree' = [tree EXCEPT !.named[c] = s]
      BY <2>3
    <3>2. PICK s \in {"Payment", "Shipping", "Order", "Ledger"} \ Engine!Range(tree.named) :
             tree' = [tree EXCEPT !.named[c] = s]
      BY <3>1
    <3>3. \A d \in Containers : tree.named[d] # s
      BY <1>2, <3>2 DEF Engine!Range
    <3> DEFINE g == [tree.named EXCEPT ![c] = s]
    <3>4. Named(g)
      BY <1>2, <3>3
    <3>5. tree' = [tree EXCEPT !.named = g]
      BY <1>2, <3>2
    <3> HIDE DEF g
    <3> QED BY <2>2, <3>4, <3>5
  <2>4. CASE \E c, d \in DOMAIN tree.named :
               tree' = [tree EXCEPT !.named[c] = tree.named[d], !.named[d] = tree.named[c]]
    <3>1. PICK c \in DOMAIN tree.named, d \in DOMAIN tree.named :
               tree' = [tree EXCEPT !.named[c] = tree.named[d], !.named[d] = tree.named[c]]
      BY <2>4
    <3> DEFINE g == [tree.named EXCEPT ![c] = tree.named[d], ![d] = tree.named[c]]
    <3>2. Named(g)
      BY <1>2
    <3>3. tree' = [tree EXCEPT !.named = g]
      BY <1>2, <3>1
    <3> HIDE DEF g
    <3> QED BY <2>2, <3>2, <3>3
  <2> QED BY <1>5, <2>1, <2>3, <2>4 DEF Engine!EditContainer
<1>6. CASE Engine!EditState
  <2> HIDE DEF Handlers, Places, Taken, Named, Bodies
  <2>1. CASE \E c \in DOMAIN tree.constants : \E v \in Engine!Operations :
               \/ tree' = [tree EXCEPT !.constants[c] = <<v>>]
               \/ tree' = [tree EXCEPT !.constants[c] = Append(@, v)]
    <3>1. PICK c \in DOMAIN tree.constants, v \in Engine!Operations :
               \/ tree' = [tree EXCEPT !.constants[c] = <<v>>]
               \/ tree' = [tree EXCEPT !.constants[c] = Append(@, v)]
      BY <2>1
    <3>2. PICK w \in Seq(Engine!Operations) : tree' = [tree EXCEPT !.constants[c] = w]
      <4>1. tree.constants[c] \in Seq(Engine!Operations)
        BY <1>2
      <4>2. <<v>> \in Seq(Engine!Operations) /\ Append(tree.constants[c], v) \in Seq(Engine!Operations)
        BY <4>1
      <4> HIDE DEF Values
      <4> QED BY <3>1, <4>2
    <3>3. /\ tree'.constants = [tree.constants EXCEPT ![c] = w] /\ DOMAIN tree' = Fields
          /\ tree'.handler = tree.handler /\ tree'.container = tree.container /\ tree'.takes = tree.takes
          /\ tree'.named = tree.named /\ tree'.methods = tree.methods
      BY <1>2, <3>2
    <3>4. tree'.constants \in Values
      BY <1>2, <3>2, <3>3
    <3> HIDE DEF Values
    <3> QED BY <1>2, <3>3, <3>4
  <2>2. CASE \/ \E c \in DOMAIN tree.constants \cup {"none"} :
                   \/ tree' = [tree EXCEPT !.sets = c]
                   \/ tree' = [tree EXCEPT !.reads = c]
                   \/ tree' = [tree EXCEPT !.resolves = c]
             \/ tree' = [tree EXCEPT !.setsFirst = ~@]
             \/ tree' = [tree EXCEPT !.readsFirst = ~@]
             \/ tree' = [tree EXCEPT !.obeys = ~@]
    <3> HIDE DEF Values
    <3>1. /\ tree'.handler = tree.handler /\ tree'.takes = tree.takes /\ DOMAIN tree' = Fields
          /\ tree'.container = tree.container /\ tree'.named = tree.named
          /\ tree'.constants = tree.constants /\ tree'.methods = tree.methods
      BY <1>2, <2>2
    <3> QED BY <1>2, <3>1
  <2> QED BY <1>6, <2>1, <2>2 DEF Engine!EditState
<1> HIDE DEF Handlers, Places, Taken, Named, Values
<1>7. ASSUME NEW k \in Engine!Relays, NEW ms, Dispatches(ms), NEW t, Full(t), NEW ps
      PROVE  /\ Full([t EXCEPT !.methods[k] = ms])
             /\ Full([t EXCEPT !.carries[k] = ps, !.methods[k] = ms])
  <2> DEFINE b == [t.methods EXCEPT ![k] = ms]
             u == [t EXCEPT !.methods[k] = ms]
             v == [t EXCEPT !.carries[k] = ps, !.methods[k] = ms]
  <2>1. Bodies(b)
    BY <1>7
  <2> HIDE DEF Bodies
  <2>2. /\ u.methods = b /\ DOMAIN u = Fields
        /\ u.handler = t.handler /\ u.takes = t.takes /\ u.container = t.container
        /\ u.named = t.named /\ u.constants = t.constants
    BY <1>7
  <2>3. /\ v.methods = b /\ DOMAIN v = Fields
        /\ v.handler = t.handler /\ v.takes = t.takes /\ v.container = t.container
        /\ v.named = t.named /\ v.constants = t.constants
    BY <1>7
  <2> HIDE DEF b, u, v
  <2>4. Full(u) /\ Full(v)
    BY <1>7, <2>1, <2>2, <2>3
  <2> QED BY <2>4 DEF u, v
<1>8. \A k \in Engine!Relays : Dispatches(tree.methods[k])
  BY <1>2
<1>9. CASE Engine!EditRelay
  <2>1. PICK k \in Engine!Relays :
          \/ \E n \in Engine!Sides \X BOOLEAN : tree' = [tree EXCEPT !.relay[k] = n]
          \/ \E p \in tree.carries[k] : tree' = [tree EXCEPT !.carries[k] = @ \ {p}]
          \/ \E p \in DOMAIN tree.methods[k] : tree' = [tree EXCEPT !.methods[k] = Engine!Without(@, p)]
          \/ \E p \in Engine!Modes \X Engine!Operations : \E b \in Engine!Bodies(p[1]) :
                tree' = [tree EXCEPT !.carries[k] = @ \cup {p}, !.methods[k] = Engine!With(@, p, b)]
    BY <1>9 DEF Engine!EditRelay
  <2>2. CASE \/ \E n \in Engine!Sides \X BOOLEAN : tree' = [tree EXCEPT !.relay[k] = n]
             \/ \E p \in tree.carries[k] : tree' = [tree EXCEPT !.carries[k] = @ \ {p}]
    <3> HIDE DEF Bodies
    <3>1. /\ tree'.handler = tree.handler /\ tree'.takes = tree.takes /\ DOMAIN tree' = Fields
          /\ tree'.container = tree.container /\ tree'.named = tree.named
          /\ tree'.constants = tree.constants /\ tree'.methods = tree.methods
      BY <1>2, <2>2
    <3> QED BY <1>2, <3>1
  <2>3. CASE \E p \in DOMAIN tree.methods[k] : tree' = [tree EXCEPT !.methods[k] = Engine!Without(@, p)]
    <3>1. PICK p \in DOMAIN tree.methods[k] :
            tree' = [tree EXCEPT !.methods[k] = Engine!Without(tree.methods[k], p)]
      BY <2>3
    <3>2. Dispatches(Engine!Without(tree.methods[k], p))
      BY <1>8 DEF Dispatches, Engine!Without
    <3> HIDE DEF Full
    <3> QED BY <1>2, <1>7, <3>1, <3>2
  <2>4. CASE \E p \in Engine!Modes \X Engine!Operations : \E b \in Engine!Bodies(p[1]) :
                tree' = [tree EXCEPT !.carries[k] = @ \cup {p}, !.methods[k] = Engine!With(@, p, b)]
    <3>1. PICK p \in Engine!Modes \X Engine!Operations : \E b \in Engine!Bodies(p[1]) :
            tree' = [tree EXCEPT !.carries[k] = tree.carries[k] \cup {p},
                                 !.methods[k] = Engine!With(tree.methods[k], p, b)]
      BY <2>4
    <3>2. PICK b \in Engine!Bodies(p[1]) :
            tree' = [tree EXCEPT !.carries[k] = tree.carries[k] \cup {p},
                                 !.methods[k] = Engine!With(tree.methods[k], p, b)]
      BY <3>1
    <3>3. p[1] # "await" => b.to \in Engine!Registrations
      BY DEF Engine!Bodies, Engine!Method
    <3>4. Dispatches(Engine!With(tree.methods[k], p, b))
      BY <1>8, <3>3 DEF Dispatches, Engine!With
    <3> HIDE DEF Full
    <3> QED BY <1>2, <1>7, <3>2, <3>4
  <2> QED BY <2>1, <2>2, <2>3, <2>4
<1>10. CASE Engine!EditMethod
  <2>1. PICK k \in Engine!Relays : \E p \in DOMAIN tree.methods[k] :
          \/ /\ p[1] # "await"
             /\ \/ \E j \in Engine!Relays : \E o \in Engine!Operations :
                      LET q == <<p[1], o>>
                          t == Engine!Changed(tree, k, tree.carries[k] \ {p}, Engine!Without(tree.methods[k], p))
                      IN  tree' = Engine!Changed(t, j, t.carries[j] \cup {q}, Engine!With(t.methods[j], q, tree.methods[k][p]))
                \/ \E v \in {"call", "send"} : tree' = [tree EXCEPT !.methods[k][p].verb = v]
                \/ \E f \in {"service", "workflow"} : tree' = [tree EXCEPT !.methods[k][p].prefix = f]
                \/ \E r \in Engine!Registrations : tree' = [tree EXCEPT !.methods[k][p].to = r]
          \/ /\ p[1] = "await"
             /\ \E c \in {"PLACE", "PAID", "unread"} : tree' = [tree EXCEPT !.methods[k][p].to = c]
    BY <1>10 DEF Engine!EditMethod
  <2>2. PICK p \in DOMAIN tree.methods[k] :
          \/ /\ p[1] # "await"
             /\ \/ \E j \in Engine!Relays : \E o \in Engine!Operations :
                      LET q == <<p[1], o>>
                          t == Engine!Changed(tree, k, tree.carries[k] \ {p}, Engine!Without(tree.methods[k], p))
                      IN  tree' = Engine!Changed(t, j, t.carries[j] \cup {q}, Engine!With(t.methods[j], q, tree.methods[k][p]))
                \/ \E v \in {"call", "send"} : tree' = [tree EXCEPT !.methods[k][p].verb = v]
                \/ \E f \in {"service", "workflow"} : tree' = [tree EXCEPT !.methods[k][p].prefix = f]
                \/ \E r \in Engine!Registrations : tree' = [tree EXCEPT !.methods[k][p].to = r]
          \/ /\ p[1] = "await"
             /\ \E c \in {"PLACE", "PAID", "unread"} : tree' = [tree EXCEPT !.methods[k][p].to = c]
    BY <2>1
  <2> DEFINE ms == tree.methods[k]
  <2>3. Dispatches(ms) /\ p \in Engine!Modes \X Engine!Operations
    BY <1>8 DEF Dispatches
  <2>4. ASSUME NEW b, p[1] # "await" => b.to \in Engine!Registrations,
               tree' = [tree EXCEPT !.methods[k] = [ms EXCEPT ![p] = b]]
        PROVE  Full(tree')
    <3>1. Dispatches([ms EXCEPT ![p] = b])
      BY <2>3, <2>4 DEF Dispatches
    <3> HIDE DEF Full, ms
    <3> QED BY <1>2, <1>7, <2>4, <3>1
  <2>5. CASE /\ p[1] # "await"
             /\ \E j \in Engine!Relays : \E o \in Engine!Operations :
                   LET q == <<p[1], o>>
                       t == Engine!Changed(tree, k, tree.carries[k] \ {p}, Engine!Without(tree.methods[k], p))
                   IN  tree' = Engine!Changed(t, j, t.carries[j] \cup {q}, Engine!With(t.methods[j], q, tree.methods[k][p]))
    <3> DEFINE t == Engine!Changed(tree, k, tree.carries[k] \ {p}, Engine!Without(tree.methods[k], p))
    <3>1. PICK j \in Engine!Relays, o \in Engine!Operations :
            tree' = Engine!Changed(t, j, t.carries[j] \cup {<<p[1], o>>},
                                   Engine!With(t.methods[j], <<p[1], o>>, tree.methods[k][p]))
      BY <2>5
    <3>2. Dispatches(Engine!Without(tree.methods[k], p))
      BY <2>3 DEF Dispatches, Engine!Without
    <3>3. Full(t)
      <4> HIDE DEF Full
      <4> QED BY <1>2, <1>7, <3>2 DEF Engine!Changed
    <3> HIDE DEF t
    <3>4. Dispatches(t.methods[j]) /\ tree.methods[k][p].to \in Engine!Registrations
      BY <2>3, <2>5, <3>3 DEF Dispatches
    <3>5. <<p[1], o>> \in Engine!Modes \X Engine!Operations
      BY <2>3
    <3>6. Dispatches(Engine!With(t.methods[j], <<p[1], o>>, tree.methods[k][p]))
      BY <3>4, <3>5 DEF Dispatches, Engine!With
    <3> HIDE DEF Full
    <3> QED BY <1>7, <3>1, <3>3, <3>6 DEF Engine!Changed
  <2>6. CASE /\ p[1] # "await"
             /\ \/ \E v \in {"call", "send"} : tree' = [tree EXCEPT !.methods[k][p].verb = v]
                \/ \E f \in {"service", "workflow"} : tree' = [tree EXCEPT !.methods[k][p].prefix = f]
    <3>1. PICK v : \/ tree' = [tree EXCEPT !.methods[k] = [ms EXCEPT ![p] = [ms[p] EXCEPT !.verb = v]]]
                   \/ tree' = [tree EXCEPT !.methods[k] = [ms EXCEPT ![p] = [ms[p] EXCEPT !.prefix = v]]]
      BY <2>6
    <3>2. [ms[p] EXCEPT !.verb = v].to = ms[p].to /\ [ms[p] EXCEPT !.prefix = v].to = ms[p].to
      OBVIOUS
    <3>3. ms[p].to \in Engine!Registrations
      BY <2>3, <2>6 DEF Dispatches
    <3> HIDE DEF Full
    <3> QED BY <2>4, <3>1, <3>2, <3>3
  <2>7. CASE /\ p[1] # "await"
             /\ \E r \in Engine!Registrations : tree' = [tree EXCEPT !.methods[k][p].to = r]
    <3>1. PICK r \in Engine!Registrations :
            tree' = [tree EXCEPT !.methods[k] = [ms EXCEPT ![p] = [ms[p] EXCEPT !.to = r]]]
      BY <2>7
    <3>2. [ms[p] EXCEPT !.to = r].to \in Engine!Registrations
      OBVIOUS
    <3> HIDE DEF Full
    <3> QED BY <2>4, <3>1, <3>2
  <2>8. CASE /\ p[1] = "await"
             /\ \E c \in {"PLACE", "PAID", "unread"} : tree' = [tree EXCEPT !.methods[k][p].to = c]
    <3>1. PICK c : tree' = [tree EXCEPT !.methods[k] = [ms EXCEPT ![p] = [ms[p] EXCEPT !.to = c]]]
      BY <2>8
    <3> HIDE DEF Full
    <3> QED BY <2>4, <2>8, <3>1
  <2> QED BY <2>2, <2>5, <2>6, <2>7, <2>8
<1> QED BY <1>4, <1>5, <1>6, <1>9, <1>10

(* The tree in order is one, and nothing has run.                          *)
LEMMA EngineInit == Engine!Init => EngineInv
<1> SUFFICES ASSUME Engine!Init PROVE EngineInv
  OBVIOUS
<1>1. /\ tree = Engine!Sound /\ running = FALSE /\ last = {}
      /\ main = "idle" /\ state = {} /\ promises = {} /\ signal = "idle"
  BY DEF Engine!Init
<1> DEFINE t == Engine!Sound
<1>2. EngineTree(t)
  <2>1. /\ DOMAIN t = {"handler", "registered", "takes", "calls", "container", "named", "relay", "carries",
                       "methods", "constants", "sets", "setsFirst", "reads", "readsFirst", "obeys", "resolves"}
        /\ t.handler = [Place |-> "place", Charge |-> "charge", Ship |-> "ship", Paid |-> "paid"]
        /\ t.container = [Place |-> "orders", Paid |-> "orders", Charge |-> "payments", Ship |-> "shipments"]
        /\ t.named = [orders |-> "Order", spare |-> "Ledger", payments |-> "Payment", shipments |-> "Shipping"]
        /\ t.takes = [Charge |-> {"Payment"}, Ship |-> {"Shipping"}]
        /\ t.constants = [PLACE |-> <<"place">>, PAID |-> <<"paid">>]
    BY DEF Engine!Sound
  <2>2. t.handler \in [Engine!Registrations -> Engine!Operations]
    BY <2>1, HandlersKinds
  <2>3. t.container \in [Engine!Registrations -> Containers]
    BY <2>1, HandlersKinds DEF Containers
  <2>4. DOMAIN t.named = Containers /\ \A c, d \in Containers : t.named[c] = t.named[d] => c = d
    BY <2>1 DEF Containers
  <2>5. t.takes \in [Engine!Activities -> SUBSET Engine!Clients]
    BY <2>1, HandlersKinds DEF Engine!Clients
  <2>6. t.constants \in [{"PLACE", "PAID"} -> Seq(Engine!Operations)]
    <3> DEFINE place == <<"place">>
               paid == <<"paid">>
    <3>1. place \in Seq(Engine!Operations) /\ paid \in Seq(Engine!Operations)
      BY HandlersKinds
    <3>2. t.constants = [PLACE |-> place, PAID |-> paid]
      BY <2>1
    <3> HIDE DEF place, paid, t
    <3>3. t.constants = [c \in {"PLACE", "PAID"} |-> IF c = "PLACE" THEN place ELSE paid]
      BY <3>2
    <3> QED BY <3>1, <3>3
  <2>7. DOMAIN t.methods = Engine!Relays /\ \A k \in Engine!Relays : Dispatches(t.methods[k])
    <3> DEFINE place == Engine!Method("send", "workflow", "Place")
               paid == Engine!Method("call", "workflow", "Paid")
               charge == Engine!Method("call", "service", "Charge")
               ship == Engine!Method("send", "service", "Ship")
               wait == Engine!Method("promise", "", "PAID")
               mains == Engine!With(Engine!Only(<<"start", "place">>, place), <<"run", "paid">>, paid)
    <3>1. t.methods = [main |-> mains, pay |-> Engine!Only(<<"run", "charge">>, charge),
                       send |-> Engine!Only(<<"start", "ship">>, ship),
                       wait |-> Engine!Only(<<"await", "paid">>, wait)]
      BY DEF Engine!Sound
    <3>2. /\ place.to = "Place" /\ paid.to = "Paid" /\ charge.to = "Charge" /\ ship.to = "Ship"
      BY DEF Engine!Method
    <3> HIDE DEF place, paid, charge, ship, wait
    <3>3. /\ \A o \in Engine!Operations : \A v \in Engine!Modes : <<v, o>> \in Engine!Modes \X Engine!Operations
          /\ Engine!Modes = {"start", "run", "await"}
      BY DEF Engine!Modes
    <3>4. ASSUME NEW q \in Engine!Modes \X Engine!Operations, NEW b, q[1] # "await" => b.to \in Engine!Registrations
          PROVE  Dispatches(Engine!Only(q, b))
      BY <3>4 DEF Dispatches, Engine!Only
    <3>5. Dispatches(mains)
      BY <3>2, <3>3, HandlersKinds DEF Dispatches, Engine!Only, Engine!With
    <3>6. /\ Dispatches(Engine!Only(<<"run", "charge">>, charge))
          /\ Dispatches(Engine!Only(<<"start", "ship">>, ship))
          /\ Dispatches(Engine!Only(<<"await", "paid">>, wait))
      BY <3>2, <3>3, <3>4, HandlersKinds
    <3> HIDE DEF mains
    <3> QED BY <3>1, <3>5, <3>6 DEF Engine!Relays
  <2> QED BY <2>1, <2>2, <2>3, <2>4, <2>5, <2>6, <2>7 DEF EngineTree
<1> QED BY <1>1, <1>2 DEF EngineInv

(* A call runs what CallsAreRouted says, and the main and its signal meet   *)
(* in the state that StatesAgree names.                                    *)
LEMMA EngineNext == EngineInv /\ Engine!Next => EngineInv'
<1> SUFFICES ASSUME EngineInv, Engine!Next PROVE EngineInv'
  OBVIOUS
<1>1. CASE Engine!Edit
  <2>1. /\ ~running /\ running' = running /\ last' = last /\ main' = main /\ state' = state
        /\ promises' = promises /\ signal' = signal
    BY <1>1 DEF Engine!Edit
  <2>2. EngineTree(tree')
    BY <1>1, EngineTreesAreEdited DEF Engine!Edit, EngineInv
  <2> QED BY <2>1, <2>2 DEF EngineInv
<1>2. CASE Engine!Deploy
  <2>1. /\ ~running /\ running' = TRUE /\ tree' = tree /\ last' = last /\ main' = main /\ state' = state
        /\ promises' = promises /\ signal' = signal
        /\ Engine!Accepted(tree) /\ Engine!Assured(tree)
    BY <1>2 DEF Engine!Deploy
  <2>2. Engine!Accepted(tree') /\ Engine!Assured(tree')
    BY <2>1
  <2> QED BY <2>1, <2>2 DEF EngineInv
<1>3. ASSUME running, tree' = tree, running' = running
      PROVE  /\ EngineTree(tree') /\ running'
             /\ Engine!Accepted(tree) /\ Engine!Assured(tree)
             /\ Engine!Accepted(tree') /\ Engine!Assured(tree')
  BY <1>3 DEF EngineInv
<1>4. CASE \E k \in Engine!Relays, p \in Engine!Modes \X Engine!Operations : Engine!Invoke(k, p)
  <2>1. PICK k \in Engine!Relays, p \in Engine!Modes \X Engine!Operations : Engine!Invoke(k, p)
    BY <1>4
  <2>2. /\ running /\ tree' = tree /\ running' = running /\ state' = state /\ promises' = promises
        /\ p \in tree.carries[k] /\ p[1] # "await"
    BY <2>1 DEF Engine!Invoke
  <2>3. Engine!Runs(k, p) = {tree.methods[k][p].to}
    BY <1>3, <2>2, CallsAreRouted DEF EngineInv
  <2> DEFINE r == tree.methods[k][p].to
             c == [relay |-> k, mode |-> p[1], op |-> p[2], ran |-> r]
  <2>4. /\ last' = {c}
        /\ main' = IF r = "Place" /\ main = "idle" THEN "started" ELSE main
        /\ signal' = IF r = "Paid" /\ signal \in {"idle", "refused", "heard"} THEN "arrived" ELSE signal
    BY <2>1, <2>3 DEF Engine!Invoke
  <2>5. p = <<c.mode, c.op>> /\ c.relay = k /\ c.ran = r
    OBVIOUS
  <2>6. \A d \in last' :
           /\ running' /\ d.relay \in Engine!Relays
           /\ <<d.mode, d.op>> \in Engine!Modes \X Engine!Operations
           /\ <<d.mode, d.op>> \in tree'.carries[d.relay] /\ d.mode # "await"
           /\ d.ran = tree'.methods[d.relay][<<d.mode, d.op>>].to
    <3> HIDE DEF r
    <3>1. \A d \in last' : d = c
      BY <2>4
    <3> QED BY <2>2, <2>4, <2>5 DEF r
  <2> HIDE DEF r, c
  <2> QED BY <1>3, <2>2, <2>4, <2>6 DEF EngineInv
<1>5. CASE Engine!Begin
  <2>1. /\ main = "started" /\ main' = "waiting" /\ running
        /\ state' = IF tree.setsFirst THEN state \cup Engine!Set ELSE state
        /\ tree' = tree /\ running' = running /\ last' = last /\ promises' = promises /\ signal' = signal
    BY <1>5 DEF Engine!Begin, EngineInv
  <2>2. tree.handler["Place"] \in state'
    BY <1>3, <2>1, StatesAgree DEF Engine!Set, EngineInv
  <2> QED BY <1>3, <2>1, <2>2 DEF EngineInv
<1>6. CASE Engine!Finish
  <2>1. /\ main = "waiting" /\ main' = "done" /\ running /\ state' = state \cup Engine!Set
        /\ tree' = tree /\ running' = running /\ last' = last /\ promises' = promises /\ signal' = signal
    BY <1>6 DEF Engine!Finish, EngineInv
  <2> QED BY <1>3, <2>1 DEF EngineInv
<1>7. CASE Engine!ReadState
  <2> DEFINE seen == Engine!Together /\ tree.reads # "none" /\ Engine!Kept(tree, tree.reads) \in state
  <2>1. /\ signal = IF tree.readsFirst THEN "arrived" ELSE "resolved"
        /\ signal' = CASE tree.obeys /\ ~seen /\ tree.reads # "none" -> "refused"
                        [] OTHER -> IF tree.readsFirst THEN "read" ELSE "heard"
        /\ tree' = tree /\ running' = running /\ last' = last /\ promises' = promises
        /\ state' = state /\ main' = main
    BY <1>7 DEF Engine!ReadState
  <2>2. running
    BY <2>1 DEF EngineInv
  <2>3. ~seen => signal' = "refused"
    BY <1>3, <2>1, <2>2, StatesAgree
  <2>4. main = "idle" => ~seen
    BY DEF EngineInv
  <2> HIDE DEF seen
  <2> QED BY <1>3, <2>1, <2>2, <2>3, <2>4 DEF EngineInv
<1>8. CASE Engine!Resolve
  <2>1. /\ signal = IF tree.readsFirst THEN "read" ELSE "arrived"
        /\ signal' = IF tree.readsFirst THEN "heard" ELSE "resolved"
        /\ tree' = tree /\ running' = running /\ last' = last /\ state' = state /\ main' = main
    BY <1>8 DEF Engine!Resolve
  <2>2. running
    BY <2>1 DEF EngineInv
  <2>3. main # "idle"
    BY <1>3, <2>1, <2>2, StatesAgree DEF EngineInv
  <2> QED BY <1>3, <2>1, <2>2, <2>3 DEF EngineInv
<1> QED BY <1>1, <1>2, <1>4, <1>5, <1>6, <1>7, <1>8 DEF Engine!Next

(* What the deployed tree was accepted for is what its calls did.          *)
LEMMA EngineSound ==
    EngineInv => /\ Engine!CallsDoWhatTheirNameSays
                 /\ Engine!RelaysNameTheFarSide
                 /\ Engine!NoPromiseBeforeTheMain
<1> SUFFICES ASSUME EngineInv
             PROVE  /\ Engine!CallsDoWhatTheirNameSays
                    /\ Engine!RelaysNameTheFarSide
                    /\ Engine!NoPromiseBeforeTheMain
  OBVIOUS
<1>1. Engine!NoPromiseBeforeTheMain
  BY DEF EngineInv, Engine!NoPromiseBeforeTheMain
<1>2. ASSUME NEW c \in last
      PROVE  LET by == tree.methods[c.relay][<<c.mode, c.op>>] IN
             /\ c.ran # "nobody" /\ c.ran = by.to
             /\ Engine!Performs(c.ran) = c.op
             /\ (by.verb = "call") = (c.mode = "run")
             /\ tree.relay[c.relay][1] = Engine!PerformedBy(c.ran)
  <2> DEFINE p == <<c.mode, c.op>>
  <2>1. /\ EngineTree(tree) /\ Engine!Accepted(tree) /\ Engine!Assured(tree)
        /\ c.relay \in Engine!Relays /\ p \in tree.carries[c.relay]
        /\ p \in Engine!Modes \X Engine!Operations /\ p[1] # "await"
        /\ c.ran = tree.methods[c.relay][p].to
    BY DEF EngineInv
  <2>2. /\ c.ran \in Engine!Registrations
        /\ Engine!Performs(c.ran) = p[2]
        /\ (tree.methods[c.relay][p].verb = "call") = (p[1] = "run")
        /\ tree.relay[c.relay][1] = Engine!PerformedBy(c.ran)
    BY <2>1, CallsAreRouted
  <2> QED BY <2>1, <2>2, HandlersKinds
<1> QED BY <1>1, <1>2 DEF Engine!CallsDoWhatTheirNameSays, Engine!RelaysNameTheFarSide

(* A signal's handler finds the state that the main set before it waited.  *)
LEMMA WaitingIsHeard ==
    EngineInv /\ Engine!Next /\ signal # "refused" /\ signal' = "refused" => main # "waiting"
<1> SUFFICES ASSUME EngineInv, Engine!Next, signal # "refused", signal' = "refused", main = "waiting" PROVE FALSE
  OBVIOUS
<1>1. Engine!ReadState
  BY DEF Engine!Next, Engine!Edit, Engine!Deploy, Engine!Invoke, Engine!Begin, Engine!Finish, Engine!Resolve
<1>2. EngineTree(tree) /\ Engine!Accepted(tree) /\ Engine!Assured(tree) /\ tree.handler["Place"] \in state
  BY DEF EngineInv
<1>3. Engine!Together /\ tree.reads # "none" /\ Engine!Kept(tree, tree.reads) \in state
  BY <1>2, StatesAgree
<1> QED BY <1>1, <1>3 DEF Engine!ReadState

(* However often a tree is edited, once the engine rules accept it and its *)
(* authors keep to what no rule asks (the conditions of EngineMeets), a    *)
(* call runs the handler its dispatcher passes, on the side its relay is   *)
(* named for, no promise is resolved before the main, and the main is      *)
(* never waiting when its signal is refused (EngineMeets).                 *)
THEOREM EngineCallsMeet == PartSpec => EngineMeets
<1> DEFINE I == part = "engine" => EngineInv
<1>1. PartInit => I
  BY EngineInit DEF PartInit
<1>2. I /\ [PartNext]_partVars => I'
  <2> SUFFICES ASSUME I, [PartNext]_partVars, part' = "engine" PROVE EngineInv'
    OBVIOUS
  <2>1. CASE UNCHANGED partVars
    <3>1. /\ part' = part /\ tree' = tree /\ running' = running /\ last' = last /\ main' = main
          /\ state' = state /\ promises' = promises /\ signal' = signal
      BY <2>1 DEF partVars, treeVars, engineOnly
    <3>2. EngineInv
      BY <3>1
    <3> QED BY <3>1, <3>2 DEF EngineInv
  <2>2. CASE PartNext
    <3>1. part = "engine" /\ Engine!Next
      BY <2>2 DEF PartNext
    <3> QED BY <3>1, EngineNext
  <2> QED BY <2>1, <2>2
<1>3. I => (part = "engine" =>
              /\ Engine!CallsDoWhatTheirNameSays
              /\ Engine!RelaysNameTheFarSide
              /\ Engine!NoPromiseBeforeTheMain)
  BY EngineSound
<1>4. I /\ [PartNext]_partVars =>
        [signal # "refused" /\ signal' = "refused" => main # "waiting"]_(Engine!vars)
  <2> SUFFICES ASSUME I, [PartNext]_partVars, signal # "refused", signal' = "refused", main = "waiting"
               PROVE  FALSE
    OBVIOUS
  <2>1. CASE UNCHANGED partVars
    BY <2>1 DEF partVars, engineOnly
  <2>2. CASE PartNext
    <3>1. part = "engine" /\ Engine!Next
      BY <2>2 DEF PartNext, engineOnly, Runner!Next, Outcome!Next
    <3> QED BY <3>1, WaitingIsHeard
  <2> QED BY <2>1, <2>2
<1> QED BY <1>1, <1>2, <1>3, <1>4, PTL DEF PartSpec, EngineMeets, Engine!SignalsHeardWhileWaiting

-------------------------------------------------------------------------------
(* Outcomes.                                                               *)

(* What the authors may write of a reader. *)
ReadersWritten(who) ==
    [held : Outcome!Held(who), reads : Outcome!Reads(who), arms : [1..2 -> Outcome!Arms],
     closer : Outcome!Closers]

OutcomeTree(t) ==
    /\ DOMAIN t = {"class", "members", "readers"}
    /\ t.class \in Outcome!Class /\ t.members \in SUBSET Outcome!Members
    /\ DOMAIN t.readers = Outcome!Readers
    /\ \A who \in Outcome!Readers : t.readers[who] \in ReadersWritten(who)

(* At most one answer is held, and one decision remembered, once the tree  *)
(* is deployed.                                                            *)
AsksOnce(answers) == answers = {} \/ \E m : answers = {m}

OutcomesInv ==
    /\ OutcomeTree(tree)
    /\ edits \in 0..MaxEdits /\ running \in BOOLEAN
    /\ now \in tree.members
    /\ asked \in [Outcome!Readers -> SUBSET tree.members] /\ \A who \in Outcome!Readers : AsksOnce(asked[who])
    /\ running => Outcome!Accepted(tree) /\ Outcome!TypeChecks(tree) /\ Outcome!Loads(tree.class)
    /\ last = {} \/ (running /\ \E d : last = {d})
    /\ Outcome!NoSilentMember /\ Outcome!DecidesOnTheAnswer

(* Of an accepted tree a reader that decides does so by a match: on what   *)
(* is answered then, but for what a domain object kept of another, and     *)
(* with every member named by an arm, but for a domain object's match that *)
(* names none.                                                             *)
LEMMA ReadersMatch ==
    ASSUME OutcomeTree(tree), NEW who \in Outcome!Readers, Outcome!Accepted(tree),
           Outcome!TypeChecks(tree)
    PROVE  LET r == tree.readers[who] IN
           r.reads # "drop" =>
                /\ Outcome!Later(who) => who = "domain" /\ r.held = "keptOther"
                /\ r.reads = "match"
                /\ who # "domain" => Outcome!OnAnOutcome(r)
                /\ Outcome!OnAnOutcome(r) =>
                     /\ \A i \in 1..2 : r.arms[i].kind = "members" /\ ~r.arms[i].guarded
                     /\ tree.members \subseteq UNION {r.arms[i].names : i \in 1..2}
<1> DEFINE r == tree.readers[who]
<1>1. r \in ReadersWritten(who) /\ who \in {"service", "domain"}
  BY DEF OutcomeTree, Outcome!Readers
<1>2. Outcome!UseAccepted(r) /\ (who = "service" => Outcome!BodyAccepted(r))
  BY <1>1 DEF Outcome!Accepted, Outcome!Readers
<1>3. r.held \in Outcome!Held(who) /\ r.reads \in Outcome!Reads(who) /\ DOMAIN r.arms = 1..2
  BY <1>1 DEF ReadersWritten
<1>4. /\ r.reads = "match" /\ Outcome!OnAnOutcome(r) =>
           /\ \A i \in DOMAIN tree.readers[who].arms :
                tree.readers[who].arms[i].kind = "members" /\ ~tree.readers[who].arms[i].guarded
           /\ tree.readers[who].closer = "never"
      /\ r.reads # "member" /\ r.held \notin {"passed", "keptOwn"}
  BY <1>2 DEF Outcome!UseAccepted, Outcome!NeitherPassedNorKept, Outcome!ClosesOnAssertNever
<1>5. who = "service" =>
         /\ r.reads # "truth"
         /\ r.reads = "match" => r.held \in {"call", "name"} /\ Outcome!OnAnOutcome(r)
  BY <1>2 DEF Outcome!BodyAccepted
<1>6. r.reads \in {"match", "drop"}
  BY <1>1, <1>3, <1>4, <1>5 DEF Outcome!Reads
<1>7. r.reads = "match" /\ Outcome!OnAnOutcome(r) =>
         tree.members \subseteq UNION {r.arms[i].names : i \in 1..2}
  <2> SUFFICES ASSUME r.reads = "match", Outcome!OnAnOutcome(r), NEW m \in tree.members
               PROVE  \E i \in 1..2 : m \in r.arms[i].names
    OBVIOUS
  <2> DEFINE taken == {i \in DOMAIN r.arms : ~r.arms[i].guarded}
  <2>1. \/ tree.members \subseteq UNION {r.arms[i].names : i \in taken}
        \/ \E i \in taken : r.arms[i].kind = "anything"
    BY <1>4 DEF Outcome!TypeChecks
  <2>2. ~\E i \in taken : r.arms[i].kind = "anything"
    BY <1>4
  <2>3. PICK i \in taken : m \in r.arms[i].names
    BY <2>1, <2>2
  <2> QED BY <1>3, <2>3
<1>8. r.reads = "match" /\ Outcome!Later(who) => who = "domain" /\ r.held = "keptOther"
  BY <1>1, <1>2, <1>3, <1>4, <1>5, <1>6 DEF Outcome!Later, Outcome!Held, Outcome!Holdings
<1> QED BY <1>1, <1>3, <1>4, <1>5, <1>6, <1>7, <1>8

LEMMA OutcomesCount == \A S : Outcome!Cardinality(S) = Cardinality(S)
BY Zenon DEF Cardinality, Outcome!Cardinality

(* A tree in order. *)
LEMMA OutcomesInit == Outcome!Init => OutcomesInv
<1> SUFFICES ASSUME Outcome!Init PROVE OutcomesInv
  OBVIOUS
<1> DEFINE Half(s) == s # {} /\ (Outcome!Cardinality(First) > 1 => s # First)
           half == CHOOSE s \in SUBSET First : Half(s)
           other == IF half = First THEN First ELSE First \ half
           r == [held |-> "name", reads |-> "match", closer |-> "never",
                 arms |-> <<Outcome!Arm("members", half, FALSE), Outcome!Arm("members", other, FALSE)>>]
<1>1. Outcome!Sound = [class |-> [bases |-> <<"Outcome">>, wrapped |-> "bare", body |-> {}],
                       members |-> First, readers |-> [who \in Outcome!Readers |-> r]]
  BY DEF Outcome!Sound
<1>2. half \in SUBSET First /\ half # {}
  <2>1. PICK m \in First : TRUE
    BY MembersAssumption
  <2>2. Cardinality({m}) = 1
    BY FS_Singleton
  <2>3. Half({m})
    BY <2>2, OutcomesCount
  <2> QED BY <2>1, <2>3
<1> HIDE DEF half
<1>3. other \in SUBSET First /\ other # {}
  BY <1>2, MembersAssumption
<1> HIDE DEF other
<1>4. /\ Outcome!Arm("members", half, FALSE) \in Outcome!Arms
      /\ Outcome!Arm("members", other, FALSE) \in Outcome!Arms
  <2>1. ASSUME NEW s \in SUBSET First, s # {} PROVE Outcome!Arm("members", s, FALSE) \in Outcome!Arms
    <3>1. s \in (SUBSET Outcome!Members) \ {{}}
      BY <2>1 DEF Outcome!Members
    <3>2. Outcome!Arm("members", s, FALSE)
            \in [kind : {"members"}, names : (SUBSET Outcome!Members) \ {{}}, guarded : BOOLEAN]
      BY <3>1 DEF Outcome!Arm
    <3> QED BY <3>2 DEF Outcome!Arms
  <2> QED BY <1>2, <1>3, <2>1
<1>5. \A who \in Outcome!Readers : r \in ReadersWritten(who)
  <2> DEFINE arms == <<Outcome!Arm("members", half, FALSE), Outcome!Arm("members", other, FALSE)>>
  <2>1. \A a, b \in Outcome!Arms : <<a, b>> \in [1..2 -> Outcome!Arms]
    OBVIOUS
  <2>2. arms \in [1..2 -> Outcome!Arms]
    BY <1>4, <2>1
  <2> HIDE DEF arms
  <2>3. ASSUME NEW who PROVE "name" \in Outcome!Held(who) /\ "match" \in Outcome!Reads(who)
    BY DEF Outcome!Held, Outcome!Reads, Outcome!Holdings
  <2>4. r = [held |-> "name", reads |-> "match", closer |-> "never", arms |-> arms]
    BY DEF arms
  <2>5. "never" \in Outcome!Closers
    BY DEF Outcome!Closers
  <2> QED BY <2>2, <2>3, <2>4, <2>5 DEF ReadersWritten
<1> HIDE DEF r
<1>6. Outcome!Sound.class \in Outcome!Class
  BY <1>1 DEF Outcome!Class
<1>7. OutcomeTree(Outcome!Sound) /\ Outcome!Sound.members = First
  BY <1>1, <1>5, <1>6 DEF OutcomeTree, Outcome!Members
<1>8. tree = Outcome!Sound /\ edits = 0 /\ running = FALSE /\ now \in First /\ last = {}
      /\ asked = [who \in Outcome!Readers |-> {}]
  BY DEF Outcome!Init
<1>9. 0 \in 0..MaxEdits
  BY BoundsNat
<1> QED BY <1>7, <1>8, <1>9
        DEF OutcomesInv, AsksOnce, Outcome!NoSilentMember, Outcome!DecidesOnTheAnswer

(* An edit keeps a tree one, with the members it had. *)
LEMMA OutcomesAreEdited ==
    ASSUME OutcomeTree(tree), Outcome!EditClass \/ Outcome!AddMember \/ Outcome!EditReader
    PROVE  /\ OutcomeTree(tree') /\ tree.members \subseteq tree'.members
           /\ ~running /\ running' = running /\ edits' = edits + 1 /\ edits < MaxEdits
           /\ now' = now /\ asked' = asked /\ last' = last
<1>1. /\ DOMAIN tree = {"class", "members", "readers"} /\ DOMAIN tree.readers = Outcome!Readers
      /\ tree.class \in Outcome!Class /\ tree.members \in SUBSET Outcome!Members
      /\ \A who \in Outcome!Readers : tree.readers[who] \in ReadersWritten(who)
  BY DEF OutcomeTree
<1>2. /\ ~running /\ running' = running /\ edits' = edits + 1 /\ edits < MaxEdits
      /\ now' = now /\ asked' = asked /\ last' = last
  BY DEF Outcome!EditClass, Outcome!AddMember, Outcome!EditReader, Outcome!Edit
<1>3. CASE Outcome!EditClass
  <2>1. PICK c \in Outcome!Class : tree' = [tree EXCEPT !.class = c]
    BY <1>3 DEF Outcome!EditClass, Outcome!Edit
  <2>2. /\ tree'.class = c /\ tree'.members = tree.members /\ tree'.readers = tree.readers
        /\ DOMAIN tree' = DOMAIN tree
    BY <1>1, <2>1
  <2> QED BY <1>1, <1>2, <2>2 DEF OutcomeTree
<1>4. CASE Outcome!AddMember
  <2>1. PICK m \in Added \ tree.members : tree' = [tree EXCEPT !.members = tree.members \cup {m}]
    BY <1>4 DEF Outcome!AddMember, Outcome!Edit
  <2>2. /\ tree'.class = tree.class /\ tree'.members = tree.members \cup {m}
        /\ tree'.readers = tree.readers /\ DOMAIN tree' = DOMAIN tree
    BY <1>1, <2>1
  <2>3. tree'.members \in SUBSET Outcome!Members
    BY <1>1, <2>1, <2>2 DEF Outcome!Members
  <2> QED BY <1>1, <1>2, <2>2, <2>3 DEF OutcomeTree
<1>5. CASE Outcome!EditReader
  <2>1. PICK who \in Outcome!Readers :
          LET r == tree.readers[who]
              EditTo(s) == tree' = [tree EXCEPT !.readers[who] = s]
          IN  \/ \E h \in Outcome!Held(who) : EditTo([r EXCEPT !.held = h])
              \/ \E c \in Outcome!Closers : EditTo([r EXCEPT !.closer = c])
              \/ \E x \in Outcome!Reads(who) : EditTo([r EXCEPT !.reads = x])
              \/ \E i \in 1..2 : \E a \in Outcome!Arms : EditTo([r EXCEPT !.arms[i] = a])
    BY <1>5 DEF Outcome!EditReader, Outcome!Edit
  <2> DEFINE r == tree.readers[who]
  <2>2. r \in ReadersWritten(who)
    BY <1>1
  <2>3. ASSUME NEW s \in ReadersWritten(who), tree' = [tree EXCEPT !.readers[who] = s]
        PROVE  OutcomeTree(tree') /\ tree'.members = tree.members
    <3>1. /\ tree'.class = tree.class /\ tree'.members = tree.members
          /\ tree'.readers = [tree.readers EXCEPT ![who] = s] /\ DOMAIN tree' = DOMAIN tree
      BY <1>1, <2>3
    <3>2. \A other \in Outcome!Readers : tree'.readers[other] \in ReadersWritten(other)
      BY <1>1, <2>3, <3>1
    <3> QED BY <1>1, <3>1, <3>2 DEF OutcomeTree
  <2>4. ASSUME NEW i \in 1..2, NEW a \in Outcome!Arms
        PROVE  [r EXCEPT !.arms[i] = a] \in ReadersWritten(who)
    <3>1. r.arms \in [1..2 -> Outcome!Arms]
      BY <2>2 DEF ReadersWritten
    <3>2. [r.arms EXCEPT ![i] = a] \in [1..2 -> Outcome!Arms]
      BY <3>1
    <3>3. \A arms \in [1..2 -> Outcome!Arms] : [r EXCEPT !.arms = arms] \in ReadersWritten(who)
      <4> HIDE DEF r
      <4> QED BY <2>2 DEF ReadersWritten
    <3> QED BY <3>2, <3>3
  <2>5. /\ \A h \in Outcome!Held(who) : [r EXCEPT !.held = h] \in ReadersWritten(who)
        /\ \A c \in Outcome!Closers : [r EXCEPT !.closer = c] \in ReadersWritten(who)
        /\ \A x \in Outcome!Reads(who) : [r EXCEPT !.reads = x] \in ReadersWritten(who)
    <3> HIDE DEF r
    <3> QED BY <2>2 DEF ReadersWritten
  <2> HIDE DEF r
  <2>6. \E s \in ReadersWritten(who) : tree' = [tree EXCEPT !.readers[who] = s]
    BY <2>1, <2>4, <2>5 DEF r
  <2> QED BY <1>2, <2>3, <2>6
<1> QED BY <1>3, <1>4, <1>5

LEMMA OutcomesNext == OutcomesInv /\ Outcome!Next => OutcomesInv'
<1> SUFFICES ASSUME OutcomesInv, Outcome!Next PROVE OutcomesInv'
  OBVIOUS
<1> USE DEF OutcomesInv, Outcome!NoSilentMember, Outcome!DecidesOnTheAnswer
<1>1. CASE Outcome!EditClass \/ Outcome!AddMember \/ Outcome!EditReader
  <2>1. /\ OutcomeTree(tree') /\ tree.members \subseteq tree'.members
        /\ ~running /\ running' = running /\ edits' = edits + 1 /\ edits < MaxEdits
        /\ now' = now /\ asked' = asked /\ last' = last
    BY <1>1, OutcomesAreEdited
  <2>2. edits' \in 0..MaxEdits
    BY <2>1, BoundsNat
  <2>3. asked' \in [Outcome!Readers -> SUBSET tree'.members]
    BY <2>1
  <2> QED BY <2>1, <2>2, <2>3
<1>2. CASE Outcome!Deploy
  BY <1>2 DEF Outcome!Deploy
<1>3. CASE Outcome!Change
  <2>1. now' \in tree.members /\ UNCHANGED <<tree, edits, running, asked, last>>
    BY <1>3 DEF Outcome!Change
  <2> QED BY <2>1
<1>4. ASSUME NEW who \in Outcome!Readers, Outcome!Ask(who)
      PROVE  OutcomesInv'
  <2>1. asked' = [asked EXCEPT ![who] = {now}] /\ UNCHANGED <<tree, edits, running, now, last>>
    BY <1>4 DEF Outcome!Ask
  <2>2. asked' \in [Outcome!Readers -> SUBSET tree.members]
    BY <2>1
  <2>3. \A other \in Outcome!Readers : AsksOnce(asked'[other])
    BY <2>1 DEF AsksOnce
  <2> QED BY <2>1, <2>2, <2>3
<1>5. ASSUME NEW who \in Outcome!Readers, Outcome!Decide(who)
      PROVE  OutcomesInv'
  <2> DEFINE r == tree.readers[who]
  <2>1. /\ running /\ r.reads # "drop"
        /\ asked' = [asked EXCEPT ![who] = {}] /\ UNCHANGED <<tree, edits, running, now>>
    BY <1>5 DEF Outcome!Decide
  <2>2. /\ Outcome!Later(who) => who = "domain" /\ r.held = "keptOther"
        /\ r.reads = "match"
        /\ who # "domain" => Outcome!OnAnOutcome(r)
        /\ Outcome!OnAnOutcome(r) =>
             /\ \A i \in 1..2 : r.arms[i].kind = "members" /\ ~r.arms[i].guarded
             /\ tree.members \subseteq UNION {r.arms[i].names : i \in 1..2}
        /\ DOMAIN r.arms = 1..2
    BY <2>1, ReadersMatch DEF OutcomeTree, ReadersWritten
  <2> HIDE DEF r
  <2>3. PICK m \in (IF Outcome!Later(who) THEN asked[who] ELSE {now}) :
          \E named \in Outcome!NamedFor(r, m) :
              last' = {[who |-> who, answer |-> m, current |-> now, named |-> named]}
    BY <1>5 DEF Outcome!Decide, r
  <2>4. PICK named \in Outcome!NamedFor(r, m) :
          last' = {[who |-> who, answer |-> m, current |-> now, named |-> named]}
    BY <2>3
  <2>5. m \in tree.members /\ (m = now \/ (who = "domain" /\ r.held = "keptOther"))
    BY <2>2, <2>3
  <2>6. ASSUME Outcome!OnAnOutcome(r) PROVE m \in named
    <3> DEFINE takes == {i \in DOMAIN r.arms : m \in r.arms[i].names \/ r.arms[i].kind = "anything"}
               by(i) == {j \in takes : j < i /\ ~r.arms[j].guarded} = {}
    <3>1. named \in {r.arms[i].names : i \in {j \in takes : by(j)}}
                      \cup (IF \A i \in takes : r.arms[i].guarded THEN {{}} ELSE {})
      BY <2>2, <2>4 DEF Outcome!NamedFor
    <3>2. PICK i \in 1..2 : m \in r.arms[i].names
      BY <2>2, <2>5, <2>6
    <3>3. i \in takes /\ ~r.arms[i].guarded
      BY <2>2, <2>6, <3>2
    <3>4. named \in {r.arms[j].names : j \in takes}
      BY <3>1, <3>3
    <3> QED BY <2>2, <2>6, <3>4
  <2>7. asked' \in [Outcome!Readers -> SUBSET tree.members]
    BY <2>1
  <2>8. \A other \in Outcome!Readers : AsksOnce(asked'[other])
    BY <2>1 DEF AsksOnce
  <2>9. Outcome!NoSilentMember' /\ Outcome!DecidesOnTheAnswer'
    BY <2>1, <2>2, <2>4, <2>5, <2>6 DEF Outcome!OnAnOutcome, r
  <2>10. running' /\ \E d : last' = {d}
    BY <2>1, <2>4
  <2> QED BY <2>1, <2>7, <2>8, <2>9, <2>10
<1> QED BY <1>1, <1>2, <1>3, <1>4, <1>5 DEF Outcome!Next

LEMMA OutcomesSound ==
    OutcomesInv => /\ Outcome!TypeOK /\ Outcome!AcceptedOutcomesLoad
                   /\ Outcome!NoSilentMember /\ Outcome!DecidesOnTheAnswer
<1> SUFFICES ASSUME OutcomesInv
             PROVE  /\ Outcome!TypeOK /\ Outcome!AcceptedOutcomesLoad
                    /\ Outcome!NoSilentMember /\ Outcome!DecidesOnTheAnswer
  OBVIOUS
<1>1. Outcome!TypeOK
  <2>1. Outcome!Cardinality({}) = 0 /\ \A m : Outcome!Cardinality({m}) = 1
    BY OutcomesCount, FS_EmptySet, FS_Singleton
  <2>2. Outcome!Cardinality(last) <= 1
    <3>1. last = {} \/ \E d : last = {d}
      BY DEF OutcomesInv
    <3>2. CASE last = {}
      BY <2>1, <3>2
    <3>3. CASE \E d : last = {d}
      <4>1. PICK d : last = {d}
        BY <3>3
      <4>2. Outcome!Cardinality(last) = 1
        BY <2>1, <4>1, Zenon
      <4> QED BY <4>2
    <3> QED BY <3>1, <3>2, <3>3
  <2>3. ASSUME NEW who \in Outcome!Readers
        PROVE  asked[who] \subseteq tree.members /\ Outcome!Cardinality(asked[who]) <= 1
    <3>1. asked[who] \subseteq tree.members /\ (asked[who] = {} \/ \E m : asked[who] = {m})
      BY DEF OutcomesInv, AsksOnce
    <3>2. ASSUME NEW m, asked[who] = {m} PROVE Outcome!Cardinality(asked[who]) = 1
      BY <2>1, <3>2, Zenon
    <3>3. asked[who] = {} => Outcome!Cardinality(asked[who]) = 0
      BY <2>1, Zenon
    <3>4. Outcome!Cardinality(asked[who]) \in {0, 1}
      BY <3>1, <3>2, <3>3
    <3> QED BY <3>1, <3>4
  <2>4. \A who : ReadersWritten(who) \subseteq Outcome!Reader
    <3>1. \A who : Outcome!Held(who) \subseteq Outcome!Holdings
      BY DEF Outcome!Held
    <3>2. \A who : Outcome!Reads(who) \subseteq {"match", "member", "truth", "drop"}
      BY DEF Outcome!Reads
    <3> QED BY <3>1, <3>2 DEF ReadersWritten, Outcome!Reader
  <2>5. Outcome!Range(tree.readers) \subseteq Outcome!Reader
    BY <2>4 DEF Outcome!Range, OutcomesInv, OutcomeTree
  <2> QED BY <2>2, <2>3, <2>5 DEF Outcome!TypeOK, OutcomesInv, OutcomeTree
<1>2. Outcome!AcceptedOutcomesLoad
  <2> SUFFICES ASSUME Outcome!Accepted(tree)
               PROVE  Outcome!Loads(tree.class) <=> "annotated" \notin tree.class.body
    BY DEF Outcome!AcceptedOutcomesLoad
  <2>1. /\ tree.class.bases = <<"Outcome">> /\ tree.class.wrapped = "bare"
        /\ tree.class.body \subseteq {"annotated"}
    BY DEF Outcome!Accepted, Outcome!ClosedSet
  <2>2. tree.class.body = {} <=> "annotated" \notin tree.class.body
    BY <2>1
  <2> QED BY <2>1, <2>2 DEF Outcome!Loads
<1>3. Outcome!NoSilentMember /\ Outcome!DecidesOnTheAnswer
  BY DEF OutcomesInv
<1> QED BY <1>1, <1>2, <1>3

(* In every tree the outcome rules accept, however it was edited: the      *)
(* class loads if and only if no member is annotated, whatever decides on  *)
(* an answer names its member except a domain object's match that names no *)
(* member at all, and the answer is the object's at that time except where *)
(* a domain object kept another's (OutcomesAreDecided).                    *)
THEOREM AnswersAreDecidedOn == PartSpec => []OutcomesAreDecided
<1> DEFINE I == part = "outcomes" => OutcomesInv
<1>1. PartInit => I
  BY OutcomesInit DEF PartInit
<1>2. I /\ [PartNext]_partVars => I'
  <2> SUFFICES ASSUME I, [PartNext]_partVars PROVE I'
    OBVIOUS
  <2>1. CASE part = "outcomes" /\ Outcome!Next /\ part' = part
    BY <2>1, OutcomesNext
  <2>2. CASE UNCHANGED partVars
    BY <2>2 DEF partVars, treeVars, outcomeOnly, OutcomesInv, Outcome!NoSilentMember,
                Outcome!DecidesOnTheAnswer
  <2>3. part # "outcomes" => I' \/ UNCHANGED partVars
    BY DEF PartNext, partVars
  <2> QED BY <2>1, <2>2, <2>3 DEF PartNext
<1>3. I => OutcomesAreDecided
  BY OutcomesSound DEF OutcomesAreDecided
<1> QED BY <1>1, <1>2, <1>3, PTL DEF PartSpec

-------------------------------------------------------------------------------
(* Specs.                                                                  *)

Names == Flow!Names
Param == Flow!Param

(* What grows among three names from one of them, and stops when it once   *)
(* does not, has stopped after two steps.                                  *)
LEMMA TwoStepsAreEnough ==
    ASSUME NEW C \in SUBSET Names, NEW B \in SUBSET C, NEW A \in SUBSET B, Param \in A,
           B = A => C = B
    PROVE  C = B \/ C = Names
<1>1. Names = {"spec", "x", "y"} /\ Param = "spec"
  BY DEF Names, Param, Flow!Names, Flow!Param, Flow!Locals
<1> QED BY <1>1

(* A binding is of a local. *)
LEMMA BindingsType ==
    ASSUME NEW b \in Seq(Flow!Statements), NEW s \in Flow!Bindings(b)
    PROVE  /\ s.does = "bind" /\ s.name \in Flow!Locals /\ s.name \in Names /\ s.name # Param
           /\ s.value.from \in {"name", "child", "made", "answer", "else"}
           /\ s.value.of \in Names /\ (s.value.from \notin {"name", "child"} => s.value.of = Param)
           /\ Flow!Uses(s) = IF s.value.from \in {"name", "child"} THEN {s.value.of} ELSE {}
<1>1. PICK i \in DOMAIN b : s = b[i] /\ b[i].does = "bind"
  BY DEF Flow!Bindings
<1>2. s \in Flow!Statements /\ s.does = "bind"
  BY <1>1
<1>3. s \in [does : {"bind"}, name : Flow!Locals, value : Flow!Sources]
  BY <1>2 DEF Flow!Statements
<1>4. /\ s.value.from \in {"name", "child", "made", "answer", "else"} /\ s.value.of \in Names
      /\ (s.value.from \notin {"name", "child"} => s.value.of = Param)
  <2>1. s.value \in Flow!Sources
    BY <1>3
  <2> QED BY <2>1 DEF Flow!Sources, Names, Param, Flow!Names
<1>5. s.name \in Names /\ s.name # Param
  BY <1>3 DEF Names, Param, Flow!Names, Flow!Param, Flow!Locals
<1> QED BY <1>2, <1>3, <1>4, <1>5 DEF Flow!Uses

(* The names that hold a spec, and a record, before any is taken away.     *)
TypedNames(b) == Flow!GrowTyped(b, Flow!GrowTyped(b, {Param}))
ShapedNames(b) == Flow!GrowShaped(b, Flow!GrowShaped(b, {Param}))

LEMMA TypedNamesAreClosed ==
    ASSUME NEW b \in Seq(Flow!Statements)
    PROVE  /\ Param \in TypedNames(b) /\ TypedNames(b) \subseteq Names
           /\ \A s \in Flow!Bindings(b) : Flow!Typed(s.value, TypedNames(b)) => s.name \in TypedNames(b)
<1> DEFINE G(held) == Flow!GrowTyped(b, held)
<1>1. \A held \in SUBSET Names : held \subseteq G(held) /\ G(held) \in SUBSET Names
  BY BindingsType DEF Flow!GrowTyped
<1>2. {Param} \in SUBSET Names
  BY DEF Param, Names, Flow!Names
<1>3. \A held : \A s \in Flow!Bindings(b) : Flow!Typed(s.value, held) => s.name \in G(held)
  BY DEF Flow!GrowTyped
<1> HIDE DEF G
<1>4. /\ Param \in G(G({Param})) /\ G(G({Param})) \subseteq Names
      /\ G(G({Param})) = G({Param}) \/ G(G({Param})) = Names
  <2>1. G({Param}) = {Param} => G(G({Param})) = G({Param})
    OBVIOUS
  <2>2. {Param} \subseteq G({Param}) /\ G({Param}) \in SUBSET Names
    BY <1>1, <1>2
  <2>3. G({Param}) \subseteq G(G({Param})) /\ G(G({Param})) \subseteq Names
    BY <1>1, <2>2
  <2> DEFINE P == {Param}
             g1 == G({Param})
             g2 == G(G({Param}))
  <2>4. Param \in P /\ P \in SUBSET g1 /\ g1 \in SUBSET g2 /\ g2 \in SUBSET Names /\ (g1 = P => g2 = g1)
    BY <2>1, <2>2, <2>3
  <2> HIDE DEF P, g1, g2
  <2>5. g2 = g1 \/ g2 = Names
    BY <2>4, TwoStepsAreEnough
  <2> QED BY <2>4, <2>5 DEF g1, g2
<1>5. \A s \in Flow!Bindings(b) : Flow!Typed(s.value, G(G({Param}))) => s.name \in G(G({Param}))
  <2>1. CASE G(G({Param})) = Names
    BY <2>1, BindingsType
  <2>2. CASE G(G({Param})) = G({Param})
    BY <2>2, <1>3
  <2> QED BY <1>4, <2>1, <2>2
<1>6. TypedNames(b) = G(G({Param}))
  BY DEF TypedNames, G
<1> QED BY <1>4, <1>5, <1>6

LEMMA ShapedNamesAreClosed ==
    ASSUME NEW b \in Seq(Flow!Statements)
    PROVE  /\ Param \in ShapedNames(b) /\ ShapedNames(b) \subseteq TypedNames(b)
           /\ \A s \in Flow!Bindings(b) : Flow!Shaped(s.value, ShapedNames(b)) => s.name \in ShapedNames(b)
<1> DEFINE G(held) == Flow!GrowShaped(b, held)
           T(held) == Flow!GrowTyped(b, held)
<1>1. \A held \in SUBSET Names : held \subseteq G(held) /\ G(held) \in SUBSET Names
  BY BindingsType DEF Flow!GrowShaped
<1>2. {Param} \in SUBSET Names
  BY DEF Param, Names, Flow!Names
<1>3. \A held : \A s \in Flow!Bindings(b) : Flow!Shaped(s.value, held) => s.name \in G(held)
  BY DEF Flow!GrowShaped
<1>4. \A held, more : held \subseteq more => G(held) \subseteq T(more)
  BY DEF Flow!GrowShaped, Flow!GrowTyped, Flow!Shaped, Flow!Typed
<1> HIDE DEF G, T
<1>5. /\ Param \in G(G({Param})) /\ G(G({Param})) \subseteq Names
      /\ G(G({Param})) = G({Param}) \/ G(G({Param})) = Names
  <2>1. G({Param}) = {Param} => G(G({Param})) = G({Param})
    OBVIOUS
  <2>2. {Param} \subseteq G({Param}) /\ G({Param}) \in SUBSET Names
    BY <1>1, <1>2
  <2>3. G({Param}) \subseteq G(G({Param})) /\ G(G({Param})) \subseteq Names
    BY <1>1, <2>2
  <2> DEFINE P == {Param}
             g1 == G({Param})
             g2 == G(G({Param}))
  <2>4. Param \in P /\ P \in SUBSET g1 /\ g1 \in SUBSET g2 /\ g2 \in SUBSET Names /\ (g1 = P => g2 = g1)
    BY <2>1, <2>2, <2>3
  <2> HIDE DEF P, g1, g2
  <2>5. g2 = g1 \/ g2 = Names
    BY <2>4, TwoStepsAreEnough
  <2> QED BY <2>4, <2>5 DEF g1, g2
<1>6. \A s \in Flow!Bindings(b) : Flow!Shaped(s.value, G(G({Param}))) => s.name \in G(G({Param}))
  <2>1. CASE G(G({Param})) = Names
    BY <2>1, BindingsType
  <2>2. CASE G(G({Param})) = G({Param})
    BY <2>2, <1>3
  <2> QED BY <1>5, <2>1, <2>2
<1>7. ShapedNames(b) = G(G({Param})) /\ TypedNames(b) = T(T({Param}))
  BY DEF ShapedNames, TypedNames, G, T
<1>8. G(G({Param})) \subseteq T(T({Param}))
  BY <1>4
<1> QED BY <1>5, <1>6, <1>7, <1>8

(* What an answer reaches is closed too. *)
LEMMA AnswersAreClosed ==
    ASSUME NEW b \in Seq(Flow!Statements)
    PROVE  /\ Param \notin Flow!FromAnswers(b)
           /\ \A s \in Flow!Bindings(b) :
                s.value.from = "answer" \/ (s.value.from \in {"name", "child"} /\ s.value.of \in Flow!FromAnswers(b))
                  => s.name \in Flow!FromAnswers(b)
<1> DEFINE D == Flow!Answered(b)
           G(names) == Flow!Reached(b, names)
           L == Names \ {Param}
<1>1. \A names \in SUBSET L : names \in SUBSET G(names) /\ G(names) \in SUBSET L
  BY BindingsType DEF Flow!Reached
<1>2. D \in SUBSET L /\ \A s \in Flow!Bindings(b) : s.value.from = "answer" => s.name \in D
  BY BindingsType DEF Flow!Answered
<1>3. \A names : \A s \in Flow!Bindings(b) :
        s.value.from \in {"name", "child"} /\ s.value.of \in names => s.name \in G(names)
  BY DEF Flow!Reached
<1>4. D = {} => G(D) = D
  BY DEF Flow!Reached
<1>5. Flow!FromAnswers(b) = G(G(D))
  BY DEF Flow!FromAnswers
<1> HIDE DEF D, G
<1>6. D \in SUBSET G(D) /\ G(D) \in SUBSET G(G(D)) /\ G(G(D)) \in SUBSET L
  BY <1>1, <1>2
<1>7. G(G(D)) = G(D) \/ G(G(D)) = L
  <2> DEFINE g1 == G(D)
             g2 == G(G(D))
  <2>1. D \in SUBSET g1 /\ g1 \in SUBSET g2 /\ g2 \in SUBSET L /\ (g1 = D => g2 = g1) /\ (D = {} => g1 = D)
    BY <1>4, <1>6
  <2>2. L = {"x", "y"}
    BY DEF Names, Param, Flow!Names, Flow!Param, Flow!Locals
  <2> HIDE DEF g1, g2, L
  <2>3. g2 = g1 \/ g2 = L
    BY <2>1, <2>2
  <2> QED BY <2>3 DEF g1, g2
<1>8. \A s \in Flow!Bindings(b) :
        s.value.from \in {"name", "child"} /\ s.value.of \in G(G(D)) => s.name \in G(G(D))
  <2>1. CASE G(G(D)) = L
    BY <2>1, BindingsType
  <2>2. CASE G(G(D)) = G(D)
    BY <2>2, <1>3
  <2> QED BY <1>7, <2>1, <2>2
<1> QED BY <1>2, <1>5, <1>6, <1>8

(* In a function whose names get values of one type, a name of the type of *)
(* a spec that gets a value is bound to nothing but specs.                 *)
LEMMA SpecsOfOneType ==
    ASSUME NEW b \in Seq(Flow!Statements), Flow!Settled(b)
    PROVE  \E specs \in SUBSET Flow!Locals :
             /\ TypedNames(b) \subseteq specs \cup {Param}
             /\ \A s \in Flow!Bindings(b) : s.name \in specs =>
                  \/ s.value.from \in {"made", "answer"}
                  \/ s.value.from \in {"name", "child"} /\ s.value.of \in specs \cup {Param}
             /\ \A m \in Flow!Bound(b) \cap (specs \cup {Param}) :
                  /\ m \in TypedNames(b)
                  /\ m \notin Flow!FromAnswers(b) => m \in ShapedNames(b)
<1>1. PICK specs \in SUBSET Flow!Locals :
        \A s \in Flow!Bindings(b) :
            (s.name \in specs) = (s.value.from # "else" /\ (s.value.from \in {"made", "answer"} \/ s.value.of \in specs \cup {Param}))
  BY DEF Flow!Settled, Flow!Typeable, Param
<1> DEFINE S == specs \cup {Param}
<1>2. \A s \in Flow!Bindings(b) : s.name \in S =>
         \/ s.value.from \in {"made", "answer"}
         \/ s.value.from \in {"name", "child"} /\ s.value.of \in S
  BY <1>1, BindingsType
<1>3. \A s \in Flow!Bindings(b) : Flow!Typed(s.value, S) => s.name \in S
  BY <1>1, BindingsType DEF Flow!Typed
<1>4. TypedNames(b) \subseteq S
  <2>1. \A held : held \subseteq S => Flow!GrowTyped(b, held) \subseteq S
    <3> SUFFICES ASSUME NEW held, held \subseteq S, NEW s \in Flow!Bindings(b), Flow!Typed(s.value, held)
                 PROVE  s.name \in S
      BY DEF Flow!GrowTyped
    <3>1. Flow!Typed(s.value, S)
      BY DEF Flow!Typed
    <3> QED BY <1>3, <3>1
  <2> QED BY <2>1 DEF TypedNames
<1> DEFINE T(m) == m \in TypedNames(b) /\ (m \notin Flow!FromAnswers(b) => m \in ShapedNames(b))
<1>5. ASSUME NEW names, \A m \in names \cap S : T(m),
             NEW m \in Flow!GrowBound(b, names) \cap S
      PROVE  T(m)
  <2> SUFFICES ASSUME m \notin names PROVE T(m)
    BY <1>5
  <2>1. PICK s \in Flow!Bindings(b) : s.name = m /\ Flow!Uses(s) \subseteq names
    BY DEF Flow!GrowBound
  <2>2. \/ s.value.from \in {"made", "answer"}
        \/ s.value.from \in {"name", "child"} /\ s.value.of \in S /\ T(s.value.of)
    <3>1. CASE s.value.from \in {"name", "child"}
      <4>1. s.value.of \in names /\ s.value.of \in S
        BY <1>2, <2>1, <3>1, BindingsType
      <4> HIDE DEF T, S
      <4> QED BY <1>5, <3>1, <4>1
    <3> QED BY <1>2, <2>1, <3>1
  <2>3. m \in TypedNames(b)
    BY <2>1, <2>2, TypedNamesAreClosed DEF Flow!Typed
  <2>4. m \notin Flow!FromAnswers(b) => m \in ShapedNames(b)
    <3> SUFFICES ASSUME m \notin Flow!FromAnswers(b) PROVE m \in ShapedNames(b)
      OBVIOUS
    <3>1. s.value.from # "answer"
          /\ (s.value.from \in {"name", "child"} => s.value.of \notin Flow!FromAnswers(b))
      BY <2>1, AnswersAreClosed
    <3>2. Flow!Shaped(s.value, ShapedNames(b))
      BY <2>2, <3>1 DEF Flow!Shaped
    <3> QED BY <2>1, <3>2, ShapedNamesAreClosed
  <2> QED BY <2>3, <2>4
<1>6. T(Param)
  BY TypedNamesAreClosed, ShapedNamesAreClosed
<1> HIDE DEF T, S
<1>7. \A m \in {Param} \cap S : T(m)
  BY <1>6
<1>8. \A m \in Flow!GrowBound(b, {Param}) \cap S : T(m)
  BY <1>5, <1>7
<1>9. \A m \in Flow!GrowBound(b, Flow!GrowBound(b, {Param})) \cap S : T(m)
  BY <1>5, <1>8
<1>10. \A m \in Flow!Bound(b) \cap S : T(m)
  BY <1>9 DEF Flow!Bound, Param
<1> QED BY <1>2, <1>4, <1>10 DEF T, S

(* What is used gets a value. *)
LEMMA UsedIsBound ==
    ASSUME NEW b \in Seq(Flow!Statements), Flow!Settled(b), NEW s \in Flow!Bindings(b),
           s.value.from \in {"name", "child"}
    PROVE  s.value.of \in Flow!Bound(b)
<1>1. s \in Flow!Range(b) /\ Flow!Uses(s) = {s.value.of}
  BY BindingsType DEF Flow!Bindings, Flow!Range
<1> QED BY <1>1 DEF Flow!Settled

(* No name that was found to hold a spec is taken away. *)
LEMMA SpecsAreHeld ==
    ASSUME NEW b \in Seq(Flow!Statements), Flow!Settled(b)
    PROVE  TypedNames(b) \subseteq Flow!HeldSpecs(b)
<1>1. PICK specs \in SUBSET Flow!Locals :
             /\ TypedNames(b) \subseteq specs \cup {Param}
             /\ \A s \in Flow!Bindings(b) : s.name \in specs =>
                  \/ s.value.from \in {"made", "answer"}
                  \/ s.value.from \in {"name", "child"} /\ s.value.of \in specs \cup {Param}
             /\ \A m \in Flow!Bound(b) \cap (specs \cup {Param}) : m \in TypedNames(b)
  BY SpecsOfOneType
<1>2. ASSUME NEW s \in Flow!Bindings(b), s.name \in TypedNames(b)
      PROVE  Flow!Typed(s.value, TypedNames(b))
  <2>1. s.name \in specs
    BY <1>1, <1>2, BindingsType
  <2>2. CASE s.value.from \in {"name", "child"}
    <3>1. s.value.of \in TypedNames(b)
      BY <1>1, <2>1, <2>2, UsedIsBound
    <3> QED BY <2>2, <3>1 DEF Flow!Typed
  <2> QED BY <1>1, <2>1, <2>2 DEF Flow!Typed
<1>3. Flow!HeldSpecs(b) = TypedNames(b) \ {s.name : s \in {t \in Flow!Bindings(b) : ~Flow!Typed(t.value, TypedNames(b))}}
  BY DEF Flow!HeldSpecs, TypedNames, Param
<1> QED BY <1>2, <1>3

(* No name that was found to hold a record is taken away, if no answer     *)
(* reaches it.                                                             *)
LEMMA RecordsAreHeld ==
    ASSUME NEW b \in Seq(Flow!Statements), Flow!Settled(b)
    PROVE  ShapedNames(b) \ Flow!FromAnswers(b) \subseteq Flow!HeldRecords(b)
<1> DEFINE K == ShapedNames(b) \ Flow!FromAnswers(b)
<1>1. PICK specs \in SUBSET Flow!Locals :
             /\ TypedNames(b) \subseteq specs \cup {Param}
             /\ \A s \in Flow!Bindings(b) : s.name \in specs =>
                  \/ s.value.from \in {"made", "answer"}
                  \/ s.value.from \in {"name", "child"} /\ s.value.of \in specs \cup {Param}
             /\ \A m \in Flow!Bound(b) \cap (specs \cup {Param}) :
                  m \notin Flow!FromAnswers(b) => m \in ShapedNames(b)
  BY SpecsOfOneType
<1>2. ASSUME NEW s \in Flow!Bindings(b), s.name \in K
      PROVE  s.value.from = "made" \/ (s.value.from \in {"name", "child"} /\ s.value.of \in K)
  <2>1. s.name \in specs
    BY <1>1, <1>2, BindingsType, ShapedNamesAreClosed
  <2>2. s.value.from # "answer"
        /\ (s.value.from \in {"name", "child"} => s.value.of \notin Flow!FromAnswers(b))
    BY <1>2, AnswersAreClosed
  <2>3. CASE s.value.from \in {"name", "child"}
    BY <1>1, <2>1, <2>2, <2>3, UsedIsBound
  <2> QED BY <1>1, <2>1, <2>2, <2>3
<1> HIDE DEF K
<1>3. \A held : K \subseteq held => K \subseteq Flow!Shrink(b, held)
  <2> SUFFICES ASSUME NEW held, K \subseteq held, NEW s \in Flow!Bindings(b), s.name \in K
               PROVE  Flow!Shaped(s.value, held)
    BY DEF Flow!Shrink
  <2> QED BY <1>2 DEF Flow!Shaped
<1>4. K \subseteq Flow!Shrink(b, Flow!Shrink(b, ShapedNames(b)))
  <2>1. K \subseteq ShapedNames(b)
    BY DEF K
  <2> QED BY <1>3, <2>1
<1> QED BY <1>4 DEF K, Flow!HeldRecords, ShapedNames, Param

(* Until it runs, a function's parameter alone is a spec; a function that  *)
(* runs was accepted, what is a spec was found to be one, and a record too *)
(* unless an answer reaches it.                                            *)
FlowInv ==
    /\ body \in Seq(Flow!Statements) /\ pc \in Nat /\ DOMAIN env = Names
    /\ pc = 0 => did = {} /\ \A n \in Names : env[n] = "spec" => n = Param
    /\ pc # 0 =>
         /\ Flow!Accepted(body, where)
         /\ \A n \in Names : env[n] = "spec" =>
              n \in TypedNames(body) /\ n \in ShapedNames(body) \cup Flow!FromAnswers(body)
    /\ Flow!RecordsStand /\ Flow!SpecsReadByTheirObject /\ Flow!SpecsAreDone

LEMMA FlowInit == Flow!Init => FlowInv
<1> SUFFICES ASSUME Flow!Init PROVE FlowInv
  OBVIOUS
<1>1. body \in Seq(Flow!Statements) /\ pc = 0 /\ DOMAIN env = Names /\ did = {}
  BY DEF Flow!Init, Names
<1>2. \A n \in Names : env[n] = "spec" => n = Param
  BY DEF Flow!Init, Names, Param
<1> QED BY <1>1, <1>2
        DEF FlowInv, Flow!RecordsStand, Flow!SpecsReadByTheirObject, Flow!SpecsAreDone

(* What a statement of an accepted function does to specs, if its names    *)
(* get values of one type, and binds.                                      *)
LEMMA StatementsKeepTheRules ==
    ASSUME FlowInv, pc \in DOMAIN body, Flow!Defined(body[pc])
    PROVE  LET s == body[pc] IN
           /\ Flow!Settled(body) =>
                /\ "keep" \notin Flow!Effect(s)
                /\ where = "elsewhere" => "read" \notin Flow!Effect(s)
                /\ Flow!FromAnswers(body) \cap Flow!Writes(body) = {} => "write" \notin Flow!Effect(s)
           /\ s.does = "bind" =>
                /\ s.name \in Names
                /\ Flow!Value(s.value) = "spec" =>
                     /\ s.name \in TypedNames(body)
                     /\ s.name \in ShapedNames(body) \cup Flow!FromAnswers(body)
<1> DEFINE s == body[pc]
<1>1. /\ body \in Seq(Flow!Statements) /\ s \in Flow!Statements /\ pc # 0
      /\ s \in Flow!Range(body)
      /\ s.does = "bind" => s \in Flow!Bindings(body)
  BY DEF FlowInv, Flow!Range, Flow!Bindings
<1>2. Flow!Accepted(body, where)
  BY <1>1 DEF FlowInv
<1>3. \A n \in Names : env[n] = "spec" =>
         n \in TypedNames(body) /\ n \in ShapedNames(body) \cup Flow!FromAnswers(body)
  BY <1>1 DEF FlowInv
<1> HIDE DEF s
<1>4. CASE s.does = "bind"
  <2>1. /\ s \in Flow!Bindings(body) /\ s.name \in Names
        /\ s.value.from \in {"name", "child", "made", "answer", "else"} /\ s.value.of \in Names
    BY <1>1, <1>4, BindingsType
  <2>2. /\ s.value.from = "child" => env[s.value.of] = "spec"
    BY <1>4 DEF Flow!Defined, s
  <2>3. ASSUME Flow!Settled(body), where = "elsewhere", s.value.from = "child" PROVE FALSE
    <3>1. s.value.of \in Flow!HeldSpecs(body)
      BY <1>1, <1>3, <2>1, <2>2, <2>3, SpecsAreHeld
    <3>2. s.value.of \in Flow!Reads(body)
      BY <2>1, <2>3 DEF Flow!Reads
    <3> QED BY <1>2, <2>3, <3>1, <3>2 DEF Flow!Accepted, Flow!UsedByItsObject
  <2>4. /\ Flow!Effect(s) \subseteq {"read"}
        /\ Flow!Settled(body) /\ where = "elsewhere" => Flow!Effect(s) = {}
    BY <1>4, <2>3 DEF Flow!Effect
  <2>5. ASSUME Flow!Value(s.value) = "spec"
        PROVE  /\ s.name \in TypedNames(body)
               /\ s.name \in ShapedNames(body) \cup Flow!FromAnswers(body)
    <3>1. \/ s.value.from \in {"made", "answer"}
          \/ s.value.from \in {"name", "child"} /\ env[s.value.of] = "spec"
      BY <2>1, <2>2, <2>5 DEF Flow!Value
    <3>2. Flow!Typed(s.value, TypedNames(body))
      BY <1>3, <2>1, <3>1 DEF Flow!Typed
    <3>3. \/ s.value.from = "answer"
          \/ s.value.from \in {"name", "child"} /\ s.value.of \in Flow!FromAnswers(body)
          \/ Flow!Shaped(s.value, ShapedNames(body))
      BY <1>3, <2>1, <3>1 DEF Flow!Shaped
    <3> QED BY <1>1, <2>1, <3>2, <3>3, TypedNamesAreClosed, ShapedNamesAreClosed, AnswersAreClosed
  <2> QED BY <2>1, <2>4, <2>5 DEF s
<1>5. CASE s.does # "bind"
  <2>1. s.does \in {"write", "read", "keep"} /\ s.name \in Names
    BY <1>1, <1>5 DEF Flow!Statements, Names
  <2>2. ASSUME env[s.name] = "spec", Flow!Settled(body)
        PROVE  /\ s.does # "keep"
               /\ where = "elsewhere" => s.does # "read"
               /\ Flow!FromAnswers(body) \cap Flow!Writes(body) = {} => s.does # "write"
    <3>1. s.name \in Flow!HeldSpecs(body)
      BY <1>1, <1>3, <2>1, <2>2, SpecsAreHeld
    <3>2. s.does # "keep"
      <4> SUFFICES ASSUME s.does = "keep" PROVE FALSE
        OBVIOUS
      <4>1. s.name \in Flow!Keeps(body)
        BY <1>1 DEF Flow!Keeps
      <4> QED BY <1>2, <3>1, <4>1 DEF Flow!Accepted, Flow!UsedByItsObject
    <3>3. where = "elsewhere" => s.does # "read"
      <4> SUFFICES ASSUME where = "elsewhere", s.does = "read" PROVE FALSE
        OBVIOUS
      <4>1. s.name \in Flow!Reads(body)
        BY <1>1 DEF Flow!Reads
      <4> QED BY <1>2, <3>1, <4>1 DEF Flow!Accepted, Flow!UsedByItsObject
    <3>4. Flow!FromAnswers(body) \cap Flow!Writes(body) = {} => s.does # "write"
      <4> SUFFICES ASSUME Flow!FromAnswers(body) \cap Flow!Writes(body) = {}, s.does = "write"
                   PROVE  FALSE
        OBVIOUS
      <4>1. s.name \in Flow!Writes(body)
        BY <1>1 DEF Flow!Writes
      <4>2. s.name \notin Flow!FromAnswers(body)
        BY <4>1
      <4>3. s.name \in ShapedNames(body)
        BY <1>3, <2>1, <2>2, <4>2
      <4>4. s.name \in Flow!HeldRecords(body)
        BY <1>1, <2>2, <4>2, <4>3, RecordsAreHeld
      <4> QED BY <1>2, <4>1, <4>4 DEF Flow!Accepted, Flow!NeverWritten
    <3> QED BY <3>2, <3>3, <3>4
  <2>3. Flow!Effect(s) = {} \/ (env[s.name] = "spec" /\ Flow!Effect(s) = {s.does})
    BY <1>5 DEF Flow!Effect
  <2> QED BY <1>5, <2>2, <2>3 DEF s
<1> QED BY <1>4, <1>5

LEMMA FlowNext == FlowInv /\ Flow!Next => FlowInv'
<1> SUFFICES ASSUME FlowInv, Flow!Next PROVE FlowInv'
  OBVIOUS
<1> USE DEF Flow!RecordsStand, Flow!SpecsReadByTheirObject, Flow!SpecsAreDone
<1>1. CASE Flow!WriteStatement
  <2>1. pc = 0 /\ UNCHANGED <<where, pc, round, env, did>>
    BY <1>1 DEF Flow!WriteStatement
  <2>2. body' \in Seq(Flow!Statements)
    BY <1>1 DEF FlowInv, Flow!WriteStatement
  <2> QED BY <2>1, <2>2 DEF FlowInv
<1>2. CASE Flow!Call
  <2>1. /\ pc = 0 /\ pc' = 1 /\ UNCHANGED <<where, body, round, env, did>>
        /\ Flow!Accepted(body, where)
    BY <1>2 DEF Flow!Call
  <2>2. \A n \in Names : env[n] = "spec" => n \in TypedNames(body) /\ n \in ShapedNames(body)
    BY <2>1, TypedNamesAreClosed, ShapedNamesAreClosed DEF FlowInv
  <2> QED BY <2>1, <2>2 DEF FlowInv
<1>3. CASE Flow!Execute
  <2> DEFINE s == body[pc]
  <2>1. /\ pc \in DOMAIN body /\ Flow!Defined(s) /\ did' = did \cup Flow!Effect(s)
        /\ pc' = pc + 1 /\ UNCHANGED <<where, body, round>>
        /\ env' = IF s.does = "bind" THEN [env EXCEPT ![s.name] = Flow!Value(s.value)] ELSE env
    BY <1>3 DEF Flow!Execute
  <2>2. /\ Flow!Settled(body) =>
             /\ "keep" \notin Flow!Effect(s)
             /\ where = "elsewhere" => "read" \notin Flow!Effect(s)
             /\ Flow!FromAnswers(body) \cap Flow!Writes(body) = {} => "write" \notin Flow!Effect(s)
        /\ s.does = "bind" =>
             /\ s.name \in Names
             /\ Flow!Value(s.value) = "spec" =>
                  /\ s.name \in TypedNames(body)
                  /\ s.name \in ShapedNames(body) \cup Flow!FromAnswers(body)
    BY <2>1, StatementsKeepTheRules
  <2> HIDE DEF s
  <2>3. pc # 0 /\ pc' \in Nat /\ pc' # 0
    BY <2>1 DEF FlowInv
  <2>4. DOMAIN env' = Names
    BY <2>1 DEF FlowInv
  <2>5. \A n \in Names : env'[n] = "spec" =>
          n \in TypedNames(body) /\ n \in ShapedNames(body) \cup Flow!FromAnswers(body)
    BY <2>1, <2>2, <2>3 DEF FlowInv
  <2> QED BY <2>1, <2>2, <2>3, <2>4, <2>5 DEF FlowInv
<1>4. CASE Flow!NotTaken
  <2>1. pc \in DOMAIN body /\ pc' = pc + 1 /\ UNCHANGED <<where, body, round, env, did>>
    BY <1>4 DEF Flow!NotTaken
  <2>2. pc # 0 /\ pc' \in Nat /\ pc' # 0
    BY <2>1 DEF FlowInv
  <2> QED BY <2>1, <2>2 DEF FlowInv
<1>5. CASE Flow!Again
  <2>1. pc = Len(body) + 1 /\ pc' = 1 /\ UNCHANGED <<where, body, env, did>>
    BY <1>5 DEF Flow!Again
  <2>2. pc # 0
    BY <2>1 DEF FlowInv
  <2> QED BY <2>1, <2>2 DEF FlowInv
<1> QED BY <1>1, <1>2, <1>3, <1>4, <1>5 DEF Flow!Next

(* In every function the spec and record rules accept, whose names all get *)
(* values, each of one type, however long it is and run in a loop however  *)
(* often: a spec is read only by its own object and kept by none, and a    *)
(* record is not written if what methods answer reaches no name written to *)
(* (SpecsAreUsedUp).                                                       *)
THEOREM SpecsAlwaysUsedUp == PartSpec => []SpecsAreUsedUp
<1> DEFINE I == part = "specs" => FlowInv
<1>1. PartInit => I
  BY FlowInit DEF PartInit
<1>2. I /\ [PartNext]_partVars => I'
  <2> SUFFICES ASSUME I, [PartNext]_partVars PROVE I'
    OBVIOUS
  <2>1. CASE part = "specs" /\ Flow!Next /\ part' = part
    BY <2>1, FlowNext
  <2>2. CASE UNCHANGED partVars
    BY <2>2 DEF partVars, flowVars, FlowInv, Flow!RecordsStand, Flow!SpecsReadByTheirObject, Flow!SpecsAreDone
  <2>3. part # "specs" => I' \/ UNCHANGED partVars
    BY DEF PartNext, partVars
  <2> QED BY <2>1, <2>2, <2>3 DEF PartNext
<1>3. I => SpecsAreUsedUp
  BY DEF SpecsAreUsedUp, FlowInv
<1> QED BY <1>1, <1>2, <1>3, PTL DEF PartSpec

-------------------------------------------------------------------------------
(* Chains of imports end where ImportChainsEnd says, for any bounded       *)
(* contexts and any of the names of modules: what the rules ask of names   *)
(* is turned into what they ask of the parts of names, what one import of  *)
(* what ships may be is listed, and every walk is then kept by each entry  *)
(* of the list to where it began, and lower.                               *)

(* The parts of names.                                                     *)
Parts ==
    Contexts \cup Leaves \cup ShellPackages \cup Roles \cup ApplicationPackages \cup KindPackages
    \cup {"kernel", "conftest"}

(* The packages below a role.                                              *)
Below(role) ==
    CASE role = "domain" -> {"kernel"}
      [] role = "application" -> ApplicationPackages
      [] role = "adapters" -> KindPackages
      [] OTHER -> {}

(* What a package is by its parts.                                         *)
PackageParts(p) ==
    \/ Len(p) = 1 /\ p[1] \in Contexts \cup ShellPackages \cup {"kernel"}
    \/ Len(p) = 2 /\ p[1] \in Contexts /\ p[2] \in Roles \cup {"tests"}
    \/ Len(p) = 3 /\ p[1] \in Contexts /\ p[2] \in Roles /\ p[3] \in Below(p[2])

LEMMA PackagesByParts == \A p \in Packages : p \in Seq(Parts) /\ PackageParts(p)
<1> SUFFICES ASSUME NEW p \in Packages PROVE p \in Seq(Parts) /\ PackageParts(p)
  OBVIOUS
<1>1. CASE \E top \in Contexts \cup ShellPackages \cup {"kernel"} : p = <<top>>
  BY <1>1 DEF PackageParts, Parts
<1>2. CASE \E c \in Contexts, r \in Roles \cup {"tests"} : p = <<c, r>>
  BY <1>2 DEF PackageParts, Parts, ShellPackages
<1>3. CASE \E c \in Contexts : p = <<c, "domain", "kernel">>
  BY <1>3 DEF PackageParts, Parts, Below, Roles
<1>4. CASE \E c \in Contexts, q \in ApplicationPackages : p = <<c, "application", q>>
  BY <1>4 DEF PackageParts, Parts, Below, Roles
<1>5. CASE \E c \in Contexts, k \in KindPackages : p = <<c, "adapters", k>>
  BY <1>5 DEF PackageParts, Parts, Below, Roles
<1> QED BY <1>1, <1>2, <1>3, <1>4, <1>5 DEF Packages

LEMMA PartsMakePackages == \A p \in Seq(Parts) : PackageParts(p) => p \in Packages
<1> SUFFICES ASSUME NEW p \in Seq(Parts), PackageParts(p) PROVE p \in Packages
  OBVIOUS
<1>1. CASE Len(p) = 1 /\ p[1] \in Contexts \cup ShellPackages \cup {"kernel"}
  <2>1. p = <<p[1]>>
    BY <1>1
  <2> QED BY <1>1, <2>1 DEF Packages
<1>2. CASE Len(p) = 2 /\ p[1] \in Contexts /\ p[2] \in Roles \cup {"tests"}
  <2>1. p = <<p[1], p[2]>>
    BY <1>2
  <2> QED BY <1>2, <2>1 DEF Packages
<1>3. CASE Len(p) = 3 /\ p[1] \in Contexts /\ p[2] \in Roles /\ p[3] \in Below(p[2])
  <2>1. p = <<p[1], p[2], p[3]>>
    BY <1>3
  <2>2. \/ p[2] = "domain" /\ p[3] = "kernel"
        \/ p[2] = "application" /\ p[3] \in ApplicationPackages
        \/ p[2] = "adapters" /\ p[3] \in KindPackages
    BY <1>3 DEF Below, Roles
  <2> QED BY <1>3, <2>1, <2>2 DEF Packages
<1> QED BY <1>1, <1>2, <1>3 DEF PackageParts

(* A name is a package's or a leaf's in a package.                         *)
LEMMA NamesByParts ==
    ASSUME NEW n \in Modules
    PROVE  /\ n \in Seq(Parts) /\ Place(n) # "stray"
           /\ Place(n) = "test" => Tier(n) \notin {"none", "stray"}
           /\ \/ n = <<"conftest">>
              \/ n \in Packages /\ PackageParts(n)
              \/ /\ Len(n) \in 2..4 /\ Last(n) \in Leaves /\ n \notin Packages
                 /\ Front(n) \in Packages /\ PackageParts(Front(n))
                 /\ Len(Front(n)) = Len(n) - 1
                 /\ \A i \in 1..(Len(n) - 1) : Front(n)[i] = n[i]
<1>1. /\ Place(n) # "stray"
      /\ Place(n) = "test" => Tier(n) \notin {"none", "stray"}
      /\ n = <<"conftest">> \/ n \in Packages \/ \E p \in Packages, leaf \in Leaves : n = Append(p, leaf)
  BY DEF Modules
<1>2. CASE n = <<"conftest">>
  BY <1>1, <1>2 DEF Parts
<1>3. CASE n \in Packages
  BY <1>1, <1>3, PackagesByParts
<1>4. CASE \E p \in Packages, leaf \in Leaves : n = Append(p, leaf)
  <2>1. PICK p \in Packages, leaf \in Leaves : n = Append(p, leaf)
    BY <1>4
  <2>2. p \in Seq(Parts) /\ PackageParts(p) /\ leaf \in Parts
    BY PackagesByParts DEF Parts
  <2>3. n \in Seq(Parts) /\ Len(n) = Len(p) + 1 /\ n[Len(n)] = leaf
    BY <2>1, <2>2
  <2>4. Len(p) \in 1..3
    BY <2>2 DEF PackageParts
  <2>5. Front(n) = p
    BY <2>1, <2>2, <2>3, <2>4 DEF Front
  <2>6. \A i \in 1..Len(p) : n[i] = p[i]
    BY <2>1, <2>2
  <2>7. n \notin Packages
    <3> SUFFICES ASSUME PackageParts(n) PROVE FALSE
      BY PackagesByParts
    <3>1. /\ Len(n) = 2 => n[2] = leaf /\ n[2] \in Roles \cup {"tests"}
          /\ Len(n) = 3 => n[3] = leaf /\ n[3] \in Below(n[2])
      BY <2>3 DEF PackageParts
    <3>2. leaf \in {"m", "n", "test_m", "conftest"}
      BY LeavesKnown
    <3>3. \A r : Below(r) \subseteq {"kernel"} \cup ApplicationPackages \cup KindPackages
      BY DEF Below
    <3>4. CASE Len(n) = 2
      BY <3>1, <3>2, <3>4 DEF Roles
    <3>5. CASE Len(n) = 3
      <4>1. leaf \in Below(n[2])
        BY <3>1, <3>5
      <4> QED BY <3>2, <3>3, <4>1 DEF ApplicationPackages, KindPackages
    <3>6. Len(n) \in 1..3
      BY DEF PackageParts
    <3> QED BY <2>3, <2>4, <3>4, <3>5, <3>6
  <2>8. Last(n) \in Leaves
    BY <2>1, <2>3, Zenon DEF Last
  <2>9. Len(n) \in 2..4 /\ Len(p) = Len(n) - 1
    <3>1. \A k \in 1..3 : k + 1 \in 2..4 /\ k = (k + 1) - 1
      OBVIOUS
    <3> QED BY <2>3, <2>4, <3>1
  <2>10. p \in Packages
    BY <2>1
  <2> QED BY <1>1, <2>2, <2>3, <2>5, <2>6, <2>7, <2>8, <2>9, <2>10
<1> QED BY <1>1, <1>2, <1>3, <1>4

(* A package is above what has its parts.                                  *)
LEMMA PrefixByParts ==
    ASSUME NEW p \in Seq(Parts), NEW n \in Seq(Parts)
    PROVE  IsPrefix(p, n) <=> Len(p) <= Len(n) /\ \A i \in 1..Len(p) : p[i] = n[i]
BY DEF IsPrefix

(* To be below an entry is to have its parts.                              *)
LEMMA EntriesByParts ==
    ASSUME NEW n \in Seq(Parts), Len(n) >= 1
    PROVE  /\ \A a \in Parts : IsPrefix(<<a>>, Tail(n)) <=> Len(n) >= 2 /\ n[2] = a
           /\ \A a, b \in Parts : IsPrefix(<<a, b>>, Tail(n)) <=> Len(n) >= 3 /\ n[2] = a /\ n[3] = b
<1> DEFINE t == Tail(n)
<1>1. t \in Seq(Parts) /\ Len(t) = Len(n) - 1 /\ \A i \in 1..Len(t) : t[i] = n[i + 1]
  OBVIOUS
<1> HIDE DEF t
<1>2. ASSUME NEW a \in Parts PROVE IsPrefix(<<a>>, t) <=> Len(t) >= 1 /\ t[1] = a
  <2> DEFINE p == <<a>>
  <2>1. p \in Seq(Parts) /\ Len(p) = 1 /\ p[1] = a
    OBVIOUS
  <2> HIDE DEF p
  <2>2. IsPrefix(p, t) <=> Len(p) <= Len(t) /\ \A i \in 1..Len(p) : p[i] = t[i]
    BY <1>1, <2>1, PrefixByParts
  <2>3. IsPrefix(p, t) <=> Len(t) >= 1 /\ t[1] = a
    BY <1>1, <2>1, <2>2
  <2> QED BY <2>3 DEF p
<1>3. ASSUME NEW a \in Parts, NEW b \in Parts PROVE IsPrefix(<<a, b>>, t) <=> Len(t) >= 2 /\ t[1] = a /\ t[2] = b
  <2> DEFINE p == <<a, b>>
  <2>1. p \in Seq(Parts) /\ Len(p) = 2 /\ p[1] = a /\ p[2] = b
    OBVIOUS
  <2> HIDE DEF p
  <2>2. IsPrefix(p, t) <=> Len(p) <= Len(t) /\ \A i \in 1..Len(p) : p[i] = t[i]
    BY <1>1, <2>1, PrefixByParts
  <2>3. IsPrefix(p, t) <=> Len(t) >= 2 /\ t[1] = a /\ t[2] = b
    BY <1>1, <2>1, <2>2
  <2> QED BY <2>3 DEF p
<1>4. (Len(t) >= 1 => t[1] = n[2]) /\ (Len(t) >= 2 => t[1] = n[2] /\ t[2] = n[3])
  BY <1>1
<1>5. (Len(t) >= 1 <=> Len(n) >= 2) /\ (Len(t) >= 2 <=> Len(n) >= 3)
  BY <1>1
<1> QED BY <1>2, <1>3, <1>4, <1>5 DEF t

Plain == {"m", "n"}

(* The names of what ships: of the shell and the root kernel, and of a     *)
(* context; and which of them are packages.                                *)
HostName(n) ==
    /\ n[1] \in {"srv", "app", "protocol", "kernel"}
    /\ Len(n) = 1 \/ (Len(n) = 2 /\ n[2] \in Plain)

InnerName(n) ==
    /\ n[1] \in Contexts
    /\ \/ Len(n) = 1
       \/ Len(n) = 2 /\ n[2] \in Roles
       \/ Len(n) = 3 /\ n[2] \in Roles /\ n[3] \in Plain \cup Below(n[2])
       \/ Len(n) = 4 /\ n[2] \in Roles /\ n[3] \in Below(n[2]) /\ n[4] \in Plain

PackageName(n) ==
    \/ Len(n) = 1
    \/ n[1] \in Contexts /\ (Len(n) = 2 \/ (Len(n) = 3 /\ n[3] \in Below(n[2])))

LEMMA BelowIsNotPlain ==
    /\ \A r : Below(r) \cap {"m", "n", "test_m", "conftest"} = {}
    /\ \A r : Below(r) \subseteq Parts
    /\ Roles \cap {"m", "n", "test_m", "conftest", "tests"} = {}
    /\ Contexts \cap {"srv", "app", "protocol", "tests", "kernel"} = {}
<1>1. \A r : Below(r) \subseteq {"kernel"} \cup ApplicationPackages \cup KindPackages
  BY DEF Below
<1> QED BY <1>1, ContextsNamed DEF ApplicationPackages, KindPackages, Roles, Parts

LEMMA ProductionByParts ==
    ASSUME NEW n \in Modules, Production(n)
    PROVE  /\ n \in Seq(Parts) /\ Last(n) \notin {"test_m", "conftest"}
           /\ HostName(n) \/ InnerName(n)
           /\ n \in Packages <=> PackageName(n)
<1>1. Last(n) \notin {"test_m", "conftest"} /\ n[1] # "tests" /\ ~(Len(n) >= 2 /\ n[2] = "tests")
  BY DEF Production, IsReserved
<1>2. n \in Seq(Parts)
  BY NamesByParts
<1>3. n # <<"conftest">>
  <2> SUFFICES ASSUME n = <<"conftest">> PROVE FALSE
    OBVIOUS
  <2> QED BY <1>1 DEF Last
<1>4. CASE n \in Packages
  <2>1. PackageParts(n)
    BY <1>4, PackagesByParts
  <2>2. HostName(n) \/ InnerName(n)
    BY <1>1, <2>1 DEF PackageParts, HostName, InnerName, ShellPackages
  <2>3. PackageName(n)
    BY <1>1, <2>1 DEF PackageParts, PackageName
  <2> QED BY <1>1, <1>2, <1>4, <2>2, <2>3
<1>5. CASE n \notin Packages
  <2> DEFINE p == Front(n)
  <2>1. /\ Len(n) \in 2..4 /\ Last(n) \in Leaves /\ PackageParts(p) /\ Len(p) = Len(n) - 1
        /\ \A i \in 1..(Len(n) - 1) : p[i] = n[i]
    BY <1>3, <1>5, NamesByParts
  <2> HIDE DEF p
  <2>2. Last(n) \in Plain /\ Last(n) = n[Len(n)]
    BY <1>1, <2>1, LeavesKnown DEF Plain, Last
  <2>3. CASE Len(n) = 2
    <3>1. n[1] \in Contexts \cup ShellPackages \cup {"kernel"} /\ n[2] \in Plain
      BY <2>1, <2>2, <2>3 DEF PackageParts
    <3>2. n[1] \notin Contexts
      <4> SUFFICES ASSUME n[1] \in Contexts PROVE Place(n) = "stray"
        BY NamesByParts
      <4>1. n[1] \notin {"srv", "app", "protocol", "tests", "kernel"}
        BY BelowIsNotPlain
      <4>2. n[2] \notin Roles /\ n[2] # "tests"
        BY <3>1, BelowIsNotPlain DEF Plain
      <4>3. IsPrefix(<<"domain", "kernel">>, Tail(n)) <=> Len(n) >= 3 /\ n[2] = "domain" /\ n[3] = "kernel"
        BY <1>2, <2>3, EntriesByParts DEF Parts, Roles
      <4> QED BY <1>1, <2>3, <4>1, <4>2, <4>3 DEF Place, IsTest
    <3>3. HostName(n)
      BY <1>1, <2>3, <3>1, <3>2 DEF HostName, ShellPackages
    <3> QED BY <1>1, <1>2, <1>5, <2>3, <3>2, <3>3 DEF PackageName
  <2>4. CASE Len(n) = 3
    <3>1. n[1] \in Contexts /\ n[2] \in Roles /\ n[3] \in Plain
      BY <1>1, <2>1, <2>2, <2>4 DEF PackageParts
    <3>2. n[3] \notin Below(n[2])
      BY <3>1, BelowIsNotPlain DEF Plain
    <3> QED BY <1>1, <1>2, <1>5, <2>4, <3>1, <3>2 DEF PackageName, InnerName
  <2>5. CASE Len(n) = 4
    <3>1. n[1] \in Contexts /\ n[2] \in Roles /\ n[3] \in Below(n[2]) /\ n[4] \in Plain
      BY <2>1, <2>2, <2>5 DEF PackageParts
    <3> QED BY <1>1, <1>2, <1>5, <2>5, <3>1 DEF PackageName, InnerName
  <2> QED BY <2>1, <2>3, <2>4, <2>5
<1> QED BY <1>4, <1>5

(* The place of what ships.                                                *)
PlaceByParts(n) ==
    IF n[1] = "srv" THEN IF Len(n) = 1 THEN "shell-init" ELSE "shell-srv"
    ELSE IF n[1] = "app" THEN IF Len(n) = 1 THEN "shell-init" ELSE "shell-app"
    ELSE IF n[1] = "protocol" THEN IF Len(n) = 1 THEN "protocol-init" ELSE "protocol"
    ELSE IF n[1] = "kernel" THEN IF Len(n) = 1 THEN "kernel-init" ELSE "kernel"
    ELSE IF Len(n) = 1 THEN "context-init"
    ELSE IF Len(n) >= 3 /\ n[2] = "domain" /\ n[3] = "kernel"
      THEN IF Len(n) = 3 THEN "context-kernel-init" ELSE "context-kernel"
    ELSE IF Len(n) >= 3 /\ n[2] = "application" /\ n[3] \in ApplicationPackages
      THEN IF Len(n) = 3 THEN "package-init" ELSE n[3]
    ELSE IF PackageName(n) THEN "role-init" ELSE "role"

LEMMA PlacesByParts ==
    ASSUME NEW n \in Modules, Production(n)
    PROVE  Place(n) = PlaceByParts(n)
<1>1. /\ n \in Seq(Parts) /\ Last(n) \notin {"test_m", "conftest"}
      /\ n \in Packages <=> PackageName(n)
  BY ProductionByParts
<1>2. ~IsTest(n) /\ ~IsReserved(n)
  BY <1>1 DEF IsTest, IsReserved
<1>3. CASE HostName(n)
  <2>1. n[1] \in {"srv", "app", "protocol", "kernel"} /\ n[1] \notin Contexts /\ Len(n) \in 1..2
    BY <1>3, BelowIsNotPlain DEF HostName
  <2>2. n \in Packages <=> Len(n) = 1
    BY <1>1, <2>1 DEF PackageName
  <2> HIDE DEF PackageName
  <2> QED BY <1>1, <1>2, <2>1, <2>2 DEF Place, PlaceByParts
<1>4. CASE InnerName(n)
  <2>1. n[1] \in Contexts /\ n[1] \notin {"srv", "app", "protocol", "tests", "kernel"}
    BY <1>4, BelowIsNotPlain DEF InnerName
  <2>2. Len(n) \in 1..4 /\ (Len(n) > 1 => n[2] \in Roles /\ n[2] # "tests")
    <3>1. Len(n) = 1 \/ ((Len(n) = 2 \/ Len(n) = 3 \/ Len(n) = 4) /\ n[2] \in Roles)
      BY <1>4 DEF InnerName
    <3>2. "tests" \notin Roles
      BY DEF Roles
    <3>3. ~(1 > 1) /\ 1 \in 1..4 /\ 2 \in 1..4 /\ 3 \in 1..4 /\ 4 \in 1..4
      OBVIOUS
    <3>4. CASE Len(n) = 1
      <4>1. ~(Len(n) > 1) /\ Len(n) \in 1..4
        BY <3>3, <3>4, Zenon
      <4> QED BY <4>1
    <3>5. CASE (Len(n) = 2 \/ Len(n) = 3 \/ Len(n) = 4) /\ n[2] \in Roles
      <4>1. Len(n) \in 1..4
        BY <3>3, <3>5, Zenon
      <4>2. n[2] # "tests"
        BY <3>2, <3>5, Zenon
      <4> QED BY <3>5, <4>1, <4>2, Zenon
    <3> QED BY <3>1, <3>4, <3>5, Zenon
  <2>3. IsPrefix(<<"domain", "kernel">>, Tail(n)) <=> Len(n) >= 3 /\ n[2] = "domain" /\ n[3] = "kernel"
    <3>1. \A k \in 1..4 : k >= 1
      OBVIOUS
    <3>2. n \in Seq(Parts) /\ Len(n) >= 1
      BY <1>1, <2>2, <3>1
    <3>3. "domain" \in Parts /\ "kernel" \in Parts
      BY DEF Parts, Roles
    <3> QED BY <3>2, <3>3, EntriesByParts
  <2>4. Len(n) = 4 => n[3] \in Below(n[2])
    BY <1>4 DEF InnerName
  <2>5. PackageName(n) <=> Len(n) = 1 \/ Len(n) = 2 \/ (Len(n) = 3 /\ n[3] \in Below(n[2]))
    BY <2>1 DEF PackageName
  <2>6. (n[2] = "domain" => Below(n[2]) = {"kernel"}) /\ (n[2] = "application" => Below(n[2]) = ApplicationPackages)
    BY DEF Below
  <2> HIDE DEF PackageName, Below
  <2>7. CASE Len(n) = 1
    BY <1>1, <1>2, <2>1, <2>3, <2>7 DEF Place, PlaceByParts
  <2>8. CASE Len(n) = 2
    BY <1>1, <1>2, <2>1, <2>2, <2>3, <2>5, <2>8 DEF Place, PlaceByParts
  <2>9. CASE Len(n) = 3
    BY <1>1, <1>2, <2>1, <2>2, <2>3, <2>5, <2>6, <2>9 DEF Place, PlaceByParts
  <2>10. CASE Len(n) = 4
    BY <1>1, <1>2, <2>1, <2>2, <2>3, <2>4, <2>5, <2>6, <2>10 DEF Place, PlaceByParts
  <2> QED BY <2>2, <2>7, <2>8, <2>9, <2>10
<1> QED BY <1>3, <1>4, ProductionByParts

LEMMA FrontByParts ==
    ASSUME NEW n \in Seq(Parts), Len(n) > 1
    PROVE  /\ Front(n) \in Seq(Parts) /\ Len(Front(n)) = Len(n) - 1
           /\ \A i \in 1..(Len(n) - 1) : Front(n)[i] = n[i]
BY DEF Front

(* Which packages list what the outside may name.                          *)
LEMMA ExportsByParts ==
    ASSUME NEW p \in Packages
    PROVE  p \in ExportPackages <=>
             \/ Len(p) = 1 /\ p[1] \in {"srv", "app", "protocol"}
             \/ Len(p) > 1 /\ p[2] # "tests"
<1>1. p \in Seq(Parts) /\ PackageParts(p)
  BY PackagesByParts
<1> DEFINE init == {"role-init", "package-init", "shell-init", "protocol-init", "context-kernel-init"}
<1>2. p \in ExportPackages <=> Place(p) \in init
  BY DEF ExportPackages
<1>3. IsPrefix(<<"domain", "kernel">>, Tail(p)) <=> Len(p) >= 3 /\ p[2] = "domain" /\ p[3] = "kernel"
  BY <1>1, EntriesByParts DEF PackageParts, Parts, Roles
<1>4. CASE Len(p) = 1
  <2>1. p[1] \in Contexts \cup ShellPackages \cup {"kernel"}
    BY <1>1, <1>4 DEF PackageParts
  <2>2. CASE p[1] \in Contexts
    <3>1. p[1] \notin {"srv", "app", "protocol", "tests", "kernel"}
      BY <2>2, BelowIsNotPlain
    <3>2. Place(p) \in {"conftest-root", "test", "context-init"}
      BY <1>1, <1>3, <1>4, <2>2, <3>1 DEF Place
    <3> QED BY <1>2, <1>4, <3>1, <3>2
  <2>3. CASE p[1] \in {"srv", "app", "protocol", "tests", "kernel"}
    <3>1. Last(p) = p[1] /\ ~IsTest(p) /\ ~IsReserved(p)
      BY <1>4, <2>3 DEF Last, IsTest, IsReserved
    <3>2. Place(p) = CASE p[1] = "srv" -> "shell-init"
                       [] p[1] = "app" -> "shell-init"
                       [] p[1] = "tests" -> "root-tests"
                       [] p[1] = "protocol" -> "protocol-init"
                       [] p[1] = "kernel" -> "kernel-init"
      BY <1>1, <1>3, <1>4, <2>3, <3>1 DEF Place
    <3> QED BY <1>2, <1>4, <2>3, <3>2
  <2> QED BY <2>1, <2>2, <2>3 DEF ShellPackages
<1>5. CASE Len(p) > 1
  <2>1. /\ p[1] \in Contexts /\ p[1] \notin {"srv", "app", "protocol", "tests", "kernel"}
        /\ Len(p) \in {2, 3}
        /\ Len(p) = 2 => p[2] \in Roles \cup {"tests"}
        /\ Len(p) = 3 => p[2] \in Roles /\ p[3] \in Below(p[2])
    BY <1>1, <1>5, BelowIsNotPlain DEF PackageParts
  <2>2. Last(p) \notin {"test_m", "conftest"}
    BY <2>1, BelowIsNotPlain DEF Last
  <2>3. ~IsTest(p) /\ ~IsReserved(p)
    BY <2>2 DEF IsTest, IsReserved
  <2>4. CASE p[2] = "tests"
    <3>1. Len(p) = 2
      BY <2>1, <2>4, BelowIsNotPlain
    <3>2. Place(p) = "context-tests-init"
      BY <1>1, <1>3, <2>1, <2>2, <2>3, <2>4, <3>1 DEF Place
    <3> QED BY <1>2, <1>5, <2>4, <3>2
  <2>5. CASE p[2] # "tests"
    <3>1. Place(p) \in {"context-kernel-init", "package-init", "role-init"}
      BY <1>1, <1>3, <2>1, <2>2, <2>3, <2>5 DEF Place
    <3> QED BY <1>2, <1>5, <2>5, <3>1
  <2> QED BY <2>4, <2>5
<1> QED BY <1>1, <1>4, <1>5 DEF PackageParts

(* What one import of what ships may be, past the list of the package.     *)
LEMMA ImportsByParts ==
    ASSUME NEW m \in Modules, Production(m), NEW n \in Imports[m], Production(n)
    PROVE  /\ n \in Modules /\ PlaceMay(m, n)
           /\ InnerName(n) /\ Len(n) > 1 /\ PackageName(n) =>
                ~(Len(n) <= Len(m) /\ \A i \in 1..Len(n) : m[i] = n[i])
           /\ InnerName(n) /\ ~PackageName(n) =>
                Len(m) = Len(n) - 1 /\ \A i \in 1..Len(m) : m[i] = n[i]
           /\ n[1] \in {"srv", "app", "protocol"} =>
                IF Len(n) = 1 THEN m[1] # n[1] ELSE Len(m) = 1 /\ m[1] = n[1]
<1>1. n \in Modules /\ PlaceMay(m, n) /\ ThroughThePackage(m, n)
  BY DEF Imports
<1>2. /\ m \in Seq(Parts) /\ (HostName(m) \/ InnerName(m)) /\ ~IsReserved(m)
      /\ n \in Seq(Parts) /\ (HostName(n) \/ InnerName(n)) /\ (n \in Packages <=> PackageName(n))
  BY <1>1, ProductionByParts DEF Production
<1>3. \A p \in Packages : p \in Seq(Parts)
  BY PackagesByParts
<1>4. n \in ExportPackages => ~(Len(n) <= Len(m) /\ \A i \in 1..Len(n) : m[i] = n[i])
  BY <1>1, <1>2, PrefixByParts DEF ThroughThePackage
<1>5. Len(n) > 1 /\ n \notin ExportPackages /\ Front(n) \in ExportPackages =>
        Len(m) = Len(n) - 1 /\ \A i \in 1..Len(m) : m[i] = n[i]
  BY <1>1, <1>2, FrontByParts DEF ThroughThePackage
<1>6. CASE InnerName(n)
  <2>1. n[1] \in Contexts /\ n[1] \notin {"srv", "app", "protocol"}
    BY <1>6, BelowIsNotPlain DEF InnerName
  <2>2. Len(n) > 1 /\ PackageName(n) => n \in ExportPackages
    <3>1. Len(n) > 1 => n[2] # "tests"
      BY <1>6, BelowIsNotPlain DEF InnerName
    <3> QED BY <1>2, <3>1, ExportsByParts
  <2>3. ~PackageName(n) => Len(n) > 1 /\ n \notin ExportPackages /\ Front(n) \in ExportPackages
    <3> SUFFICES ASSUME ~PackageName(n)
                 PROVE  Len(n) > 1 /\ n \notin ExportPackages /\ Front(n) \in ExportPackages
      OBVIOUS
    <3>1. Len(n) \in {3, 4} /\ n[2] \in Roles /\ (Len(n) = 4 => n[3] \in Below(n[2]))
      BY <1>6 DEF InnerName, PackageName
    <3>2. Front(n) \in Seq(Parts) /\ Len(Front(n)) = Len(n) - 1 /\ \A i \in 1..(Len(n) - 1) : Front(n)[i] = n[i]
      BY <1>2, <3>1, FrontByParts
    <3>3. PackageParts(Front(n))
      BY <2>1, <3>1, <3>2 DEF PackageParts
    <3>4. Front(n) \in Packages /\ Len(Front(n)) > 1 /\ Front(n)[2] # "tests"
      BY <3>1, <3>2, <3>3, PartsMakePackages, BelowIsNotPlain
    <3> QED BY <1>2, <3>1, <3>4, ExportsByParts DEF ExportPackages
  <2> QED BY <1>1, <1>4, <1>5, <2>1, <2>2, <2>3
<1>7. CASE HostName(n) /\ n[1] \in {"srv", "app", "protocol"}
  <2>1. n[1] \notin Contexts /\ (PackageName(n) <=> Len(n) = 1) /\ Len(n) \in {1, 2}
    BY <1>7, BelowIsNotPlain DEF HostName, PackageName
  <2>2. Len(n) = 1 => n \in ExportPackages
    BY <1>2, <1>7, <2>1, ExportsByParts
  <2>3. Len(m) >= 1
    BY <1>2 DEF HostName, InnerName
  <2>4. Len(n) = 2 => n \notin ExportPackages /\ Front(n) \in ExportPackages
    <3> SUFFICES ASSUME Len(n) = 2 PROVE n \notin ExportPackages /\ Front(n) \in ExportPackages
      OBVIOUS
    <3>1. /\ Front(n) \in Seq(Parts) /\ Len(Front(n)) = Len(n) - 1
          /\ \A i \in 1..(Len(n) - 1) : Front(n)[i] = n[i]
      <4>1. n \in Seq(Parts) /\ Len(n) > 1
        BY <1>2
      <4> QED BY <4>1, FrontByParts
    <3>2. Len(Front(n)) = 1 /\ Front(n)[1] = n[1]
      BY <3>1
    <3>3. Front(n) \in Packages
      BY <1>7, <3>1, <3>2, PartsMakePackages DEF PackageParts, ShellPackages
    <3> QED BY <1>2, <1>7, <2>1, <3>2, <3>3, ExportsByParts DEF ExportPackages
  <2>5. ~InnerName(n)
    BY <2>1 DEF InnerName
  <2>6. CASE Len(n) = 1
    BY <1>1, <1>4, <2>2, <2>3, <2>5, <2>6
  <2>7. CASE Len(n) = 2
    <3>1. Len(m) = Len(n) - 1 /\ \A i \in 1..Len(m) : m[i] = n[i]
      <4>1. 2 > 1
        OBVIOUS
      <4>2. n \notin ExportPackages /\ Front(n) \in ExportPackages
        BY <2>4, <2>7
      <4>3. Len(n) > 1
        BY <2>7, <4>1, Zenon
      <4> QED BY <1>5, <4>2, <4>3, Zenon
    <3>2. Len(m) = 1
      BY <2>7, <3>1
    <3>3. m[1] = n[1]
      <4>1. 1 \in 1..1
        OBVIOUS
      <4> QED BY <3>1, <3>2, <4>1, Zenon
    <3>4. Len(n) # 1
      BY <2>7
    <3> QED BY <1>1, <2>5, <2>7, <3>2, <3>3, <3>4
  <2> QED BY <2>1, <2>6, <2>7
<1>8. CASE HostName(n) /\ n[1] = "kernel"
  <2>1. ~InnerName(n)
    BY <1>8, BelowIsNotPlain DEF InnerName
  <2> QED BY <1>1, <1>8, <2>1
<1> QED BY <1>2, <1>6, <1>7, <1>8 DEF HostName

-------------------------------------------------------------------------------
(* Which rule an import answers to.                                        *)

(* A module in a package of a role.                                        *)
Leaf(m) == Len(m) \in 3..4 /\ ~PackageName(m)

(* Which rule the place of a module of a context asks.                     *)
LEMMA PlaceAsks ==
    ASSUME NEW m \in Modules, Production(m), InnerName(m), NEW n, PlaceMay(m, n)
    PROVE  /\ Len(m) > 1
           /\ PackageName(m) => InitMay(m, n)
           /\ ~PackageName(m) => Leaf(m)
           /\ ~PackageName(m) =>
                IF m[2] = "application" /\ Len(m) = 4 /\ m[3] = "ports" THEN FALSE
                ELSE IF m[2] = "application" /\ Len(m) = 4 /\ m[3] = "client" THEN AppClientMay(m, n)
                ELSE RoleMay(m, n)
           /\ Place(m) \in {"context-kernel", "context-kernel-init"} =>
                m[2] = "domain" /\ Len(m) >= 3 /\ m[3] = "kernel"
<1>1. m[1] \in Contexts /\ m[1] \notin {"srv", "app", "protocol", "tests", "kernel"}
  BY BelowIsNotPlain DEF InnerName
<1>2. Place(m) = PlaceByParts(m)
  BY PlacesByParts
<1>3. Len(m) \in 1..4 /\ (Len(m) = 4 => m[3] \in Below(m[2]))
  BY DEF InnerName
<1>4. Len(m) > 1
  <2> SUFFICES ASSUME Len(m) = 1 PROVE FALSE
    BY <1>3
  <2>1. Place(m) = "context-init"
    BY <1>1, <1>2 DEF PlaceByParts
  <2> QED BY <2>1 DEF PlaceMay
<1>5. m[2] = "application" => Below(m[2]) = ApplicationPackages
  BY DEF Below
<1>6. ASSUME PackageName(m) PROVE InitMay(m, n)
  <2>1. Len(m) = 2 \/ Len(m) = 3
    BY <1>4, <1>6 DEF PackageName
  <2>2. Len(m) = 3 => m[3] \in Below(m[2])
    BY <1>4, <1>6 DEF PackageName
  <2>3. Place(m) \in {"context-kernel-init", "package-init", "role-init"}
    BY <1>1, <1>2, <1>6, <2>1, <2>2 DEF PlaceByParts
  <2> QED BY <2>3 DEF PlaceMay
<1>7. ~PackageName(m) => Leaf(m)
  BY <1>1, <1>3, <1>4 DEF PackageName, Leaf
<1>8. ASSUME ~PackageName(m)
      PROVE  IF m[2] = "application" /\ Len(m) = 4 /\ m[3] = "ports" THEN FALSE
             ELSE IF m[2] = "application" /\ Len(m) = 4 /\ m[3] = "client" THEN AppClientMay(m, n)
             ELSE RoleMay(m, n)
  <2>1. Len(m) = 3 \/ Len(m) = 4
    BY <1>7, <1>8 DEF Leaf
  <2>2. Len(m) = 3 => m[3] \notin Below(m[2])
    BY <1>1, <1>8 DEF PackageName
  <2>3. m[2] = "domain" => Below(m[2]) = {"kernel"}
    BY DEF Below
  <2>4. CASE m[2] = "application" /\ Len(m) = 4
    <3>1. Place(m) = m[3] /\ m[3] \in ApplicationPackages
      BY <1>1, <1>2, <1>3, <1>5, <2>4 DEF PlaceByParts
    <3>2. CASE m[3] = "ports"
      BY <3>1, <3>2 DEF PlaceMay, PortsMay
    <3>3. CASE m[3] = "client"
      BY <2>4, <3>1, <3>3 DEF PlaceMay
    <3>4. CASE m[3] \in {"orchestrators", "relays", "snapshots"}
      BY <2>4, <3>1, <3>4 DEF PlaceMay
    <3> QED BY <3>1, <3>2, <3>3, <3>4 DEF ApplicationPackages
  <2>5. CASE ~(m[2] = "application" /\ Len(m) = 4)
    <3>1. Place(m) \in {"context-kernel", "role"}
      BY <1>1, <1>2, <1>3, <1>5, <1>8, <2>1, <2>2, <2>3, <2>5 DEF PlaceByParts
    <3> QED BY <2>5, <3>1 DEF PlaceMay
  <2> QED BY <2>4, <2>5
<1>9. Place(m) \in {"context-kernel", "context-kernel-init"} => m[2] = "domain" /\ Len(m) >= 3 /\ m[3] = "kernel"
  <2> SUFFICES ASSUME ~(m[2] = "domain" /\ Len(m) >= 3 /\ m[3] = "kernel")
               PROVE  Place(m) \notin {"context-kernel", "context-kernel-init"}
    OBVIOUS
  <2>1. m[2] = "application" /\ m[3] \in ApplicationPackages => m[3] \notin {"context-kernel", "context-kernel-init"}
    BY DEF ApplicationPackages
  <2> QED BY <1>1, <1>2, <2>1 DEF PlaceByParts
<1> QED BY <1>4, <1>6, <1>7, <1>8, <1>9

(* What the kinds' entries mean, part by part.                             *)
OfPackage(n, role, packages) == Len(n) >= 3 /\ n[2] = role /\ n[3] \in packages

KindStep(kind, n) ==
    \/ OfPackage(n, "adapters", {kind})
    \/ kind = "handlers" /\ Len(n) >= 2 /\ n[2] = "client"
    \/ kind \in {"gateways", "repositories"} /\ OfPackage(n, "application", {"ports"})
    \/ kind = "runners" /\ OfPackage(n, "application", {"relays", "orchestrators"})
    \/ kind \in RuntimeKinds /\ OfPackage(n, "application", {"client", "relays"})
    \/ kind = "workflows" /\ OfPackage(n, "application", {"orchestrators", "relays"})
    \/ kind = "workflows" /\ OfPackage(n, "adapters", {"activities"})
    \/ kind = "dispatchers" /\ OfPackage(n, "application", {"relays"})
    \/ kind = "dispatchers" /\ OfPackage(n, "adapters", {"workflows"})

LEMMA KindReachByParts ==
    ASSUME NEW n \in Seq(Parts), Len(n) >= 1, NEW kind \in KindPackages,
           Reaches(n, KindReach(kind) \cup {<<"adapters", kind>>})
    PROVE  KindStep(kind, n)
<1>1. PICK entry \in KindReach(kind) \cup {<<"adapters", kind>>} : IsPrefix(entry, Tail(n))
  BY DEF Reaches
<1>2. \A a \in Parts : IsPrefix(<<a>>, Tail(n)) => Len(n) >= 2 /\ n[2] = a
  BY EntriesByParts
<1>3. \A a, b \in Parts : IsPrefix(<<a, b>>, Tail(n)) => OfPackage(n, a, {b})
  BY EntriesByParts DEF OfPackage
<1>4. Roles \cup ApplicationPackages \cup KindPackages \subseteq Parts
  BY DEF Parts
<1>5. CASE entry = <<"adapters", kind>>
  BY <1>1, <1>3, <1>4, <1>5 DEF Roles, KindStep
<1>6. CASE entry \in KindReach(kind)
  <2>1. CASE kind = "handlers"
    <3>1. entry = <<"client">>
      BY <1>6, <2>1 DEF KindReach
    <3> QED BY <1>1, <1>2, <1>4, <2>1, <3>1 DEF Roles, KindStep
  <2>2. CASE kind \in {"gateways", "repositories"}
    <3>1. entry = <<"application", "ports">>
      BY <1>6, <2>2 DEF KindReach
    <3> QED BY <1>1, <1>3, <1>4, <2>2, <3>1 DEF Roles, ApplicationPackages, KindStep
  <2>3. CASE kind = "runners"
    <3>1. entry \in {<<"application", "relays">>, <<"application", "orchestrators">>}
      BY <1>6, <2>3 DEF KindReach
    <3>2. OfPackage(n, "application", {"relays"}) \/ OfPackage(n, "application", {"orchestrators"})
      BY <1>1, <1>3, <1>4, <3>1 DEF Roles, ApplicationPackages
    <3> QED BY <2>3, <3>2 DEF KindStep, OfPackage
  <2>4. CASE kind \in {"runtimes", "activities"}
    <3>1. entry \in {<<"application", "client">>, <<"application", "relays">>}
      BY <1>6, <2>4 DEF KindReach
    <3>2. OfPackage(n, "application", {"client"}) \/ OfPackage(n, "application", {"relays"})
      BY <1>1, <1>3, <1>4, <3>1 DEF Roles, ApplicationPackages
    <3> QED BY <2>4, <3>2 DEF KindStep, OfPackage, RuntimeKinds
  <2>5. CASE kind = "workflows"
    <3>1. entry \in {<<"application", "orchestrators">>, <<"application", "relays">>, <<"adapters", "activities">>}
      BY <1>6, <2>5 DEF KindReach
    <3>2. \/ OfPackage(n, "application", {"orchestrators"}) \/ OfPackage(n, "application", {"relays"})
          \/ OfPackage(n, "adapters", {"activities"})
      BY <1>1, <1>3, <1>4, <3>1 DEF Roles, ApplicationPackages, KindPackages
    <3> QED BY <2>5, <3>2 DEF KindStep, OfPackage
  <2>6. CASE kind = "dispatchers"
    <3>1. entry \in {<<"application", "relays">>, <<"adapters", "workflows">>}
      BY <1>6, <2>6 DEF KindReach
    <3>2. OfPackage(n, "application", {"relays"}) \/ OfPackage(n, "adapters", {"workflows"})
      BY <1>1, <1>3, <1>4, <3>1 DEF Roles, ApplicationPackages, KindPackages
    <3> QED BY <2>6, <3>2 DEF KindStep
  <2> QED BY <2>1, <2>2, <2>3, <2>4, <2>5, <2>6 DEF KindPackages
<1> QED BY <1>1, <1>5, <1>6

(* And what a role's mean.                                                 *)
RoleStep(role, n) ==
    \/ role = "application" /\ n[2] \in {"domain", "client"}
    \/ role = "adapters" /\ OfPackage(n, "application", {"ports"})
    \/ role = "component" /\ n[2] \in {"application", "adapters", "client"}

LEMMA RoleReachByParts ==
    ASSUME NEW n \in Seq(Parts), Len(n) >= 1, NEW role \in Roles, Reaches(n, SameContext(role))
    PROVE  RoleStep(role, n)
<1>1. PICK entry \in SameContext(role) : IsPrefix(entry, Tail(n))
  BY DEF Reaches
<1>2. \A a \in Parts : IsPrefix(<<a>>, Tail(n)) => n[2] = a
  BY EntriesByParts
<1>3. \A a, b \in Parts : IsPrefix(<<a, b>>, Tail(n)) => OfPackage(n, a, {b})
  BY EntriesByParts DEF OfPackage
<1>4. Roles \cup ApplicationPackages \subseteq Parts
  BY DEF Parts
<1>5. role \in {"application", "adapters", "component"}
  BY <1>1 DEF SameContext, Roles
<1>6. CASE role = "application"
  <2>1. entry \in {<<"domain">>, <<"client">>}
    BY <1>1, <1>6 DEF SameContext
  <2> QED BY <1>1, <1>2, <1>4, <1>6, <2>1 DEF Roles, RoleStep
<1>7. CASE role = "adapters"
  <2>1. entry = <<"application", "ports">>
    BY <1>1, <1>7 DEF SameContext
  <2> QED BY <1>1, <1>3, <1>4, <1>7, <2>1 DEF Roles, ApplicationPackages, RoleStep
<1>8. CASE role = "component"
  <2>1. entry \in {<<"application">>, <<"adapters">>, <<"client">>}
    BY <1>1, <1>8 DEF SameContext
  <2> QED BY <1>1, <1>2, <1>4, <1>8, <2>1 DEF Roles, RoleStep
<1> QED BY <1>5, <1>6, <1>7, <1>8

(* What a leaf of a role may import of its own context, part by part.      *)
LEMMA OwnContextByParts ==
    ASSUME NEW m \in Seq(Parts), InnerName(m), Leaf(m),
           NEW n \in Seq(Parts), Len(n) >= 1, OwnContextMay(m, n)
    PROVE  /\ Len(n) >= 2
           /\ OfPackage(n, "domain", {"kernel"}) => m[2] = "domain"
           /\ OfPackage(n, "application", {"client"}) => m[2] = "adapters" /\ Len(m) = 4 /\ m[3] \in RuntimeKinds
           /\ OfPackage(n, "application", {"orchestrators"}) => m[2] = "adapters" /\ Len(m) = 4 /\ m[3] \in RunnerKinds
           /\ IF m[2] = "adapters" /\ Len(m) = 4 THEN KindStep(m[3], n)
              ELSE n[2] = m[2] \/ RoleStep(m[2], n)
<1>1. /\ IsPrefix(<<"domain", "kernel">>, Tail(n)) <=> OfPackage(n, "domain", {"kernel"})
      /\ IsPrefix(<<"application", "client">>, Tail(n)) <=> OfPackage(n, "application", {"client"})
      /\ IsPrefix(<<"application", "orchestrators">>, Tail(n)) <=> OfPackage(n, "application", {"orchestrators"})
  BY EntriesByParts DEF OfPackage, Parts, Roles, ApplicationPackages
<1>2. /\ Len(m) \in 3..4 /\ m[2] \in Roles
      /\ m[2] = "adapters" /\ Len(m) = 4 => m[3] \in KindPackages
  BY DEF InnerName, Leaf, Below
<1>3. /\ m[2] = "adapters" /\ Len(m) = 4 => KindPackage(m) = m[3]
      /\ ~(m[2] = "adapters" /\ Len(m) = 4) => KindPackage(m) = "none"
  <2>1. \A k \in 3..4 : k >= 4 <=> k = 4
    OBVIOUS
  <2>2. Len(m) >= 4 <=> Len(m) = 4
    BY <1>2, <2>1
  <2> QED BY <2>2, Zenon DEF KindPackage
<1>4. "none" \notin KindPackages /\ "none" \notin RuntimeKinds /\ "none" \notin RunnerKinds
  BY DEF KindPackages, RuntimeKinds, RunnerKinds
<1>5. CASE m[2] = "adapters" /\ Len(m) = 4
  <2>1. Reaches(n, KindReach(m[3]) \cup {<<"adapters", m[3]>>})
    BY <1>2, <1>3, <1>5 DEF OwnContextMay
  <2>2. KindStep(m[3], n)
    BY <1>2, <1>5, <2>1, KindReachByParts
  <2>3. Len(n) >= 2
    BY <2>2 DEF KindStep, OfPackage
  <2> QED BY <1>1, <1>3, <1>5, <2>2, <2>3 DEF OwnContextMay
<1>6. CASE ~(m[2] = "adapters" /\ Len(m) = 4)
  <2>1. Len(n) >= 2 /\ (n[2] = m[2] \/ Reaches(n, SameContext(m[2])))
    BY <1>3, <1>4, <1>6 DEF OwnContextMay
  <2>2. n[2] = m[2] \/ RoleStep(m[2], n)
    BY <1>2, <2>1, RoleReachByParts
  <2> QED BY <1>1, <1>3, <1>4, <1>6, <2>1, <2>2 DEF OwnContextMay
<1> QED BY <1>5, <1>6

-------------------------------------------------------------------------------
(* The imports of what ships, by the parts of both names: of the shell and *)
(* the root kernel, ...                                                    *)
HostStep(m, n) ==
    \/ m[1] = "kernel" /\ n[1] = "kernel"
    \/ m[1] # "kernel" /\ Len(m) = 1 /\ HostName(n) /\ n[1] = m[1] /\ Len(n) = 2
    \/ m[1] \in {"srv", "app"} /\ Len(m) = 2 /\ InnerName(n)
    \/ m[1] = "srv" /\ Len(m) = 2 /\ HostName(n) /\ n[1] \in {"app", "protocol"} /\ Len(n) = 1

(* ... of a context's package, ...                                         *)
ListStep(m, n) ==
    /\ PackageName(m) /\ Len(m) > 1
    /\ InnerName(n) /\ Len(n) = Len(m) + 1 /\ \A i \in 1..Len(m) : m[i] = n[i]

(* ... of a leaf, to the context's packages ...                            *)
Lower == {"ports", "relays", "snapshots"}

OwnStep(m, n) ==
    \/ m[2] = "domain" /\ Len(m) = 3 /\ OfPackage(n, "domain", {"kernel"})
    \/ /\ m[2] = "application" /\ (Len(m) = 4 => m[3] \notin {"ports", "client"})
       /\ n[2] \in {"domain", "client"} /\ Len(n) = 2
    \/ /\ m[2] = "application" /\ (Len(m) = 4 => m[3] \notin {"ports", n[3]})
       /\ OfPackage(n, "application", Lower)
       /\ Len(m) = 4 /\ m[3] = "client" => n[3] # "snapshots"
    \/ /\ m[2] = "adapters" /\ Len(m) = 3
       /\ OfPackage(n, "application", {"ports"}) \/ OfPackage(n, "adapters", KindPackages)
    \/ m[2] = "adapters" /\ Len(m) = 4 /\ KindStep(m[3], n) /\ (n[2] = "adapters" => n[3] # m[3])
    \/ /\ m[2] = "component" /\ n[2] \in {"application", "adapters", "client"}
       /\ OfPackage(n, "application", Lower) \/ OfPackage(n, "adapters", KindPackages) \/ Len(n) = 2

(* ... and to what is outside it.                                          *)
ReachesOut(m) == m[2] = "component" \/ (m[2] = "adapters" /\ (Len(m) = 3 \/ m[3] = "gateways"))

LeafStep(m, n) ==
    /\ Leaf(m)
    /\ \/ HostName(n) /\ n[1] = "protocol" /\ m[2] = "adapters" /\ Len(m) = 4 /\ m[3] = "handlers"
       \/ InnerName(n) /\ n[1] # m[1] /\ Len(n) = 2 /\ n[2] = "client" /\ ReachesOut(m)
       \/ InnerName(n) /\ PackageName(n) /\ Len(n) > 1 /\ n[1] = m[1] /\ OwnStep(m, n)

InnerStep(m, n) ==
    \/ OfPackage(m, "domain", {"kernel"}) /\ HostName(n) /\ n[1] = "kernel"
    \/ ListStep(m, n)
    \/ LeafStep(m, n)

LEMMA HostImports ==
    ASSUME NEW m \in Modules, Production(m), HostName(m), NEW n \in Imports[m], Production(n)
    PROVE  HostStep(m, n)
<1>1. /\ n \in Modules /\ PlaceMay(m, n)
      /\ n[1] \in {"srv", "app", "protocol"} =>
           IF Len(n) = 1 THEN m[1] # n[1] ELSE Len(m) = 1 /\ m[1] = n[1]
  BY ImportsByParts
<1>2. Place(m) = PlaceByParts(m) /\ (HostName(n) \/ InnerName(n)) /\ n \in Seq(Parts)
  BY <1>1, PlacesByParts, ProductionByParts
<1>3. m[1] \in {"srv", "app", "protocol", "kernel"} /\ Len(m) \in {1, 2}
  BY DEF HostName
<1>4. InnerName(n) => InContext(n) /\ n[1] \notin {"srv", "app", "protocol", "kernel"}
  BY BelowIsNotPlain DEF InnerName, InContext
<1>5. HostName(n) => Len(n) \in {1, 2} /\ ~InContext(n) /\ n[1] \in {"srv", "app", "protocol", "kernel"}
  BY BelowIsNotPlain DEF HostName, InContext
<1>6. CASE m[1] = "kernel"
  <2>1. Place(m) \in {"kernel-init", "kernel"}
    BY <1>2, <1>6 DEF PlaceByParts
  <2>2. CASE Place(m) = "kernel-init"
    <3>1. KernelInitMay(m, n)
      BY <1>1, <2>2 DEF PlaceMay
    <3> QED BY <1>6, <3>1 DEF KernelInitMay, HostStep
  <2>3. CASE Place(m) = "kernel"
    <3>1. KernelMay(m, n)
      BY <1>1, <2>3 DEF PlaceMay
    <3> QED BY <1>6, <3>1 DEF KernelMay, HostStep
  <2> QED BY <2>1, <2>2, <2>3
<1>7. CASE m[1] # "kernel" /\ Len(m) = 1
  <2>1. Place(m) \in {"shell-init", "protocol-init"}
    BY <1>2, <1>3, <1>7 DEF PlaceByParts
  <2>2. InitMay(m, n)
    BY <1>1, <2>1 DEF PlaceMay
  <2>3. Len(n) > 1 /\ Front(n) = m
    BY <2>1, <2>2 DEF InitMay
  <2>4. Len(n) = 2 /\ n[1] = m[1]
    <3>1. /\ Front(n) \in Seq(Parts) /\ Len(Front(n)) = Len(n) - 1
          /\ \A i \in 1..(Len(n) - 1) : Front(n)[i] = n[i]
      BY <1>2, <2>3, FrontByParts
    <3>2. Len(n) - 1 = 1
      BY <1>7, <2>3, <3>1
    <3>3. Len(n) = 2
      BY <1>2, <3>2
    <3> QED BY <2>3, <3>1, <3>3
  <2> QED BY <1>2, <1>3, <1>4, <1>7, <2>4 DEF HostStep
<1>8. CASE m[1] = "protocol" /\ Len(m) = 2
  <2>1. Place(m) = "protocol"
    BY <1>2, <1>8 DEF PlaceByParts
  <2>2. n[1] = "protocol"
    BY <1>1, <2>1 DEF PlaceMay, ProtocolMay
  <2>3. FALSE
    BY <1>1, <1>8, <2>2
  <2> QED BY <2>3
<1>9. CASE m[1] \in {"srv", "app"} /\ Len(m) = 2
  <2>1. Place(m) \in {"shell-srv", "shell-app"}
    BY <1>2, <1>9 DEF PlaceByParts
  <2>2. ShellMay(m, n)
    BY <1>1, <2>1 DEF PlaceMay
  <2>3. CASE InnerName(n)
    BY <1>9, <2>3 DEF HostStep
  <2>4. CASE HostName(n)
    <3>1. n[1] # "kernel" /\ (m[1] = "app" => n[1] = "app")
      BY <1>5, <2>2, <2>4 DEF ShellMay
    <3>2. Len(n) = 1 /\ m[1] # n[1]
      BY <1>1, <1>5, <1>9, <2>4, <3>1
    <3> QED BY <1>5, <1>9, <2>4, <3>1, <3>2 DEF HostStep
  <2> QED BY <1>2, <2>3, <2>4
<1> QED BY <1>3, <1>6, <1>7, <1>8, <1>9

(* A leaf of a role names packages, of its own context those OwnStep says. *)
LEMMA OwnImports ==
    ASSUME NEW m \in Seq(Parts), InnerName(m), Leaf(m),
           NEW n \in Seq(Parts), InnerName(n), PackageName(n),
           n[1] = m[1], OwnContextMay(m, n),
           ~(Len(n) <= Len(m) /\ \A i \in 1..Len(n) : m[i] = n[i]),
           m[2] = "application" /\ Len(m) = 4 => m[3] \notin {"ports", "client"}
    PROVE  Len(n) > 1 /\ OwnStep(m, n)
<1>1. /\ Len(n) >= 2
      /\ OfPackage(n, "domain", {"kernel"}) => m[2] = "domain"
      /\ OfPackage(n, "application", {"client"}) => m[2] = "adapters" /\ Len(m) = 4 /\ m[3] \in RuntimeKinds
      /\ OfPackage(n, "application", {"orchestrators"}) => m[2] = "adapters" /\ Len(m) = 4 /\ m[3] \in RunnerKinds
      /\ IF m[2] = "adapters" /\ Len(m) = 4 THEN KindStep(m[3], n)
         ELSE n[2] = m[2] \/ RoleStep(m[2], n)
  <2>1. Len(n) >= 1
    BY DEF InnerName
  <2> QED BY <2>1, OwnContextByParts
<1>2. Len(n) = 2 \/ (Len(n) = 3 /\ n[3] \in Below(n[2]))
  BY <1>1 DEF PackageName, InnerName
<1>3. (Len(m) = 3 \/ Len(m) = 4) /\ m[2] \in Roles
  BY DEF Leaf, InnerName
<1>4. Len(n) = 2 => n[2] # m[2]
  BY <1>3
<1>5. Len(n) = 3 => ~(n[2] = m[2] /\ n[3] = m[3])
  BY <1>3
<1>6. /\ Below("domain") = {"kernel"} /\ Below("application") = ApplicationPackages
      /\ Below("adapters") = KindPackages /\ Below("client") = {} /\ Below("component") = {}
  BY DEF Below
<1>7. \A role, packages : Len(n) = 3 /\ n[2] = role /\ n[3] \in packages => OfPackage(n, role, packages)
  BY DEF OfPackage
<1>8. \A x \in ApplicationPackages : x \in Lower \/ x = "client" \/ x = "orchestrators"
  BY DEF ApplicationPackages, Lower
<1>9. ASSUME m[2] # "adapters", Len(n) = 3, n[2] = "application"
      PROVE  OfPackage(n, "application", Lower)
  <2>1. n[3] \in ApplicationPackages
    BY <1>2, <1>6, <1>9
  <2>2. n[3] \notin {"client", "orchestrators"}
    BY <1>1, <1>7, <1>9
  <2> QED BY <1>7, <1>8, <1>9, <2>1, <2>2
<1>10. CASE m[2] = "domain"
  <2>1. n[2] = "domain"
    BY <1>1, <1>10 DEF RoleStep
  <2>2. Len(n) = 3
    BY <1>2, <1>4, <1>10, <2>1
  <2>3. n[3] = "kernel"
    BY <1>2, <1>6, <2>1, <2>2
  <2>4. Len(m) = 3
    <3>1. Len(m) = 4 => m[3] = "kernel"
      BY <1>6, <1>10 DEF InnerName
    <3> QED BY <1>3, <1>5, <1>10, <2>1, <2>2, <2>3, <3>1
  <2> QED BY <1>1, <1>7, <1>10, <2>1, <2>2, <2>3, <2>4 DEF OwnStep
<1>11. CASE m[2] = "client"
  <2>1. n[2] = "client"
    BY <1>1, <1>11 DEF RoleStep
  <2> QED BY <1>2, <1>4, <1>6, <1>11, <2>1
<1>12. CASE m[2] = "application"
  <2>1. n[2] \in {"application", "domain", "client"}
    BY <1>1, <1>12 DEF RoleStep
  <2>2. CASE n[2] = "application"
    <3>1. Len(n) = 3
      BY <1>2, <1>4, <1>12, <2>2
    <3>2. OfPackage(n, "application", Lower)
      BY <1>9, <1>12, <2>2, <3>1
    <3> QED BY <1>1, <1>5, <1>12, <2>2, <3>1, <3>2 DEF OwnStep
  <2>3. CASE n[2] \in {"domain", "client"}
    <3>1. Len(n) = 2
      BY <1>1, <1>2, <1>6, <1>7, <1>12, <2>3
    <3> QED BY <1>1, <1>12, <2>3, <3>1 DEF OwnStep
  <2> QED BY <2>1, <2>2, <2>3
<1>13. CASE m[2] = "adapters" /\ Len(m) = 3
  <2>1. n[2] = "adapters" \/ OfPackage(n, "application", {"ports"})
    BY <1>1, <1>13 DEF RoleStep
  <2>2. n[2] = "adapters" => OfPackage(n, "adapters", KindPackages)
    BY <1>2, <1>4, <1>6, <1>7, <1>13
  <2> QED BY <1>1, <1>13, <2>1, <2>2 DEF OwnStep
<1>14. CASE m[2] = "adapters" /\ Len(m) = 4
  <2>1. KindStep(m[3], n)
    BY <1>1, <1>14
  <2>2. n[2] = "adapters" => n[3] # m[3]
    BY <1>2, <1>4, <1>5, <1>14
  <2> QED BY <1>1, <1>14, <2>1, <2>2 DEF OwnStep
<1>15. CASE m[2] = "component"
  <2>1. n[2] \in {"application", "adapters", "client"}
    <3>1. n[2] # "component"
      BY <1>2, <1>4, <1>6, <1>15
    <3> QED BY <1>1, <1>15, <3>1 DEF RoleStep
  <2>2. Len(n) = 2 \/ OfPackage(n, "application", Lower) \/ OfPackage(n, "adapters", KindPackages)
    BY <1>2, <1>6, <1>7, <1>9, <1>15, <2>1
  <2> QED BY <1>1, <1>15, <2>1, <2>2 DEF OwnStep
<1> QED BY <1>3, <1>10, <1>11, <1>12, <1>13, <1>14, <1>15 DEF Roles

LEMMA InnerImports ==
    ASSUME SpeaksOwn,
           NEW m \in Modules, Production(m), InnerName(m), NEW n \in Imports[m], Production(n)
    PROVE  InnerStep(m, n)
<1>1. /\ n \in Modules /\ PlaceMay(m, n)
      /\ InnerName(n) /\ Len(n) > 1 /\ PackageName(n) =>
           ~(Len(n) <= Len(m) /\ \A i \in 1..Len(n) : m[i] = n[i])
      /\ InnerName(n) /\ ~PackageName(n) => Len(m) = Len(n) - 1 /\ \A i \in 1..Len(m) : m[i] = n[i]
  BY ImportsByParts
<1>2. m \in Seq(Parts) /\ n \in Seq(Parts) /\ (HostName(n) \/ InnerName(n))
  BY <1>1, ProductionByParts
<1>3. /\ Len(m) > 1
      /\ PackageName(m) => InitMay(m, n)
      /\ ~PackageName(m) => Leaf(m)
      /\ ~PackageName(m) =>
           IF m[2] = "application" /\ Len(m) = 4 /\ m[3] = "ports" THEN FALSE
           ELSE IF m[2] = "application" /\ Len(m) = 4 /\ m[3] = "client" THEN AppClientMay(m, n)
           ELSE RoleMay(m, n)
      /\ Place(m) \in {"context-kernel", "context-kernel-init"} =>
           m[2] = "domain" /\ Len(m) >= 3 /\ m[3] = "kernel"
  BY <1>1, PlaceAsks
<1>4. /\ m[1] \in Contexts
      /\ HostName(n) => ~InContext(n) /\ n[1] \in {"srv", "app", "protocol", "kernel"}
      /\ InnerName(n) => InContext(n)
  BY BelowIsNotPlain DEF InnerName, HostName, InContext
<1>5. Place(m) \in {"context-kernel", "context-kernel-init"} => OfPackage(m, "domain", {"kernel"})
  BY <1>3 DEF OfPackage
<1>6. CASE PackageName(m)
  <2>1. CASE Len(n) > 1 /\ Front(n) = m
    <3>1. Len(m) = Len(n) - 1 /\ \A i \in 1..(Len(n) - 1) : m[i] = n[i]
      BY <1>2, <2>1, FrontByParts
    <3>2. Len(n) = Len(m) + 1 /\ \A i \in 1..Len(m) : m[i] = n[i]
      BY <1>2, <3>1
    <3>3. InnerName(n)
      BY <1>2, <1>3, <1>4, <3>2 DEF InContext
    <3> QED BY <1>3, <1>6, <3>2, <3>3 DEF InnerStep, ListStep
  <2>2. CASE Place(m) = "context-kernel-init" /\ n = <<"kernel">>
    BY <1>5, <2>2 DEF InnerStep, HostName
  <2> QED BY <1>3, <1>6, <2>1, <2>2 DEF InitMay
<1>7. CASE ~PackageName(m)
  <2>1. Leaf(m) /\ Len(m) \in 3..4
    BY <1>3, <1>7 DEF Leaf
  <2>2. InnerName(n) => PackageName(n)
    <3> SUFFICES ASSUME InnerName(n), ~PackageName(n) PROVE FALSE
      OBVIOUS
    <3>1. Len(m) = Len(n) - 1 /\ \A i \in 1..Len(m) : m[i] = n[i]
      BY <1>1
    <3>2. Len(n) \in {3, 4} /\ (Len(n) = 4 => n[3] \in Below(n[2]))
      BY DEF InnerName, PackageName
    <3>3. Len(m) = 3 /\ Len(n) = 4
      BY <2>1, <3>1, <3>2
    <3>4. m[3] \in Below(m[2])
      BY <3>1, <3>2, <3>3
    <3> QED BY <1>4, <1>7, <3>3, <3>4 DEF PackageName
  <2>3. InnerName(n) /\ Len(n) > 1 => ~(Len(n) <= Len(m) /\ \A i \in 1..Len(n) : m[i] = n[i])
    BY <1>1, <2>2
  <2>4. InnerName(n) /\ Len(n) >= 3 => Len(n) = 3 /\ n[3] \in Below(n[2])
    BY <2>2 DEF PackageName, InnerName
  <2>5. CASE m[2] = "application" /\ Len(m) = 4 /\ m[3] = "client"
    <3>1. AppClientMay(m, n)
      BY <1>3, <1>7, <2>5
    <3>2. InnerName(n) /\ n[1] = m[1] /\ Len(n) >= 3 /\ n[2] = "application" /\ n[3] \in {"ports", "relays"}
      BY <1>2, <1>4, <3>1 DEF AppClientMay
    <3>3. OfPackage(n, "application", Lower)
      BY <3>2 DEF OfPackage, Lower
    <3>4. OwnStep(m, n)
      BY <2>5, <3>2, <3>3 DEF OwnStep
    <3>5. Len(n) > 1
      BY <2>4, <3>2
    <3> QED BY <2>1, <2>2, <3>2, <3>4, <3>5 DEF InnerStep, LeafStep
  <2>6. CASE RoleMay(m, n) /\ (m[2] = "application" /\ Len(m) = 4 => m[3] \notin {"ports", "client"})
    <3>1. CASE HostName(n)
      <4>1. OutsideMay(m, n)
        BY <1>4, <2>6, <3>1 DEF RoleMay
      <4>2. CASE n[1] = "kernel"
        BY <1>5, <3>1, <4>1, <4>2 DEF OutsideMay, InnerStep
      <4>3. CASE n[1] # "kernel"
        <5>1. n[1] = "protocol" /\ m[2] = "adapters" /\ m[3] = "handlers"
          BY <1>4, <3>1, <4>1, <4>3 DEF OutsideMay, ShellPackages
        <5>2. Len(m) # 3
          <6> SUFFICES ASSUME Len(m) = 3 PROVE FALSE
            OBVIOUS
          <6>1. m[3] \in Plain \cup Below(m[2])
            BY DEF InnerName
          <6>2. m[3] \notin Below(m[2])
            BY <1>4, <1>7 DEF PackageName
          <6> QED BY <5>1, <6>1, <6>2 DEF Plain
        <5> QED BY <2>1, <3>1, <5>1, <5>2 DEF InnerStep, LeafStep
      <4> QED BY <4>2, <4>3
    <3>2. CASE InnerName(n) /\ n[1] = m[1]
      <4>1. OwnContextMay(m, n)
        BY <1>4, <2>6, <3>2 DEF RoleMay
      <4>2. Len(n) > 1 /\ OwnStep(m, n)
        <5>1. Len(n) = 1 => FALSE
          <6>1. Len(n) >= 1
            BY <3>2 DEF InnerName
          <6>2. Len(n) >= 2
            BY <1>2, <2>1, <4>1, <6>1, OwnContextByParts
          <6> QED BY <6>2
        <5>2. Len(n) > 1
          BY <3>2, <5>1 DEF InnerName
        <5> QED BY <1>2, <2>1, <2>2, <2>3, <2>6, <3>2, <4>1, <5>2, OwnImports
      <4> QED BY <2>1, <2>2, <3>2, <4>2 DEF InnerStep, LeafStep
    <3>3. CASE InnerName(n) /\ n[1] # m[1]
      <4>1. OtherContextMay(m, n)
        BY <1>4, <2>6, <3>3 DEF RoleMay
      <4>2. Len(n) = 2 /\ n[2] = "client"
        <5>1. Len(n) >= 2 /\ n[2] = "client"
          BY <4>1 DEF OtherContextMay
        <5>2. Below(n[2]) = {}
          BY <5>1 DEF Below
        <5>3. Len(n) < 3
          BY <1>2, <2>4, <3>3, <5>2
        <5>4. Len(n) \in Nat /\ \A k \in Nat : k >= 2 /\ k < 3 => k = 2
          BY <1>2
        <5> QED BY <5>1, <5>3, <5>4
      <4>3. ReachesOut(m)
        <5>1. m[2] = "component" \/ (m[2] = "adapters" /\ KindPackage(m) \in {"gateways", "none"})
          BY <4>1 DEF OtherContextMay, MayHoldGateway
        <5>2. CASE m[2] = "adapters" /\ Len(m) = 4
          <6>1. KindPackage(m) = m[3]
            BY <5>2 DEF KindPackage
          <6>2. m[3] \in KindPackages /\ "none" \notin KindPackages
            BY <5>2 DEF InnerName, Below, KindPackages
          <6> QED BY <5>1, <5>2, <6>1, <6>2 DEF ReachesOut
        <5> QED BY <2>1, <5>1, <5>2 DEF ReachesOut
      <4> QED BY <2>1, <3>3, <4>2, <4>3 DEF InnerStep, LeafStep
    <3> QED BY <1>2, <3>1, <3>2, <3>3
  <2> QED BY <1>3, <1>7, <2>5, <2>6
<1> QED BY <1>6, <1>7

-------------------------------------------------------------------------------
(* What a walk from a context keeps to.                                    *)

(* The names that are of no context a walk from one comes to.              *)
Outside(n) == HostName(n) /\ n[1] \in {"kernel", "protocol"}

(* Those of a context that may reach another, ...                          *)
Out(m) ==
    /\ InnerName(m) /\ Len(m) # 1
    /\ \/ m[2] = "component"
       \/ m[2] = "adapters" /\ (Len(m) = 2 \/ m[3] \in {"gateways"} \cup Plain)

(* ... that may reach an action, and an orchestrator: by what of the       *)
(* application they are, and by their kind.                                *)
Uses(m, package, kinds) ==
    /\ InnerName(m) /\ Len(m) # 1
    /\ \/ m[2] = "component"
       \/ m[2] = "application" /\ (Len(m) = 2 \/ m[3] = package)
       \/ m[2] = "adapters" /\ (Len(m) = 2 \/ m[3] \in kinds \cup Plain)

EngineKinds == {"runtimes", "activities", "workflows", "dispatchers"}
InvocationKinds == {"runners", "workflows", "dispatchers"}

Under(m, role, package) == InnerName(m) /\ OfPackage(m, role, {package})

(* A package's list names the names one part longer.                       *)
LEMMA ListByParts ==
    ASSUME NEW m \in Seq(Parts), NEW n \in Seq(Parts), ListStep(m, n)
    PROVE  /\ m[1] \in Contexts /\ n[1] = m[1] /\ n[2] = m[2] /\ m[2] \in Roles
           /\ \/ Len(m) = 2 /\ Len(n) = 3 /\ n[3] \in Plain \cup Below(m[2])
              \/ Len(m) = 3 /\ Len(n) = 4 /\ n[3] = m[3] /\ m[3] \in Below(m[2])
<1>1. /\ InnerName(n) /\ Len(n) = Len(m) + 1 /\ \A i \in 1..Len(m) : m[i] = n[i]
      /\ PackageName(m) /\ Len(m) > 1
  BY DEF ListStep
<1>2. m[1] \in Contexts /\ ((Len(m) = 3 /\ m[3] \in Below(m[2])) \/ Len(m) = 2)
  <2>1. Len(m) # 1
    BY <1>1
  <2> QED BY <1>1, <2>1 DEF PackageName
<1>3. n[1] = m[1] /\ n[2] = m[2] /\ (Len(m) = 3 => n[3] = m[3])
  BY <1>1, <1>2
<1>4. Len(m) = 2 => Len(n) = 3
  BY <1>1
<1>5. Len(m) = 3 => Len(n) = 4
  BY <1>1
<1> QED BY <1>1, <1>2, <1>3, <1>4, <1>5 DEF InnerName

(* What a module of a context leads to inside the contexts.                *)
InsideStep(m, n) ==
    \/ /\ n[1] = m[1] /\ n[2] = m[2] /\ m[2] \in Roles
       /\ \/ Len(m) = 2 /\ Len(n) = 3 /\ n[3] \in Plain \cup Below(m[2])
          \/ Len(m) = 3 /\ Len(n) = 4 /\ n[3] = m[3] /\ m[3] \in Below(m[2])
    \/ /\ (Len(m) = 3 /\ m[3] \in Plain) \/ (Len(m) = 4 /\ m[3] \in Below(m[2]))
       /\ \/ n[1] # m[1] /\ Len(n) = 2 /\ n[2] = "client" /\ ReachesOut(m)
          \/ /\ n[1] = m[1] /\ OwnStep(m, n)
             /\ Len(n) = 2 \/ (Len(n) = 3 /\ n[3] \in Below(n[2]))

LEMMA InnerByParts ==
    ASSUME NEW m \in Seq(Parts), InnerName(m),
           NEW n \in Seq(Parts), HostName(n) \/ InnerName(n), InnerStep(m, n)
    PROVE  \/ Outside(n) /\ (n[1] = "protocol" => m[2] = "adapters")
           \/ InnerName(n) /\ Len(n) # 1 /\ Len(m) # 1 /\ InsideStep(m, n)
<1>1. CASE OfPackage(m, "domain", {"kernel"}) /\ HostName(n) /\ n[1] = "kernel"
  BY <1>1 DEF Outside
<1>2. CASE ListStep(m, n)
  <2>1. /\ m[1] \in Contexts /\ n[1] = m[1] /\ n[2] = m[2] /\ m[2] \in Roles
        /\ \/ Len(m) = 2 /\ Len(n) = 3 /\ n[3] \in Plain \cup Below(m[2])
           \/ Len(m) = 3 /\ Len(n) = 4 /\ n[3] = m[3] /\ m[3] \in Below(m[2])
    BY <1>2, ListByParts
  <2>2. InnerName(n)
    BY <1>2 DEF ListStep
  <2>3. Len(n) # 1 /\ Len(m) # 1
    BY <2>1
  <2> QED BY <2>1, <2>2, <2>3 DEF InsideStep
<1>3. CASE LeafStep(m, n)
  <2>1. Len(m) # 1 /\ ((Len(m) = 3 /\ m[3] \in Plain) \/ (Len(m) = 4 /\ m[3] \in Below(m[2])))
    <3>1. Len(m) \in 3..4 /\ ~PackageName(m)
      BY <1>3 DEF LeafStep, Leaf
    <3>2. Len(m) = 3 \/ Len(m) = 4
      BY <3>1
    <3> QED BY <3>1, <3>2 DEF InnerName, PackageName
  <2>2. CASE HostName(n) /\ n[1] = "protocol" /\ m[2] = "adapters"
    BY <2>2 DEF Outside
  <2>3. CASE InnerName(n) /\ n[1] # m[1] /\ Len(n) = 2 /\ n[2] = "client" /\ ReachesOut(m)
    BY <2>1, <2>3 DEF InsideStep
  <2>4. CASE InnerName(n) /\ PackageName(n) /\ Len(n) > 1 /\ n[1] = m[1] /\ OwnStep(m, n)
    <3>1. Len(n) # 1
      <4>1. ~(1 > 1)
        OBVIOUS
      <4> QED BY <2>4, <4>1, Zenon
    <3>2. Len(n) = 2 \/ (Len(n) = 3 /\ n[3] \in Below(n[2]))
      BY <2>4, <3>1 DEF PackageName
    <3> QED BY <2>1, <2>4, <3>1, <3>2 DEF InsideStep
  <2> QED BY <1>3, <2>2, <2>3, <2>4 DEF LeafStep
<1> QED BY <1>1, <1>2, <1>3 DEF InnerStep

(* What the entries of a kind come to among packages.                      *)
LEMMA KindsByParts ==
    ASSUME NEW m, Len(m) = 4, m[2] = "adapters", m[3] \in Below(m[2]), NEW n, OwnStep(m, n)
    PROVE  /\ m[3] \in KindPackages
           /\ \/ m[3] = "handlers" /\ n[2] = "client"
              \/ m[3] \in {"gateways", "repositories"} /\ n[2] = "application" /\ n[3] = "ports"
              \/ m[3] = "runners" /\ n[2] = "application" /\ n[3] \in {"relays", "orchestrators"}
              \/ m[3] \in RuntimeKinds /\ n[2] = "application" /\ n[3] \in {"relays", "client"}
              \/ m[3] = "workflows" /\ n[2] = "application" /\ n[3] \in {"relays", "orchestrators"}
              \/ m[3] = "workflows" /\ n[2] = "adapters" /\ n[3] = "activities"
              \/ m[3] = "dispatchers" /\ n[2] = "application" /\ n[3] = "relays"
              \/ m[3] = "dispatchers" /\ n[2] = "adapters" /\ n[3] = "workflows"
           /\ n[2] # "client" => Len(n) >= 3
<1>1. m[3] \in KindPackages
  BY DEF Below
<1>2. KindStep(m[3], n) /\ (n[2] = "adapters" => n[3] # m[3])
  BY DEF OwnStep
<1> QED BY <1>1, <1>2 DEF KindStep, OfPackage

(* No walk into another context but from what is Out; and it begins at a   *)
(* client.                                                                 *)
LEMMA KeepsIn ==
    ASSUME NEW m \in Seq(Parts), InnerName(m),
           NEW n \in Seq(Parts), InnerName(n), Len(n) # 1, Len(m) # 1,
           InsideStep(m, n), ~Out(m)
    PROVE  n[1] = m[1] /\ ~Out(n)
<1>1. m[2] # "component" /\ (m[2] = "adapters" => Len(m) # 2 /\ m[3] \notin {"gateways"} \cup Plain)
  BY DEF Out
<1>2. CASE n[1] = m[1] /\ n[2] = m[2]
  <2>1. CASE m[2] = "adapters" /\ Len(m) = 3 /\ Len(n) = 4 /\ n[3] = m[3]
    BY <1>1, <1>2, <2>1 DEF Out
  <2>2. CASE m[2] # "adapters"
    BY <1>1, <1>2, <2>2 DEF Out
  <2>3. CASE m[2] = "adapters" /\ Len(m) = 4 /\ OwnStep(m, n) /\ m[3] \in Below(m[2])
    BY <1>2, <2>3, KindsByParts DEF Out, Plain
  <2>4. m[2] = "adapters" /\ Len(m) = 3 => m[3] \notin Plain
    BY <1>1
  <2> QED BY <1>1, <1>2, <2>1, <2>2, <2>3, <2>4 DEF InsideStep
<1>3. CASE /\ (Len(m) = 3 /\ m[3] \in Plain) \/ (Len(m) = 4 /\ m[3] \in Below(m[2]))
           /\ n[1] # m[1] /\ ReachesOut(m)
  <2>1. m[2] = "adapters" /\ (Len(m) = 3 \/ m[3] = "gateways")
    BY <1>1, <1>3 DEF ReachesOut
  <2>2. m[3] # "gateways" /\ m[3] \notin Plain
    BY <1>1, <2>1
  <2>3. Len(m) = 3
    BY <2>1, <2>2
  <2>4. Len(m) = 4
    BY <1>3, <2>2
  <2>5. 3 # 4
    OBVIOUS
  <2> QED BY <2>3, <2>4, <2>5
<1>4. CASE /\ (Len(m) = 3 /\ m[3] \in Plain) \/ (Len(m) = 4 /\ m[3] \in Below(m[2]))
           /\ n[1] = m[1] /\ n[2] # m[2] /\ OwnStep(m, n)
  <2>1. CASE m[2] \in {"domain", "application"}
    <3>1. n[2] \in {"domain", "client", "application"}
      BY <1>4, <2>1 DEF OwnStep, OfPackage
    <3> QED BY <1>4, <3>1 DEF Out
  <2>2. CASE m[2] = "adapters" /\ Len(m) = 4
    <3>1. n[2] \in {"client", "application"}
      BY <1>4, <2>2, KindsByParts
    <3> QED BY <1>4, <3>1 DEF Out
  <2>3. m[2] \in {"domain", "application", "adapters", "component"}
    BY <1>4 DEF OwnStep
  <2> QED BY <1>1, <1>4, <2>1, <2>2, <2>3
<1> QED BY <1>2, <1>3, <1>4 DEF InsideStep

LEMMA KeepsToClients ==
    ASSUME NEW m \in Seq(Parts), InnerName(m),
           NEW n \in Seq(Parts), InnerName(n), Len(n) # 1, Len(m) # 1,
           InsideStep(m, n), m[2] \in {"domain", "client"}
    PROVE  n[1] = m[1] /\ n[2] = m[2]
BY DEF InsideStep, OwnStep, ReachesOut, OfPackage

LEMMA LeavesForClients ==
    ASSUME NEW m \in Seq(Parts), InnerName(m),
           NEW n \in Seq(Parts), InnerName(n), Len(n) # 1, Len(m) # 1,
           InsideStep(m, n), n[1] # m[1]
    PROVE  n[2] = "client"
BY DEF InsideStep

LEMMA KeepsFromUse ==
    ASSUME NEW m \in Seq(Parts), InnerName(m),
           NEW n \in Seq(Parts), InnerName(n), Len(n) # 1, Len(m) # 1,
           InsideStep(m, n),
           NEW package, NEW kinds,
           \/ package = "client" /\ kinds = EngineKinds
           \/ package = "orchestrators" /\ kinds = InvocationKinds,
           ~Uses(m, package, kinds)
    PROVE  ~Uses(n, package, kinds)
<1>1. /\ m[2] # "component"
      /\ m[2] = "application" => Len(m) # 2 /\ m[3] # package
      /\ m[2] = "adapters" => Len(m) # 2 /\ m[3] \notin kinds \cup Plain
  BY DEF Uses
<1>2. CASE n[2] \in {"client", "domain"}
  BY <1>2 DEF Uses
<1>3. CASE n[2] = m[2] /\ Len(m) = 3 /\ Len(n) = 4 /\ n[3] = m[3]
  BY <1>1, <1>3 DEF Uses
<1>4. CASE /\ (Len(m) = 3 /\ m[3] \in Plain) \/ (Len(m) = 4 /\ m[3] \in Below(m[2]))
           /\ n[1] = m[1] /\ OwnStep(m, n) /\ n[2] \notin {"client", "domain"}
  <2>1. CASE m[2] = "application"
    <3>1. OfPackage(n, "application", Lower)
      BY <1>4, <2>1 DEF OwnStep
    <3>2. n[2] = "application" /\ n[3] \in {"ports", "relays", "snapshots"} /\ Len(n) # 2
      BY <3>1 DEF OfPackage, Lower
    <3> QED BY <3>2 DEF Uses
  <2>2. CASE m[2] = "adapters"
    <3>1. Len(m) = 4
      BY <1>1, <1>4, <2>2
    <3>2. /\ m[3] \in KindPackages
          /\ \/ m[3] \in {"gateways", "repositories"} /\ n[2] = "application" /\ n[3] = "ports"
             \/ m[3] = "runners" /\ n[2] = "application" /\ n[3] \in {"relays", "orchestrators"}
             \/ m[3] \in RuntimeKinds /\ n[2] = "application" /\ n[3] \in {"relays", "client"}
             \/ m[3] = "workflows" /\ n[2] = "application" /\ n[3] \in {"relays", "orchestrators"}
             \/ m[3] = "workflows" /\ n[2] = "adapters" /\ n[3] = "activities"
             \/ m[3] = "dispatchers" /\ n[2] = "application" /\ n[3] = "relays"
             \/ m[3] = "dispatchers" /\ n[2] = "adapters" /\ n[3] = "workflows"
          /\ Len(n) >= 3
      BY <1>4, <2>2, <3>1, KindsByParts
    <3>3. Len(n) # 2
      BY <3>2
    <3>4. m[3] \notin {"workflows", "dispatchers"}
      BY <1>1, <2>2 DEF EngineKinds, InvocationKinds
    <3>5. n[2] = "application" /\ n[3] # package
      BY <1>1, <2>2, <3>2, <3>4 DEF EngineKinds, InvocationKinds, RuntimeKinds
    <3> QED BY <3>3, <3>5 DEF Uses
  <2>3. m[2] \in {"domain", "application", "adapters", "component"}
    BY <1>4 DEF OwnStep
  <2>4. m[2] # "domain"
    BY <1>4 DEF OwnStep, OfPackage
  <2> QED BY <1>1, <2>1, <2>2, <2>3, <2>4
<1>5. CASE n[2] = m[2] /\ Len(m) = 2 /\ m[2] \in Roles
  <2>1. m[2] \in {"client", "domain"}
    BY <1>1, <1>5 DEF Roles
  <2> QED BY <1>2, <1>5, <2>1
<1> QED BY <1>2, <1>3, <1>4, <1>5 DEF InsideStep

(* What a kind of adapters keeps to in its own context.                    *)
LEMMA KeepsToTheKind ==
    ASSUME NEW m \in Seq(Parts), InnerName(m),
           NEW n \in Seq(Parts), InnerName(n), Len(n) # 1, Len(m) # 1,
           InsideStep(m, n), NEW kind \in {"handlers", "gateways", "repositories"},
           Under(m, "adapters", kind) \/ (kind = "handlers" /\ m[2] = "client")
             \/ (kind # "handlers" /\ Under(m, "application", "ports")),
           n[1] = m[1]
    PROVE  Under(n, "adapters", kind) \/ (kind = "handlers" /\ n[2] = "client")
             \/ (kind # "handlers" /\ Under(n, "application", "ports"))
<1>1. CASE kind = "handlers" /\ m[2] = "client"
  BY <1>1, KeepsToClients
<1>2. CASE kind # "handlers" /\ Under(m, "application", "ports")
  <2>1. m[2] = "application" /\ m[3] = "ports" /\ Len(m) # 2
    BY <1>2 DEF Under, OfPackage
  <2>2. Len(m) = 4 => ~OwnStep(m, n)
    BY <2>1 DEF OwnStep
  <2>3. m[3] \notin Plain
    BY <2>1 DEF Plain
  <2>4. n[2] = m[2] /\ Len(n) = 4 /\ n[3] = m[3]
    BY <2>1, <2>2, <2>3 DEF InsideStep
  <2> QED BY <1>2, <2>1, <2>4 DEF Under, OfPackage
<1>3. CASE Under(m, "adapters", kind)
  <2>1. m[2] = "adapters" /\ m[3] = kind /\ Len(m) # 2
    BY <1>3 DEF Under, OfPackage
  <2>2. m[3] \notin Plain
    BY <2>1 DEF Plain
  <2>3. CASE n[2] = m[2] /\ Len(n) = 4 /\ n[3] = m[3]
    BY <2>1, <2>3 DEF Under, OfPackage
  <2>4. CASE Len(m) = 4 /\ m[3] \in Below(m[2]) /\ OwnStep(m, n)
    <3>1. /\ \/ m[3] = "handlers" /\ n[2] = "client"
             \/ m[3] \in {"gateways", "repositories"} /\ n[2] = "application" /\ n[3] = "ports"
          /\ n[2] # "client" => Len(n) >= 3
      BY <2>1, <2>4, KindsByParts DEF RuntimeKinds
    <3> QED BY <2>1, <3>1 DEF Under, OfPackage
  <2> QED BY <2>1, <2>2, <2>3, <2>4 DEF InsideStep
<1> QED BY <1>1, <1>2, <1>3

-------------------------------------------------------------------------------
(* The rank of what ships.                                                 *)

(* What no import of what ships raises, and each lowers but those of the   *)
(* root kernel and of relays and snapshots: a package is one above its     *)
(* modules, and they above what they may name.                             *)
Up(m) == IF PackageName(m) THEN 1 ELSE 0

KindRank(kind) == IF kind = "workflows" THEN 11 ELSE IF kind = "dispatchers" THEN 13 ELSE 9

InnerRank(m) ==
    IF Len(m) = 1 THEN 0
    ELSE IF m[2] = "client" THEN 1 + Up(m)
    ELSE IF m[2] = "domain" THEN IF Len(m) # 2 /\ m[3] = "kernel" THEN 1 + Up(m) ELSE 3 + Up(m)
    ELSE IF m[2] = "application"
      THEN IF Len(m) = 2 THEN 8
           ELSE IF m[3] = "ports" THEN 1 + Up(m)
           ELSE IF m[3] \in {"relays", "snapshots"} THEN 5
           ELSE 6 + Up(m)
    ELSE IF m[2] = "adapters"
      THEN IF Len(m) = 2 THEN 16
           ELSE IF m[3] \in KindPackages THEN KindRank(m[3]) + Up(m)
           ELSE 15
    ELSE 21 + Up(m)

Rank(m) ==
    IF m[1] = "kernel" THEN 0
    ELSE IF m[1] = "protocol" THEN 1 + Up(m)
    ELSE IF m[1] = "app" THEN 23 + Up(m)
    ELSE IF m[1] = "srv" THEN 25 + Up(m)
    ELSE InnerRank(m)

Circles(m) ==
    \/ m[1] = "kernel"
    \/ InnerName(m) /\ Len(m) \in {3, 4} /\ m[2] = "application" /\ m[3] \in {"relays", "snapshots"}

LEMMA RankBounds ==
    ASSUME NEW m
    PROVE  /\ Up(m) \in 0..1 /\ InnerRank(m) \in 0..22 /\ Rank(m) \in 0..26
           /\ KindRank(m[3]) \in {9, 11, 13}
<1>1. Up(m) \in {0, 1} /\ KindRank(m[3]) \in {9, 11, 13}
  BY DEF Up, KindRank
<1>2. InnerRank(m) \in 0..22
  BY <1>1 DEF InnerRank
<1> QED BY <1>1, <1>2 DEF Rank

(* The rank of a package, by its parts.                                    *)
LEMMA PackageRanks ==
    ASSUME NEW n, Len(n) = 2 \/ (Len(n) = 3 /\ n[3] \in Below(n[2])), n[1] \in Contexts
    PROVE  /\ n[2] = "client" => InnerRank(n) = 2
           /\ n[2] = "domain" /\ Len(n) = 2 => InnerRank(n) = 4
           /\ n[2] = "domain" /\ Len(n) = 3 => InnerRank(n) = 2
           /\ n[2] = "application" /\ Len(n) = 2 => InnerRank(n) = 8
           /\ n[2] = "application" /\ Len(n) = 3 =>
                InnerRank(n) = IF n[3] = "ports" THEN 2 ELSE IF n[3] \in {"relays", "snapshots"} THEN 5 ELSE 7
           /\ n[2] = "adapters" /\ Len(n) = 2 => InnerRank(n) = 16
           /\ n[2] = "adapters" /\ Len(n) = 3 =>
                InnerRank(n) = IF n[3] = "workflows" THEN 12 ELSE IF n[3] = "dispatchers" THEN 14 ELSE 10
           /\ n[2] = "component" => InnerRank(n) = 22
<1>1. Up(n) = 1
  BY DEF Up, PackageName
<1>2. Len(n) # 1 /\ (Len(n) = 3 => Len(n) # 2)
  OBVIOUS
<1>3. n[2] = "adapters" /\ Len(n) = 3 => n[3] \in KindPackages
  BY DEF Below
<1>4. n[2] = "domain" /\ Len(n) = 3 => n[3] = "kernel"
  BY DEF Below
<1> QED BY <1>1, <1>2, <1>3, <1>4 DEF InnerRank, KindRank

(* And of a leaf.                                                          *)
LEMMA LeafRanks ==
    ASSUME NEW m, InnerName(m), (Len(m) = 3 /\ m[3] \in Plain) \/ (Len(m) = 4 /\ m[3] \in Below(m[2]))
    PROVE  /\ m[2] = "client" => InnerRank(m) = 1
           /\ m[2] = "domain" => InnerRank(m) = IF m[3] = "kernel" THEN 1 ELSE 3
           /\ m[2] = "application" =>
                InnerRank(m) = IF m[3] = "ports" THEN 1 ELSE IF m[3] \in {"relays", "snapshots"} THEN 5 ELSE 6
           /\ m[2] = "adapters" =>
                InnerRank(m) = IF m[3] \in KindPackages THEN KindRank(m[3]) ELSE 15
           /\ m[2] = "component" => InnerRank(m) = 21
<1>1. ~PackageName(m)
  <2>1. m[3] \in Plain => m[3] \notin Below(m[2])
    BY BelowIsNotPlain DEF Plain
  <2> QED BY <2>1 DEF PackageName
<1>2. Up(m) = 0
  BY <1>1 DEF Up
<1>3. Len(m) # 1 /\ Len(m) # 2
  OBVIOUS
<1>4. KindRank(m[3]) + 0 = KindRank(m[3])
  BY DEF KindRank
<1> QED BY <1>2, <1>3, <1>4 DEF InnerRank

LEMMA RanksFall ==
    ASSUME NEW m \in Seq(Parts), InnerName(m),
           NEW n \in Seq(Parts), InnerName(n), Len(n) # 1, Len(m) # 1,
           InsideStep(m, n)
    PROVE  InnerRank(n) < InnerRank(m) \/ (Circles(m) /\ InnerRank(n) <= InnerRank(m))
<1>1. m[1] \in Contexts /\ n[1] \in Contexts /\ m[2] \in Roles
  BY DEF InnerName
<1>2. CASE n[1] = m[1] /\ n[2] = m[2] /\ Len(m) = 2 /\ Len(n) = 3 /\ n[3] \in Plain \cup Below(m[2])
  <2>1. CASE n[3] \in Plain
    <3>1. n[3] \notin {"kernel", "ports", "relays", "snapshots"} /\ n[3] \notin KindPackages
      BY <2>1 DEF Plain, KindPackages
    <3> QED BY <1>1, <1>2, <2>1, <3>1, PackageRanks, LeafRanks DEF Roles
  <2>2. CASE n[3] \in Below(m[2])
    <3>1. m[2] \in {"domain", "application", "adapters"}
      BY <2>2 DEF Below
    <3> QED BY <1>1, <1>2, <2>2, <3>1, PackageRanks
  <2> QED BY <1>2, <2>1, <2>2
<1>3. CASE n[1] = m[1] /\ n[2] = m[2] /\ Len(m) = 3 /\ Len(n) = 4 /\ n[3] = m[3] /\ m[3] \in Below(m[2])
  <2>1. m[2] \in {"domain", "application", "adapters"}
    BY <1>3 DEF Below
  <2>2. CASE m[2] = "domain"
    BY <1>1, <1>3, <2>2, PackageRanks, LeafRanks DEF Below
  <2>3. CASE m[2] = "application"
    BY <1>1, <1>3, <2>3, PackageRanks, LeafRanks DEF Circles
  <2>4. CASE m[2] = "adapters"
    <3>1. m[3] \in KindPackages
      BY <1>3, <2>4 DEF Below
    <3> QED BY <1>1, <1>3, <2>4, <3>1, PackageRanks, LeafRanks DEF KindRank
  <2> QED BY <2>1, <2>2, <2>3, <2>4
<1>4. ASSUME (Len(m) = 3 /\ m[3] \in Plain) \/ (Len(m) = 4 /\ m[3] \in Below(m[2]))
      PROVE  /\ m[2] = "adapters" => InnerRank(m) >= 9
             /\ m[2] = "component" => InnerRank(m) = 21
  BY <1>1, <1>4, LeafRanks DEF KindRank
<1>5. CASE /\ (Len(m) = 3 /\ m[3] \in Plain) \/ (Len(m) = 4 /\ m[3] \in Below(m[2]))
           /\ Len(n) = 2 /\ n[2] = "client" /\ ReachesOut(m)
  <2>1. InnerRank(n) = 2
    BY <1>1, <1>5, PackageRanks
  <2>2. InnerRank(m) \in 0..22 /\ InnerRank(m) >= 9
    BY <1>4, <1>5, RankBounds DEF ReachesOut
  <2>3. \A k \in 0..22 : k >= 9 => 2 < k
    OBVIOUS
  <2>4. 2 < InnerRank(m)
    BY <2>2, <2>3, Zenon
  <2> QED BY <2>1, <2>4, Zenon
<1>6. CASE /\ (Len(m) = 3 /\ m[3] \in Plain) \/ (Len(m) = 4 /\ m[3] \in Below(m[2]))
           /\ OwnStep(m, n) /\ (Len(n) = 2 \/ (Len(n) = 3 /\ n[3] \in Below(n[2])))
  <2>1. CASE m[2] = "domain"
    <3>1. n[2] = "domain" /\ Len(n) = 3 /\ Len(m) = 3
      BY <1>6, <2>1 DEF OwnStep, OfPackage
    <3>2. InnerRank(n) = 2
      BY <1>1, <1>6, <3>1, PackageRanks
    <3>3. m[3] # "kernel"
      BY <1>6, <3>1 DEF Plain
    <3>4. InnerRank(m) = 3
      BY <1>6, <2>1, <3>3, LeafRanks
    <3> QED BY <3>2, <3>4
  <2>2. CASE m[2] = "application"
    <3>1. Len(m) = 4 => m[3] # "ports"
      BY <1>6, <2>2 DEF OwnStep
    <3>2. m[3] # "ports"
      BY <1>6, <3>1 DEF Plain
    <3>3. \/ InnerRank(m) = 6
          \/ InnerRank(m) = 5 /\ m[3] \in {"relays", "snapshots"}
      BY <1>6, <2>2, <3>2, LeafRanks
    <3>4. CASE n[2] \in {"domain", "client"} /\ Len(n) = 2
      BY <1>1, <3>3, <3>4, PackageRanks
    <3>5. CASE OfPackage(n, "application", Lower)
      <4>1. n[2] = "application" /\ Len(n) = 3 /\ n[3] \in {"ports", "relays", "snapshots"}
        BY <1>6, <3>5 DEF OfPackage, Lower
      <4>2. InnerRank(n) \in {2, 5}
        BY <1>1, <1>6, <4>1, PackageRanks
      <4>3. InnerRank(m) = 5 => Circles(m)
        BY <1>6, <2>2, <3>3 DEF Circles
      <4> QED BY <3>3, <4>2, <4>3
    <3> QED BY <1>6, <2>2, <3>4, <3>5 DEF OwnStep
  <2>3. CASE m[2] = "adapters" /\ Len(m) = 3
    <3>1. InnerRank(m) = 15
      <4>1. m[3] \notin KindPackages
        BY <1>6, <2>3 DEF Plain, KindPackages
      <4> QED BY <1>6, <2>3, <4>1, LeafRanks
    <3>2. Len(n) = 3 /\ ((n[2] = "application" /\ n[3] = "ports") \/ n[2] = "adapters")
      BY <1>6, <2>3 DEF OwnStep, OfPackage
    <3> QED BY <1>1, <1>6, <3>1, <3>2, PackageRanks
  <2>4. CASE m[2] = "adapters" /\ Len(m) = 4
    <3>1. /\ m[3] \in KindPackages
          /\ \/ m[3] = "handlers" /\ n[2] = "client"
             \/ m[3] \in {"gateways", "repositories"} /\ n[2] = "application" /\ n[3] = "ports"
             \/ m[3] = "runners" /\ n[2] = "application" /\ n[3] \in {"relays", "orchestrators"}
             \/ m[3] \in RuntimeKinds /\ n[2] = "application" /\ n[3] \in {"relays", "client"}
             \/ m[3] = "workflows" /\ n[2] = "application" /\ n[3] \in {"relays", "orchestrators"}
             \/ m[3] = "workflows" /\ n[2] = "adapters" /\ n[3] = "activities"
             \/ m[3] = "dispatchers" /\ n[2] = "application" /\ n[3] = "relays"
             \/ m[3] = "dispatchers" /\ n[2] = "adapters" /\ n[3] = "workflows"
          /\ n[2] # "client" => Len(n) >= 3
      BY <1>6, <2>4, KindsByParts
    <3>2. n[2] # "client" => Len(n) = 3
      BY <1>6, <3>1
    <3>3. /\ InnerRank(m) = KindRank(m[3])
          /\ n[2] \in {"client", "application"} => InnerRank(n) \in {2, 5, 7}
      BY <1>1, <1>6, <2>4, <3>1, <3>2, PackageRanks, LeafRanks
    <3>4. n[2] = "adapters" => InnerRank(n) = IF n[3] = "workflows" THEN 12 ELSE 10
      BY <1>1, <1>6, <3>1, <3>2, PackageRanks
    <3> QED BY <3>1, <3>3, <3>4 DEF KindRank
  <2>5. CASE m[2] = "component"
    <3>1. InnerRank(m) = 21
      BY <1>4, <1>6, <2>5
    <3>2. n[2] \in {"application", "adapters", "client"}
      BY <1>6, <2>5 DEF OwnStep
    <3>3. InnerRank(n) \in {2, 5, 7, 8, 10, 12, 14, 16}
      BY <1>1, <1>6, <3>2, PackageRanks
    <3> QED BY <3>1, <3>3
  <2>6. m[2] # "client"
    BY <1>6 DEF OwnStep
  <2>7. Len(m) = 3 \/ Len(m) = 4
    BY <1>6
  <2> QED BY <1>1, <2>1, <2>2, <2>3, <2>4, <2>5, <2>6, <2>7 DEF Roles
<1> QED BY <1>2, <1>3, <1>5, <1>6 DEF InsideStep

(* One import of what ships, whatever the module: where it leads to.       *)
LEMMA HostRanksFall ==
    ASSUME NEW m, HostName(m), NEW n, HostName(n) \/ InnerName(n), HostStep(m, n)
    PROVE  Rank(n) < Rank(m) \/ (Circles(m) /\ Rank(n) <= Rank(m))
<1>1. InnerName(n) => Rank(n) = InnerRank(n) /\ InnerRank(n) \in 0..22
  BY BelowIsNotPlain, RankBounds DEF Rank, InnerName
<1>2. m[1] \in {"srv", "app", "protocol", "kernel"} /\ m[1] \notin Contexts
  BY BelowIsNotPlain DEF HostName
<1>3. CASE m[1] = "kernel" /\ n[1] = "kernel"
  BY <1>3 DEF Rank, Circles
<1>4. CASE m[1] # "kernel" /\ Len(m) = 1 /\ HostName(n) /\ n[1] = m[1] /\ Len(n) = 2
  <2>1. Up(m) = 1 /\ Up(n) = 0
    BY <1>2, <1>4 DEF Up, PackageName
  <2> QED BY <1>2, <1>4, <2>1 DEF Rank
<1>5. CASE m[1] \in {"srv", "app"} /\ Len(m) = 2 /\ InnerName(n)
  <2>1. Up(m) \in {0, 1}
    BY DEF Up
  <2>2. Rank(m) >= 23
    BY <1>5, <2>1 DEF Rank
  <2> QED BY <1>1, <1>5, <2>1, <2>2 DEF Rank
<1>6. CASE m[1] = "srv" /\ Len(m) = 2 /\ n[1] \in {"app", "protocol"} /\ Len(n) = 1
  <2>1. Up(m) = 0 /\ Up(n) = 1
    BY <1>2, <1>6 DEF Up, PackageName
  <2> QED BY <1>6, <2>1 DEF Rank
<1> QED BY <1>3, <1>4, <1>5, <1>6 DEF HostStep

LEMMA ImportsFall ==
    ASSUME SpeaksOwn, NEW m \in Modules, Production(m), NEW n \in Imports[m], Production(n)
    PROVE  Rank(n) < Rank(m) \/ (Circles(m) /\ Rank(n) <= Rank(m))
<1>1. n \in Modules
  BY ImportsByParts
<1>2. /\ m \in Seq(Parts) /\ (HostName(m) \/ InnerName(m))
      /\ n \in Seq(Parts) /\ (HostName(n) \/ InnerName(n))
  BY <1>1, ProductionByParts
<1>3. CASE HostName(m)
  BY <1>2, <1>3, HostImports, HostRanksFall
<1>4. CASE InnerName(m)
  <2>1. \/ Outside(n) /\ (n[1] = "protocol" => m[2] = "adapters")
        \/ InnerName(n) /\ Len(n) # 1 /\ Len(m) # 1 /\ InsideStep(m, n)
    BY <1>2, <1>4, InnerImports, InnerByParts
  <2>2. Rank(m) = InnerRank(m)
    BY <1>4, BelowIsNotPlain DEF Rank, InnerName
  <2>3. CASE InnerName(n) /\ Len(n) # 1 /\ Len(m) # 1 /\ InsideStep(m, n)
    <3>1. Rank(n) = InnerRank(n)
      BY <2>3, BelowIsNotPlain DEF Rank, InnerName
    <3> QED BY <1>2, <1>4, <2>2, <2>3, <3>1, RanksFall
  <2>4. CASE Outside(n)
    <3>1. /\ n[1] = "kernel" => OfPackage(m, "domain", {"kernel"})
          /\ n[1] = "protocol" => Leaf(m) /\ m[2] = "adapters" /\ Len(m) = 4 /\ m[3] = "handlers"
      <4>1. ~InnerName(n)
        BY <2>4, BelowIsNotPlain DEF Outside, HostName, InnerName
      <4>2. InnerStep(m, n)
        BY <1>4, InnerImports
      <4> QED BY <2>4, <4>1, <4>2 DEF InnerStep, LeafStep, ListStep, Outside
    <3>2. Up(m) \in {0, 1} /\ Up(n) \in {0, 1}
      BY DEF Up
    <3>3. CASE n[1] = "kernel"
      <4>1. m[2] = "domain" /\ m[3] = "kernel" /\ Len(m) # 2 /\ Len(m) # 1
        BY <3>1, <3>3 DEF OfPackage
      <4>2. InnerRank(m) = 1 + Up(m)
        BY <4>1 DEF InnerRank
      <4>3. Rank(n) = 0
        BY <3>3 DEF Rank
      <4> QED BY <2>2, <3>2, <4>2, <4>3
    <3>4. CASE n[1] = "protocol"
      <4>1. m[2] = "adapters" /\ m[3] \in KindPackages /\ m[3] = "handlers" /\ Len(m) # 2 /\ Len(m) # 1
        BY <3>1, <3>4 DEF KindPackages
      <4>2. InnerRank(m) = 9 + Up(m)
        BY <4>1 DEF InnerRank, KindRank
      <4>3. Rank(n) = 1 + Up(n)
        BY <3>4 DEF Rank
      <4> QED BY <2>2, <3>2, <4>2, <4>3
    <3> QED BY <2>4, <3>3, <3>4 DEF Outside
  <2> QED BY <2>1, <2>3, <2>4
<1> QED BY <1>2, <1>3, <1>4

-------------------------------------------------------------------------------
(* The tests of the core, which are no part of what ships.                 *)
Core == {"domain", "client", "application"}

CoreTiers == Core \cup {"orchestrators", "relays", "snapshots"}

(* What the core of a context keeps to, its tests and their conftests too. *)
InCore(c, m) ==
    \/ m[1] \notin Contexts \cup ShellPackages
    \/ m[1] = c /\ Len(m) >= 2 /\ m[2] \in Core

LEMMA CoreTestsKeep ==
    ASSUME NEW c \in Contexts, NEW m \in Seq(Parts), m[1] = c, NEW n \in Seq(Parts), Len(n) >= 1,
           Tier(m) \in CoreTiers, TestMay(m, n)
    PROVE  InCore(c, n)
<1> DEFINE tier == Tier(m)
<1>1. TestShell(tier) = {} /\ TestForeign(tier) = {} /\ tier \notin ShellPackages \cup {"kernel"}
  BY DEF CoreTiers, Core, TestShell, TestForeign, ShellPackages, KindPackages
<1>2. n[1] \notin ShellPackages
  BY <1>1 DEF TestMay
<1>3. CASE ~InContext(n)
  BY <1>2, <1>3 DEF InCore, InContext
<1>4. CASE InContext(n)
  <2>1. n[1] = m[1] /\ ContextTestMay(tier, n)
    BY <1>1, <1>4 DEF TestMay
  <2>2. PICK entry \in TestReach(tier) \cup {TestHome(tier)} : IsPrefix(entry, Tail(n))
    BY <2>1, Zenon DEF ContextTestMay, Reaches
  <2>3. /\ \A a \in Parts : IsPrefix(<<a>>, Tail(n)) => Len(n) >= 2 /\ n[2] = a
        /\ \A a, b \in Parts : IsPrefix(<<a, b>>, Tail(n)) => Len(n) >= 3 /\ n[2] = a /\ n[3] = b
    BY EntriesByParts
  <2>4. \/ entry \in {<<"domain">>, <<"client">>, <<"application">>}
        \/ \E p \in ApplicationPackages : entry = <<"application", p>>
    <3>1. tier \in {"domain", "client"} => entry = <<tier>>
      BY <2>2 DEF TestReach, TestHome, SameContext, Roles, KindPackages
    <3>2. tier = "application" => entry \in {<<"domain">>, <<"client">>, <<"application">>}
      BY <2>2 DEF TestReach, TestHome, SameContext, Roles, KindPackages
    <3>3. tier \in {"orchestrators", "relays", "snapshots"} =>
            \/ entry \in {<<"domain">>, <<"client">>}
            \/ \E p \in ApplicationPackages : entry = <<"application", p>>
      BY <2>2 DEF TestReach, TestHome, SameContext, Roles, KindPackages, ApplicationPackages
    <3> QED BY <3>1, <3>2, <3>3 DEF CoreTiers, Core
  <2>5. Len(n) >= 2 /\ n[2] \in Core
    <3>1. {"domain", "client", "application"} \cup ApplicationPackages \subseteq Parts
      BY DEF Parts, Roles
    <3>2. CASE entry \in {<<"domain">>, <<"client">>, <<"application">>}
      BY <2>2, <2>3, <3>1, <3>2 DEF Core
    <3>3. CASE \E p \in ApplicationPackages : entry = <<"application", p>>
      <4>1. PICK p \in ApplicationPackages : entry = <<"application", p>>
        BY <3>3
      <4>2. Len(n) >= 3 /\ n[2] = "application"
        BY <2>2, <2>3, <3>1, <4>1
      <4> QED BY <4>2 DEF Core
    <3> QED BY <2>4, <3>2, <3>3
  <2> QED BY <2>1, <2>5 DEF InCore
<1> QED BY <1>3, <1>4

(* No import leaves the core: of the root, ...                             *)
LEMMA RootKeeps ==
    ASSUME NEW c \in Contexts, NEW m \in Modules, m[1] \notin Contexts \cup ShellPackages, NEW n, PlaceMay(m, n)
    PROVE  n[1] \notin Contexts \cup ShellPackages
<1>1. CASE m = <<"conftest">>
  <2>1. Len(m) = 1 /\ Last(m) = "conftest"
    BY <1>1 DEF Last
  <2>2. Place(m) = "conftest-root"
    BY <2>1 DEF Place
  <2> QED BY <2>2 DEF PlaceMay
<1>2. CASE m # <<"conftest">>
  <2>1. m[1] = "kernel" /\ (Len(m) = 1 \/ Len(m) = 2) /\ (m \in Packages <=> Len(m) = 1)
    <3>1. CASE m \in Packages /\ PackageParts(m)
      <4>1. Len(m) = 1 /\ m[1] = "kernel"
        BY <3>1 DEF PackageParts
      <4> QED BY <3>1, <4>1
    <3>2. CASE /\ Len(m) \in 2..4 /\ m \notin Packages
               /\ PackageParts(Front(m)) /\ Len(Front(m)) = Len(m) - 1
               /\ \A i \in 1..(Len(m) - 1) : Front(m)[i] = m[i]
      <4>1. Front(m)[1] = m[1]
        BY <3>2
      <4>2. Len(Front(m)) = 1 /\ m[1] = "kernel"
        BY <3>2, <4>1 DEF PackageParts
      <4>3. Len(m) = 2
        <5>1. \A k \in 2..4 : k - 1 = 1 => k = 2
          OBVIOUS
        <5> QED BY <3>2, <4>2, <5>1
      <4> QED BY <3>2, <4>2, <4>3
    <3> QED BY <1>2, <3>1, <3>2, NamesByParts
  <2>2. "kernel" \notin Contexts \cup ShellPackages
    BY <2>1
  <2>3. CASE Last(m) \in {"test_m", "conftest"}
    <3>1. Len(m) = 2
      <4> SUFFICES ASSUME Len(m) = 1 PROVE FALSE
        BY <2>1
      <4> QED BY <2>1, <2>3 DEF Last
    <3>2. Place(m) \in {"conftest", "test"}
      <4>1. ~(Len(m) >= 4) /\ Len(m) # 1
        BY <3>1
      <4> QED BY <2>3, <4>1 DEF Place, IsTest
    <3>3. TestMay(m, n)
      BY <3>2 DEF PlaceMay
    <3>4. Tier(m) = "kernel"
      BY <2>1, <3>1 DEF Tier
    <3>5. TestShell("kernel") = {} /\ ~ShellTestMay("kernel", n)
      BY DEF TestShell, ShellTestMay
    <3> QED BY <3>3, <3>4, <3>5 DEF TestMay, InContext
  <2>4. CASE Last(m) \notin {"test_m", "conftest"}
    <3>1. Place(m) \in {"kernel", "kernel-init"}
      <4>1. ~(Len(m) >= 4)
        <5>1. ~(1 >= 4) /\ ~(2 >= 4)
          OBVIOUS
        <5> QED BY <2>1, <5>1, Zenon
      <4> QED BY <2>1, <2>4, <4>1 DEF Place, IsTest
    <3>2. n[1] = "kernel"
      <4>1. CASE Place(m) = "kernel"
        BY <4>1 DEF PlaceMay, KernelMay
      <4>2. CASE Place(m) = "kernel-init"
        BY <4>2 DEF PlaceMay, KernelInitMay
      <4> QED BY <3>1, <4>1, <4>2
    <3> QED BY <2>2, <3>2
  <2> QED BY <2>3, <2>4
<1> QED BY <1>1, <1>2

(* ... of a context's tests of it, and of its own modules.                 *)
LEMMA CorePlaces ==
    ASSUME NEW c \in Contexts, NEW m \in Modules, m[1] = c, Len(m) >= 2, m[2] \in Core
    PROVE  /\ m \in Seq(Parts) /\ Len(m) \in 2..4
           /\ \/ Place(m) \in {"conftest", "test"} /\ Tier(m) \in CoreTiers
              \/ Place(m) \in {"role-init", "package-init", "context-kernel-init"}
              \/ Place(m) \in {"role", "context-kernel", "ports", "client", "orchestrators", "relays", "snapshots"}
<1>1. m \in Seq(Parts) /\ Place(m) # "stray"
  BY NamesByParts
<1>2. m[1] \notin {"srv", "app", "protocol", "tests", "kernel"}
  BY BelowIsNotPlain
<1>3. m[2] \in Roles /\ m[2] # "tests" /\ m[2] # "adapters" /\ m[2] \notin {"test_m", "conftest"}
  BY DEF Core, Roles
<1>4. Len(m) \in 2..4
  <2>1. m # <<"conftest">>
    <3> SUFFICES ASSUME m = <<"conftest">> PROVE FALSE
      OBVIOUS
    <3>1. Len(m) = 1
      OBVIOUS
    <3> QED BY <3>1
  <2>2. m \in Packages /\ PackageParts(m) => Len(m) \in 1..3
    BY DEF PackageParts
  <2> QED BY <1>1, <2>1, <2>2, NamesByParts
<1>5. Len(m) = 2 \/ Len(m) = 3 \/ Len(m) = 4
  BY <1>4
<1>6. CASE Last(m) \in {"test_m", "conftest"}
  <2>1. Len(m) # 2 /\ Len(m) # 1
    BY <1>3, <1>5, <1>6 DEF Last
  <2>2. ~(Len(m) < 3)
    BY <1>5, <2>1
  <2>3. Tier(m) \in CoreTiers
    <3>1. m[1] \notin ShellPackages \cup {"kernel"}
      BY <1>2 DEF ShellPackages
    <3> QED BY <1>3, <2>2, <3>1 DEF Tier, CoreTiers, Core
  <2>4. Place(m) \in {"conftest", "test"}
    BY <1>1, <1>6, <2>1 DEF Place, IsTest, IsReserved
  <2> QED BY <1>1, <1>4, <2>3, <2>4
<1>7. CASE Last(m) \notin {"test_m", "conftest"}
  <2>1. Len(m) # 1 /\ ~IsTest(m) /\ ~IsReserved(m)
    BY <1>5, <1>7 DEF IsTest, IsReserved
  <2>2. /\ Place(m) \in {"role-init", "package-init", "context-kernel-init", "role", "context-kernel"}
                          \cup ApplicationPackages
    BY <1>1, <1>2, <1>3, <1>7, <2>1 DEF Place
  <2> QED BY <1>1, <1>4, <2>2 DEF ApplicationPackages
<1> QED BY <1>6, <1>7

LEMMA CoreKeeps ==
    ASSUME SpeaksOwn, NEW c \in Contexts, NEW m \in Modules, InCore(c, m), NEW n \in Imports[m]
    PROVE  InCore(c, n)
<1>1. n \in Modules /\ PlaceMay(m, n)
  BY DEF Imports
<1>2. n \in Seq(Parts) /\ Len(n) >= 1
  <2>1. n \in Packages => Len(n) >= 1
    BY PackagesByParts DEF PackageParts
  <2>2. n = <<"conftest">> => Len(n) >= 1
    OBVIOUS
  <2> QED BY <1>1, <2>1, <2>2, NamesByParts
<1>3. CASE m[1] \notin Contexts \cup ShellPackages
  BY <1>1, <1>3, RootKeeps DEF InCore
<1>4. CASE m[1] = c /\ Len(m) >= 2 /\ m[2] \in Core
  <2>1. m \in Seq(Parts) /\ Len(m) \in 2..4
    BY <1>4, CorePlaces
  <2>2. CASE Place(m) \in {"conftest", "test"} /\ Tier(m) \in CoreTiers
    <3>1. TestMay(m, n)
      BY <1>1, <2>2 DEF PlaceMay
    <3> QED BY <1>2, <1>4, <2>1, <2>2, <3>1, CoreTestsKeep
  <2>3. CASE Place(m) \in {"role-init", "package-init", "context-kernel-init"}
    <3>1. InitMay(m, n)
      BY <1>1, <2>3 DEF PlaceMay
    <3>2. CASE Len(n) > 1 /\ Front(n) = m
      <4>1. Len(m) = Len(n) - 1 /\ \A i \in 1..(Len(n) - 1) : m[i] = n[i]
        BY <1>2, <3>2, FrontByParts
      <4>2. Len(n) \in 3..5
        BY <1>2, <2>1, <4>1
      <4>3. n[1] = m[1] /\ n[2] = m[2] /\ Len(n) >= 2
        BY <4>1, <4>2
      <4> QED BY <1>4, <4>3 DEF InCore
    <3>3. CASE n = <<"kernel">>
      BY <3>3, ContextsNamed DEF InCore, ShellPackages
    <3> QED BY <3>1, <3>2, <3>3 DEF InitMay
  <2>4. CASE Place(m) = "ports"
    BY <1>1, <2>4 DEF PlaceMay, PortsMay
  <2>5. CASE Place(m) = "client"
    <3>1. AppClientMay(m, n)
      BY <1>1, <2>5 DEF PlaceMay
    <3>2. n[1] = c /\ Len(n) >= 3 /\ n[2] = "application"
      BY <1>4, <3>1 DEF AppClientMay
    <3>3. Len(n) >= 2
      BY <1>2, <3>2
    <3> QED BY <3>2, <3>3 DEF InCore, Core
  <2>6. CASE Place(m) \in {"role", "context-kernel", "orchestrators", "relays", "snapshots"}
    <3>1. RoleMay(m, n)
      BY <1>1, <2>6 DEF PlaceMay
    <3>2. m[2] \notin {"component", "adapters"} /\ m[2] \in Roles
      BY <1>4 DEF Core, Roles
    <3>3. CASE ~InContext(n)
      <4>1. OutsideMay(m, n)
        BY <3>1, <3>3 DEF RoleMay
      <4>2. n[1] = "kernel"
        BY <1>4, <4>1 DEF OutsideMay, Core
      <4> QED BY <3>3, <4>2 DEF InCore, InContext, ShellPackages
    <3>4. CASE InContext(n) /\ n[1] = m[1]
      <4>1. OwnContextMay(m, n)
        BY <3>1, <3>4 DEF RoleMay
      <4>2. KindPackage(m) \notin KindPackages
        BY <3>2 DEF KindPackage, KindPackages
      <4>3. Len(n) >= 2 /\ (n[2] = m[2] \/ Reaches(n, SameContext(m[2])))
        BY <4>1, <4>2 DEF OwnContextMay
      <4>4. n[2] = m[2] \/ RoleStep(m[2], n)
        BY <1>2, <3>2, <4>3, RoleReachByParts
      <4>5. n[2] \in Core
        BY <1>4, <3>2, <4>4 DEF RoleStep, Core
      <4> QED BY <1>4, <3>4, <4>3, <4>5 DEF InCore
    <3>5. CASE InContext(n) /\ n[1] # m[1]
      <4>1. OtherContextMay(m, n)
        BY <3>1, <3>5 DEF RoleMay
      <4> QED BY <3>2, <4>1 DEF OtherContextMay, MayHoldGateway
    <3> QED BY <3>3, <3>4, <3>5
  <2> QED BY <1>4, <2>2, <2>3, <2>4, <2>5, <2>6, CorePlaces
<1> QED BY <1>3, <1>4 DEF InCore

-------------------------------------------------------------------------------
(* The invariant.                                                          *)

(* What a walk from a module of a context keeps to while it is in one.     *)
UnderKind(kind, m) ==
    \/ Under(m, "adapters", kind)
    \/ kind = "handlers" /\ m[2] = "client"
    \/ kind # "handlers" /\ Under(m, "application", "ports")

Kept(s, m) ==
    /\ InnerName(m) /\ Len(m) # 1
    /\ m[1] # s[1] => Out(s) /\ m[2] = "client"
    /\ ~Out(s) => ~Out(m)
    /\ s[2] = "domain" => m[2] = "domain"
    /\ ~Uses(s, "client", EngineKinds) => ~Uses(m, "client", EngineKinds)
    /\ ~Uses(s, "orchestrators", InvocationKinds) => ~Uses(m, "orchestrators", InvocationKinds)
    /\ \A kind \in {"handlers", "gateways", "repositories"} :
         Under(s, "adapters", kind) /\ m[1] = s[1] => UnderKind(kind, m)

(* And when it has left them: the domain leaves for the root kernel only.  *)
Left(s, m) == Outside(m) /\ (s[2] = "domain" => m[1] = "kernel")

LEMMA WalksKeep ==
    ASSUME NEW s, NEW m \in Seq(Parts), Kept(s, m),
           NEW n \in Seq(Parts), InnerName(n), Len(n) # 1, InsideStep(m, n)
    PROVE  Kept(s, n)
<1>1. InnerName(m) /\ Len(m) # 1
  BY DEF Kept
<1>2. n[1] # s[1] => Out(s) /\ n[2] = "client"
  <2>1. CASE m[1] # s[1]
    BY <1>1, <2>1, KeepsToClients DEF Kept
  <2>2. CASE m[1] = s[1]
    BY <1>1, <2>2, LeavesForClients, KeepsIn DEF Kept
  <2> QED BY <2>1, <2>2
<1>3. ~Out(s) => ~Out(n)
  BY <1>1, KeepsIn DEF Kept
<1>4. s[2] = "domain" => n[2] = "domain"
  BY <1>1, KeepsToClients DEF Kept
<1>5. ~Uses(s, "client", EngineKinds) => ~Uses(n, "client", EngineKinds)
  BY <1>1, KeepsFromUse DEF Kept
<1>6. ~Uses(s, "orchestrators", InvocationKinds) => ~Uses(n, "orchestrators", InvocationKinds)
  BY <1>1, KeepsFromUse DEF Kept
<1>7. ASSUME NEW kind \in {"handlers", "gateways", "repositories"}, Under(s, "adapters", kind), n[1] = s[1]
      PROVE  UnderKind(kind, n)
  <2>1. m[1] = s[1]
    BY <1>1, <1>7, KeepsToClients DEF Kept
  <2>2. UnderKind(kind, m)
    BY <1>7, <2>1 DEF Kept
  <2> QED BY <1>1, <1>7, <2>1, <2>2, KeepsToTheKind DEF UnderKind
<1> QED BY <1>2, <1>3, <1>4, <1>5, <1>6, <1>7 DEF Kept

(* What a walk has kept to so far, and how far down it is.                 *)
ImportsInv ==
    /\ start \in Modules /\ at \in Modules
    /\ Production(start) => Production(at)
    /\ Production(start) /\ ~Circles(start) => at = start \/ Rank(at) < Rank(start)
    /\ Production(start) /\ InnerName(start) =>
         IF Len(start) = 1 THEN at = start ELSE Left(start, at) \/ Kept(start, at)
    /\ \A c \in Contexts : InCore(c, start) => InCore(c, at)

LEMMA ImportsInit == Init => ImportsInv
<1> SUFFICES ASSUME Init PROVE ImportsInv
  OBVIOUS
<1>1. start \in Modules /\ at = start
  BY DEF Init
<1>2. InnerName(start) /\ Len(start) # 1 => Kept(start, start)
  BY DEF Kept, UnderKind
<1> QED BY <1>1, <1>2 DEF ImportsInv

LEMMA OutsideKeeps ==
    ASSUME NEW m \in Modules, Production(m), Outside(m), NEW n \in Imports[m], Production(n)
    PROVE  Outside(n) /\ n[1] = m[1]
<1>1. HostName(m) /\ m[1] \in {"kernel", "protocol"}
  BY DEF Outside
<1>2. HostStep(m, n)
  BY <1>1, HostImports
<1>3. HostName(n) \/ InnerName(n)
  BY ImportsByParts, ProductionByParts
<1> QED BY <1>1, <1>2, <1>3, BelowIsNotPlain DEF HostStep, Outside, InnerName

LEMMA ImportsNext == SpeaksOwn /\ ImportsInv /\ Next => ImportsInv'
<1> SUFFICES ASSUME SpeaksOwn, ImportsInv, Next PROVE ImportsInv'
  OBVIOUS
<1>1. PICK n \in Imports[at] : (Production(start) => Production(n)) /\ at' = n /\ start' = start
  BY DEF Next, Follow
<1>2. start \in Modules /\ at \in Modules /\ (Production(start) => Production(at))
  BY DEF ImportsInv
<1>3. n \in Modules
  BY <1>2 DEF Imports
<1>4. ASSUME Production(start), ~Circles(start) PROVE n = start \/ Rank(n) < Rank(start)
  <2>1. Rank(n) \in 0..26 /\ Rank(at) \in 0..26 /\ Rank(start) \in 0..26
    BY RankBounds
  <2>2. Rank(n) < Rank(at) \/ (Circles(at) /\ Rank(n) <= Rank(at))
    BY <1>1, <1>2, <1>4, ImportsFall
  <2>3. at = start \/ Rank(at) < Rank(start)
    BY <1>4 DEF ImportsInv
  <2>4. CASE at = start
    BY <1>4, <2>2, <2>4
  <2>5. CASE Rank(at) < Rank(start)
    BY <2>1, <2>2, <2>5
  <2> QED BY <2>3, <2>4, <2>5
<1>5. ASSUME Production(start), InnerName(start)
      PROVE  IF Len(start) = 1 THEN n = start ELSE Left(start, n) \/ Kept(start, n)
  <2>1. Production(at) /\ Production(n)
    BY <1>1, <1>2, <1>5
  <2>2. CASE Len(start) = 1
    <3>1. at = start
      BY <1>5, <2>2 DEF ImportsInv
    <3>2. Len(at) > 1
      BY <1>2, <1>5, <2>1, <3>1, ImportsByParts, PlaceAsks
    <3>3. ~(1 > 1)
      OBVIOUS
    <3> QED BY <2>2, <3>1, <3>2, <3>3
  <2>3. CASE Len(start) # 1 /\ Left(start, at)
    BY <1>2, <2>1, <2>3, OutsideKeeps DEF Left
  <2>4. CASE Len(start) # 1 /\ Kept(start, at)
    <3>1. InnerName(at)
      BY <2>4 DEF Kept
    <3>2. at \in Seq(Parts) /\ n \in Seq(Parts) /\ (HostName(n) \/ InnerName(n))
      BY <1>2, <1>3, <2>1, ProductionByParts
    <3>3. \/ Outside(n) /\ (n[1] = "protocol" => at[2] = "adapters")
          \/ InnerName(n) /\ Len(n) # 1 /\ InsideStep(at, n)
      BY <1>2, <2>1, <3>1, <3>2, InnerImports, InnerByParts
    <3>4. CASE Outside(n) /\ (n[1] = "protocol" => at[2] = "adapters")
      <4>1. start[2] = "domain" => at[2] = "domain"
        BY <2>4 DEF Kept
      <4> QED BY <2>4, <3>4, <4>1 DEF Left, Outside
    <3>5. CASE InnerName(n) /\ Len(n) # 1 /\ InsideStep(at, n)
      BY <2>4, <3>2, <3>5, WalksKeep
    <3> QED BY <3>3, <3>4, <3>5
  <2> QED BY <1>5, <2>2, <2>3, <2>4 DEF ImportsInv
<1>6. ASSUME NEW c \in Contexts, InCore(c, start) PROVE InCore(c, n)
  BY <1>2, <1>6, CoreKeeps DEF ImportsInv
<1> QED BY <1>1, <1>2, <1>3, <1>4, <1>5, <1>6 DEF ImportsInv

-------------------------------------------------------------------------------
(* The properties.                                                         *)

(* The entries of the properties, part by part.                            *)
LEMMA InByParts ==
    ASSUME NEW m \in Seq(Parts), InnerName(m)
    PROVE  /\ \A role \in Roles : In(m, <<role>>) <=> Len(m) # 1 /\ m[2] = role
           /\ \A role \in Roles, package \in ApplicationPackages \cup KindPackages :
                In(m, <<role, package>>) <=> Under(m, role, package)
<1>1. Len(m) \in 1..4 /\ Len(m) >= 1
  BY DEF InnerName
<1>2. Roles \cup ApplicationPackages \cup KindPackages \subseteq Parts
  BY DEF Parts
<1>3. Len(m) >= 2 <=> Len(m) # 1
  <2>1. \A k \in 1..4 : k >= 2 <=> k # 1
    OBVIOUS
  <2> QED BY <1>1, <2>1
<1>4. \A role \in Roles : In(m, <<role>>) <=> Len(m) # 1 /\ m[2] = role
  BY <1>1, <1>2, <1>3, EntriesByParts DEF In
<1>5. ASSUME NEW role \in Roles, NEW package \in ApplicationPackages \cup KindPackages
      PROVE  In(m, <<role, package>>) <=> Under(m, role, package)
  BY <1>1, <1>2, EntriesByParts DEF In, Under, OfPackage
<1> QED BY <1>4, <1>5

LEMMA ImportsFromContext ==
    ASSUME ImportsInv, FromContext
    PROVE  /\ start \in Seq(Parts) /\ InnerName(start) /\ at \in Seq(Parts) /\ Production(at)
           /\ Outside(at) \/ InnerName(at)
           /\ Outside(at) /\ Len(start) # 1 => Left(start, at)
           /\ InContext(at) <=> InnerName(at)
           /\ InnerName(at) => IF Len(start) = 1 THEN at = start ELSE Kept(start, at)
<1>1. start \in Modules /\ at \in Modules /\ Production(start) /\ Production(at)
  BY DEF ImportsInv, FromContext
<1>2. /\ start \in Seq(Parts) /\ (HostName(start) \/ InnerName(start))
      /\ at \in Seq(Parts) /\ (HostName(at) \/ InnerName(at))
  BY <1>1, ProductionByParts
<1>3. InnerName(start)
  BY <1>2, BelowIsNotPlain DEF FromContext, InContext, HostName
<1>4. HostName(at) => ~InContext(at) /\ ~InnerName(at)
  BY BelowIsNotPlain DEF HostName, InContext, InnerName
<1>5. IF Len(start) = 1 THEN at = start ELSE Left(start, at) \/ Kept(start, at)
  BY <1>1, <1>3 DEF ImportsInv
<1>6. (Left(start, at) => Outside(at)) /\ (Outside(at) => HostName(at)) /\
      (Kept(start, at) => InnerName(at)) /\ (InnerName(at) => InContext(at))
  BY DEF Left, Outside, Kept, InnerName, InContext
<1> QED BY <1>1, <1>2, <1>3, <1>4, <1>5, <1>6

(* What may use the application's packages, in the properties' words.      *)
LEMMA UsesByParts ==
    ASSUME NEW m \in Modules, Production(m), InnerName(m),
           NEW package \in ApplicationPackages, NEW kinds, Uses(m, package, kinds)
    PROVE  \/ In(m, <<"application", package>>)
           \/ In(m, <<"component">>)
           \/ KindIs(m, kinds)
           \/ m = <<m[1], "application">>
<1>1. m \in Seq(Parts) /\ Len(m) # 1
  BY ProductionByParts DEF Uses
<1>2. {"application", "adapters", "component"} \subseteq Roles
  BY DEF Roles
<1>3. Len(m) = 2 \/ Len(m) = 3 \/ Len(m) = 4
  BY <1>1 DEF InnerName
<1>4. CASE m[2] = "component"
  BY <1>1, <1>2, <1>4, InByParts
<1>5. CASE m[2] = "application" /\ Len(m) = 2
  <2>1. m = <<m[1], m[2]>>
    BY <1>1, <1>5
  <2> QED BY <1>5, <2>1
<1>6. CASE m[2] = "application" /\ Len(m) # 2 /\ m[3] = package
  <2>1. Len(m) >= 3
    BY <1>3, <1>6
  <2>2. Under(m, "application", package)
    BY <1>6, <2>1 DEF Under, OfPackage
  <2> QED BY <1>1, <1>2, <2>2, InByParts
<1>7. CASE m[2] = "adapters" /\ (Len(m) = 2 \/ m[3] \in kinds)
  BY <1>7 DEF KindIs
<1>8. CASE m[2] = "adapters" /\ Len(m) # 2 /\ m[3] \in Plain
  <2>1. m[3] \notin Below(m[2])
    BY <1>8, BelowIsNotPlain DEF Plain
  <2>2. Len(m) = 3
    BY <1>3, <1>8, <2>1 DEF InnerName
  <2>3. m \notin Packages /\ m # <<"conftest">>
    <3>1. ~PackageName(m)
      BY <1>1, <2>1, <2>2 DEF PackageName
    <3>2. m # <<"conftest">>
      <4> SUFFICES ASSUME m = <<"conftest">> PROVE FALSE
        OBVIOUS
      <4>1. Len(m) = 1
        OBVIOUS
      <4> QED BY <1>1, <4>1
    <3> QED BY <3>1, <3>2, ProductionByParts
  <2>4. Last(m) \in Leaves
    BY <2>3, NamesByParts
  <2> QED BY <1>8, <2>2, <2>4 DEF Last, KindIs
<1> QED BY <1>4, <1>5, <1>6, <1>7, <1>8 DEF Uses

(* What an end of a walk in a package of the application says of its start.*)
LEMMA EndsInApplication ==
    ASSUME ImportsInv, FromContext, InContext(at),
           NEW package, NEW kinds,
           \/ package = "client" /\ kinds = EngineKinds
           \/ package = "orchestrators" /\ kinds = InvocationKinds,
           In(at, <<"application", package>>)
    PROVE  \/ In(start, <<"application", package>>)
           \/ In(start, <<"component">>)
           \/ KindIs(start, kinds)
           \/ start = <<at[1], "application">>
<1>1. /\ start \in Modules /\ Production(start) /\ InnerName(start)
      /\ at \in Seq(Parts) /\ InnerName(at)
      /\ IF Len(start) = 1 THEN at = start ELSE Kept(start, at)
  BY ImportsFromContext DEF ImportsInv, FromContext
<1>2. package \in ApplicationPackages /\ "application" \in Roles
  BY DEF ApplicationPackages, Roles
<1>3. Under(at, "application", package)
  BY <1>1, <1>2, InByParts
<1>4. Len(at) # 1 /\ at[2] = "application" /\ at[3] = package
  <2>1. ~(1 >= 3)
    OBVIOUS
  <2> QED BY <1>3, <2>1 DEF Under, OfPackage
<1>5. Kept(start, at)
  BY <1>1, <1>4
<1>6. at[1] = start[1]
  BY <1>4, <1>5 DEF Kept
<1>7. Uses(at, package, kinds)
  BY <1>1, <1>4 DEF Uses
<1>8. Uses(start, package, kinds)
  BY <1>5, <1>7 DEF Kept
<1> QED BY <1>1, <1>2, <1>6, <1>8, UsesByParts

LEMMA ImportsSound ==
    ImportsInv =>
        /\ DomainReachesOnlyDomain
        /\ ContextsMeetAtClients
        /\ OnlyGatewaysAndComponentsReachOut
        /\ ActionsOnlyThroughEngine
        /\ OrchestratorsOnlyPerInvocation
        /\ HandlersSeeOnlyTheClient
        /\ DrivenAdaptersSeeOnlyPorts
        /\ ContextsStayOutOfTheShell
        /\ CoreTestsReachNoAdapter
<1> SUFFICES ASSUME ImportsInv
             PROVE  /\ DomainReachesOnlyDomain
                    /\ ContextsMeetAtClients
                    /\ OnlyGatewaysAndComponentsReachOut
                    /\ ActionsOnlyThroughEngine
                    /\ OrchestratorsOnlyPerInvocation
                    /\ HandlersSeeOnlyTheClient
                    /\ DrivenAdaptersSeeOnlyPorts
                    /\ ContextsStayOutOfTheShell
                    /\ CoreTestsReachNoAdapter
  OBVIOUS
<1>1. ASSUME FromContext
      PROVE  /\ start \in Seq(Parts) /\ InnerName(start) /\ at \in Seq(Parts) /\ Production(at)
             /\ Outside(at) \/ InnerName(at)
             /\ Outside(at) /\ Len(start) # 1 => Left(start, at)
             /\ InContext(at) <=> InnerName(at)
             /\ InnerName(at) => IF Len(start) = 1 THEN at = start ELSE Kept(start, at)
  BY <1>1, ImportsFromContext
<1>2. {"domain", "client", "application", "adapters", "component"} \subseteq Roles
  BY DEF Roles
<1>3. DomainReachesOnlyDomain
  <2> SUFFICES ASSUME FromContext, In(start, <<"domain">>), at[1] # "kernel"
               PROVE  at[1] = start[1] /\ In(at, <<"domain">>)
    BY DEF DomainReachesOnlyDomain
  <2>1. Len(start) # 1 /\ start[2] = "domain"
    BY <1>1, <1>2, InByParts
  <2>2. InnerName(at) /\ Kept(start, at)
    BY <1>1, <2>1 DEF Left
  <2>3. at[2] = "domain" /\ Len(at) # 1
    BY <2>1, <2>2 DEF Kept
  <2>4. at[1] = start[1]
    BY <2>1, <2>2 DEF Kept, Out
  <2> QED BY <1>1, <1>2, <2>2, <2>3, <2>4, InByParts
<1>4. ContextsMeetAtClients
  <2> SUFFICES ASSUME FromContext, InContext(at), at[1] # start[1] PROVE In(at, <<"client">>)
    BY DEF ContextsMeetAtClients
  <2>1. InnerName(at) /\ Kept(start, at)
    BY <1>1
  <2>2. Len(at) # 1 /\ at[2] = "client"
    BY <2>1 DEF Kept
  <2> QED BY <1>1, <1>2, <2>1, <2>2, InByParts
<1>5. OnlyGatewaysAndComponentsReachOut
  <2> SUFFICES ASSUME FromContext, InContext(at), at[1] # start[1]
               PROVE  \/ In(start, <<"component">>)
                      \/ In(start, <<"adapters">>) /\ (Len(start) <= 3 \/ start[3] = "gateways")
    BY DEF OnlyGatewaysAndComponentsReachOut
  <2>1. InnerName(start) /\ InnerName(at) /\ Kept(start, at)
    BY <1>1
  <2>2. Out(start)
    BY <2>1 DEF Kept
  <2>3. CASE start[2] = "component"
    BY <1>1, <1>2, <2>2, <2>3, InByParts DEF Out
  <2>4. CASE start[2] = "adapters" /\ (Len(start) = 2 \/ start[3] \in {"gateways"} \cup Plain)
    <3>1. In(start, <<"adapters">>)
      BY <1>1, <1>2, <2>2, <2>4, InByParts DEF Out
    <3>2. start[3] \in Plain => Len(start) # 4
      BY <2>1, BelowIsNotPlain DEF InnerName, Plain
    <3>3. Len(start) = 1 \/ Len(start) = 2 \/ Len(start) = 3 \/ Len(start) = 4
      BY <2>1 DEF InnerName
    <3>4. 1 <= 3 /\ 2 <= 3 /\ 3 <= 3
      OBVIOUS
    <3> QED BY <2>4, <3>1, <3>2, <3>3, <3>4
  <2> QED BY <2>2, <2>3, <2>4 DEF Out
<1>6. ActionsOnlyThroughEngine
  <2> SUFFICES ASSUME FromContext, InContext(at), In(at, <<"application", "client">>)
               PROVE  \/ In(start, <<"application", "client">>)
                      \/ In(start, <<"component">>)
                      \/ KindIs(start, EngineKinds)
                      \/ start = <<at[1], "application">>
    BY DEF ActionsOnlyThroughEngine, EngineKinds
  <2> QED BY EndsInApplication
<1>7. OrchestratorsOnlyPerInvocation
  <2> SUFFICES ASSUME FromContext, InContext(at), In(at, <<"application", "orchestrators">>)
               PROVE  \/ In(start, <<"application", "orchestrators">>)
                      \/ In(start, <<"component">>)
                      \/ KindIs(start, InvocationKinds)
                      \/ start = <<at[1], "application">>
    BY DEF OrchestratorsOnlyPerInvocation, InvocationKinds
  <2> QED BY EndsInApplication
<1>8. \A kind \in {"handlers", "gateways", "repositories"} :
        FromContext /\ In(start, <<"adapters", kind>>) /\ InContext(at) =>
            /\ kind = "handlers" => at[1] = start[1]
            /\ at[1] = start[1] => UnderKind(kind, at) /\ Len(at) # 1
  <2> SUFFICES ASSUME NEW kind \in {"handlers", "gateways", "repositories"},
                      FromContext, In(start, <<"adapters", kind>>), InContext(at)
               PROVE  /\ kind = "handlers" => at[1] = start[1]
                      /\ at[1] = start[1] => UnderKind(kind, at) /\ Len(at) # 1
    OBVIOUS
  <2>1. Under(start, "adapters", kind)
    BY <1>1, <1>2, InByParts DEF KindPackages
  <2>2. Len(start) # 1 /\ Len(start) # 2 /\ start[2] = "adapters" /\ start[3] = kind
    <3>1. ~(1 >= 3) /\ ~(2 >= 3)
      OBVIOUS
    <3> QED BY <2>1, <3>1 DEF Under, OfPackage
  <2>3. Kept(start, at)
    BY <1>1, <2>2
  <2>4. kind = "handlers" => ~Out(start)
    BY <2>2 DEF Out, Plain
  <2> QED BY <2>1, <2>3, <2>4 DEF Kept
<1>9. HandlersSeeOnlyTheClient
  <2> SUFFICES ASSUME FromContext, In(start, <<"adapters", "handlers">>), InContext(at)
               PROVE  at[1] = start[1] /\ (In(at, <<"client">>) \/ In(at, <<"adapters", "handlers">>))
    BY DEF HandlersSeeOnlyTheClient
  <2>1. at[1] = start[1] /\ UnderKind("handlers", at) /\ Len(at) # 1
    BY <1>8
  <2> QED BY <1>1, <1>2, <2>1, InByParts DEF UnderKind, KindPackages
<1>10. DrivenAdaptersSeeOnlyPorts
  <2> SUFFICES ASSUME NEW kind \in {"gateways", "repositories"},
                      FromContext, In(start, <<"adapters", kind>>), at[1] = start[1]
               PROVE  In(at, <<"application", "ports">>) \/ In(at, <<"adapters", kind>>)
    BY DEF DrivenAdaptersSeeOnlyPorts
  <2>1. InContext(at)
    BY DEF FromContext, InContext
  <2>2. UnderKind(kind, at)
    BY <1>8, <2>1
  <2> QED BY <1>1, <1>2, <2>1, <2>2, InByParts DEF UnderKind, KindPackages, ApplicationPackages
<1>11. CoreTestsReachNoAdapter
  <2> SUFFICES ASSUME IsTest(start), InContext(start), start[2] \in {"domain", "client", "application"}
               PROVE  \/ ~InContext(at) /\ at[1] \notin ShellPackages
                      \/ at[1] = start[1] /\ at[2] \in {"domain", "client", "application"}
    BY DEF CoreTestsReachNoAdapter
  <2>1. start \in Modules /\ start \in Seq(Parts) /\ Place(start) # "stray"
    BY NamesByParts DEF ImportsInv
  <2>2. Last(start) = "test_m" /\ start[1] \in Contexts
    BY DEF IsTest, InContext
  <2>3. Place(start) = "test"
    BY <2>1, <2>2 DEF Place
  <2>4. Tier(start) # "none"
    BY <2>1, <2>3, NamesByParts
  <2>5. ~(Len(start) < 3) \/ Len(start) >= 2
    BY <2>4, Zenon DEF Tier
  <2>6. Len(start) >= 2
    BY <2>1, <2>5
  <2>7. InCore(start[1], start)
    BY <2>6 DEF InCore, Core
  <2>8. InCore(start[1], at)
    BY <2>2, <2>7 DEF ImportsInv
  <2> QED BY <2>8 DEF InCore, Core, InContext
<1>12. ContextsStayOutOfTheShell
  <2> SUFFICES ASSUME FromContext PROVE at[1] \notin {"srv", "app", "tests"}
    BY DEF ContextsStayOutOfTheShell
  <2> QED BY <1>1, BelowIsNotPlain DEF Outside, InnerName
<1> QED BY <1>3, <1>4, <1>5, <1>6, <1>7, <1>9, <1>10, <1>11, <1>12

(* The two circles the rules admit.                                        *)
LEMMA CirclesByParts ==
    ASSUME NEW m \in Modules, Production(m), Circles(m)
    PROVE  MayCircle(m)
<1>1. m \in Seq(Parts)
  BY ProductionByParts
<1>2. CASE m[1] = "kernel"
  BY <1>2 DEF MayCircle
<1>3. CASE InnerName(m) /\ Len(m) \in {3, 4} /\ m[2] = "application" /\ m[3] \in {"relays", "snapshots"}
  <2>1. InContext(m)
    BY <1>3 DEF InnerName, InContext
  <2>2. 3 >= 3 /\ 4 >= 3
    OBVIOUS
  <2>3. Under(m, "application", m[3])
    BY <1>3, <2>2 DEF Under, OfPackage
  <2>4. "application" \in Roles /\ m[3] \in ApplicationPackages
    BY <1>3 DEF Roles, ApplicationPackages
  <2>5. In(m, <<"application", m[3]>>)
    BY <1>1, <1>3, <2>3, <2>4, InByParts
  <2> QED BY <1>3, <2>1, <2>5 DEF MayCircle
<1> QED BY <1>2, <1>3 DEF Circles

(* ImportChainsEnd, of every walk along imports of an accepted tree with   *)
(* any bounded contexts, where an application client speaks its own        *)
(* context.                                                                *)
THEOREM ImportsAlwaysEnd == SpeaksOwn /\ PartSpec => ImportChainsEnd
<1> SUFFICES ASSUME SpeaksOwn PROVE PartSpec => ImportChainsEnd
  OBVIOUS
<1> DEFINE I == part = "imports" => ImportsInv
<1>1. PartInit => I
  BY ImportsInit DEF PartInit
<1>2. I /\ [PartNext]_partVars => I'
  <2> SUFFICES ASSUME I, [PartNext]_partVars, part' = "imports" PROVE ImportsInv'
    OBVIOUS
  <2>1. CASE UNCHANGED partVars
    <3>1. part' = part /\ start' = start /\ at' = at
      BY <2>1 DEF partVars, vars
    <3>2. ImportsInv
      BY <3>1
    <3> QED BY <3>1, <3>2 DEF ImportsInv
  <2>2. CASE PartNext
    <3>1. part = "imports" /\ Next
      BY <2>2 DEF PartNext
    <3> QED BY <3>1, ImportsNext
  <2> QED BY <2>1, <2>2
<1>3. I => (part = "imports" =>
              /\ DomainReachesOnlyDomain
              /\ ContextsMeetAtClients
              /\ OnlyGatewaysAndComponentsReachOut
              /\ ActionsOnlyThroughEngine
              /\ OrchestratorsOnlyPerInvocation
              /\ HandlersSeeOnlyTheClient
              /\ DrivenAdaptersSeeOnlyPorts
              /\ ContextsStayOutOfTheShell
              /\ CoreTestsReachNoAdapter)
  BY ImportsSound
<1>4. I /\ [PartNext]_partVars => [Production(start) /\ ~MayCircle(start) => at' # start]_vars
  <2> SUFFICES ASSUME I, [PartNext]_partVars, ~UNCHANGED vars, Production(start), ~MayCircle(start)
               PROVE  at' # start
    OBVIOUS
  <2>1. part = "imports" /\ Next /\ ImportsInv
    BY DEF PartNext, partVars, vars
  <2>2. PICK n \in Imports[at] : Production(n) /\ at' = n
    BY <2>1 DEF Next, Follow
  <2>3. start \in Modules /\ at \in Modules /\ Production(at)
    BY <2>1 DEF ImportsInv
  <2>4. ~Circles(start)
    BY <2>3, CirclesByParts
  <2>5. at = start \/ Rank(at) < Rank(start)
    BY <2>1, <2>4 DEF ImportsInv
  <2>6. Rank(n) < Rank(at) \/ (Circles(at) /\ Rank(n) <= Rank(at))
    BY <2>2, <2>3, ImportsFall
  <2>7. Rank(n) \in 0..26 /\ Rank(at) \in 0..26 /\ Rank(start) \in 0..26
    BY RankBounds
  <2>8. Rank(n) < Rank(start)
    BY <2>4, <2>5, <2>6, <2>7
  <2> QED BY <2>2, <2>7, <2>8
<1> QED BY <1>1, <1>2, <1>3, <1>4, PTL DEF PartSpec, ImportChainsEnd, NoCircularImport
===============================================================================
