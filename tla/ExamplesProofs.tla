----------------------------- MODULE ExamplesProofs -----------------------------
(***************************************************************************)
(* What holds of the small examples.  First the pools of pgdatabase, for   *)
(* any tasks, any distinct databases and any size of a pool; then the      *)
(* widgets of asyncpg, for any who ask and anything they ask; llmport's    *)
(* bookings, from what SlotBookingProofs proves of any; the approvals of   *)
(* the minimal example; and the answers of errorspy, for any ids, slugs    *)
(* and bounds.                                                             *)
(***************************************************************************)
EXTENDS MCExamples, FiniteSetTheorems, SequenceTheorems, TLAPS

-------------------------------------------------------------------------------
(* The pools.                                                              *)

TaskRecords ==
    [mode : Modes, awaits : {"nothing", "lock", "pool", "connection"}, i : Indexes, upto : Indexes,
     conn : PoolIds \cup {NoPool}, owed : SUBSET PoolIds]

(* The pool a task builds for the j-th database.                           *)
Built(t, j) == <<t, Order[j]>>

(* The place of a task in its operation.                                   *)
InPlace(t) ==
    LET k == task[t] IN
    /\ k.i <= k.upto
    /\ k.mode \in {"idle", "opening", "closing"} => k.upto = Len(Order)
    /\ k.mode = "idle" => k.i = 1
    /\ k.mode \in {"opening", "undoing"} => Does[t] = "open"
    /\ k.mode = "closing" => Does[t] = "close"
    /\ k.mode \in {"acquiring", "using"} => Does[t] = "use" /\ k.conn \in PoolIds
    /\ k.mode \in {"idle", "opening"} => k.conn = NoPool

(* A task that awaits a pool holds the lock of its database, whose         *)
(* reference is dropped; who closes has a pool that is closing.            *)
HoldsItsLock(t) ==
    LET k == task[t] IN
    k.awaits = "pool" =>
        /\ k.mode \in {"opening", "closing", "undoing"}
        /\ lock[At(t)] = t /\ ref[At(t)] = NoPool
        /\ k.mode # "opening" =>
               k.conn \in PoolIds /\ k.conn[2] = At(t) /\ pool[k.conn].at = "closing"

LocksAreHeld ==
    \A d \in DatabaseSet : lock[d] # Nobody => task[lock[d]].awaits = "pool" /\ Order[task[lock[d]].i] = d

ReferencesAreOpen ==
    \A d \in DatabaseSet : ref[d] # NoPool => ref[d][2] = d /\ pool[ref[d]].at = "open"

(* What an open has still to build is not built, what it undoes is not     *)
(* open, and what a close was owed was built and is gone where it has been. *)
NotYetBuilt(t) ==
    task[t].mode \in {"idle", "opening"} =>
        \A j \in Indexes : j >= task[t].i => pool[Built(t, j)].at = "unbuilt"
UndoneSoFar(t) ==
    task[t].mode = "undoing" =>
        \A j \in Indexes : j < task[t].i \/ j > task[t].upto => pool[Built(t, j)].at # "open"
ReachedSoFar(t) ==
    /\ \A p \in task[t].owed : pool[p].at # "unbuilt"
    /\ task[t].mode = "closing" =>
           \A p \in task[t].owed : \A j \in Indexes : p[2] = Order[j] /\ j < task[t].i => ~Live(p)

UsersKeepTheirPool(t) ==
    task[t].mode = "using" =>
        /\ t \in pool[task[t].conn].users
        /\ pool[task[t].conn].at \in {"open", "closing", "terminated"}

FiniteUses == \A p \in PoolIds : IsFiniteSet(pool[p].users)

(* What is said of each task.                                              *)
Sound(t) ==
    /\ InPlace(t) /\ HoldsItsLock(t) /\ NotYetBuilt(t) /\ UndoneSoFar(t) /\ ReachedSoFar(t)
    /\ UsersKeepTheirPool(t)
    /\ Does[t] = "open" /\ task[t].mode = "raised" =>
           \A d \in DatabaseSet : pool[<<t, d>>].at # "open"
    /\ Does[t] = "close" /\ task[t].mode = "returned" => \A p \in task[t].owed : ~Live(p)

IInv ==
    /\ TypeOK /\ FiniteUses /\ LocksAreHeld /\ ReferencesAreOpen /\ NothingIsOrphaned
    /\ \A t \in Tasks : Sound(t)

PoolRecords == [at : {"unbuilt", "open", "closing", "closed", "terminated"}, users : SUBSET Tasks]

-------------------------------------------------------------------------------
(* Helpers.                                                                *)

LEMMA Domains ==
    ASSUME TypeOK
    PROVE  /\ task \in [Tasks -> TaskRecords] /\ pool \in [PoolIds -> PoolRecords]
           /\ ref \in [DatabaseSet -> PoolIds \cup {NoPool}]
           /\ lock \in [DatabaseSet -> Tasks \cup {Nobody}]
           /\ Indexes \subseteq Nat /\ 1 \in Indexes /\ Len(Order) \in Indexes
           /\ \A j \in Indexes : j <= Len(Order) /\ Order[j] \in DatabaseSet
           /\ \A t \in Tasks : At(t) \in DatabaseSet
           /\ \A t \in Tasks : \A d \in DatabaseSet : <<t, d>> \in PoolIds
           /\ \A p \in PoolIds : p = <<p[1], p[2]>> /\ p[1] \in Tasks /\ p[2] \in DatabaseSet
<1>1. /\ task \in [Tasks -> TaskRecords] /\ pool \in [PoolIds -> PoolRecords]
      /\ ref \in [DatabaseSet -> PoolIds \cup {NoPool}]
      /\ lock \in [DatabaseSet -> Tasks \cup {Nobody}]
  BY DEF TypeOK, TaskRecords, PoolRecords
<1>2. /\ Indexes \subseteq Nat /\ 1 \in Indexes /\ Len(Order) \in Indexes
      /\ \A j \in Indexes : j <= Len(Order) /\ Order[j] \in DatabaseSet
  BY LifecycleAssumption DEF Indexes, DatabaseSet
<1>3. \A t \in Tasks : At(t) \in DatabaseSet
  BY <1>1, <1>2 DEF At, TaskRecords
<1>4. /\ \A t \in Tasks : \A d \in DatabaseSet : <<t, d>> \in PoolIds
      /\ \A p \in PoolIds : p = <<p[1], p[2]>> /\ p[1] \in Tasks /\ p[2] \in DatabaseSet
  BY DEF PoolIds
<1> QED BY <1>1, <1>2, <1>3, <1>4

(* An update of a task changes the fields it names.                        *)
LEMMA EndsFields ==
    ASSUME TypeOK, NEW t \in Tasks, NEW mode \in Modes
    PROVE  LET v == Ends(t, mode) IN
           /\ v \in TaskRecords /\ v.mode = mode /\ v.awaits = "nothing"
           /\ v.i = task[t].i /\ v.upto = task[t].upto /\ v.conn = task[t].conn
           /\ v.owed = task[t].owed
<1>1. task[t] \in TaskRecords
  BY Domains
<1> QED BY <1>1 DEF Ends, TaskRecords

LEMMA AwaitsFields ==
    ASSUME TypeOK, NEW t \in Tasks,
           NEW what \in {"nothing", "lock", "pool", "connection"}
    PROVE  LET v == Awaits(t, what) IN
           /\ v \in TaskRecords /\ v.mode = task[t].mode /\ v.awaits = what
           /\ v.i = task[t].i /\ v.upto = task[t].upto /\ v.conn = task[t].conn
           /\ v.owed = task[t].owed
<1>1. task[t] \in TaskRecords
  BY Domains
<1> QED BY <1>1 DEF Awaits, TaskRecords

(* A task that has done with a database is at the next, or has ended.      *)
LEMMA PassedFields ==
    ASSUME TypeOK, NEW t \in Tasks, InPlace(t),
           task[t].mode \in {"opening", "undoing", "closing"}
    PROVE  LET v == Passed(t) IN
           /\ v \in TaskRecords
           /\ v.upto = task[t].upto /\ v.conn = task[t].conn /\ v.owed = task[t].owed
           /\ \/ /\ v.i = task[t].i + 1 /\ task[t].i < task[t].upto
                 /\ v.mode = task[t].mode /\ v.awaits = "lock"
              \/ /\ v.i = task[t].i /\ task[t].i = task[t].upto /\ v.awaits = "nothing"
                 /\ task[t].mode = "undoing" => v.mode = "raised"
                 /\ task[t].mode # "undoing" => v.mode = "returned"
<1> DEFINE k == task[t]
<1>0. k \in TaskRecords /\ k.i \in Nat /\ k.upto \in Nat /\ k.i <= k.upto /\ k.upto <= Len(Order)
  BY Domains DEF InPlace, TaskRecords
<1>1. CASE k.i < k.upto
  <2>1. Passed(t) = [k EXCEPT !.i = @ + 1, !.awaits = "lock"]
    BY <1>1 DEF Passed
  <2>2. k.i + 1 \in Indexes
    BY <1>0, <1>1, LifecycleAssumption DEF Indexes
  <2> QED BY <1>0, <1>1, <2>1, <2>2 DEF TaskRecords
<1>2. CASE ~(k.i < k.upto)
  <2>1. k.i = k.upto
    BY <1>0, <1>2
  <2>2. CASE k.mode = "undoing"
    <3>1. Passed(t) = Ends(t, "raised")
      BY <1>2, <2>2 DEF Passed
    <3> QED BY <2>1, <2>2, <3>1, EndsFields DEF Modes
  <2>3. CASE k.mode # "undoing"
    <3>1. Passed(t) = Ends(t, "returned")
      BY <1>2, <2>3 DEF Passed
    <3> QED BY <2>1, <2>3, <3>1, EndsFields DEF Modes
  <2> QED BY <2>2, <2>3
<1> QED BY <1>1, <1>2

(* An open that fails is over, or goes back to the databases it passed.    *)
LEMMA UndoingFields ==
    ASSUME TypeOK, NEW t \in Tasks, InPlace(t), task[t].mode = "opening"
    PROVE  LET v == Undoing(t) IN
           /\ v \in TaskRecords /\ v.conn = task[t].conn /\ v.owed = task[t].owed
           /\ \/ v.mode = "raised" /\ v.awaits = "nothing" /\ task[t].i = 1 /\ v.i = 1
              \/ /\ v.mode = "undoing" /\ v.awaits = "lock" /\ v.i = 1 /\ task[t].i > 1
                 /\ v.upto = task[t].i - 1
           /\ v.i <= v.upto
<1> DEFINE k == task[t]
<1>0. k \in TaskRecords /\ k.i \in Nat /\ k.i >= 1 /\ k.i <= Len(Order) /\ k.i <= k.upto
  BY Domains DEF InPlace, TaskRecords, Indexes
<1>1. CASE k.i = 1
  <2>1. Undoing(t) = Ends(t, "raised")
    BY <1>1 DEF Undoing
  <2> QED BY <1>0, <1>1, <2>1, EndsFields DEF Modes
<1>2. CASE k.i # 1
  <2>1. Undoing(t) = [k EXCEPT !.mode = "undoing", !.awaits = "lock", !.i = 1, !.upto = k.i - 1]
    BY <1>2 DEF Undoing
  <2>2. 1 \in Indexes /\ k.i - 1 \in Indexes /\ k.i > 1 /\ 1 <= k.i - 1
    BY <1>0, <1>2, Domains, LifecycleAssumption DEF Indexes
  <2>3. "undoing" \in Modes
    BY DEF Modes
  <2> QED BY <1>0, <2>1, <2>2, <2>3 DEF TaskRecords
<1> QED BY <1>1, <1>2

-------------------------------------------------------------------------------
(* A step of one task leaves the others what they rely on: the locks they  *)
(* hold and their databases' references, the pools they are to build, the  *)
(* pools they close and the pools they use.                                *)

Own(t) ==
    /\ \A u \in Tasks \ {t} : task'[u] = task[u]
    /\ \A d \in DatabaseSet : lock[d] \in Tasks \ {t} => lock'[d] = lock[d] /\ ref'[d] = ref[d]
    /\ \A p \in PoolIds :
          \/ pool'[p].at = pool[p].at
          \/ p[1] = t /\ pool[p].at = "unbuilt" /\ pool'[p].at = "open"
          \/ pool[p].at = "open" /\ pool'[p].at = "closing"
          \/ /\ pool[p].at = "closing" /\ lock[p[2]] = t
             /\ pool'[p].at = "terminated" \/ (pool'[p].at = "closed" /\ pool[p].users = {})
    /\ \A p \in PoolIds : \A u \in Tasks \ {t} : u \in pool[p].users => u \in pool'[p].users

LEMMA OthersGoOn ==
    ASSUME IInv, NEW t \in Tasks, Own(t), NEW u \in Tasks \ {t}
    PROVE  Sound(u)'
<1>0. /\ TypeOK /\ Sound(u) /\ task'[u] = task[u] /\ task[u] \in TaskRecords
      /\ \A j \in Indexes : Built(u, j) \in PoolIds /\ Built(u, j)[1] = u
      /\ At(u) \in DatabaseSet
  BY Domains DEF IInv, Own, Built
<1>1. InPlace(u)' /\ At(u)' = At(u)
  BY <1>0 DEF Sound, InPlace, At
<1>2. HoldsItsLock(u)'
  <2> SUFFICES ASSUME task[u].awaits = "pool"
               PROVE  HoldsItsLock(u)'
    BY <1>0 DEF HoldsItsLock
  <2>1. /\ task[u].mode \in {"opening", "closing", "undoing"}
        /\ lock[At(u)] = u /\ ref[At(u)] = NoPool
        /\ task[u].mode # "opening" =>
               /\ task[u].conn \in PoolIds /\ task[u].conn[2] = At(u)
               /\ pool[task[u].conn].at = "closing"
    BY <1>0 DEF Sound, HoldsItsLock
  <2>2. lock'[At(u)] = u /\ ref'[At(u)] = NoPool
    BY <1>0, <2>1 DEF Own
  <2>3. task[u].mode # "opening" => pool'[task[u].conn].at = "closing"
    BY <2>1 DEF Own
  <2> QED BY <1>0, <1>1, <2>1, <2>2, <2>3 DEF HoldsItsLock
<1>3. NotYetBuilt(u)'
  <2>1. \A j \in Indexes : pool[Built(u, j)].at = "unbuilt" => pool'[Built(u, j)].at = "unbuilt"
    BY <1>0 DEF Own
  <2> QED BY <1>0, <2>1 DEF Sound, NotYetBuilt, Built
<1>4. \A p \in PoolIds : p[1] = u /\ pool[p].at # "open" => pool'[p].at # "open"
  BY DEF Own
<1>5. UndoneSoFar(u)'
  <2>1. \A j \in Indexes : pool[Built(u, j)].at # "open" => pool'[Built(u, j)].at # "open"
    BY <1>0, <1>4
  <2> QED BY <1>0, <2>1 DEF Sound, UndoneSoFar, Built
<1>6. \A p \in PoolIds : pool[p].at # "unbuilt" =>
          pool'[p].at # "unbuilt" /\ (~Live(p) => ~Live(p)')
  BY DEF Own, Live
<1>7. task[u].owed \subseteq PoolIds
  BY <1>0 DEF TaskRecords
<1>8. ReachedSoFar(u)'
  BY <1>0, <1>6, <1>7 DEF Sound, ReachedSoFar
<1>9. UsersKeepTheirPool(u)'
  <2> SUFFICES ASSUME task[u].mode = "using"
               PROVE  UsersKeepTheirPool(u)'
    BY <1>0 DEF UsersKeepTheirPool
  <2>1. task[u].conn \in PoolIds
    BY <1>0 DEF Sound, InPlace
  <2>2. /\ u \in pool[task[u].conn].users
        /\ pool[task[u].conn].at \in {"open", "closing", "terminated"}
    BY <1>0 DEF Sound, UsersKeepTheirPool
  <2> QED BY <1>0, <2>1, <2>2 DEF Own, UsersKeepTheirPool
<1>10. Does[u] = "open" /\ task'[u].mode = "raised" => \A d \in DatabaseSet : pool'[<<u, d>>].at # "open"
  <2>1. \A d \in DatabaseSet : <<u, d>> \in PoolIds /\ <<u, d>>[1] = u
    BY DEF PoolIds
  <2> QED BY <1>0, <1>4, <2>1 DEF Sound
<1>11. Does[u] = "close" /\ task'[u].mode = "returned" => \A p \in task'[u].owed : ~Live(p)'
  BY <1>0, <1>6, <1>7 DEF Sound, ReachedSoFar
<1> QED BY <1>1, <1>2, <1>3, <1>5, <1>8, <1>9, <1>10, <1>11 DEF Sound

LEMMA Together ==
    ASSUME IInv, NEW t \in Tasks, Own(t), Sound(t)',
           TypeOK', FiniteUses', LocksAreHeld', ReferencesAreOpen', NothingIsOrphaned'
    PROVE  IInv'
<1>1. \A u \in Tasks : Sound(u)'
  BY OthersGoOn
<1> QED BY <1>1 DEF IInv

(* A step that touches no pool and no reference: the locks change hands as *)
(* the task begins or ends to await a pool it is to create.                *)
LocksMove(t, v) ==
    \/ lock' = lock /\ task[t].awaits # "pool" /\ v.awaits # "pool"
    \/ /\ lock' = [lock EXCEPT ![At(t)] = t] /\ lock[At(t)] = Nobody
       /\ v.awaits = "pool" /\ v.i = task[t].i /\ task[t].awaits # "pool"
    \/ lock' = Unlocked(t) /\ task[t].mode = "opening" /\ v.awaits # "pool"

LEMMA QuietStep ==
    ASSUME IInv, NEW t \in Tasks, NEW v \in TaskRecords,
           task' = [task EXCEPT ![t] = v], ref' = ref, pool' = pool, LocksMove(t, v), Sound(t)'
    PROVE  IInv'
<1>0. /\ TypeOK /\ LocksAreHeld /\ NothingIsOrphaned /\ ReferencesAreOpen /\ FiniteUses
      /\ Sound(t) /\ task'[t] = v /\ \A u \in Tasks \ {t} : task'[u] = task[u]
      /\ At(t) \in DatabaseSet /\ Nobody \notin Tasks
  BY Domains, LifecycleAssumption DEF IInv
<1>1. lock' \in [DatabaseSet -> Tasks \cup {Nobody}]
  BY <1>0, Domains DEF LocksMove, Unlocked
<1>2. TypeOK'
  <2>1. task' \in [Tasks -> TaskRecords]
    BY <1>0, Domains
  <2> QED BY <1>0, <1>1, <2>1 DEF TypeOK, TaskRecords
<1>3. Own(t)
  <2>1. \A d \in DatabaseSet : lock[d] \in Tasks \ {t} => lock'[d] = lock[d]
    BY <1>0, Domains DEF LocksMove, Unlocked
  <2> QED BY <1>0, <2>1 DEF Own
<1>4. LocksAreHeld'
  <2>1. ASSUME NEW d \in DatabaseSet, lock'[d] # Nobody
        PROVE  task'[lock'[d]].awaits = "pool" /\ Order[task'[lock'[d]].i] = d
    <3>1. CASE lock' = lock /\ task[t].awaits # "pool" /\ v.awaits # "pool"
      BY <1>0, <2>1, <3>1, Domains DEF LocksAreHeld
    <3>2. CASE /\ lock' = [lock EXCEPT ![At(t)] = t]
               /\ v.awaits = "pool" /\ v.i = task[t].i /\ task[t].awaits # "pool"
      <4>1. Order[task'[t].i] = At(t)
        BY <1>0, <3>2 DEF At
      <4>2. CASE d = At(t)
        BY <1>0, <3>2, <4>1, <4>2, Domains
      <4>3. CASE d # At(t)
        BY <1>0, <2>1, <3>2, <4>3, Domains DEF LocksAreHeld
      <4> QED BY <4>2, <4>3
    <3>3. CASE lock' = Unlocked(t)
      <4>1. lock'[d] = lock[d] /\ lock[d] # t
        BY <2>1, <3>3 DEF Unlocked
      <4> QED BY <1>0, <2>1, <4>1, Domains DEF LocksAreHeld
    <3> QED BY <3>1, <3>2, <3>3 DEF LocksMove
  <2> QED BY <2>1 DEF LocksAreHeld
<1>5. ReferencesAreOpen' /\ FiniteUses'
  BY <1>0 DEF ReferencesAreOpen, FiniteUses
<1>6. NothingIsOrphaned'
  <2>1. ASSUME NEW p \in PoolIds, pool[p].at = "closing"
        PROVE  \E u \in Tasks : /\ task'[u].conn = p /\ task'[u].awaits = "pool"
                                /\ lock'[p[2]] = u
    <3>1. PICK u \in Tasks : task[u].conn = p /\ task[u].awaits = "pool" /\ lock[p[2]] = u
      BY <1>0, <2>1 DEF NothingIsOrphaned
    <3>2. p[2] \in DatabaseSet /\ p # NoPool
      BY <1>0, Domains, LifecycleAssumption
    <3>3. u # t
      BY <1>0, <3>1, <3>2 DEF LocksMove, Sound, InPlace
    <3> QED BY <1>0, <1>3, <3>1, <3>2, <3>3 DEF Own
  <2> QED BY <1>0, <2>1 DEF NothingIsOrphaned
<1> QED BY <1>2, <1>3, <1>4, <1>5, <1>6, Together

LEMMA BeginKeeps ==
    ASSUME IInv, NEW t \in Tasks, Begin(t)
    PROVE  IInv'
<1> DEFINE v == task'[t]
<1>0. TypeOK /\ Sound(t) /\ task[t] \in TaskRecords
  BY Domains DEF IInv
<1>1. /\ v.mode = (IF Does[t] = "open" THEN "opening" ELSE "closing")
      /\ v.awaits = "lock" /\ v.i = task[t].i /\ v.upto = task[t].upto
      /\ v.conn = task[t].conn /\ v.owed = {p \in PoolIds : pool[p].at = "open"}
      /\ v \in TaskRecords /\ task' = [task EXCEPT ![t] = v]
      /\ task[t].mode = "idle" /\ Does[t] # "use" /\ ref' = ref /\ lock' = lock /\ pool' = pool
  BY <1>0, Domains DEF Begin, TaskRecords, Modes
<1>2. task[t].awaits # "pool"
  BY <1>0, <1>1 DEF Sound, HoldsItsLock
<1>3. Does[t] \in {"open", "close"}
  BY <1>1, LifecycleAssumption
<1>4. InPlace(t)' /\ HoldsItsLock(t)' /\ UsersKeepTheirPool(t)' /\ UndoneSoFar(t)'
  BY <1>0, <1>1, <1>3 DEF Sound, InPlace, HoldsItsLock, UsersKeepTheirPool, UndoneSoFar
<1>5. NotYetBuilt(t)'
  BY <1>0, <1>1 DEF Sound, NotYetBuilt, Built
<1>6. ReachedSoFar(t)'
  <2>1. \A j \in Indexes : ~(j < v.i)
    BY <1>0, <1>1, Domains DEF Sound, InPlace, Indexes
  <2> QED BY <1>0, <1>1, <2>1 DEF ReachedSoFar
<1>7. Sound(t)'
  BY <1>1, <1>4, <1>5, <1>6 DEF Sound
<1> QED BY <1>1, <1>2, <1>7, QuietStep DEF LocksMove

LEMMA EnterOpenKeeps ==
    ASSUME IInv, NEW t \in Tasks, EnterOpen(t)
    PROVE  IInv'
<1> DEFINE v == task'[t]
<1>0. TypeOK /\ Sound(t) /\ task[t] \in TaskRecords /\ InPlace(t) /\ At(t) \in DatabaseSet
  BY Domains DEF IInv, Sound
<1>1. /\ task[t].mode = "opening" /\ task[t].awaits = "lock" /\ lock[At(t)] = Nobody
      /\ ref' = ref /\ pool' = pool /\ Does[t] = "open" /\ task[t].conn = NoPool
  BY <1>0 DEF EnterOpen, InPlace
<1>2. CASE ref[At(t)] # NoPool
  <2>1. v = Passed(t) /\ task' = [task EXCEPT ![t] = v] /\ lock' = lock
    BY <1>2, Domains, <1>0 DEF EnterOpen
  <2>2. /\ v \in TaskRecords
        /\ v.upto = task[t].upto /\ v.conn = task[t].conn /\ v.owed = task[t].owed
        /\ \/ /\ v.i = task[t].i + 1 /\ task[t].i < task[t].upto
              /\ v.mode = "opening" /\ v.awaits = "lock"
           \/ v.i = task[t].i /\ v.awaits = "nothing" /\ v.mode = "returned"
    BY <1>0, <1>1, <2>1, PassedFields
  <2>3. task[t].i \in Nat /\ task[t].upto \in Nat
    BY <1>0, Domains DEF TaskRecords
  <2> HIDE DEF v
  <2>4. InPlace(t)' /\ HoldsItsLock(t)' /\ UndoneSoFar(t)' /\ UsersKeepTheirPool(t)'
    BY <1>0, <1>1, <2>2, <2>3
       DEF v, Sound, InPlace, HoldsItsLock, UndoneSoFar, UsersKeepTheirPool
  <2>5. NotYetBuilt(t)'
    <3>1. v.i = task[t].i \/ v.i = task[t].i + 1
      BY <2>2
    <3>2. \A j \in Indexes : j \in Nat
      BY Domains, <1>0
    <3>3. \A j \in Indexes : j >= v.i => j >= task[t].i
      BY <2>3, <3>1, <3>2
    <3> QED BY <1>0, <1>1, <2>2, <3>3 DEF v, Sound, NotYetBuilt, Built
  <2>6. ReachedSoFar(t)'
    BY <1>0, <1>1, <2>2 DEF v, Sound, ReachedSoFar
  <2>7. Sound(t)'
    BY <1>1, <2>2, <2>4, <2>5, <2>6 DEF v, Sound
  <2> QED BY <1>1, <2>1, <2>2, <2>7, QuietStep DEF LocksMove
<1>3. CASE ref[At(t)] = NoPool
  <2>1. /\ v = Awaits(t, "pool") /\ task' = [task EXCEPT ![t] = v]
        /\ lock' = [lock EXCEPT ![At(t)] = t]
    BY <1>3, Domains, <1>0 DEF EnterOpen
  <2>2. /\ v \in TaskRecords /\ v.mode = "opening" /\ v.awaits = "pool"
        /\ v.i = task[t].i /\ v.upto = task[t].upto /\ v.conn = task[t].conn
        /\ v.owed = task[t].owed
    BY <1>0, <1>1, <2>1, AwaitsFields
  <2>3. lock'[At(t)] = t
    BY <1>0, <2>1, Domains
  <2> HIDE DEF v
  <2>4. InPlace(t)' /\ UndoneSoFar(t)' /\ UsersKeepTheirPool(t)'
    BY <1>0, <1>1, <2>2 DEF v, Sound, InPlace, UndoneSoFar, UsersKeepTheirPool
  <2>5. HoldsItsLock(t)'
    BY <1>0, <1>1, <1>3, <2>2, <2>3 DEF v, HoldsItsLock, At
  <2>6. NotYetBuilt(t)' /\ ReachedSoFar(t)'
    BY <1>0, <1>1, <2>2 DEF v, Sound, NotYetBuilt, Built, ReachedSoFar
  <2>7. Sound(t)'
    BY <1>1, <2>2, <2>4, <2>5, <2>6 DEF v, Sound
  <2> QED BY <1>1, <2>1, <2>2, <2>7, QuietStep DEF LocksMove, v
<1> QED BY <1>2, <1>3

LEMMA OpenFailsKeeps ==
    ASSUME IInv, NEW t \in Tasks, OpenFails(t)
    PROVE  IInv'
<1> DEFINE v == task'[t]
<1>0. TypeOK /\ Sound(t) /\ task[t] \in TaskRecords /\ InPlace(t) /\ NotYetBuilt(t)
  BY Domains DEF IInv, Sound
<1>1. /\ task[t].mode = "opening" /\ ref' = ref /\ pool' = pool /\ lock' = Unlocked(t)
      /\ v = Undoing(t) /\ task' = [task EXCEPT ![t] = v]
      /\ Does[t] = "open" /\ task[t].conn = NoPool
  BY <1>0, Domains DEF OpenFails, InPlace
<1>2. /\ v \in TaskRecords /\ v.conn = task[t].conn /\ v.owed = task[t].owed
      /\ \/ v.mode = "raised" /\ v.awaits = "nothing" /\ task[t].i = 1 /\ v.i = 1
         \/ /\ v.mode = "undoing" /\ v.awaits = "lock" /\ v.i = 1 /\ task[t].i > 1
            /\ v.upto = task[t].i - 1
      /\ v.i <= v.upto
  BY <1>0, <1>1, UndoingFields
<1>3. \A j \in Indexes : j >= task[t].i => pool[Built(t, j)].at = "unbuilt"
  BY <1>0, <1>1 DEF NotYetBuilt
<1>4. task[t].i \in Nat /\ \A j \in Indexes : j \in Nat /\ j >= 1
  BY <1>0, Domains DEF TaskRecords, Indexes
<1> HIDE DEF v
<1>5. InPlace(t)' /\ HoldsItsLock(t)' /\ NotYetBuilt(t)' /\ UsersKeepTheirPool(t)'
  BY <1>0, <1>1, <1>2 DEF v, InPlace, HoldsItsLock, NotYetBuilt, UsersKeepTheirPool
<1>6. UndoneSoFar(t)'
  <2>1. v.mode = "undoing" => \A j \in Indexes : j < v.i \/ j > v.upto => j >= task[t].i
    BY <1>2, <1>4
  <2> QED BY <1>1, <1>3, <2>1 DEF v, UndoneSoFar, Built
<1>7. v.mode = "raised" => \A d \in DatabaseSet : pool[<<t, d>>].at # "open"
  <2>1. v.mode = "raised" => \A j \in Indexes : pool[Built(t, j)].at # "open"
    BY <1>2, <1>3, <1>4
  <2> QED BY <2>1 DEF DatabaseSet, Built
<1>8. ReachedSoFar(t)'
  BY <1>0, <1>1, <1>2 DEF v, Sound, ReachedSoFar
<1>9. Sound(t)'
  BY <1>1, <1>2, <1>5, <1>6, <1>7, <1>8 DEF v, Sound
<1> QED BY <1>1, <1>2, <1>9, QuietStep DEF LocksMove, v

LEMMA CloseCancelledKeeps ==
    ASSUME IInv, NEW t \in Tasks, CloseCancelled(t)
    PROVE  IInv'
<1> DEFINE v == task'[t]
<1>0. TypeOK /\ Sound(t) /\ InPlace(t)
  BY DEF IInv, Sound
<1>1. /\ task[t].awaits = "lock" /\ ref' = ref /\ pool' = pool /\ lock' = lock
      /\ v = Ends(t, "broken") /\ task' = [task EXCEPT ![t] = v]
  BY <1>0, Domains DEF CloseCancelled
<1>2. /\ v \in TaskRecords /\ v.mode = "broken" /\ v.awaits = "nothing"
      /\ v.i = task[t].i /\ v.upto = task[t].upto /\ v.owed = task[t].owed
  BY <1>0, <1>1, EndsFields DEF Modes
<1> HIDE DEF v
<1>3. Sound(t)'
  BY <1>0, <1>1, <1>2
     DEF v, Sound, InPlace, HoldsItsLock, NotYetBuilt, UndoneSoFar, ReachedSoFar,
         UsersKeepTheirPool
<1> QED BY <1>1, <1>2, <1>3, QuietStep DEF LocksMove, v

LEMMA AcquireKeeps ==
    ASSUME IInv, NEW t \in Tasks, NEW d \in DatabaseSet,
           Acquire(t, d) \/ AcquireFails(t)
    PROVE  IInv'
<1> DEFINE v == task'[t]
<1>0. TypeOK /\ Sound(t) /\ InPlace(t) /\ HoldsItsLock(t) /\ task[t] \in TaskRecords
  BY Domains DEF IInv, Sound
<1>1. /\ ref' = ref /\ pool' = pool /\ lock' = lock /\ task' = [task EXCEPT ![t] = v]
      /\ task[t].mode \in {"idle", "acquiring"} /\ Does[t] = "use"
  BY <1>0, Domains DEF Acquire, AcquireFails, InPlace
<1>2. task[t].awaits # "pool"
  BY <1>0, <1>1 DEF HoldsItsLock
<1>3. /\ v \in TaskRecords /\ v.awaits # "pool"
      /\ v.i = task[t].i /\ v.upto = task[t].upto /\ v.owed = task[t].owed
      /\ v.mode = "raised" \/ (v.mode = "acquiring" /\ v.conn \in PoolIds)
  <2>1. CASE v = Ends(t, "raised")
    BY <1>0, <2>1, EndsFields DEF Modes
  <2>2. CASE ~(v = Ends(t, "raised"))
    <3>1. /\ ref[d] # NoPool
          /\ v = [task[t] EXCEPT !.mode = "acquiring", !.awaits = "connection", !.conn = ref[d]]
      BY <1>0, <2>2, Domains DEF Acquire, AcquireFails
    <3>2. ref[d] \in PoolIds /\ "acquiring" \in Modes
      BY <1>0, <3>1, Domains DEF Modes
    <3> QED BY <1>0, <3>1, <3>2 DEF TaskRecords
  <2> QED BY <2>1, <2>2
<1> HIDE DEF v
<1>4. Sound(t)'
  BY <1>0, <1>1, <1>3
     DEF v, Sound, InPlace, HoldsItsLock, NotYetBuilt, UndoneSoFar, ReachedSoFar,
         UsersKeepTheirPool
<1> QED BY <1>1, <1>2, <1>3, <1>4, QuietStep DEF LocksMove, v

(* What a close, or the compensation of an open, has done with when it     *)
(* passes a database none of whose pools is live.                          *)
LEMMA SoundPassed ==
    ASSUME IInv, NEW t \in Tasks, NEW v \in TaskRecords,
           task[t].mode \in {"undoing", "closing"}, task'[t] = v,
           v.upto = task[t].upto, v.owed = task[t].owed, v.awaits # "pool",
           \/ v.i = task[t].i + 1 /\ task[t].i < task[t].upto /\ v.mode = task[t].mode
           \/ /\ v.i = task[t].i /\ task[t].i = task[t].upto
              /\ task[t].mode = "undoing" => v.mode = "raised"
              /\ task[t].mode # "undoing" => v.mode = "returned",
           \A p \in PoolIds : p[2] = At(t) => pool'[p].at \notin {"open", "closing"},
           \A p \in PoolIds : pool[p].at # "unbuilt" => pool'[p].at # "unbuilt",
           \A p \in PoolIds : pool'[p].at = "open" => pool[p].at = "open",
           \A p \in PoolIds : pool'[p].at = "closing" => pool[p].at = "closing"
    PROVE  Sound(t)'
<1>0. /\ TypeOK /\ Sound(t) /\ InPlace(t) /\ task[t] \in TaskRecords
      /\ task[t].i \in Nat /\ task[t].upto \in Nat /\ task[t].i \in Indexes
      /\ task[t].owed \subseteq PoolIds /\ Indexes \subseteq Nat
      /\ \A j \in Indexes : j <= Len(Order) /\ Order[j] \in DatabaseSet
      /\ \A d \in DatabaseSet : \E j \in Indexes : d = Order[j]
      /\ \A j \in Indexes : Built(t, j) \in PoolIds /\ Built(t, j)[2] = Order[j]
      /\ At(t) = Order[task[t].i]
  BY Domains DEF IInv, Sound, TaskRecords, DatabaseSet, Built, At
<1>1. InPlace(t)' /\ HoldsItsLock(t)' /\ NotYetBuilt(t)' /\ UsersKeepTheirPool(t)'
  BY <1>0 DEF InPlace, HoldsItsLock, NotYetBuilt, UsersKeepTheirPool
<1>2. task[t].mode = "undoing" =>
          \A j \in Indexes : j <= task[t].i \/ j > task[t].upto => pool'[Built(t, j)].at # "open"
  <2>1. ASSUME task[t].mode = "undoing", NEW j \in Indexes, j <= task[t].i \/ j > task[t].upto
        PROVE  pool'[Built(t, j)].at # "open"
    <3>1. CASE j = task[t].i
      BY <1>0, <3>1
    <3>2. CASE j # task[t].i
      <4>1. j < task[t].i \/ j > task[t].upto
        BY <1>0, <2>1, <3>2
      <4> QED BY <1>0, <2>1, <4>1 DEF Sound, UndoneSoFar
    <3> QED BY <3>1, <3>2
  <2> QED BY <2>1
<1>3. UndoneSoFar(t)'
  <2>1. \A j \in Indexes : j < v.i \/ j > v.upto => j <= task[t].i \/ j > task[t].upto
    BY <1>0
  <2>2. v.mode = "undoing" => task[t].mode = "undoing"
    OBVIOUS
  <2> QED BY <1>2, <2>1, <2>2 DEF UndoneSoFar, Built
<1>4. v.mode = "raised" => \A d \in DatabaseSet : pool'[<<t, d>>].at # "open"
  <2>1. v.mode = "raised" => \A j \in Indexes : pool'[Built(t, j)].at # "open"
    BY <1>0, <1>2
  <2> QED BY <1>0, <2>1 DEF Built
<1>5. task[t].mode = "closing" =>
          \A p \in task[t].owed : \A j \in Indexes :
              p[2] = Order[j] /\ j <= task[t].i => pool'[p].at \notin {"open", "closing"}
  <2>1. ASSUME task[t].mode = "closing", NEW p \in task[t].owed, NEW j \in Indexes,
               p[2] = Order[j], j <= task[t].i
        PROVE  pool'[p].at \notin {"open", "closing"}
    <3>1. CASE j = task[t].i
      BY <1>0, <2>1, <3>1
    <3>2. CASE j # task[t].i
      <4>1. j < task[t].i
        BY <1>0, <2>1, <3>2
      <4> QED BY <1>0, <2>1, <4>1 DEF Sound, ReachedSoFar, Live
    <3> QED BY <3>1, <3>2
  <2> QED BY <2>1
<1>6. ReachedSoFar(t)'
  <2>0. /\ v.i = task[t].i \/ v.i = task[t].i + 1
        /\ task[t].i \in Nat /\ \A j \in Indexes : j \in Nat
    BY <1>0
  <2>1. \A j \in Indexes : j < v.i => j <= task[t].i
    BY <2>0
  <2>2. v.mode = "closing" => task[t].mode = "closing"
    OBVIOUS
  <2> QED BY <1>0, <1>5, <2>1, <2>2 DEF Sound, ReachedSoFar, Live
<1>7. Does[t] = "close" /\ v.mode = "returned" => \A p \in v.owed : ~Live(p)'
  <2>1. ASSUME v.mode = "returned", NEW p \in v.owed
        PROVE  ~Live(p)'
    <3>1. task[t].mode = "closing" /\ task[t].i = task[t].upto /\ task[t].upto = Len(Order)
      BY <1>0, <2>1 DEF InPlace
    <3>2. p \in PoolIds /\ p[2] \in DatabaseSet
      BY <1>0, <2>1 DEF PoolIds
    <3>3. PICK j \in Indexes : p[2] = Order[j]
      BY <1>0, <3>2
    <3> QED BY <1>0, <1>5, <3>1, <3>3 DEF Live
  <2> QED BY <2>1
<1> QED BY <1>1, <1>3, <1>4, <1>6, <1>7 DEF Sound

-------------------------------------------------------------------------------
(* The steps that touch pools.                                             *)

LEMMA NoneLive ==
    ASSUME IInv, NEW d \in DatabaseSet, ref[d] = NoPool, lock[d] = Nobody
    PROVE  \A p \in PoolIds : p[2] = d => pool[p].at \notin {"open", "closing"}
<1>1. NothingIsOrphaned /\ Nobody \notin Tasks /\ NoPool \notin PoolIds
  BY LifecycleAssumption DEF IInv
<1> QED BY <1>1 DEF NothingIsOrphaned

LEMMA EnterCloseKeeps ==
    ASSUME IInv, NEW t \in Tasks, EnterClose(t)
    PROVE  IInv'
<1> DEFINE v == task'[t]
           p == ref[At(t)]
<1>0. /\ TypeOK /\ Sound(t) /\ InPlace(t) /\ task[t] \in TaskRecords /\ At(t) \in DatabaseSet
      /\ LocksAreHeld /\ ReferencesAreOpen /\ NothingIsOrphaned /\ FiniteUses
      /\ Nobody \notin Tasks /\ NoPool \notin PoolIds
  BY Domains, LifecycleAssumption DEF IInv, Sound
<1>1. /\ task[t].mode \in {"closing", "undoing"} /\ task[t].awaits = "lock"
      /\ lock[At(t)] = Nobody
  BY DEF EnterClose
<1>2. CASE p = NoPool
  <2>1. /\ v = Passed(t) /\ task' = [task EXCEPT ![t] = v] /\ lock' = lock /\ pool' = pool
        /\ ref' = [ref EXCEPT ![At(t)] = NoPool]
    BY <1>0, <1>2, Domains DEF EnterClose
  <2>2. ref' = ref
    BY <1>0, <1>2, <2>1, Domains
  <2>3. /\ v \in TaskRecords
        /\ v.upto = task[t].upto /\ v.conn = task[t].conn /\ v.owed = task[t].owed
        /\ \/ /\ v.i = task[t].i + 1 /\ task[t].i < task[t].upto
              /\ v.mode = task[t].mode /\ v.awaits = "lock"
           \/ /\ v.i = task[t].i /\ task[t].i = task[t].upto /\ v.awaits = "nothing"
              /\ task[t].mode = "undoing" => v.mode = "raised"
              /\ task[t].mode # "undoing" => v.mode = "returned"
    BY <1>0, <1>1, <2>1, PassedFields
  <2>4. \A q \in PoolIds : q[2] = At(t) => pool'[q].at \notin {"open", "closing"}
    BY <1>0, <1>1, <1>2, <2>1, NoneLive
  <2> HIDE DEF v
  <2>5. task'[t] = v
    BY DEF v
  <2>6. Sound(t)'
    BY <1>1, <2>1, <2>3, <2>4, <2>5, SoundPassed
  <2> QED BY <1>1, <2>1, <2>2, <2>3, <2>6, QuietStep DEF LocksMove
<1>3. CASE p # NoPool
  <2>1. /\ p \in PoolIds /\ p[2] = At(t) /\ pool[p].at = "open"
        /\ pool[p] \in PoolRecords
    BY <1>0, <1>3, Domains DEF ReferencesAreOpen
  <2>2. /\ ref' = [ref EXCEPT ![At(t)] = NoPool] /\ lock' = [lock EXCEPT ![At(t)] = t]
        /\ pool' = [pool EXCEPT ![p].at = "closing"]
        /\ v = [Awaits(t, "pool") EXCEPT !.conn = p] /\ task' = [task EXCEPT ![t] = v]
    BY <1>0, <1>3, Domains DEF EnterClose
  <2>3. /\ Awaits(t, "pool") \in TaskRecords /\ Awaits(t, "pool").mode = task[t].mode
        /\ Awaits(t, "pool").awaits = "pool" /\ Awaits(t, "pool").i = task[t].i
        /\ Awaits(t, "pool").upto = task[t].upto /\ Awaits(t, "pool").owed = task[t].owed
    BY <1>0, AwaitsFields
  <2>4. /\ v \in TaskRecords /\ v.mode = task[t].mode /\ v.awaits = "pool" /\ v.i = task[t].i
        /\ v.upto = task[t].upto /\ v.owed = task[t].owed /\ v.conn = p
    BY <2>1, <2>2, <2>3 DEF TaskRecords
  <2>5. /\ pool'[p].at = "closing" /\ pool'[p].users = pool[p].users
        /\ pool'[p] \in PoolRecords /\ \A q \in PoolIds \ {p} : pool'[q] = pool[q]
        /\ ref'[At(t)] = NoPool /\ lock'[At(t)] = t
        /\ \A d \in DatabaseSet \ {At(t)} : ref'[d] = ref[d] /\ lock'[d] = lock[d]
        /\ \A u \in Tasks \ {t} : task'[u] = task[u]
    BY <1>0, <2>1, <2>2, Domains DEF PoolRecords
  <2>6. /\ task' \in [Tasks -> TaskRecords] /\ pool' \in [PoolIds -> PoolRecords]
        /\ ref' \in [DatabaseSet -> PoolIds \cup {NoPool}]
        /\ lock' \in [DatabaseSet -> Tasks \cup {Nobody}]
    BY <1>0, <2>2, <2>4, <2>5, Domains
  <2> HIDE DEF v, p
  <2>7. Own(t)
    BY <1>0, <1>1, <2>1, <2>5 DEF Own
  <2>8. InPlace(t)' /\ NotYetBuilt(t)' /\ UsersKeepTheirPool(t)'
    BY <1>0, <1>1, <2>4 DEF v, InPlace, NotYetBuilt, UsersKeepTheirPool
  <2>9. HoldsItsLock(t)'
    BY <1>1, <2>1, <2>4, <2>5 DEF v, HoldsItsLock, At
  <2>10. /\ \A q \in PoolIds : pool[q].at # "open" => pool'[q].at # "open"
         /\ \A q \in PoolIds : pool[q].at # "unbuilt" => pool'[q].at # "unbuilt"
         /\ \A q \in PoolIds : ~Live(q) => ~Live(q)'
    BY <2>1, <2>5 DEF Live
  <2>11. UndoneSoFar(t)'
    <3>1. \A j \in Indexes : Built(t, j) \in PoolIds
      BY <1>0, Domains DEF Built
    <3> QED BY <1>0, <2>4, <2>10, <3>1 DEF v, Sound, UndoneSoFar, Built
  <2>12. ReachedSoFar(t)'
    <3>1. task[t].owed \subseteq PoolIds
      BY <1>0 DEF TaskRecords
    <3> QED BY <1>0, <2>4, <2>10, <3>1 DEF v, Sound, ReachedSoFar
  <2>13. Sound(t)'
    BY <1>1, <2>4, <2>8, <2>9, <2>11, <2>12 DEF v, Sound
  <2>14. TypeOK' /\ FiniteUses'
    <3>1. \A q \in PoolIds : pool'[q].users = pool[q].users
      BY <2>5
    <3> QED BY <1>0, <2>6, <3>1 DEF TypeOK, FiniteUses, TaskRecords, PoolRecords
  <2>15. LocksAreHeld'
    <3>1. ASSUME NEW d \in DatabaseSet, lock'[d] # Nobody
          PROVE  task'[lock'[d]].awaits = "pool" /\ Order[task'[lock'[d]].i] = d
      <4>1. CASE d = At(t)
        BY <2>4, <2>5, <4>1 DEF v, At
      <4>2. CASE d # At(t)
        BY <1>0, <1>1, <2>5, <3>1, <4>2, Domains DEF LocksAreHeld
      <4> QED BY <4>1, <4>2
    <3> QED BY <3>1 DEF LocksAreHeld
  <2>16. ReferencesAreOpen'
    <3>1. ASSUME NEW d \in DatabaseSet, ref'[d] # NoPool
          PROVE  ref'[d][2] = d /\ pool'[ref'[d]].at = "open"
      <4>1. d # At(t) /\ ref'[d] = ref[d]
        BY <2>5, <3>1
      <4>2. ref[d][2] = d /\ pool[ref[d]].at = "open" /\ ref[d] \in PoolIds
        BY <1>0, <3>1, <4>1, Domains DEF ReferencesAreOpen
      <4> QED BY <2>1, <2>5, <4>1, <4>2
    <3> QED BY <3>1 DEF ReferencesAreOpen
  <2>17. NothingIsOrphaned'
    <3>1. ASSUME NEW q \in PoolIds, pool'[q].at = "open"
          PROVE  ref'[q[2]] = q
      <4>1. q # p /\ pool[q].at = "open" /\ ref[q[2]] = q /\ q[2] \in DatabaseSet
        BY <1>0, <2>5, <3>1, Domains DEF NothingIsOrphaned
      <4>2. q[2] # At(t)
        BY <4>1 DEF p
      <4> QED BY <2>5, <4>1, <4>2
    <3>2. ASSUME NEW q \in PoolIds, pool'[q].at = "closing"
          PROVE  \E u \in Tasks : task'[u].conn = q /\ task'[u].awaits = "pool" /\ lock'[q[2]] = u
      <4>1. CASE q = p
        BY <2>1, <2>4, <2>5, <4>1 DEF v
      <4>2. CASE q # p
        <5>1. PICK u \in Tasks : task[u].conn = q /\ task[u].awaits = "pool" /\ lock[q[2]] = u
          BY <1>0, <2>5, <3>2, <4>2 DEF NothingIsOrphaned
        <5>2. u # t /\ q[2] # At(t) /\ q[2] \in DatabaseSet
          BY <1>0, <1>1, <5>1, Domains
        <5> QED BY <2>5, <5>1, <5>2
      <4> QED BY <4>1, <4>2
    <3> QED BY <3>1, <3>2 DEF NothingIsOrphaned
  <2> QED BY <2>7, <2>13, <2>14, <2>15, <2>16, <2>17, Together
<1> QED BY <1>2, <1>3

LEMMA PoolCreatedKeeps ==
    ASSUME IInv, NEW t \in Tasks, PoolCreated(t)
    PROVE  IInv'
<1> DEFINE v == task'[t]
           p == <<t, At(t)>>
<1>0. /\ TypeOK /\ Sound(t) /\ InPlace(t) /\ HoldsItsLock(t) /\ NotYetBuilt(t)
      /\ task[t] \in TaskRecords /\ At(t) \in DatabaseSet
      /\ LocksAreHeld /\ ReferencesAreOpen /\ NothingIsOrphaned /\ FiniteUses
      /\ Nobody \notin Tasks /\ NoPool \notin PoolIds
  BY Domains, LifecycleAssumption DEF IInv, Sound
<1>1. /\ task[t].mode = "opening" /\ task[t].awaits = "pool" /\ Does[t] = "open"
      /\ task[t].conn = NoPool /\ lock[At(t)] = t /\ ref[At(t)] = NoPool
  BY <1>0 DEF PoolCreated, InPlace, HoldsItsLock
<1>2. task[t].i \in Nat /\ task[t].i \in Indexes /\ \A j \in Indexes : j \in Nat
  BY <1>0, Domains DEF TaskRecords
<1>3. p \in PoolIds /\ p[1] = t /\ p[2] = At(t) /\ pool[p].at = "unbuilt" /\ pool[p] \in PoolRecords
  BY <1>0, <1>1, <1>2, Domains DEF NotYetBuilt, Built, At
<1>4. /\ ref' = [ref EXCEPT ![At(t)] = p] /\ lock' = [lock EXCEPT ![At(t)] = Nobody]
      /\ pool' = [pool EXCEPT ![p].at = "open"]
      /\ v = Passed(t) /\ task' = [task EXCEPT ![t] = v]
  BY <1>0, Domains DEF PoolCreated
<1>5. /\ v \in TaskRecords /\ v.conn = NoPool /\ v.upto = task[t].upto /\ v.owed = task[t].owed
      /\ v.awaits # "pool"
      /\ \/ v.i = task[t].i + 1 /\ task[t].i < task[t].upto /\ v.mode = "opening"
         \/ v.i = task[t].i /\ v.mode = "returned"
  BY <1>0, <1>1, <1>4, PassedFields
<1>6. /\ pool'[p].at = "open" /\ pool'[p].users = pool[p].users
      /\ pool'[p] \in PoolRecords /\ \A q \in PoolIds \ {p} : pool'[q] = pool[q]
      /\ ref'[At(t)] = p /\ lock'[At(t)] = Nobody
      /\ \A d \in DatabaseSet \ {At(t)} : ref'[d] = ref[d] /\ lock'[d] = lock[d]
      /\ \A u \in Tasks \ {t} : task'[u] = task[u]
  BY <1>0, <1>3, <1>4, Domains DEF PoolRecords
<1>7. /\ task' \in [Tasks -> TaskRecords] /\ pool' \in [PoolIds -> PoolRecords]
      /\ ref' \in [DatabaseSet -> PoolIds \cup {NoPool}]
      /\ lock' \in [DatabaseSet -> Tasks \cup {Nobody}]
  BY <1>0, <1>3, <1>4, <1>5, <1>6, Domains
<1>8. /\ \A q \in PoolIds \ {p} : q[2] = At(t) => pool[q].at \notin {"open", "closing"}
      /\ \A q \in PoolIds : pool[q].at = "closing" =>
            \E u \in Tasks \ {t} : /\ task[u].conn = q /\ task[u].awaits = "pool"
                                   /\ lock[q[2]] = u /\ q[2] # At(t)
  BY <1>0, <1>1 DEF NothingIsOrphaned
<1> HIDE DEF v, p
<1>9. Own(t)
  BY <1>0, <1>1, <1>3, <1>6 DEF Own
<1>10. InPlace(t)' /\ HoldsItsLock(t)' /\ UsersKeepTheirPool(t)' /\ UndoneSoFar(t)'
  <2>1. task[t].upto \in Nat /\ task[t].i <= task[t].upto /\ task[t].upto = Len(Order)
    BY <1>0, <1>1, Domains DEF InPlace, TaskRecords
  <2> QED BY <1>1, <1>2, <1>5, <2>1 DEF v, InPlace, HoldsItsLock, UsersKeepTheirPool, UndoneSoFar
<1>11. NotYetBuilt(t)'
  <2>1. ASSUME v.mode = "opening", NEW j \in Indexes, j >= v.i
        PROVE  pool'[Built(t, j)].at = "unbuilt"
    <3>1. v.i = task[t].i + 1
      BY <1>5, <2>1
    <3>2. j \in Nat /\ j >= task[t].i /\ j # task[t].i
      BY <1>2, <2>1, <3>1
    <3>3. Order[j] # Order[task[t].i]
      BY <1>2, <3>2, LifecycleAssumption
    <3>4. Built(t, j) \in PoolIds /\ Built(t, j) # p
      BY <1>0, <3>3, Domains DEF Built, p, At
    <3>5. pool[Built(t, j)].at = "unbuilt"
      BY <1>0, <1>1, <3>2 DEF NotYetBuilt
    <3> QED BY <1>6, <3>4, <3>5
  <2> QED BY <1>5, <2>1 DEF v, NotYetBuilt, Built
<1>12. ReachedSoFar(t)'
  <2>1. \A q \in PoolIds : pool[q].at # "unbuilt" => pool'[q].at # "unbuilt"
    BY <1>3, <1>6
  <2>2. task[t].owed \subseteq PoolIds
    BY <1>0 DEF TaskRecords
  <2> QED BY <1>0, <1>5, <2>1, <2>2 DEF v, Sound, ReachedSoFar
<1>13. Sound(t)'
  BY <1>1, <1>5, <1>10, <1>11, <1>12 DEF v, Sound
<1>14. TypeOK' /\ FiniteUses'
  <2>1. \A q \in PoolIds : pool'[q].users = pool[q].users
    BY <1>6
  <2> QED BY <1>0, <1>7, <2>1 DEF TypeOK, FiniteUses, TaskRecords, PoolRecords
<1>15. LocksAreHeld'
  <2>1. ASSUME NEW d \in DatabaseSet, lock'[d] # Nobody
        PROVE  task'[lock'[d]].awaits = "pool" /\ Order[task'[lock'[d]].i] = d
    <3>1. d # At(t) /\ lock'[d] = lock[d]
      BY <1>6, <2>1
    <3>2. /\ lock[d] \in Tasks /\ task[lock[d]].awaits = "pool"
          /\ Order[task[lock[d]].i] = d
      BY <1>0, <2>1, <3>1, Domains DEF LocksAreHeld
    <3>3. lock[d] # t
      BY <3>1, <3>2 DEF At
    <3> QED BY <1>6, <3>1, <3>2, <3>3
  <2> QED BY <2>1 DEF LocksAreHeld
<1>16. ReferencesAreOpen'
  <2>1. ASSUME NEW d \in DatabaseSet, ref'[d] # NoPool
        PROVE  ref'[d][2] = d /\ pool'[ref'[d]].at = "open"
    <3>1. CASE d = At(t)
      BY <1>3, <1>6, <3>1
    <3>2. CASE d # At(t)
      <4>1. /\ ref'[d] = ref[d] /\ ref[d] \in PoolIds /\ ref[d][2] = d
            /\ pool[ref[d]].at = "open"
        BY <1>0, <1>6, <2>1, <3>2, Domains DEF ReferencesAreOpen
      <4> QED BY <1>3, <1>6, <4>1
    <3> QED BY <3>1, <3>2
  <2> QED BY <2>1 DEF ReferencesAreOpen
<1>17. NothingIsOrphaned'
  <2>1. ASSUME NEW q \in PoolIds, pool'[q].at = "open"
        PROVE  ref'[q[2]] = q
    <3>1. CASE q = p
      BY <1>3, <1>6, <3>1
    <3>2. CASE q # p
      <4>1. pool[q].at = "open" /\ q[2] \in DatabaseSet
        BY <1>0, <1>6, <2>1, <3>2, Domains
      <4>2. ref[q[2]] = q /\ q[2] # At(t)
        BY <1>0, <1>8, <3>2, <4>1 DEF NothingIsOrphaned
      <4> QED BY <1>6, <4>1, <4>2
    <3> QED BY <3>1, <3>2
  <2>2. ASSUME NEW q \in PoolIds, pool'[q].at = "closing"
        PROVE  \E u \in Tasks : task'[u].conn = q /\ task'[u].awaits = "pool" /\ lock'[q[2]] = u
    <3>1. q # p /\ pool[q].at = "closing" /\ q[2] \in DatabaseSet
      BY <1>0, <1>6, <2>2, Domains
    <3>2. PICK u \in Tasks \ {t} : /\ task[u].conn = q /\ task[u].awaits = "pool"
                                   /\ lock[q[2]] = u /\ q[2] # At(t)
      BY <1>8, <3>1
    <3> QED BY <1>6, <3>1, <3>2
  <2> QED BY <2>1, <2>2 DEF NothingIsOrphaned
<1> QED BY <1>9, <1>13, <1>14, <1>15, <1>16, <1>17, Together

(* A pool that has closed or was terminated: its database has none left.   *)
LEMMA PoolEndsFacts ==
    ASSUME IInv, NEW t \in Tasks, NEW how \in {"closed", "terminated"},
           PoolEnds(t, how)
    PROVE  LET p == task[t].conn IN
           /\ p \in PoolIds /\ p[2] = At(t) /\ pool[p].at = "closing"
           /\ lock[At(t)] = t /\ ref[At(t)] = NoPool
           /\ pool'[p].at = how /\ pool'[p].users = pool[p].users
           /\ \A q \in PoolIds \ {p} : pool'[q] = pool[q]
           /\ \A q \in PoolIds \ {p} : q[2] = At(t) => pool[q].at \notin {"open", "closing"}
           /\ lock'[At(t)] = Nobody /\ ref' = ref
           /\ \A d \in DatabaseSet \ {At(t)} : lock'[d] = lock[d]
           /\ pool' \in [PoolIds -> PoolRecords]
           /\ lock' \in [DatabaseSet -> Tasks \cup {Nobody}]
<1> DEFINE p == task[t].conn
<1>0. /\ TypeOK /\ HoldsItsLock(t) /\ At(t) \in DatabaseSet /\ NothingIsOrphaned
      /\ Nobody \notin Tasks /\ NoPool \notin PoolIds
  BY Domains, LifecycleAssumption DEF IInv, Sound
<1>1. /\ p \in PoolIds /\ p[2] = At(t) /\ pool[p].at = "closing"
      /\ lock[At(t)] = t /\ ref[At(t)] = NoPool
  BY <1>0 DEF PoolEnds, HoldsItsLock
<1>2. /\ pool' = [pool EXCEPT ![p].at = how] /\ lock' = [lock EXCEPT ![At(t)] = Nobody]
      /\ ref' = ref
  BY DEF PoolEnds
<1>3. pool[p] \in PoolRecords
  BY <1>0, <1>1, Domains
<1> HIDE DEF p
<1>4. /\ pool'[p].at = how /\ pool'[p].users = pool[p].users /\ pool'[p] \in PoolRecords
      /\ \A q \in PoolIds \ {p} : pool'[q] = pool[q]
  BY <1>0, <1>1, <1>2, <1>3, Domains DEF PoolRecords
<1>5. /\ pool' \in [PoolIds -> PoolRecords] /\ lock'[At(t)] = Nobody
      /\ lock' \in [DatabaseSet -> Tasks \cup {Nobody}]
      /\ \A d \in DatabaseSet \ {At(t)} : lock'[d] = lock[d]
  BY <1>0, <1>1, <1>2, <1>4, Domains
<1>6. \A q \in PoolIds \ {p} : q[2] = At(t) => pool[q].at \notin {"open", "closing"}
  BY <1>0, <1>1 DEF NothingIsOrphaned, p
<1> QED BY <1>1, <1>2, <1>4, <1>5, <1>6 DEF p

LEMMA PoolEndsKeeps ==
    ASSUME IInv, NEW t \in Tasks, NEW how \in {"closed", "terminated"},
           PoolEnds(t, how), how = "closed" => pool[task[t].conn].users = {},
           NEW v \in TaskRecords, task' = [task EXCEPT ![t] = v], v.awaits # "pool", Sound(t)'
    PROVE  IInv'
<1> DEFINE p == task[t].conn
<1>0. /\ TypeOK /\ At(t) \in DatabaseSet
      /\ LocksAreHeld /\ ReferencesAreOpen /\ NothingIsOrphaned /\ FiniteUses
      /\ Nobody \notin Tasks /\ NoPool \notin PoolIds
      /\ task'[t] = v /\ \A u \in Tasks \ {t} : task'[u] = task[u]
      /\ task' \in [Tasks -> TaskRecords]
  BY Domains, LifecycleAssumption DEF IInv
<1>1. /\ p \in PoolIds /\ p[2] = At(t) /\ pool[p].at = "closing"
      /\ lock[At(t)] = t /\ ref[At(t)] = NoPool
      /\ pool'[p].at = how /\ pool'[p].users = pool[p].users
      /\ \A q \in PoolIds \ {p} : pool'[q] = pool[q]
      /\ \A q \in PoolIds \ {p} : q[2] = At(t) => pool[q].at \notin {"open", "closing"}
      /\ lock'[At(t)] = Nobody /\ ref' = ref
      /\ \A d \in DatabaseSet \ {At(t)} : lock'[d] = lock[d]
      /\ pool' \in [PoolIds -> PoolRecords]
      /\ lock' \in [DatabaseSet -> Tasks \cup {Nobody}]
  BY PoolEndsFacts
<1>2. how = "closed" => pool[p].users = {}
  OBVIOUS
<1> HIDE DEF p
<1>3. Own(t)
  BY <1>0, <1>1, <1>2 DEF Own
<1>4. TypeOK' /\ FiniteUses'
  <2>1. \A q \in PoolIds : pool'[q].users = pool[q].users
    BY <1>1
  <2> QED BY <1>0, <1>1, <2>1 DEF TypeOK, FiniteUses, TaskRecords, PoolRecords
<1>5. LocksAreHeld'
  <2>1. ASSUME NEW d \in DatabaseSet, lock'[d] # Nobody
        PROVE  task'[lock'[d]].awaits = "pool" /\ Order[task'[lock'[d]].i] = d
    <3>1. d # At(t) /\ lock'[d] = lock[d]
      BY <1>1, <2>1
    <3>2. /\ lock[d] \in Tasks /\ task[lock[d]].awaits = "pool"
          /\ Order[task[lock[d]].i] = d
      BY <1>0, <2>1, <3>1, Domains DEF LocksAreHeld
    <3>3. lock[d] # t
      BY <3>1, <3>2 DEF At
    <3> QED BY <1>0, <3>1, <3>2, <3>3
  <2> QED BY <2>1 DEF LocksAreHeld
<1>6. ReferencesAreOpen'
  <2>1. ASSUME NEW d \in DatabaseSet, ref'[d] # NoPool
        PROVE  ref'[d][2] = d /\ pool'[ref'[d]].at = "open"
    <3>1. ref[d] \in PoolIds /\ ref[d][2] = d /\ pool[ref[d]].at = "open"
      BY <1>0, <1>1, <2>1, Domains DEF ReferencesAreOpen
    <3> QED BY <1>1, <3>1
  <2> QED BY <2>1 DEF ReferencesAreOpen
<1>7. NothingIsOrphaned'
  <2>1. ASSUME NEW q \in PoolIds, pool'[q].at \in {"open", "closing"}
        PROVE  q # p /\ pool'[q].at = pool[q].at /\ q[2] # At(t) /\ q[2] \in DatabaseSet
    BY <1>0, <1>1, <2>1, Domains
  <2>2. ASSUME NEW q \in PoolIds, pool'[q].at = "open"
        PROVE  ref'[q[2]] = q
    BY <1>0, <1>1, <2>1, <2>2 DEF NothingIsOrphaned
  <2>3. ASSUME NEW q \in PoolIds, pool'[q].at = "closing"
        PROVE  \E u \in Tasks : task'[u].conn = q /\ task'[u].awaits = "pool" /\ lock'[q[2]] = u
    <3>1. q # p /\ pool[q].at = "closing" /\ q[2] # At(t) /\ q[2] \in DatabaseSet
      BY <2>1, <2>3
    <3>2. PICK u \in Tasks : task[u].conn = q /\ task[u].awaits = "pool" /\ lock[q[2]] = u
      BY <1>0, <3>1 DEF NothingIsOrphaned
    <3>3. u # t
      BY <3>1, <3>2 DEF p
    <3> QED BY <1>0, <1>1, <3>1, <3>2, <3>3
  <2> QED BY <2>2, <2>3 DEF NothingIsOrphaned
<1> QED BY <1>0, <1>3, <1>4, <1>5, <1>6, <1>7, Together

LEMMA ClosedKeeps ==
    ASSUME IInv, NEW t \in Tasks, NEW how \in {"closed", "terminated"},
           PoolEnds(t, how), how = "closed" => pool[task[t].conn].users = {},
           task' = [task EXCEPT ![t] = [Passed(t) EXCEPT !.conn = NoPool]]
    PROVE  IInv'
<1> DEFINE v == [Passed(t) EXCEPT !.conn = NoPool]
<1>0. TypeOK /\ Sound(t) /\ InPlace(t) /\ task[t].mode \in {"closing", "undoing"}
  BY DEF IInv, Sound, PoolEnds
<1>1. /\ Passed(t) \in TaskRecords
      /\ Passed(t).upto = task[t].upto /\ Passed(t).owed = task[t].owed
      /\ \/ /\ Passed(t).i = task[t].i + 1 /\ task[t].i < task[t].upto
            /\ Passed(t).mode = task[t].mode /\ Passed(t).awaits = "lock"
         \/ /\ Passed(t).i = task[t].i /\ task[t].i = task[t].upto /\ Passed(t).awaits = "nothing"
            /\ task[t].mode = "undoing" => Passed(t).mode = "raised"
            /\ task[t].mode # "undoing" => Passed(t).mode = "returned"
  BY <1>0, PassedFields
<1>2. /\ v \in TaskRecords /\ v.upto = Passed(t).upto /\ v.owed = Passed(t).owed
      /\ v.i = Passed(t).i /\ v.mode = Passed(t).mode /\ v.awaits = Passed(t).awaits
  BY <1>1 DEF TaskRecords
<1>3. task'[t] = v
  BY <1>0, Domains
<1> HIDE DEF v
<1>4. LET p == task[t].conn IN
      /\ p \in PoolIds /\ pool[p].at = "closing" /\ pool'[p].at = how
      /\ \A q \in PoolIds \ {p} : pool'[q] = pool[q]
      /\ \A q \in PoolIds \ {p} : q[2] = At(t) => pool[q].at \notin {"open", "closing"}
  BY PoolEndsFacts
<1>5. /\ \A q \in PoolIds : q[2] = At(t) => pool'[q].at \notin {"open", "closing"}
      /\ \A q \in PoolIds : pool[q].at # "unbuilt" => pool'[q].at # "unbuilt"
      /\ \A q \in PoolIds : pool'[q].at = "open" => pool[q].at = "open"
      /\ \A q \in PoolIds : pool'[q].at = "closing" => pool[q].at = "closing"
  BY <1>4
<1>6. /\ v.upto = task[t].upto /\ v.owed = task[t].owed /\ v.awaits # "pool"
      /\ \/ v.i = task[t].i + 1 /\ task[t].i < task[t].upto /\ v.mode = task[t].mode
         \/ /\ v.i = task[t].i /\ task[t].i = task[t].upto
            /\ task[t].mode = "undoing" => v.mode = "raised"
            /\ task[t].mode # "undoing" => v.mode = "returned"
  BY <1>1, <1>2
<1>7. Sound(t)'
  BY <1>0, <1>2, <1>3, <1>5, <1>6, SoundPassed
<1>8. task' = [task EXCEPT ![t] = v]
  BY DEF v
<1> QED BY <1>2, <1>6, <1>7, <1>8, PoolEndsKeeps

LEMMA CloseRaisesKeeps ==
    ASSUME IInv, NEW t \in Tasks, CloseRaises(t)
    PROVE  IInv'
<1> DEFINE v == [Ends(t, "broken") EXCEPT !.conn = NoPool]
<1>0. /\ TypeOK /\ Sound(t) /\ InPlace(t) /\ PoolEnds(t, "terminated")
      /\ task' = [task EXCEPT ![t] = v] /\ task[t] \in TaskRecords
  BY Domains DEF IInv, Sound, CloseRaises
<1>1. /\ Ends(t, "broken") \in TaskRecords /\ Ends(t, "broken").mode = "broken"
      /\ Ends(t, "broken").awaits = "nothing" /\ Ends(t, "broken").i = task[t].i
      /\ Ends(t, "broken").upto = task[t].upto /\ Ends(t, "broken").owed = task[t].owed
  BY <1>0, EndsFields DEF Modes
<1>2. /\ v \in TaskRecords /\ v.mode = "broken" /\ v.awaits = "nothing" /\ v.i = task[t].i
      /\ v.upto = task[t].upto /\ v.owed = task[t].owed
  BY <1>1 DEF TaskRecords
<1>3. task'[t] = v
  BY <1>0, Domains
<1> HIDE DEF v
<1>4. LET p == task[t].conn IN
      /\ p \in PoolIds /\ pool'[p].at = "terminated" /\ \A q \in PoolIds \ {p} : pool'[q] = pool[q]
  BY <1>0, PoolEndsFacts
<1>5. \A q \in task[t].owed : q \in PoolIds /\ pool[q].at # "unbuilt"
  BY <1>0 DEF Sound, ReachedSoFar, TaskRecords
<1>6. \A q \in task[t].owed : pool'[q].at # "unbuilt"
  BY <1>4, <1>5
<1>7. task[t].i <= task[t].upto
  BY <1>0 DEF InPlace
<1>8. Sound(t)'
  BY <1>2, <1>3, <1>6, <1>7
     DEF Sound, InPlace, HoldsItsLock, NotYetBuilt, UndoneSoFar, ReachedSoFar, UsersKeepTheirPool
<1> QED BY <1>0, <1>2, <1>8, PoolEndsKeeps

(* A step that only changes the users of one pool, t among them.           *)
LEMMA UsersStep ==
    ASSUME IInv, NEW t \in Tasks, NEW v \in TaskRecords, NEW p \in PoolIds,
           NEW S \in SUBSET Tasks, IsFiniteSet(S), Cardinality(S) <= MaxSize,
           pool[p].users \ {t} \subseteq S, task[t].mode \in {"acquiring", "using"},
           task' = [task EXCEPT ![t] = v], pool' = [pool EXCEPT ![p].users = S],
           ref' = ref, lock' = lock, v.awaits # "pool",
           v.i = task[t].i, v.upto = task[t].upto, v.owed = task[t].owed,
           \/ v.mode \in {"raised", "returned"}
           \/ v.mode = "using" /\ v.conn = p /\ t \in S /\ pool[p].at \in {"open", "closing"}
    PROVE  IInv'
<1>0. /\ TypeOK /\ Sound(t) /\ InPlace(t) /\ HoldsItsLock(t) /\ task[t] \in TaskRecords
      /\ LocksAreHeld /\ ReferencesAreOpen /\ NothingIsOrphaned /\ FiniteUses
      /\ Nobody \notin Tasks /\ pool[p] \in PoolRecords
      /\ task'[t] = v /\ \A u \in Tasks \ {t} : task'[u] = task[u]
      /\ task' \in [Tasks -> TaskRecords]
  BY Domains, LifecycleAssumption DEF IInv, Sound
<1>1. /\ pool'[p].at = pool[p].at /\ pool'[p].users = S /\ pool'[p] \in PoolRecords
      /\ \A q \in PoolIds \ {p} : pool'[q] = pool[q]
  BY <1>0, Domains DEF PoolRecords
<1>2. pool' \in [PoolIds -> PoolRecords]
  BY <1>0, <1>1, Domains
<1>3. \A q \in PoolIds : pool'[q].at = pool[q].at
  BY <1>1
<1>4. task[t].awaits # "pool" /\ Does[t] = "use"
  BY <1>0 DEF HoldsItsLock, InPlace
<1>5. Own(t)
  BY <1>0, <1>1, <1>3 DEF Own
<1>6. TypeOK' /\ FiniteUses'
  <2>1. \A q \in PoolIds : Cardinality(pool'[q].users) <= MaxSize /\ IsFiniteSet(pool'[q].users)
    BY <1>0, <1>1 DEF TypeOK, FiniteUses
  <2> QED BY <1>0, <1>2, <2>1 DEF TypeOK, FiniteUses, TaskRecords, PoolRecords
<1>7. Sound(t)'
  <2>1. InPlace(t)' /\ HoldsItsLock(t)' /\ NotYetBuilt(t)' /\ UndoneSoFar(t)'
    BY <1>0, <1>4 DEF InPlace, HoldsItsLock, NotYetBuilt, UndoneSoFar
  <2>2. ReachedSoFar(t)'
    <3>1. \A q \in task[t].owed : q \in PoolIds /\ pool[q].at # "unbuilt"
      BY <1>0 DEF Sound, ReachedSoFar, TaskRecords
    <3>2. \A q \in v.owed : pool'[q].at # "unbuilt"
      BY <1>3, <3>1
    <3> QED BY <1>0, <3>2 DEF ReachedSoFar
  <2>3. UsersKeepTheirPool(t)'
    BY <1>0, <1>1 DEF UsersKeepTheirPool
  <2> QED BY <1>4, <2>1, <2>2, <2>3 DEF Sound
<1>8. LocksAreHeld'
  BY <1>0, <1>4, Domains DEF LocksAreHeld
<1>9. ReferencesAreOpen'
  <2>1. \A d \in DatabaseSet : ref[d] # NoPool => ref[d] \in PoolIds
    BY <1>0, Domains
  <2> QED BY <1>0, <1>3, <2>1 DEF ReferencesAreOpen
<1>10. NothingIsOrphaned'
  <2>1. ASSUME NEW q \in PoolIds, pool[q].at = "closing"
        PROVE  \E u \in Tasks : task'[u].conn = q /\ task'[u].awaits = "pool" /\ lock'[q[2]] = u
    <3>1. PICK u \in Tasks : task[u].conn = q /\ task[u].awaits = "pool" /\ lock[q[2]] = u
      BY <1>0, <2>1 DEF NothingIsOrphaned
    <3> QED BY <1>0, <1>4, <3>1
  <2>2. \A q \in PoolIds : pool[q].at = "open" => ref'[q[2]] = q
    BY <1>0 DEF NothingIsOrphaned
  <2> QED BY <1>3, <2>1, <2>2 DEF NothingIsOrphaned
<1> QED BY <1>5, <1>6, <1>7, <1>8, <1>9, <1>10, Together

LEMMA GrantedKeeps ==
    ASSUME IInv, NEW t \in Tasks, Granted(t)
    PROVE  IInv'
<1> DEFINE v == [Awaits(t, "nothing") EXCEPT !.mode = "using"]
           p == task[t].conn
           S == pool[p].users \cup {t}
<1>0. TypeOK /\ InPlace(t) /\ FiniteUses /\ task[t] \in TaskRecords /\ MaxSize \in Nat
  BY Domains, LifecycleAssumption DEF IInv, Sound
<1>1. /\ task[t].mode = "acquiring" /\ pool[p].at \in {"open", "closing"}
      /\ Cardinality(pool[p].users) < MaxSize
      /\ task' = [task EXCEPT ![t] = v] /\ ref' = ref /\ lock' = lock
  BY DEF Granted, Live
<1>2. p \in PoolIds
  BY <1>0, <1>1 DEF InPlace
<1>3. pool[p].users \subseteq Tasks /\ IsFiniteSet(pool[p].users)
  BY <1>0, <1>2, Domains DEF FiniteUses, PoolRecords
<1>4. pool' = [pool EXCEPT ![p].users = S]
  BY DEF Granted
<1>5. /\ Awaits(t, "nothing") \in TaskRecords /\ Awaits(t, "nothing").awaits = "nothing"
      /\ Awaits(t, "nothing").i = task[t].i /\ Awaits(t, "nothing").upto = task[t].upto
      /\ Awaits(t, "nothing").conn = p /\ Awaits(t, "nothing").owed = task[t].owed
  BY <1>0, AwaitsFields
<1>6. /\ v \in TaskRecords /\ v.mode = "using" /\ v.awaits = "nothing" /\ v.i = task[t].i
      /\ v.upto = task[t].upto /\ v.owed = task[t].owed /\ v.conn = p
  <2>1. "using" \in Modes
    BY DEF Modes
  <2> QED BY <1>5, <2>1 DEF TaskRecords
<1>7. IsFiniteSet(S) /\ Cardinality(S) <= MaxSize
  <2>1. Cardinality(pool[p].users) \in Nat
    BY <1>3, FS_CardinalityType
  <2>2. /\ IsFiniteSet(S)
        /\ Cardinality(S) = Cardinality(pool[p].users)
           \/ Cardinality(S) = Cardinality(pool[p].users) + 1
    BY <1>3, FS_AddElement
  <2> HIDE DEF p, S
  <2> QED BY <1>0, <1>1, <2>1, <2>2
<1>8. S \in SUBSET Tasks /\ pool[p].users \ {t} \subseteq S /\ t \in S
  BY <1>3
<1> HIDE DEF v, p, S
<1> QED BY <1>1, <1>2, <1>4, <1>6, <1>7, <1>8, UsersStep

LEMMA ReleaseKeeps ==
    ASSUME IInv, NEW t \in Tasks, Release(t)
    PROVE  IInv'
<1> DEFINE v == task'[t]
           p == task[t].conn
           S == pool[p].users \ {t}
<1>0. /\ TypeOK /\ InPlace(t) /\ FiniteUses /\ task[t] \in TaskRecords /\ MaxSize \in Nat
      /\ \A q \in PoolIds : Cardinality(pool[q].users) <= MaxSize
  BY Domains, LifecycleAssumption DEF IInv, Sound, TypeOK
<1>1. /\ task[t].mode = "using" /\ ref' = ref /\ lock' = lock
      /\ pool' = [pool EXCEPT ![p].users = S]
      /\ v = Ends(t, "raised") \/ v = Ends(t, "returned")
      /\ task' = [task EXCEPT ![t] = v]
  BY <1>0, Domains DEF Release
<1>2. p \in PoolIds
  BY <1>0, <1>1 DEF InPlace
<1>3. pool[p].users \subseteq Tasks /\ IsFiniteSet(pool[p].users)
  BY <1>0, <1>2, Domains DEF FiniteUses, PoolRecords
<1>4. /\ v \in TaskRecords /\ v.mode \in {"raised", "returned"} /\ v.awaits = "nothing"
      /\ v.i = task[t].i /\ v.upto = task[t].upto /\ v.owed = task[t].owed
  BY <1>0, <1>1, EndsFields DEF Modes
<1>5. IsFiniteSet(S) /\ Cardinality(S) <= MaxSize
  <2>1. Cardinality(pool[p].users) \in Nat /\ Cardinality(pool[p].users) <= MaxSize
    BY <1>0, <1>2, <1>3, FS_CardinalityType
  <2>2. /\ IsFiniteSet(S)
        /\ Cardinality(S) = Cardinality(pool[p].users)
           \/ Cardinality(S) = Cardinality(pool[p].users) - 1
    BY <1>3, FS_RemoveElement
  <2> HIDE DEF p, S
  <2> QED BY <1>0, <2>1, <2>2
<1>6. S \in SUBSET Tasks /\ pool[p].users \ {t} \subseteq S
  BY <1>3
<1> HIDE DEF v, p, S
<1> QED BY <1>1, <1>2, <1>4, <1>5, <1>6, UsersStep

-------------------------------------------------------------------------------
(* The theorem.                                                            *)

LEMMA IInvInit ==
    ASSUME Init
    PROVE  IInv
<1>1. 1 \in Indexes /\ Len(Order) \in Indexes /\ 1 <= Len(Order)
  BY LifecycleAssumption DEF Indexes
<1>2. IsFiniteSet({}) /\ Cardinality({}) = 0 /\ 0 <= MaxSize
  BY FS_EmptySet, LifecycleAssumption
<1>3. TypeOK /\ FiniteUses
  BY <1>1, <1>2 DEF Init, TypeOK, FiniteUses, Modes
<1>4. LocksAreHeld /\ ReferencesAreOpen /\ NothingIsOrphaned
  BY DEF Init, LocksAreHeld, ReferencesAreOpen, NothingIsOrphaned
<1>5. ASSUME NEW t \in Tasks
      PROVE  Sound(t)
  <2>1. \A j \in Indexes : Built(t, j) \in PoolIds
    BY DEF Built, PoolIds, DatabaseSet
  <2>2. NotYetBuilt(t)
    BY <2>1 DEF Init, NotYetBuilt
  <2> QED BY <1>1, <2>2
          DEF Init, Sound, InPlace, HoldsItsLock, UndoneSoFar, ReachedSoFar, UsersKeepTheirPool
<1> QED BY <1>3, <1>4, <1>5 DEF IInv

LEMMA IInvNext ==
    ASSUME IInv, [Next]_vars
    PROVE  IInv'
<1>1. ASSUME NEW t \in Tasks,
             \/ Begin(t) \/ EnterOpen(t) \/ PoolCreated(t) \/ OpenFails(t)
             \/ Closing(t) \/ CloseRaises(t) \/ CloseCancelled(t)
             \/ (\E d \in DatabaseSet : Acquire(t, d))
             \/ Granted(t) \/ AcquireFails(t) \/ Release(t)
      PROVE  IInv'
  <2>1. CASE Begin(t) \/ EnterOpen(t) \/ PoolCreated(t) \/ OpenFails(t)
    BY <2>1, BeginKeeps, EnterOpenKeeps, PoolCreatedKeeps, OpenFailsKeeps
  <2>2. CASE EnterClose(t) \/ CloseRaises(t) \/ CloseCancelled(t)
    BY <2>2, EnterCloseKeeps, CloseRaisesKeeps, CloseCancelledKeeps
  <2>3. CASE PoolClosed(t)
    BY <2>3, ClosedKeeps DEF PoolClosed
  <2>4. CASE PoolTerminated(t)
    BY <2>4, ClosedKeeps DEF PoolTerminated
  <2>5. CASE (\E d \in DatabaseSet : Acquire(t, d)) \/ AcquireFails(t)
    <3>1. Order[1] \in DatabaseSet
      BY Domains DEF IInv
    <3> QED BY <2>5, <3>1, AcquireKeeps
  <2>6. CASE Granted(t) \/ Release(t)
    BY <2>6, GrantedKeeps, ReleaseKeeps
  <2> QED BY <1>1, <2>1, <2>2, <2>3, <2>4, <2>5, <2>6 DEF Closing
<1>2. CASE UNCHANGED vars
  <2>1. task' = task /\ pool' = pool /\ ref' = ref /\ lock' = lock
    BY <1>2 DEF vars
  <2>2. TypeOK' /\ FiniteUses' /\ LocksAreHeld' /\ ReferencesAreOpen' /\ NothingIsOrphaned'
    BY <2>1 DEF IInv, TypeOK, FiniteUses, LocksAreHeld, ReferencesAreOpen, NothingIsOrphaned
  <2>3. ASSUME NEW t \in Tasks
        PROVE  Sound(t)'
    BY <2>1 DEF IInv, Sound, InPlace, HoldsItsLock, NotYetBuilt, UndoneSoFar, ReachedSoFar,
                UsersKeepTheirPool, Live, At
  <2> QED BY <2>2, <2>3 DEF IInv
<1> QED BY <1>1, <1>2 DEF Next

(* Two live pools of one database would both be its reference, or both be  *)
(* closed by the holder of its lock; and who closes has dropped the        *)
(* reference.                                                              *)
LEMMA OnePool ==
    ASSUME IInv
    PROVE  OnePoolPerDatabase
<1>0. /\ TypeOK /\ NothingIsOrphaned /\ NoPool \notin PoolIds
      /\ \A t \in Tasks : HoldsItsLock(t)
  BY LifecycleAssumption DEF IInv, Sound
<1>1. ASSUME NEW p \in PoolIds, pool[p].at = "closing"
      PROVE  ref[p[2]] = NoPool
  <2>1. PICK t \in Tasks : task[t].conn = p /\ task[t].awaits = "pool" /\ lock[p[2]] = t
    BY <1>0, <1>1 DEF NothingIsOrphaned
  <2>2. task[t].mode # "opening"
    BY <1>0, <2>1 DEF IInv, Sound, InPlace
  <2> QED BY <1>0, <2>1, <2>2 DEF HoldsItsLock
<1>2. ASSUME NEW p \in PoolIds, NEW q \in PoolIds, p[2] = q[2], Live(p), Live(q)
      PROVE  p = q
  <2>1. CASE pool[p].at = "open"
    <3>1. ref[q[2]] = p /\ p # NoPool
      BY <1>0, <1>2, <2>1 DEF NothingIsOrphaned
    <3> QED BY <1>0, <1>1, <1>2, <3>1 DEF NothingIsOrphaned, Live
  <2>2. CASE pool[p].at = "closing"
    <3>1. pool[q].at = "closing"
      BY <1>0, <1>1, <1>2, <2>2 DEF NothingIsOrphaned, Live
    <3> QED BY <1>0, <1>2, <2>2, <3>1 DEF NothingIsOrphaned
  <2> QED BY <1>2, <2>1, <2>2 DEF Live
<1> QED BY <1>2 DEF OnePoolPerDatabase

LEMMA InvariantMeansAccounted ==
    ASSUME IInv
    PROVE  PoolsAreAccountedFor
<1>1. OnePoolPerDatabase
  BY OnePool
<1>2. UsersAreWaitedFor /\ FailedOpenIsUndone /\ CloseReachesEveryDatabase
  BY DEF IInv, Sound, UsersKeepTheirPool, UsersAreWaitedFor, FailedOpenIsUndone,
         CloseReachesEveryDatabase
<1> QED BY <1>1, <1>2 DEF IInv, PoolsAreAccountedFor

(* However opens, closes and operations of a set of databases interleave,  *)
(* fail and are cancelled (Databases.open, Databases.close,                *)
(* Database.acquire): a database has one live pool at most, an open pool   *)
(* is its database's own and a closing one is in somebody's hands, no      *)
(* connection is lent twice or taken from its user but by a close that     *)
(* timed out or raised, an open that raises leaves open nothing it built,  *)
(* and a close that returns has reached every pool open when it began.     *)
THEOREM PoolsAreKept == Spec => []PoolsAreAccountedFor
<1>1. Init => IInv
  BY IInvInit
<1>2. IInv /\ [Next]_vars => IInv'
  BY IInvNext
<1>3. IInv => PoolsAreAccountedFor
  BY InvariantMeansAccounted
<1> QED BY <1>1, <1>2, <1>3, PTL DEF Spec

-------------------------------------------------------------------------------
(* The widgets.                                                            *)

(* A transaction that has loaded or inserted a row has it until it ends;   *)
(* one that adds has found none, and none is put before it has.            *)
InTransaction == {"save", "commit"}
Changes(t) == request[t].at \in InTransaction /\ request[t].in = "alpha"

RequestRecords ==
    [at : Store!Steps, call : Requests \cup {NoCall}, in : Store!Contexts,
     loaded : Store!Row \cup {NoRow}, pending : Store!Row \cup {NoRow},
     standing : {"kept", "released"}, made : BOOLEAN, answer : Store!Answers]

StoreTypes ==
    /\ widgets \in [WidgetNames -> Store!Row \cup {NoRow}] /\ keys \subseteq WidgetNames
    /\ holder \in [WidgetNames -> Requesters \cup {Nobody}]
    /\ users \subseteq Requesters /\ IsFiniteSet(users) /\ Cardinality(users) <= Connections
    /\ schema \in [Store!Contexts -> BOOLEAN] /\ ready \in [Store!Contexts -> BOOLEAN]
    /\ request \in [Requesters -> RequestRecords]
    /\ \A t \in Requesters : request[t].at # "idle" => request[t].call \in Requests

ConnectedInTransaction ==
    \A t \in Requesters : request[t].at \in {"schema", "begun", "save", "commit"} => t \in users

HoldersChange ==
    \A n \in WidgetNames : \A t \in Requesters : holder[n] = t => Changes(t) /\ Store!Name(t) = n

ChangesHold ==
    \A t \in Requesters : Changes(t) =>
        /\ holder[Store!Name(t)] = t
        /\ \/ Store!Op(t) = "take" /\ widgets[Store!Name(t)] = request[t].loaded /\ request[t].loaded # NoRow
           \/ Store!Op(t) = "add" /\ widgets[Store!Name(t)] = NoRow /\ request[t].at = "commit"
        /\ request[t].at = "commit" => request[t].pending \in Store!Row

(* Of what is not alpha's, nothing is saved, and only keys are committed.  *)
BetaHolds ==
    \A t \in Requesters : request[t].at \in InTransaction /\ request[t].in = "beta" =>
        request[t].at = "commit" /\ Store!Op(t) = "hold"

(* Who was cleared as kept has its name among the keys, until it commits   *)
(* and when it has.                                                        *)
Cleared ==
    \A t \in Requesters : request[t].at # "idle" /\ Store!NeedsClearance(request[t].call) =>
        /\ request[t].at # "done" /\ request[t].in = "alpha" /\ request[t].standing = "kept" => Store!Name(t) \in keys
        /\ request[t].at = "commit" => request[t].pending.standing = request[t].standing
        /\ request[t].at = "done" /\ request[t].answer = "kept" => Store!Name(t) \in keys

AddsAreThere ==
    \A t \in Requesters :
        request[t].at = "done" /\ Store!Op(t) = "add" /\ request[t].answer \in {"kept", "released"} =>
            widgets[Store!Name(t)] # NoRow

StoreInv ==
    /\ StoreTypes
    /\ ConnectedInTransaction
    /\ HoldersChange
    /\ ChangesHold
    /\ BetaHolds
    /\ Cleared
    /\ AddsAreThere
    /\ Store!OneAddPerName
    /\ Store!ReadyMeansPresent

LEMMA StoreCounts == \A S : Store!Cardinality(S) = Cardinality(S)
BY Zenon DEF Cardinality, Store!Cardinality

(* A step of t gives t's request a new record and leaves the others'.      *)
LEMMA OthersStay ==
    ASSUME NEW t \in Requesters, NEW record \in RequestRecords, StoreTypes,
           request' = [request EXCEPT ![t] = record]
    PROVE  /\ request'[t] = record
           /\ \A u \in Requesters : u # t => request'[u] = request[u]
           /\ request' \in [Requesters -> RequestRecords]
BY DEF StoreTypes

LEMMA StoreBegins == Store!Init => StoreInv
<1> SUFFICES ASSUME Store!Init PROVE StoreInv
  OBVIOUS
<1> USE DEF Store!Init
<1>1. Store!Idle \in RequestRecords /\ Store!Idle.at = "idle"
  BY DEF Store!Idle, RequestRecords, Store!Steps, Store!Contexts, Store!Answers
<1>2. StoreTypes
  <2>1. IsFiniteSet(users) /\ Cardinality(users) <= Connections
    BY FS_EmptySet, WidgetsAreAskedAsMeant DEF Store!StoreAssumption
  <2> QED
    BY <1>1, <2>1 DEF StoreTypes
<1>3. \A t \in Requesters : request[t].at = "idle"
  BY <1>1
<1>4. ConnectedInTransaction /\ HoldersChange /\ ChangesHold /\ BetaHolds /\ Cleared /\ AddsAreThere
  BY <1>1, <1>3, WidgetsAreAskedAsMeant DEF Store!StoreAssumption, ConnectedInTransaction, HoldersChange, ChangesHold, BetaHolds, Cleared, AddsAreThere, Changes, InTransaction
<1>5. Store!OneAddPerName /\ Store!ReadyMeansPresent
  BY <1>3 DEF Store!OneAddPerName, Store!ReadyMeansPresent
<1> QED
  BY <1>2, <1>4, <1>5 DEF StoreInv

(* A step that leaves the rows, the keys and the locks, and gives t a      *)
(* record that has neither begun to change a row nor is answered.          *)
LEMMA QuietRequest ==
    ASSUME StoreInv, NEW t \in Requesters, NEW record \in RequestRecords,
           request' = [request EXCEPT ![t] = record],
           UNCHANGED <<widgets, keys, holder>>,
           ~Changes(t),
           users \subseteq users', users' \subseteq Requesters, IsFiniteSet(users'), Cardinality(users') <= Connections,
           schema' \in [Store!Contexts -> BOOLEAN], ready' \in [Store!Contexts -> BOOLEAN],
           \A k \in Store!Contexts : ready'[k] => schema'[k],
           record.at \in {"acquire", "schema", "begun", "commit"},
           record.at # "acquire" => t \in users',
           record.at = "commit" => record.in = "beta" /\ record.call.op = "hold",
           record.call \in Requests,
           Store!NeedsClearance(record.call) =>
               (record.in = "alpha" /\ record.standing = "kept" => record.call.name \in keys)
    PROVE  StoreInv'
<1>1. /\ request'[t] = record
      /\ \A u \in Requesters : u # t => request'[u] = request[u]
      /\ request' \in [Requesters -> RequestRecords]
  BY OthersStay DEF StoreInv
<1>2. StoreTypes'
  BY <1>1 DEF StoreInv, StoreTypes
<1>3. ConnectedInTransaction'
  BY <1>1 DEF StoreInv, ConnectedInTransaction
<1>4. ~Changes(t)' /\ \A u \in Requesters : u # t => (Changes(u)' <=> Changes(u))
  BY <1>1 DEF Changes, InTransaction
<1>5. HoldersChange' /\ ChangesHold'
  <2>1. HoldersChange'
    BY <1>1, <1>4 DEF StoreInv, StoreTypes, HoldersChange, Store!Name
  <2>2. ChangesHold'
    BY <1>1, <1>4 DEF StoreInv, ChangesHold, Store!Name, Store!Op
  <2> QED
    BY <2>1, <2>2
<1>6. BetaHolds'
  BY <1>1 DEF StoreInv, BetaHolds, Store!Op, InTransaction
<1>7. Cleared'
  <2>1. record.at # "idle" /\ record.at # "done"
    OBVIOUS
  <2>2. Store!NeedsClearance(record.call) => record.at # "commit"
    BY DEF Store!NeedsClearance
  <2> QED
    BY <1>1, <2>1, <2>2 DEF StoreInv, Cleared, Store!Name
<1>8. AddsAreThere' /\ Store!OneAddPerName'
  BY <1>1 DEF StoreInv, AddsAreThere, Store!OneAddPerName, Store!Op, Store!Name
<1>9. Store!ReadyMeansPresent'
  BY DEF Store!ReadyMeansPresent
<1> QED
  BY <1>2, <1>3, <1>5, <1>6, <1>7, <1>8, <1>9 DEF StoreInv

(* The transaction of t is over, or beta's part of it: what it held is     *)
(* free.                                                                   *)
LEMMA FreedBy ==
    ASSUME StoreTypes, NEW t \in Requesters, Store!Leaves(t)
    PROVE  /\ users' \subseteq users /\ IsFiniteSet(users') /\ Cardinality(users') <= Connections
           /\ \A u \in users : u # t => u \in users'
           /\ holder' \in [WidgetNames -> Requesters \cup {Nobody}]
           /\ \A n \in WidgetNames : holder'[n] = IF holder[n] = t THEN Nobody ELSE holder[n]
<1>1. users' = users \ {t} /\ holder' = [n \in WidgetNames |-> IF holder[n] = t THEN Nobody ELSE holder[n]]
  BY DEF Store!Leaves
<1>2. IsFiniteSet(users') /\ Cardinality(users') <= Cardinality(users) /\ Cardinality(users') \in Nat /\ Cardinality(users) \in Nat
  BY <1>1, FS_Subset, FS_CardinalityType DEF StoreTypes
<1>3. Cardinality(users') <= Connections
  BY <1>2, WidgetsAreAskedAsMeant DEF StoreTypes, Store!StoreAssumption
<1> QED
  BY <1>1, <1>2, <1>3 DEF StoreTypes

LEMMA LeavingRequest ==
    ASSUME StoreInv, NEW t \in Requesters, NEW record \in RequestRecords,
           request' = [request EXCEPT ![t] = record],
           Store!Leaves(t), UNCHANGED <<widgets, keys, schema, ready>>,
           request[t].at # "idle",
           record.at \in {"acquire", "done"}, record.call = request[t].call,
           record.at = "done" => record.answer \notin {"kept", "released"},
           record.at = "acquire" => (record.standing = "kept" => record.call.name \in keys)
    PROVE  StoreInv'
<1>0. record.call \in Requests
  BY DEF StoreInv, StoreTypes
<1>1. /\ request'[t] = record
      /\ \A u \in Requesters : u # t => request'[u] = request[u]
      /\ request' \in [Requesters -> RequestRecords]
  BY OthersStay DEF StoreInv
<1>2. /\ users' \subseteq users /\ IsFiniteSet(users') /\ Cardinality(users') <= Connections
      /\ \A u \in users : u # t => u \in users'
      /\ holder' \in [WidgetNames -> Requesters \cup {Nobody}]
      /\ \A n \in WidgetNames : holder'[n] = IF holder[n] = t THEN Nobody ELSE holder[n]
  BY FreedBy DEF StoreInv
<1>3. StoreTypes'
  BY <1>0, <1>1, <1>2 DEF StoreInv, StoreTypes
<1>4. ~Changes(t)' /\ \A u \in Requesters : u # t => (Changes(u)' <=> Changes(u))
  BY <1>1 DEF Changes, InTransaction
<1>5. ConnectedInTransaction'
  BY <1>1, <1>2 DEF StoreInv, ConnectedInTransaction
<1>6. HoldersChange'
  BY <1>1, <1>2, <1>4, WidgetsAreAskedAsMeant DEF StoreInv, StoreTypes, HoldersChange, Store!Name, Store!StoreAssumption
<1>7. ChangesHold'
  <2> SUFFICES ASSUME NEW u \in Requesters, Changes(u)'
               PROVE  /\ holder'[Store!Name(u)'] = u
                      /\ \/ Store!Op(u)' = "take" /\ widgets'[Store!Name(u)'] = request'[u].loaded /\ request'[u].loaded # NoRow
                         \/ Store!Op(u)' = "add" /\ widgets'[Store!Name(u)'] = NoRow /\ request'[u].at = "commit"
                      /\ request'[u].at = "commit" => request'[u].pending \in Store!Row
    BY DEF ChangesHold
  <2>1. u # t /\ Changes(u) /\ request'[u] = request[u]
    BY <1>1, <1>4
  <2>2. Store!Name(u) \in WidgetNames
    <3>1. request[u].call \in Requests
      BY <2>1 DEF StoreInv, StoreTypes, Changes, InTransaction
    <3> QED
      BY <3>1, WidgetsAreAskedAsMeant DEF Store!StoreAssumption, Store!Name
  <2> QED
    BY <1>2, <2>1, <2>2 DEF StoreInv, ChangesHold, Store!Name, Store!Op
<1>8. BetaHolds'
  BY <1>1 DEF StoreInv, BetaHolds, Store!Op, InTransaction
<1>9. Cleared'
  BY <1>1 DEF StoreInv, Cleared, Store!Name
<1>10. AddsAreThere' /\ Store!OneAddPerName'
  BY <1>1 DEF StoreInv, AddsAreThere, Store!OneAddPerName, Store!Op, Store!Name
<1>11. Store!ReadyMeansPresent'
  BY DEF StoreInv, Store!ReadyMeansPresent
<1> QED
  BY <1>3, <1>5, <1>6, <1>7, <1>8, <1>9, <1>10, <1>11 DEF StoreInv

(* A request that has begun is one that was asked, of names there are.     *)
LEMMA RequestsAreOfNames ==
    ASSUME StoreTypes, NEW t \in Requesters, request[t].at # "idle"
    PROVE  /\ request[t].call \in Requests /\ Store!Name(t) \in WidgetNames
           /\ Store!Op(t) \in {"add", "take", "find", "hold"} /\ Store!Part(t) \in WidgetParts
BY WidgetsAreAskedAsMeant DEF StoreTypes, Store!StoreAssumption, Store!Name, Store!Op, Store!Part

(* A row that was free is locked by t, which begins to change it.          *)
LEMMA TakingARow ==
    ASSUME StoreInv, NEW t \in Requesters, NEW record \in RequestRecords,
           request' = [request EXCEPT ![t] = record],
           UNCHANGED <<widgets, keys, users, schema, ready>>,
           request[t].at = "begun", request[t].in = "alpha",
           holder[Store!Name(t)] = Nobody, holder' = [holder EXCEPT ![Store!Name(t)] = t],
           record.call = request[t].call, record.in = "alpha", record.standing = request[t].standing,
           \/ /\ Store!Op(t) = "take" /\ record.at = "save"
              /\ record.loaded = widgets[Store!Name(t)] /\ record.loaded # NoRow
           \/ /\ Store!Op(t) = "add" /\ record.at = "commit" /\ widgets[Store!Name(t)] = NoRow
              /\ record.pending \in Store!Row /\ record.pending.standing = record.standing
    PROVE  StoreInv'
<1>0. Store!Name(t) \in WidgetNames /\ record.call \in Requests /\ record.at \in InTransaction /\ Nobody \notin Requesters
  BY RequestsAreOfNames, WidgetsAreAskedAsMeant DEF StoreInv, InTransaction, Store!StoreAssumption
<1>1. /\ request'[t] = record
      /\ \A u \in Requesters : u # t => request'[u] = request[u]
      /\ request' \in [Requesters -> RequestRecords]
  BY OthersStay DEF StoreInv
<1>2. StoreTypes'
  BY <1>0, <1>1 DEF StoreInv, StoreTypes
<1>3. ConnectedInTransaction'
  BY <1>1 DEF StoreInv, ConnectedInTransaction
<1>4. Changes(t)' /\ ~Changes(t) /\ \A u \in Requesters : u # t => (Changes(u)' <=> Changes(u))
  BY <1>0, <1>1 DEF Changes, InTransaction
<1>5. Store!Name(t)' = Store!Name(t) /\ Store!Op(t)' = Store!Op(t)
  BY <1>1 DEF Store!Name, Store!Op
<1>6. HoldersChange'
  <2> SUFFICES ASSUME NEW n \in WidgetNames, NEW u \in Requesters, holder'[n] = u
               PROVE  Changes(u)' /\ Store!Name(u)' = n
    BY DEF HoldersChange
  <2>1. holder'[n] = IF n = Store!Name(t) THEN t ELSE holder[n]
    BY <1>0 DEF StoreInv, StoreTypes
  <2>2. CASE n = Store!Name(t)
    BY <1>4, <1>5, <2>1, <2>2
  <2>3. CASE n # Store!Name(t)
    <3>1. Changes(u) /\ Store!Name(u) = n /\ u # t
      BY <1>4, <2>1, <2>3 DEF StoreInv, HoldersChange
    <3> QED
      BY <1>1, <1>4, <3>1 DEF Store!Name
  <2> QED
    BY <2>2, <2>3
<1>7. ChangesHold'
  <2> SUFFICES ASSUME NEW u \in Requesters, Changes(u)'
               PROVE  /\ holder'[Store!Name(u)'] = u
                      /\ \/ Store!Op(u)' = "take" /\ widgets'[Store!Name(u)'] = request'[u].loaded /\ request'[u].loaded # NoRow
                         \/ Store!Op(u)' = "add" /\ widgets'[Store!Name(u)'] = NoRow /\ request'[u].at = "commit"
                      /\ request'[u].at = "commit" => request'[u].pending \in Store!Row
    BY DEF ChangesHold
  <2>1. CASE u = t
    <3>1. holder'[Store!Name(u)'] = u
      BY <1>0, <1>5, <2>1 DEF StoreInv, StoreTypes
    <3> QED
      BY <1>1, <1>5, <2>1, <3>1
  <2>2. CASE u # t
    <3>1. Changes(u) /\ request'[u] = request[u] /\ Store!Name(u)' = Store!Name(u) /\ Store!Op(u)' = Store!Op(u)
      BY <1>1, <1>4, <2>2 DEF Store!Name, Store!Op
    <3>2. holder[Store!Name(u)] = u /\ u # Nobody
      BY <1>0, <3>1 DEF StoreInv, ChangesHold
    <3>3. holder'[Store!Name(u)] = u
      BY <1>0, <3>2 DEF StoreInv, StoreTypes
    <3> QED
      BY <3>1, <3>3 DEF StoreInv, ChangesHold
  <2> QED
    BY <2>1, <2>2
<1>8. BetaHolds'
  BY <1>1 DEF StoreInv, BetaHolds, Store!Op, InTransaction
<1>9. Cleared'
  <2>1. record.at # "idle" /\ record.at # "done" /\ request[t].at # "idle" /\ request[t].at # "done"
    BY <1>0 DEF InTransaction
  <2>2. Store!NeedsClearance(record.call) => Store!Op(t) = "add"
    BY DEF Store!NeedsClearance, Store!Op
  <2> QED
    BY <1>1, <2>1, <2>2 DEF StoreInv, Cleared, Store!Name
<1>10. AddsAreThere' /\ Store!OneAddPerName'
  BY <1>0, <1>1 DEF StoreInv, AddsAreThere, Store!OneAddPerName, Store!Op, Store!Name, InTransaction
<1>11. Store!ReadyMeansPresent'
  BY DEF StoreInv, Store!ReadyMeansPresent
<1> QED
  BY <1>2, <1>3, <1>6, <1>7, <1>8, <1>9, <1>10, <1>11 DEF StoreInv

(* The row that was loaded is written, under the lock.                     *)
LEMMA SavingARow ==
    ASSUME StoreInv, NEW t \in Requesters, Store!SaveWidget(t)
    PROVE  StoreInv'
<1> DEFINE record == [request[t] EXCEPT !.pending = Store!RowOf(Store!Part(t), request[t].loaded.standing), !.at = "commit"]
<1>1. /\ request[t].at = "save" /\ request' = [request EXCEPT ![t] = record]
      /\ UNCHANGED <<widgets, keys, holder, users, schema, ready>>
  BY DEF Store!SaveWidget
<1>2. request[t].in = "alpha" /\ Changes(t) /\ Store!Op(t) = "take" /\ request[t].loaded # NoRow
  BY <1>1 DEF StoreInv, StoreTypes, RequestRecords, BetaHolds, ChangesHold, Changes, InTransaction, Store!Contexts
<1>3. request[t] \in RequestRecords /\ request[t].call \in Requests /\ Store!Part(t) \in WidgetParts
  BY <1>1, RequestsAreOfNames DEF StoreInv, StoreTypes
<1>4. request[t].loaded \in Store!Row
  BY <1>2, <1>3 DEF RequestRecords
<1>5. Store!RowOf(Store!Part(t), request[t].loaded.standing) \in Store!Row
  BY <1>3, <1>4 DEF Store!RowOf, Store!Row
<1>6. /\ record \in RequestRecords /\ record.call = request[t].call /\ record.at = "commit" /\ record.in = "alpha"
      /\ record.loaded = request[t].loaded /\ record.pending \in Store!Row
  BY <1>2, <1>3, <1>5 DEF RequestRecords, Store!Steps
<1> HIDE DEF record
<1>7. /\ request'[t] = record
      /\ \A u \in Requesters : u # t => request'[u] = request[u]
      /\ request' \in [Requesters -> RequestRecords]
  BY <1>1, <1>6, OthersStay DEF StoreInv
<1>8. \A u \in Requesters : /\ Changes(u)' <=> Changes(u)
                            /\ Store!Name(u)' = Store!Name(u) /\ Store!Op(u)' = Store!Op(u)
  BY <1>1, <1>2, <1>6, <1>7 DEF Changes, InTransaction, Store!Name, Store!Op
<1>9. StoreTypes'
  BY <1>1, <1>3, <1>6, <1>7 DEF StoreInv, StoreTypes
<1>10. ConnectedInTransaction' /\ HoldersChange'
  BY <1>1, <1>7, <1>8 DEF StoreInv, StoreTypes, ConnectedInTransaction, HoldersChange
<1>11. ChangesHold'
  BY <1>1, <1>2, <1>6, <1>7, <1>8 DEF StoreInv, ChangesHold
<1>12. BetaHolds'
  BY <1>6, <1>7 DEF StoreInv, BetaHolds, Store!Op, InTransaction
<1>13. Cleared'
  <2>1. ~Store!NeedsClearance(record.call)
    BY <1>2, <1>6 DEF Store!NeedsClearance, Store!Op
  <2> QED
    BY <1>1, <1>7, <2>1 DEF StoreInv, Cleared, Store!Name
<1>14. AddsAreThere' /\ Store!OneAddPerName'
  BY <1>1, <1>6, <1>7, <1>8 DEF StoreInv, AddsAreThere, Store!OneAddPerName
<1>15. Store!ReadyMeansPresent'
  BY <1>1 DEF StoreInv, Store!ReadyMeansPresent
<1> QED
  BY <1>9, <1>10, <1>11, <1>12, <1>13, <1>14, <1>15 DEF StoreInv

(* Of those who change a row, only the one that holds it commits it.       *)
LEMMA CommittingARow ==
    ASSUME StoreInv, NEW t \in Requesters, Store!CommitWidget(t)
    PROVE  /\ StoreInv'
           /\ \A n \in WidgetNames : widgets'[n] # widgets[n] => n = Store!Name(t)
           /\ widgets[Store!Name(t)] # NoRow =>
                 request[t].at = "commit" /\ Store!Op(t) = "take" /\ request[t].loaded = widgets[Store!Name(t)]
<1> DEFINE record == [request[t] EXCEPT !.at = "done", !.answer = request[t].pending.standing, !.pending = NoRow,
                                        !.made = FALSE]
<1>1. /\ request[t].at = "commit" /\ request[t].in = "alpha" /\ request' = [request EXCEPT ![t] = record]
      /\ widgets' = [widgets EXCEPT ![Store!Name(t)] = request[t].pending]
      /\ Store!Leaves(t) /\ UNCHANGED <<keys, schema, ready>>
  BY DEF Store!CommitWidget, Store!Ends
<1>2. /\ request[t] \in RequestRecords /\ request[t].call \in Requests /\ Store!Name(t) \in WidgetNames
      /\ Changes(t) /\ request[t].pending \in Store!Row
      /\ holder[Store!Name(t)] = t /\ Nobody \notin Requesters
  BY <1>1, RequestsAreOfNames, WidgetsAreAskedAsMeant
  DEF StoreInv, StoreTypes, ChangesHold, Changes, InTransaction, Store!StoreAssumption
<1>3. \/ Store!Op(t) = "take" /\ widgets[Store!Name(t)] = request[t].loaded
      \/ Store!Op(t) = "add" /\ widgets[Store!Name(t)] = NoRow
  BY <1>2 DEF StoreInv, ChangesHold
<1>4. request[t].pending.standing \in {"kept", "released"} /\ request[t].pending # NoRow
  BY <1>2, WidgetsAreAskedAsMeant DEF Store!Row, Store!StoreAssumption
<1>5. /\ record \in RequestRecords /\ record.call = request[t].call /\ record.at = "done"
      /\ record.answer = request[t].pending.standing
  BY <1>2, <1>4 DEF RequestRecords, Store!Steps, Store!Answers
<1> HIDE DEF record
<1>6. /\ request'[t] = record
      /\ \A u \in Requesters : u # t => request'[u] = request[u]
      /\ request' \in [Requesters -> RequestRecords]
  BY <1>1, <1>5, OthersStay DEF StoreInv
<1>7. /\ users' \subseteq users /\ IsFiniteSet(users') /\ Cardinality(users') <= Connections
      /\ \A u \in users : u # t => u \in users'
      /\ holder' \in [WidgetNames -> Requesters \cup {Nobody}]
      /\ \A n \in WidgetNames : holder'[n] = IF holder[n] = t THEN Nobody ELSE holder[n]
  BY <1>1, FreedBy DEF StoreInv
<1>8. \A n \in WidgetNames : widgets'[n] = IF n = Store!Name(t) THEN request[t].pending ELSE widgets[n]
  BY <1>1 DEF StoreInv, StoreTypes
<1>9. StoreTypes'
  BY <1>1, <1>2, <1>5, <1>6, <1>7 DEF StoreInv, StoreTypes
<1>10. ~Changes(t)' /\ \A u \in Requesters : u # t => (Changes(u)' <=> Changes(u))
  BY <1>5, <1>6 DEF Changes, InTransaction
<1>11. \A u \in Requesters : Store!Name(u)' = Store!Name(u) /\ Store!Op(u)' = Store!Op(u)
  BY <1>5, <1>6 DEF Store!Name, Store!Op
<1>12. ConnectedInTransaction'
  BY <1>5, <1>6, <1>7 DEF StoreInv, ConnectedInTransaction
<1>13. HoldersChange'
  BY <1>7, <1>10, <1>11, WidgetsAreAskedAsMeant DEF StoreInv, StoreTypes, HoldersChange, Store!StoreAssumption
<1>14. ChangesHold'
  <2> SUFFICES ASSUME NEW u \in Requesters, Changes(u)'
               PROVE  /\ holder'[Store!Name(u)'] = u
                      /\ \/ Store!Op(u)' = "take" /\ widgets'[Store!Name(u)'] = request'[u].loaded /\ request'[u].loaded # NoRow
                         \/ Store!Op(u)' = "add" /\ widgets'[Store!Name(u)'] = NoRow /\ request'[u].at = "commit"
                      /\ request'[u].at = "commit" => request'[u].pending \in Store!Row
    BY DEF ChangesHold
  <2>1. u # t /\ Changes(u) /\ request'[u] = request[u]
    BY <1>6, <1>10
  <2>2. Store!Name(u) \in WidgetNames /\ holder[Store!Name(u)] = u
    BY <2>1, RequestsAreOfNames DEF StoreInv, ChangesHold, Changes, InTransaction
  <2>3. Store!Name(u) # Store!Name(t) /\ holder'[Store!Name(u)] = u /\ widgets'[Store!Name(u)] = widgets[Store!Name(u)]
    BY <1>2, <1>7, <1>8, <2>1, <2>2
  <2> QED
    BY <1>11, <2>1, <2>3 DEF StoreInv, ChangesHold
<1>15. BetaHolds'
  BY <1>5, <1>6, <1>11 DEF StoreInv, BetaHolds, InTransaction
<1>16. Cleared'
  <2> SUFFICES ASSUME NEW u \in Requesters, request'[u].at # "idle", Store!NeedsClearance(request'[u].call)
               PROVE  /\ request'[u].at # "done" /\ request'[u].in = "alpha" /\ request'[u].standing = "kept" => Store!Name(u)' \in keys'
                      /\ request'[u].at = "commit" => request'[u].pending.standing = request'[u].standing
                      /\ request'[u].at = "done" /\ request'[u].answer = "kept" => Store!Name(u)' \in keys'
    BY DEF Cleared
  <2>1. CASE u = t
    BY <1>1, <1>5, <1>6, <1>11, <2>1 DEF StoreInv, Cleared
  <2>2. CASE u # t
    BY <1>1, <1>6, <1>11, <2>2 DEF StoreInv, Cleared
  <2> QED
    BY <2>1, <2>2
<1>17. AddsAreThere'
  <2> SUFFICES ASSUME NEW u \in Requesters, request'[u].at = "done", Store!Op(u)' = "add", request'[u].answer \in {"kept", "released"}
               PROVE  widgets'[Store!Name(u)'] # NoRow
    BY DEF AddsAreThere
  <2>1. CASE u = t
    BY <1>2, <1>4, <1>8, <1>11, <2>1
  <2>2. CASE u # t
    <3>1. Store!Name(u) \in WidgetNames /\ widgets[Store!Name(u)] # NoRow
      BY <1>6, <1>11, <2>2, RequestsAreOfNames DEF StoreInv, AddsAreThere
    <3> QED
      BY <1>4, <1>8, <1>11, <3>1
  <2> QED
    BY <2>1, <2>2
<1>18. Store!OneAddPerName'
  <2>1. ASSUME NEW u \in Requesters, request'[u].at = "done", Store!Op(u)' = "add", request'[u].answer \in {"kept", "released"},
               Store!Op(t) = "add", Store!Name(u) = Store!Name(t)
        PROVE  u = t
    <3> SUFFICES ASSUME u # t PROVE FALSE
      OBVIOUS
    <3>1. widgets[Store!Name(t)] # NoRow
      BY <1>6, <1>11, <2>1 DEF StoreInv, AddsAreThere
    <3> QED
      BY <1>3, <2>1, <3>1
  <2> QED
    BY <1>6, <1>11, <2>1 DEF StoreInv, Store!OneAddPerName
<1>19. Store!ReadyMeansPresent'
  BY <1>1 DEF StoreInv, Store!ReadyMeansPresent
<1> QED
  BY <1>1, <1>3, <1>4, <1>8, <1>9, <1>12, <1>13, <1>14, <1>15, <1>16, <1>17, <1>18, <1>19 DEF StoreInv

LEMMA CommittingAKey ==
    ASSUME StoreInv, NEW t \in Requesters, Store!CommitKey(t)
    PROVE  StoreInv'
<1> DEFINE record == [request[t] EXCEPT !.at = "done", !.answer = "held", !.pending = NoRow, !.made = FALSE]
<1>1. /\ request[t].at = "commit" /\ request[t].in = "beta" /\ request' = [request EXCEPT ![t] = record]
      /\ keys' = keys \cup {Store!Name(t)}
      /\ Store!Leaves(t) /\ UNCHANGED <<widgets, schema, ready>>
  BY DEF Store!CommitKey, Store!Ends
<1>2. request[t] \in RequestRecords /\ request[t].call \in Requests /\ Store!Name(t) \in WidgetNames /\ Store!Op(t) = "hold"
  BY <1>1, RequestsAreOfNames DEF StoreInv, StoreTypes, BetaHolds, InTransaction
<1>3. /\ record \in RequestRecords /\ record.call = request[t].call /\ record.at = "done" /\ record.answer = "held"
  BY <1>2 DEF RequestRecords, Store!Steps, Store!Answers
<1> HIDE DEF record
<1>4. /\ request'[t] = record
      /\ \A u \in Requesters : u # t => request'[u] = request[u]
      /\ request' \in [Requesters -> RequestRecords]
  BY <1>1, <1>3, OthersStay DEF StoreInv
<1>5. /\ users' \subseteq users /\ IsFiniteSet(users') /\ Cardinality(users') <= Connections
      /\ \A u \in users : u # t => u \in users'
      /\ holder' \in [WidgetNames -> Requesters \cup {Nobody}]
      /\ \A n \in WidgetNames : holder'[n] = IF holder[n] = t THEN Nobody ELSE holder[n]
  BY <1>1, FreedBy DEF StoreInv
<1>6. StoreTypes'
  BY <1>1, <1>2, <1>3, <1>4, <1>5 DEF StoreInv, StoreTypes
<1>7. ~Changes(t)' /\ ~Changes(t) /\ \A u \in Requesters : u # t => (Changes(u)' <=> Changes(u))
  BY <1>1, <1>3, <1>4 DEF Changes, InTransaction
<1>8. \A u \in Requesters : Store!Name(u)' = Store!Name(u) /\ Store!Op(u)' = Store!Op(u)
  BY <1>3, <1>4 DEF Store!Name, Store!Op
<1>9. ConnectedInTransaction'
  BY <1>3, <1>4, <1>5 DEF StoreInv, ConnectedInTransaction
<1>10. HoldersChange'
  BY <1>5, <1>7, <1>8, WidgetsAreAskedAsMeant DEF StoreInv, StoreTypes, HoldersChange, Store!StoreAssumption
<1>11. ChangesHold'
  <2> SUFFICES ASSUME NEW u \in Requesters, Changes(u)'
               PROVE  /\ holder'[Store!Name(u)'] = u
                      /\ \/ Store!Op(u)' = "take" /\ widgets'[Store!Name(u)'] = request'[u].loaded /\ request'[u].loaded # NoRow
                         \/ Store!Op(u)' = "add" /\ widgets'[Store!Name(u)'] = NoRow /\ request'[u].at = "commit"
                      /\ request'[u].at = "commit" => request'[u].pending \in Store!Row
    BY DEF ChangesHold
  <2>1. u # t /\ Changes(u) /\ request'[u] = request[u]
    BY <1>4, <1>7
  <2>2. Store!Name(u) \in WidgetNames /\ holder[Store!Name(u)] = u
    BY <2>1, RequestsAreOfNames DEF StoreInv, ChangesHold, Changes, InTransaction
  <2> QED
    BY <1>1, <1>5, <1>8, <2>1, <2>2 DEF StoreInv, ChangesHold
<1>12. BetaHolds'
  BY <1>3, <1>4, <1>8 DEF StoreInv, BetaHolds, InTransaction
<1>13. Cleared'
  <2>1. ~Store!NeedsClearance(request'[t].call)
    BY <1>2, <1>3, <1>4 DEF Store!NeedsClearance, Store!Op
  <2> QED
    BY <1>1, <1>4, <1>8, <2>1 DEF StoreInv, Cleared
<1>14. AddsAreThere' /\ Store!OneAddPerName'
  BY <1>1, <1>3, <1>4, <1>8 DEF StoreInv, AddsAreThere, Store!OneAddPerName
<1>15. Store!ReadyMeansPresent'
  BY <1>1 DEF StoreInv, Store!ReadyMeansPresent
<1> QED
  BY <1>6, <1>9, <1>10, <1>11, <1>12, <1>13, <1>14, <1>15 DEF StoreInv

(* Every other step is one of the kinds above.                             *)
LEMMA RequestBegins ==
    ASSUME StoreInv, NEW t \in Requesters, NEW call \in Requests, Store!Start(t, call)
    PROVE  StoreInv'
<1> DEFINE record == [request[t] EXCEPT !.call = call, !.at = "acquire",
                         !.in = IF call.op = "hold" \/ Store!NeedsClearance(call) THEN "beta" ELSE "alpha"]
<1>1. /\ request[t].at = "idle" /\ request' = [request EXCEPT ![t] = record]
      /\ UNCHANGED <<widgets, keys, holder, users, schema, ready>>
  BY DEF Store!Start
<1>2. request[t] \in RequestRecords /\ ~Changes(t)
  BY <1>1 DEF StoreInv, StoreTypes, Changes, InTransaction
<1>3. /\ record \in RequestRecords /\ record.at = "acquire" /\ record.call = call
      /\ Store!NeedsClearance(call) => record.in = "beta"
  BY <1>2 DEF RequestRecords, Store!Steps, Store!Contexts
<1> HIDE DEF record
<1> QED
  BY <1>1, <1>2, <1>3, QuietRequest DEF StoreInv, StoreTypes, Store!ReadyMeansPresent

LEMMA Connects ==
    ASSUME StoreInv, NEW t \in Requesters, Store!AcquireConnection(t)
    PROVE  StoreInv'
<1> DEFINE to == IF ready[request[t].in] THEN "begun" ELSE "schema"
           record == [request[t] EXCEPT !.at = to]
<1>1. /\ request[t].at = "acquire" /\ request' = [request EXCEPT ![t] = record]
      /\ users' = users \cup {t} /\ t \notin users /\ Store!Cardinality(users) < Connections
      /\ UNCHANGED <<widgets, keys, holder, schema, ready>>
  BY DEF Store!AcquireConnection, Store!Goes
<1>2. IsFiniteSet(users') /\ Cardinality(users') <= Connections /\ users' \subseteq Requesters
  <2>1. Cardinality(users) < Connections /\ Cardinality(users) \in Nat /\ Connections \in Nat
    BY <1>1, StoreCounts, FS_CardinalityType, WidgetsAreAskedAsMeant DEF StoreInv, StoreTypes, Store!StoreAssumption
  <2>2. IsFiniteSet(users') /\ Cardinality(users') = Cardinality(users) + 1
    BY <1>1, FS_AddElement DEF StoreInv, StoreTypes
  <2> QED
    BY <1>1, <2>1, <2>2 DEF StoreInv, StoreTypes
<1>3. request[t] \in RequestRecords /\ request[t].call \in Requests /\ ~Changes(t) /\ to \in {"begun", "schema"}
  BY <1>1, RequestsAreOfNames DEF StoreInv, StoreTypes, Changes, InTransaction
<1> HIDE DEF to
<1>4. /\ record \in RequestRecords /\ record.at = to /\ record.call = request[t].call
      /\ record.in = request[t].in /\ record.standing = request[t].standing
  BY <1>3 DEF RequestRecords, Store!Steps
<1> HIDE DEF record
<1>5. Store!NeedsClearance(record.call) /\ record.in = "alpha" /\ record.standing = "kept" => record.call.name \in keys
  BY <1>1, <1>4 DEF StoreInv, Cleared, Store!Name
<1> QED
  BY <1>1, <1>2, <1>3, <1>4, <1>5, QuietRequest DEF StoreInv, StoreTypes, Store!ReadyMeansPresent

LEMMA MakesItsSchema ==
    ASSUME StoreInv, NEW t \in Requesters, Store!MakeSchema(t)
    PROVE  StoreInv'
<1> DEFINE record == [request[t] EXCEPT !.at = "begun", !.made = TRUE]
<1>1. /\ request[t].at = "schema" /\ request' = [request EXCEPT ![t] = record]
      /\ schema' = [schema EXCEPT ![request[t].in] = TRUE] /\ ready' = [ready EXCEPT ![request[t].in] = TRUE]
      /\ UNCHANGED <<widgets, keys, holder, users>>
  BY DEF Store!MakeSchema
<1>2. request[t] \in RequestRecords /\ request[t].call \in Requests /\ ~Changes(t) /\ t \in users
  BY <1>1, RequestsAreOfNames DEF StoreInv, StoreTypes, Changes, InTransaction, ConnectedInTransaction
<1>3. /\ schema' \in [Store!Contexts -> BOOLEAN] /\ ready' \in [Store!Contexts -> BOOLEAN]
      /\ \A k \in Store!Contexts : ready'[k] => schema'[k]
  BY <1>1, <1>2 DEF StoreInv, StoreTypes, Store!ReadyMeansPresent, RequestRecords
<1>4. /\ record \in RequestRecords /\ record.at = "begun" /\ record.call = request[t].call
      /\ record.in = request[t].in /\ record.standing = request[t].standing
  BY <1>2 DEF RequestRecords, Store!Steps
<1> HIDE DEF record
<1>5. Store!NeedsClearance(record.call) /\ record.in = "alpha" /\ record.standing = "kept" => record.call.name \in keys
  BY <1>1, <1>4 DEF StoreInv, Cleared, Store!Name
<1> QED
  BY <1>1, <1>2, <1>3, <1>4, <1>5, QuietRequest DEF StoreInv, StoreTypes

LEMMA PutsAKey ==
    ASSUME StoreInv, NEW t \in Requesters, Store!PutKey(t)
    PROVE  StoreInv'
<1> DEFINE record == [request[t] EXCEPT !.at = "commit"]
<1>1. /\ request[t].at = "begun" /\ request[t].in = "beta" /\ Store!Op(t) = "hold"
      /\ request' = [request EXCEPT ![t] = record]
      /\ UNCHANGED <<widgets, keys, holder, users, schema, ready>>
  BY DEF Store!PutKey, Store!Goes
<1>2. request[t] \in RequestRecords /\ request[t].call \in Requests /\ ~Changes(t) /\ t \in users
  BY <1>1, RequestsAreOfNames DEF StoreInv, StoreTypes, Changes, InTransaction, ConnectedInTransaction
<1>3. /\ record \in RequestRecords /\ record.at = "commit" /\ record.call = request[t].call /\ record.in = "beta"
  BY <1>1, <1>2 DEF RequestRecords, Store!Steps
<1>4. record.call.op = "hold" /\ ~Store!NeedsClearance(record.call)
  BY <1>1, <1>3 DEF Store!Op, Store!NeedsClearance
<1> HIDE DEF record
<1> QED
  BY <1>1, <1>2, <1>3, <1>4, QuietRequest DEF StoreInv, StoreTypes, Store!ReadyMeansPresent

(* The transaction ends without a change, with an answer or an error.      *)
LEMMA EndsUnchanged ==
    ASSUME StoreInv, NEW t \in Requesters, NEW answer \in Store!Answers \ {"kept", "released"},
           Store!Leaves(t), Store!Ends(t, answer), request[t].at # "idle",
           UNCHANGED <<widgets, keys, schema, ready>>
    PROVE  StoreInv'
<1> DEFINE record == [request[t] EXCEPT !.at = "done", !.answer = answer, !.pending = NoRow, !.made = FALSE]
<1>1. request[t] \in RequestRecords
  BY DEF StoreInv, StoreTypes
<1>2. record \in RequestRecords /\ record.at = "done" /\ record.call = request[t].call /\ record.answer = answer
  BY <1>1 DEF RequestRecords, Store!Steps
<1>3. request' = [request EXCEPT ![t] = record]
  BY DEF Store!Ends
<1> HIDE DEF record
<1> QED
  BY <1>2, <1>3, LeavingRequest

LEMMA ClearsAName ==
    ASSUME StoreInv, NEW t \in Requesters, Store!CheckName(t)
    PROVE  StoreInv'
<1> DEFINE word == IF Store!Name(t) \in keys THEN "kept" ELSE "released"
           record == [request[t] EXCEPT !.standing = word, !.at = "acquire", !.in = "alpha", !.made = FALSE]
<1>1. /\ request[t].at = "begun" /\ request' = [request EXCEPT ![t] = record]
      /\ Store!Leaves(t) /\ UNCHANGED <<widgets, keys, schema, ready>>
  BY DEF Store!CheckName
<1>2. request[t] \in RequestRecords /\ word \in {"kept", "released"} /\ (word = "kept" => request[t].call.name \in keys)
  BY DEF StoreInv, StoreTypes, Store!Name
<1> HIDE DEF word
<1>3. record \in RequestRecords /\ record.at = "acquire" /\ record.call = request[t].call /\ record.standing = word
  BY <1>2 DEF RequestRecords, Store!Steps, Store!Contexts
<1> HIDE DEF record
<1> QED
  BY <1>1, <1>2, <1>3, LeavingRequest

LEMMA AddsAWidget ==
    ASSUME StoreInv, NEW t \in Requesters, Store!AddWidget(t)
    PROVE  StoreInv'
<1> DEFINE row == Store!RowOf(Store!Part(t), request[t].standing)
           record == [request[t] EXCEPT !.pending = row, !.at = "commit"]
<1>1. /\ request[t].at = "begun" /\ request[t].in = "alpha" /\ Store!Op(t) = "add"
      /\ widgets[Store!Name(t)] = NoRow /\ holder[Store!Name(t)] = Nobody
      /\ holder' = [holder EXCEPT ![Store!Name(t)] = t] /\ request' = [request EXCEPT ![t] = record]
      /\ UNCHANGED <<widgets, keys, users, schema, ready>>
  BY DEF Store!AddWidget, Store!InAlpha
<1>2. request[t] \in RequestRecords /\ Store!Part(t) \in WidgetParts
  BY <1>1, RequestsAreOfNames DEF StoreInv, StoreTypes
<1>3. row \in Store!Row /\ row.standing = request[t].standing
  BY <1>2 DEF Store!RowOf, Store!Row, RequestRecords
<1> HIDE DEF row
<1>4. /\ record \in RequestRecords /\ record.at = "commit" /\ record.call = request[t].call /\ record.in = "alpha"
      /\ record.standing = request[t].standing /\ record.pending = row
  BY <1>1, <1>2, <1>3 DEF RequestRecords, Store!Steps
<1> HIDE DEF record
<1> QED
  BY <1>1, <1>3, <1>4, TakingARow

LEMMA LoadsAWidget ==
    ASSUME StoreInv, NEW t \in Requesters, Store!LoadWidget(t)
    PROVE  StoreInv'
<1> DEFINE row == widgets[Store!Name(t)]
           record == [request[t] EXCEPT !.loaded = row, !.at = "save"]
<1>1. /\ request[t].at = "begun" /\ request[t].in = "alpha" /\ Store!Op(t) = "take"
      /\ row # NoRow /\ holder[Store!Name(t)] = Nobody
      /\ holder' = [holder EXCEPT ![Store!Name(t)] = t] /\ request' = [request EXCEPT ![t] = record]
      /\ UNCHANGED <<widgets, keys, users, schema, ready>>
  BY DEF Store!LoadWidget, Store!InAlpha
<1>2. request[t] \in RequestRecords /\ row \in Store!Row
  BY <1>1, RequestsAreOfNames DEF StoreInv, StoreTypes
<1>3. /\ record \in RequestRecords /\ record.at = "save" /\ record.call = request[t].call /\ record.in = "alpha"
      /\ record.standing = request[t].standing /\ record.loaded = row
  BY <1>1, <1>2 DEF RequestRecords, Store!Steps
<1> HIDE DEF record
<1> QED
  BY <1>1, <1>3, TakingARow

LEMMA StoreGoesOn == StoreInv /\ Store!Next => StoreInv'
<1> SUFFICES ASSUME StoreInv, Store!Next PROVE StoreInv'
  OBVIOUS
<1>1. PICK t \in Requesters : (\E call \in Requests : Store!Start(t, call)) \/ Store!Statement(t) \/ Store!RollBack(t)
  BY DEF Store!Next
<1>2. CASE \E call \in Requests : Store!Start(t, call)
  BY <1>2, RequestBegins
<1>3. CASE Store!RollBack(t)
  <2>1. "raised" \in Store!Answers \ {"kept", "released"}
    BY DEF Store!Answers
  <2> QED
    BY <1>3, <2>1, EndsUnchanged DEF Store!RollBack
<1>4. CASE Store!Statement(t)
  <2>1. {"WidgetExists", "WidgetNotFound", "held", "yes", "no"} \subseteq Store!Answers \ {"kept", "released"}
    BY DEF Store!Answers
  <2>2. CASE Store!AddWidgetExists(t)
    BY <2>1, <2>2, EndsUnchanged DEF Store!AddWidgetExists, Store!InAlpha
  <2>3. CASE Store!LoadWidgetMissing(t)
    BY <2>1, <2>3, EndsUnchanged DEF Store!LoadWidgetMissing, Store!InAlpha
  <2>4. CASE Store!TakeHeld(t)
    BY <2>1, <2>4, EndsUnchanged DEF Store!TakeHeld
  <2>5. CASE Store!FindWidget(t)
    BY <2>1, <2>5, EndsUnchanged DEF Store!FindWidget, Store!InAlpha
  <2> QED
    BY <1>4, <2>2, <2>3, <2>4, <2>5, Connects, MakesItsSchema, ClearsAName, AddsAWidget, LoadsAWidget,
       SavingARow, CommittingARow, PutsAKey, CommittingAKey DEF Store!Statement
<1> QED
  BY <1>1, <1>2, <1>3, <1>4

(* Of a step: a stored widget is replaced by who had loaded it.            *)
LEMMA StoredAreReplaced ==
    ASSUME StoreInv, Store!Next, NEW n \in WidgetNames, widgets[n] # NoRow, widgets'[n] # widgets[n]
    PROVE  \E t \in Requesters : /\ request[t].at = "commit" /\ Store!Op(t) = "take" /\ Store!Name(t) = n
                                 /\ request[t].loaded = widgets[n]
<1>1. PICK t \in Requesters : Store!CommitWidget(t)
  BY DEF Store!Next, Store!Start, Store!RollBack, Store!Statement, Store!AcquireConnection, Store!MakeSchema,
         Store!CheckName, Store!AddWidget, Store!AddWidgetExists, Store!LoadWidget, Store!LoadWidgetMissing,
         Store!SaveWidget, Store!TakeHeld, Store!FindWidget, Store!PutKey, Store!CommitKey
<1>2. n = Store!Name(t)
  BY <1>1, CommittingARow
<1> QED
  BY <1>1, <1>2, CommittingARow

LEMMA StoreInvHolds ==
    ASSUME StoreInv
    PROVE  /\ Store!TypeOK /\ Store!LoadedRowsStand /\ Store!OneAddPerName
           /\ Store!ClearedNamesAreHeld /\ Store!ReadyMeansPresent
<1>1. Store!TypeOK
  BY StoreCounts DEF StoreInv, StoreTypes, Store!TypeOK, RequestRecords
<1>2. Store!LoadedRowsStand
  <2>1. ASSUME NEW n \in WidgetNames, holder[n] # Nobody PROVE holder[n] \in users
    <3>1. holder[n] \in Requesters /\ Changes(holder[n])
      BY <2>1 DEF StoreInv, StoreTypes, HoldersChange
    <3> QED
      BY <3>1 DEF StoreInv, ConnectedInTransaction, Changes, InTransaction
  <2>2. ASSUME NEW t \in Requesters, request[t].at \in {"save", "commit"}, Store!Op(t) = "take"
        PROVE  widgets[Store!Name(t)] = request[t].loaded
    <3>1. request[t].in = "alpha"
      BY <2>2 DEF StoreInv, StoreTypes, RequestRecords, Store!Contexts, BetaHolds, InTransaction
    <3> QED
      BY <2>2, <3>1 DEF StoreInv, ChangesHold, Changes, InTransaction
  <2> QED
    BY <2>1, <2>2 DEF Store!LoadedRowsStand
<1>3. Store!ClearedNamesAreHeld
  BY DEF StoreInv, Cleared, Store!ClearedNamesAreHeld
<1> QED
  BY <1>1, <1>2, <1>3 DEF StoreInv

(* Of requests that meet on widgets and keys of two contexts with one pool *)
(* of connections (asyncpg's repositories and service): a loaded row       *)
(* stands until it is saved, a stored one is replaced only by who had      *)
(* loaded it, one add of a name is answered with a standing, a clearance   *)
(* of a name is still good when it is used, and a store that skips its     *)
(* schema has one.                                                         *)
THEOREM WidgetsAreKept == PartSpec => WidgetChangesHold
<1> DEFINE Inv == part = "widgets" => StoreInv
<1> DEFINE all == <<part, errorVars, databaseVars, widgetVars, bookingVars, approvalVars>>
<1>1. PartInit => Inv
  BY StoreBegins DEF PartInit
<1>2. Inv /\ [PartNext]_all => Inv'
  <2> SUFFICES ASSUME Inv, [PartNext]_all, part' = "widgets" PROVE StoreInv'
    OBVIOUS
  <2>1. CASE Store!Next /\ part = "widgets"
    BY <2>1, StoreGoesOn
  <2>2. CASE UNCHANGED <<part, widgetVars>>
    BY <2>2 DEF widgetVars, StoreInv, StoreTypes, ConnectedInTransaction, HoldersChange, ChangesHold, BetaHolds,
                Cleared, AddsAreThere, Changes, Store!OneAddPerName, Store!ReadyMeansPresent, Store!Op, Store!Name
  <2> QED
    BY <2>1, <2>2 DEF PartNext
<1>3. Inv => (part = "widgets" => /\ Store!TypeOK
                                  /\ Store!LoadedRowsStand
                                  /\ Store!OneAddPerName
                                  /\ Store!ClearedNamesAreHeld
                                  /\ Store!ReadyMeansPresent)
  BY StoreInvHolds
<1>4. Inv /\ [PartNext]_all =>
        [\A n \in WidgetNames : widgets[n] # NoRow /\ widgets'[n] # widgets[n] =>
            \E t \in Requesters : request[t].at = "commit" /\ Store!Op(t) = "take" /\ Store!Name(t) = n
                                /\ request[t].loaded = widgets[n]]_(Store!vars)
  <2> SUFFICES ASSUME Inv, [PartNext]_all, ~ UNCHANGED Store!vars
               PROVE  StoreInv /\ Store!Next
    BY StoredAreReplaced
  <2> QED
    BY DEF PartNext, widgetVars, Store!vars
<1> QED
  BY <1>1, <1>2, <1>3, <1>4, PTL DEF PartSpec, WidgetChangesHold, Store!ChangesFollowLoads

-------------------------------------------------------------------------------
(* The bookings: what SlotBookingProofs shows of every set of callers, of  *)
(* two callers and of one.                                                 *)

Two ==
    INSTANCE SlotBookingProofs WITH Bookings <- {a1, a2}, Slots <- {b1, b2}, Available <- {b1, b2},
        Calls <- {c}, Sessions <- 1

One ==
    INSTANCE SlotBookingProofs WITH Bookings <- {c}, Slots <- {b1, b2}, Available <- {b1, b2},
        Calls <- {a1, a2}, Sessions <- 2

LEMMA TwoCallersBegin == TwoCallers!Init <=> Two!Init
BY DEF
    TwoCallers!Init, TwoCallers!NotEntered, TwoCallers!NotCalled, TwoCallers!NoTurn, Two!Init,
    Two!NotEntered, Two!NotCalled, Two!NoTurn

LEMMA TwoCallersMove == TwoCallers!Next <=> Two!Next
BY DEF
    TwoCallers!Next, TwoCallers!Enter, TwoCallers!EnterFails, TwoCallers!HangUp, TwoCallers!Tools,
    TwoCallers!Issue, TwoCallers!Call, TwoCallers!Ends, TwoCallers!Resumed, TwoCallers!NotEntered,
    TwoCallers!Turn, TwoCallers!NoTurn, TwoCallers!ProvideName, TwoCallers!ChooseSlot,
    TwoCallers!ConfirmBooked, TwoCallers!ConfirmReoffered, TwoCallers!Refused, TwoCallers!Breaks,
    TwoCallers!SaveFails, TwoCallers!Mount, TwoCallers!MountFails, TwoCallers!MountCancelled,
    TwoCallers!Begun, TwoCallers!ToolsFor, TwoCallers!Serves, TwoCallers!Given, TwoCallers!Offer,
    TwoCallers!Saves, TwoCallers!Named, TwoCallers!Chosen, TwoCallers!Confirms, TwoCallers!Reserve,
    TwoCallers!Booked, TwoCallers!Reoffered, TwoCallers!TakesTurn, TwoCallers!Refuses, TwoCallers!Answers,
    TwoCallers!GetBooking, TwoCallers!Halts, TwoCallers!Mounting, TwoCallers!NotCalled, Two!Next, Two!Enter,
    Two!EnterFails, Two!HangUp, Two!Tools, Two!Issue, Two!Call, Two!Ends, Two!Resumed, Two!NotEntered,
    Two!Turn, Two!NoTurn, Two!ProvideName, Two!ChooseSlot, Two!ConfirmBooked, Two!ConfirmReoffered,
    Two!Refused, Two!Breaks, Two!SaveFails, Two!Mount, Two!MountFails, Two!MountCancelled, Two!Begun,
    Two!ToolsFor, Two!Serves, Two!Given, Two!Offer, Two!Saves, Two!Named, Two!Chosen, Two!Confirms,
    Two!Reserve, Two!Booked, Two!Reoffered, Two!TakesTurn, Two!Refuses, Two!Answers, Two!GetBooking,
    Two!Halts, Two!Mounting, Two!NotCalled

LEMMA TwoCallersAreSound == TwoCallers!BookingsAreSound <=> Two!BookingsAreSound
BY DEF
    TwoCallers!BookingsAreSound, TwoCallers!TypeOK, TwoCallers!SlotsAreSoldOnce,
    TwoCallers!BookedIsReserved, TwoCallers!ToolsFollowBooking, TwoCallers!Row, TwoCallers!Turns,
    TwoCallers!Tools, TwoCallers!Loads, TwoCallers!Turn, TwoCallers!BookingSteps, TwoCallers!ToolsFor,
    Two!BookingsAreSound, Two!TypeOK, Two!SlotsAreSoldOnce, Two!BookedIsReserved, Two!ToolsFollowBooking,
    Two!Row, Two!Turns, Two!Tools, Two!Loads, Two!Turn, Two!BookingSteps, Two!ToolsFor

LEMMA TwoCallersStepsAreSound == TwoCallers!StepsAreSound <=> Two!StepsAreSound
BY DEF
    TwoCallers!StepsAreSound, TwoCallers!ReservedIsBookedOrHalted, TwoCallers!BookingsNeverGoBack,
    Two!StepsAreSound, Two!ReservedIsBookedOrHalted, Two!BookingsNeverGoBack

LEMMA TwoCallersAskedAsMeant == Two!BookingAssumption
BY BookingsAreAskedAsMeant DEF
    TwoCallers!BookingAssumption, TwoCallers!Row, TwoCallers!BookingSteps, Two!BookingAssumption, Two!Row,
    Two!BookingSteps

LEMMA OneCallerBegin == OneCaller!Init <=> One!Init
BY DEF
    OneCaller!Init, OneCaller!NotEntered, OneCaller!NotCalled, OneCaller!NoTurn, One!Init, One!NotEntered,
    One!NotCalled, One!NoTurn

LEMMA OneCallerMove == OneCaller!Next <=> One!Next
BY DEF
    OneCaller!Next, OneCaller!Enter, OneCaller!EnterFails, OneCaller!HangUp, OneCaller!Tools,
    OneCaller!Issue, OneCaller!Call, OneCaller!Ends, OneCaller!Resumed, OneCaller!NotEntered,
    OneCaller!Turn, OneCaller!NoTurn, OneCaller!ProvideName, OneCaller!ChooseSlot, OneCaller!ConfirmBooked,
    OneCaller!ConfirmReoffered, OneCaller!Refused, OneCaller!Breaks, OneCaller!SaveFails, OneCaller!Mount,
    OneCaller!MountFails, OneCaller!MountCancelled, OneCaller!Begun, OneCaller!ToolsFor, OneCaller!Serves,
    OneCaller!Given, OneCaller!Offer, OneCaller!Saves, OneCaller!Named, OneCaller!Chosen,
    OneCaller!Confirms, OneCaller!Reserve, OneCaller!Booked, OneCaller!Reoffered, OneCaller!TakesTurn,
    OneCaller!Refuses, OneCaller!Answers, OneCaller!GetBooking, OneCaller!Halts, OneCaller!Mounting,
    OneCaller!NotCalled, One!Next, One!Enter, One!EnterFails, One!HangUp, One!Tools, One!Issue, One!Call,
    One!Ends, One!Resumed, One!NotEntered, One!Turn, One!NoTurn, One!ProvideName, One!ChooseSlot,
    One!ConfirmBooked, One!ConfirmReoffered, One!Refused, One!Breaks, One!SaveFails, One!Mount,
    One!MountFails, One!MountCancelled, One!Begun, One!ToolsFor, One!Serves, One!Given, One!Offer,
    One!Saves, One!Named, One!Chosen, One!Confirms, One!Reserve, One!Booked, One!Reoffered, One!TakesTurn,
    One!Refuses, One!Answers, One!GetBooking, One!Halts, One!Mounting, One!NotCalled

LEMMA OneCallerAreSound == OneCaller!BookingsAreSound <=> One!BookingsAreSound
BY DEF
    OneCaller!BookingsAreSound, OneCaller!TypeOK, OneCaller!SlotsAreSoldOnce, OneCaller!BookedIsReserved,
    OneCaller!ToolsFollowBooking, OneCaller!Row, OneCaller!Turns, OneCaller!Tools, OneCaller!Loads,
    OneCaller!Turn, OneCaller!BookingSteps, OneCaller!ToolsFor, One!BookingsAreSound, One!TypeOK,
    One!SlotsAreSoldOnce, One!BookedIsReserved, One!ToolsFollowBooking, One!Row, One!Turns, One!Tools,
    One!Loads, One!Turn, One!BookingSteps, One!ToolsFor

LEMMA OneCallerStepsAreSound == OneCaller!StepsAreSound <=> One!StepsAreSound
BY DEF
    OneCaller!StepsAreSound, OneCaller!ReservedIsBookedOrHalted, OneCaller!BookingsNeverGoBack,
    One!StepsAreSound, One!ReservedIsBookedOrHalted, One!BookingsNeverGoBack

LEMMA OneCallerAskedAsMeant == One!BookingAssumption
BY BookingsAreAskedAsMeant DEF
    OneCaller!BookingAssumption, OneCaller!Row, OneCaller!BookingSteps, One!BookingAssumption, One!Row,
    One!BookingSteps

(* However two callers, or two calls of one, meet on the directory of      *)
(* slots (Booking, BookSlot's use cases, ToolAgent): a slot is sold once,  *)
(* a booked booking has its slot and keeps it, a reservation that was not  *)
(* saved stops the session, no booking goes back, and the tools mounted    *)
(* are those of the booking's step.                                        *)
THEOREM SlotsAreSold == PartSpec => SlotsAreSoldAsBooked
<1> DEFINE all == <<part, errorVars, databaseVars, widgetVars, bookingVars, approvalVars>>
<1> DEFINE Inv == (part = "two callers" => Two!IInv) /\ (part = "one caller" => One!IInv)
<1>1. PartInit => Inv
  BY TwoCallersBegin, OneCallerBegin, TwoCallersAskedAsMeant, OneCallerAskedAsMeant, Two!IInvInit, One!IInvInit
     DEF PartInit
<1>2. ASSUME Inv, [PartNext]_all, part' = "two callers"
      PROVE  Two!IInv' /\ (TwoCallers!Next \/ UNCHANGED bookingVars)
  <2>1. part = "two callers" /\ (TwoCallers!Next \/ UNCHANGED bookingVars)
    BY <1>2 DEF PartNext
  <2>2. [Two!Next]_(Two!vars)
    BY <2>1, TwoCallersMove DEF bookingVars, Two!vars
  <2> QED
    BY <1>2, <2>1, <2>2, TwoCallersAskedAsMeant, Two!IInvNext
<1>3. ASSUME Inv, [PartNext]_all, part' = "one caller"
      PROVE  One!IInv' /\ (OneCaller!Next \/ UNCHANGED bookingVars)
  <2>1. part = "one caller" /\ (OneCaller!Next \/ UNCHANGED bookingVars)
    BY <1>3 DEF PartNext
  <2>2. [One!Next]_(One!vars)
    BY <2>1, OneCallerMove DEF bookingVars, One!vars
  <2> QED
    BY <1>3, <2>1, <2>2, OneCallerAskedAsMeant, One!IInvNext
<1>4. Inv /\ [PartNext]_all => Inv'
  BY <1>2, <1>3
<1>5. Inv => /\ part = "two callers" => TwoCallers!BookingsAreSound
             /\ part = "one caller" => OneCaller!BookingsAreSound
  BY TwoCallersAreSound, OneCallerAreSound, Two!InvariantMeansSound, One!InvariantMeansSound
<1>6. Inv /\ [PartNext]_all => [part = "two callers" => TwoCallers!StepsAreSound]_bookingVars
  <2> SUFFICES ASSUME Inv, [PartNext]_all, ~ UNCHANGED bookingVars, part = "two callers"
               PROVE  Two!StepsAreSound
    BY TwoCallersStepsAreSound
  <2>1. Two!Next
    BY TwoCallersMove DEF PartNext
  <2> QED
    BY <2>1, TwoCallersAskedAsMeant, Two!StepIsSound
<1>7. Inv /\ [PartNext]_all => [part = "one caller" => OneCaller!StepsAreSound]_bookingVars
  <2> SUFFICES ASSUME Inv, [PartNext]_all, ~ UNCHANGED bookingVars, part = "one caller"
               PROVE  One!StepsAreSound
    BY OneCallerStepsAreSound
  <2>1. One!Next
    BY OneCallerMove DEF PartNext
  <2> QED
    BY <2>1, OneCallerAskedAsMeant, One!StepIsSound
<1> QED
  BY <1>1, <1>4, <1>5, <1>6, <1>7, PTL DEF PartSpec, SlotsAreSoldAsBooked

-------------------------------------------------------------------------------
(* The approvals.                                                          *)

(* What OneName's and TableRaces' variables hold.                          *)
FlowSteps == {"none", "accepted", "waiting", "keeping", "done"}
NoJob == [op |-> "none"]

ApprovalTypes ==
    /\ made \in BOOLEAN
    /\ standings \in [ApprovalNames -> {"none", "kept", "released"}]
    /\ flow \in [ApprovalNames -> FlowSteps]
    /\ promise \in [ApprovalNames -> BOOLEAN]
    /\ tries \in [ApprovalNames -> 0..(Tries - 1)] /\ paused \subseteq ApprovalNames
    /\ at \in [OneName!Sessions -> OneName!Steps]
    /\ job \in [Approvers -> OneName!Calls \cup {NoJob}]

(* A command that talks to Postgres or to the engine has a call for it.    *)
JobsFit ==
    \A k \in Approvers :
        /\ at[k] \in {"connecting", "creating", "ready", "committed"} =>
              job[k].op \in {"add", "find"} /\ job[k].name \in ApprovalNames
        /\ at[k] = "asking" => job[k].op \in {"create", "approve"} /\ job[k].name \in ApprovalNames

(* Who is past the table has one.                                          *)
ReadyHaveATable == \A s \in OneName!Sessions : at[s] \in {"ready", "committed"} => made

(* A name's action is tried for an approved name, and over when the row is *)
(* there.                                                                  *)
RegistrationsGoOn ==
    \A n \in ApprovalNames :
        /\ promise[n] => flow[n] \notin {"none", "accepted"}
        /\ flow[n] \in {"keeping", "done"} => promise[n]
        /\ at[n] # "idle" => flow[n] = "keeping"
        /\ at[n] = "committed" => standings[n] # "none"
        /\ flow[n] = "done" => made /\ standings[n] # "none"

ApprovalInv == ApprovalTypes /\ JobsFit /\ ReadyHaveATable /\ RegistrationsGoOn

LEMMA TriesAreCounted == Tries \in Nat \ {0} /\ 0 \in 0..(Tries - 1)
<1>1. Tries \in Nat \ {0}
  BY ApprovalsAreAskedAsMeant DEF OneName!ApprovalAssumption
<1> QED
  BY <1>1

LEMMA ApprovalsBegin == OneName!Init => ApprovalInv
<1> SUFFICES ASSUME OneName!Init PROVE ApprovalInv
  OBVIOUS
<1>1. ApprovalTypes
  BY TriesAreCounted DEF OneName!Init, OneName!Steps, ApprovalTypes, FlowSteps, NoJob
<1>2. JobsFit /\ ReadyHaveATable /\ RegistrationsGoOn
  BY DEF OneName!Init, OneName!Sessions, JobsFit, ReadyHaveATable, RegistrationsGoOn
<1> QED
  BY <1>1, <1>2 DEF ApprovalInv

(* Where a session is changes by one session's move.                       *)
LEMMA SessionMoves ==
    ASSUME ApprovalTypes, NEW s \in OneName!Sessions, NEW to \in OneName!Steps, OneName!Move(s, to)
    PROVE  /\ at' \in [OneName!Sessions -> OneName!Steps] /\ at'[s] = to
           /\ \A u \in OneName!Sessions : u # s => at'[u] = at[u]
BY DEF ApprovalTypes, OneName!Move

(* An attempt that is lost is counted below the policy's limit, or pauses. *)
LEMMA AttemptsAreCounted ==
    ASSUME ApprovalTypes, NEW n \in ApprovalNames, OneName!Lost(n)
    PROVE  tries' \in [ApprovalNames -> 0..(Tries - 1)] /\ paused' \subseteq ApprovalNames
<1>1. tries[n] \in 0..(Tries - 1)
  BY DEF ApprovalTypes
<1>2. CASE tries[n] + 1 = Tries
  BY <1>2, TriesAreCounted DEF ApprovalTypes, OneName!Lost
<1>3. CASE tries[n] + 1 # Tries
  <2>1. tries[n] + 1 \in 0..(Tries - 1)
    BY <1>1, <1>3, TriesAreCounted
  <2> QED
    BY <1>3, <2>1 DEF ApprovalTypes, OneName!Lost
<1> QED
  BY <1>2, <1>3

(* A session that fails goes back or is over, and leaves the rest.         *)
LEMMA SessionFails ==
    ASSUME ApprovalInv, NEW s \in OneName!Sessions, OneName!Fails(s), UNCHANGED <<OneName!Database, job>>
    PROVE  ApprovalInv'
<1> USE DEF OneName!Database
<1>1. /\ at' \in [OneName!Sessions -> OneName!Steps] /\ at'[s] \in {"idle", "failed"}
      /\ s \in ApprovalNames => at'[s] = "idle"
      /\ \A u \in OneName!Sessions : u # s => at'[u] = at[u]
  BY SessionMoves DEF OneName!Fails, OneName!Steps, OneName!Over, ApprovalInv
<1>2. tries' \in [ApprovalNames -> 0..(Tries - 1)] /\ paused' \subseteq ApprovalNames /\ UNCHANGED <<flow, promise>>
  BY AttemptsAreCounted DEF OneName!Fails, OneName!Engine, ApprovalInv, ApprovalTypes
<1>3. ApprovalTypes'
  BY <1>1, <1>2 DEF ApprovalInv, ApprovalTypes
<1>4. JobsFit'
  BY <1>1 DEF ApprovalInv, JobsFit, OneName!Sessions
<1>5. ReadyHaveATable'
  BY <1>1 DEF ApprovalInv, ReadyHaveATable
<1>6. RegistrationsGoOn'
  BY <1>1, <1>2 DEF ApprovalInv, RegistrationsGoOn, OneName!Sessions
<1> QED
  BY <1>3, <1>4, <1>5, <1>6 DEF ApprovalInv

(* The session with Postgres.                                              *)
LEMMA SessionTalks ==
    ASSUME ApprovalInv, NEW s \in OneName!Sessions, OneName!Talks(s)
    PROVE  /\ ApprovalInv'
           /\ \A n \in ApprovalNames : standings'[n] # standings[n] =>
                 \/ promise[n]
                 \/ s \in Approvers /\ job[s].op = "add" /\ job[s].name = n /\ at[s] = "ready" /\ at'[s] = "committed"
<1> USE DEF OneName!Database, OneName!Engine
<1>1. CASE OneName!SeesTable(s)
  <2>1. /\ at' \in [OneName!Sessions -> OneName!Steps] /\ at'[s] = (IF made THEN "ready" ELSE "creating")
        /\ \A u \in OneName!Sessions : u # s => at'[u] = at[u]
    BY <1>1, SessionMoves DEF OneName!SeesTable, OneName!Steps, ApprovalInv
  <2> USE <1>1, <2>1 DEF OneName!SeesTable
  <2>2. ApprovalTypes'
    BY DEF ApprovalInv, ApprovalTypes
  <2>3. JobsFit'
    BY DEF ApprovalInv, JobsFit, OneName!Sessions
  <2>4. ReadyHaveATable'
    BY DEF ApprovalInv, ReadyHaveATable
  <2>5. RegistrationsGoOn'
    BY DEF ApprovalInv, RegistrationsGoOn, OneName!Sessions
  <2> QED
    BY <2>2, <2>3, <2>4, <2>5 DEF ApprovalInv
<1>2. CASE OneName!CreatesTable(s)
  <2>1. /\ at' \in [OneName!Sessions -> OneName!Steps] /\ at'[s] = "ready"
        /\ \A u \in OneName!Sessions : u # s => at'[u] = at[u]
    BY <1>2, SessionMoves DEF OneName!CreatesTable, OneName!Steps, ApprovalInv
  <2> USE <1>2, <2>1 DEF OneName!CreatesTable
  <2>2. ApprovalTypes'
    BY DEF ApprovalInv, ApprovalTypes
  <2>3. JobsFit'
    BY DEF ApprovalInv, JobsFit, OneName!Sessions
  <2>4. ReadyHaveATable'
    BY DEF ApprovalInv, ReadyHaveATable
  <2>5. RegistrationsGoOn'
    BY DEF ApprovalInv, RegistrationsGoOn, OneName!Sessions
  <2> QED
    BY <2>2, <2>3, <2>4, <2>5 DEF ApprovalInv
<1>3. CASE OneName!TableRefused(s)
  BY <1>3, SessionFails DEF OneName!TableRefused
<1>4. CASE OneName!Commits(s)
  <2>1. /\ at' \in [OneName!Sessions -> OneName!Steps] /\ at[s] = "ready" /\ at'[s] = "committed"
        /\ \A u \in OneName!Sessions : u # s => at'[u] = at[u]
    BY <1>4, SessionMoves DEF OneName!Commits, OneName!Steps, ApprovalInv
  <2>2. /\ OneName!NameOf(s) \in ApprovalNames /\ OneName!Standing(s) \in {"kept", "released"}
        /\ s \in ApprovalNames => OneName!NameOf(s) = s /\ OneName!Saves(s) /\ promise[s]
        /\ s \notin ApprovalNames => s \in Approvers /\ OneName!NameOf(s) = job[s].name
        /\ s \notin ApprovalNames /\ OneName!Saves(s) => job[s].op = "add"
    BY <2>1 DEF ApprovalInv, JobsFit, RegistrationsGoOn, OneName!NameOf, OneName!Standing, OneName!Saves,
                OneName!Sessions
  <2>3. UNCHANGED <<made, flow, promise, tries, paused, job>>
    BY <1>4 DEF OneName!Commits
  <2>4. /\ standings' \in [ApprovalNames -> {"none", "kept", "released"}]
        /\ s \in ApprovalNames => standings'[s] # "none"
        /\ \A n \in ApprovalNames : standings'[n] # standings[n] => OneName!Saves(s) /\ n = OneName!NameOf(s)
        /\ \A n \in ApprovalNames : standings[n] # "none" => standings'[n] # "none"
    BY <1>4, <2>2 DEF OneName!Commits, ApprovalInv, ApprovalTypes
  <2>5. ApprovalTypes'
    BY <2>1, <2>3, <2>4 DEF ApprovalInv, ApprovalTypes
  <2>6. JobsFit'
    BY <2>1, <2>3 DEF ApprovalInv, JobsFit, OneName!Sessions
  <2>7. ReadyHaveATable'
    BY <2>1, <2>3 DEF ApprovalInv, ReadyHaveATable
  <2>8. RegistrationsGoOn'
    BY <2>1, <2>3, <2>4 DEF ApprovalInv, RegistrationsGoOn, OneName!Sessions
  <2> QED
    BY <2>1, <2>2, <2>4, <2>5, <2>6, <2>7, <2>8 DEF ApprovalInv
<1>5. ~ OneName!Commits(s) => UNCHANGED standings
  BY DEF OneName!Talks, OneName!SeesTable, OneName!CreatesTable, OneName!TableRefused
<1> QED
  BY <1>1, <1>2, <1>3, <1>4, <1>5 DEF OneName!Talks

(* A command begins, goes on or is over: what it leaves fits, if its job   *)
(* does, an acceptance is the only thing that happens to a registration,   *)
(* and a promise is kept for one that has begun.                           *)
LEMMA CommandMoves ==
    ASSUME ApprovalInv, NEW k \in Approvers, NEW to \in OneName!Steps, OneName!Move(k, to),
           UNCHANGED <<made, standings, tries, paused>>,
           job' \in [Approvers -> OneName!Calls \cup {NoJob}], \A u \in Approvers : u # k => job'[u] = job[u],
           to \in {"connecting", "creating", "ready", "committed"} =>
               job'[k].op \in {"add", "find"} /\ job'[k].name \in ApprovalNames,
           to = "asking" => job'[k].op \in {"create", "approve"} /\ job'[k].name \in ApprovalNames,
           to \notin {"ready", "committed"},
           flow' \in [ApprovalNames -> FlowSteps], promise' \in [ApprovalNames -> BOOLEAN],
           \A n \in ApprovalNames : flow'[n] # flow[n] => flow[n] = "none" /\ flow'[n] = "accepted",
           \A n \in ApprovalNames : promise'[n] # promise[n] => promise'[n] /\ flow'[n] \notin {"none", "accepted"}
    PROVE  ApprovalInv' /\ at'[k] = to /\ \A u \in Approvers : u # k => at'[u] = at[u]
<1>1. k \in OneName!Sessions /\ k \notin ApprovalNames
  BY ApprovalsAreAskedAsMeant DEF OneName!Sessions, OneName!ApprovalAssumption
<1>2. /\ at' \in [OneName!Sessions -> OneName!Steps] /\ at'[k] = to
      /\ \A u \in OneName!Sessions : u # k => at'[u] = at[u]
  BY <1>1, SessionMoves DEF ApprovalInv
<1>3. ApprovalTypes'
  BY <1>2 DEF ApprovalInv, ApprovalTypes
<1>4. JobsFit'
  BY <1>2 DEF ApprovalInv, JobsFit, OneName!Sessions
<1>5. ReadyHaveATable'
  BY <1>2 DEF ApprovalInv, ReadyHaveATable
<1>6. RegistrationsGoOn'
  BY <1>1, <1>2 DEF ApprovalInv, ApprovalTypes, RegistrationsGoOn, OneName!Sessions
<1> QED
  BY <1>2, <1>3, <1>4, <1>5, <1>6 DEF ApprovalInv, OneName!Sessions

LEMMA CommandsGoOn ==
    ASSUME ApprovalInv, NEW k \in Approvers, OneName!Command(k)
    PROVE  /\ ApprovalInv' /\ UNCHANGED standings
           /\ at'[k] = "refused" /\ at[k] = "asking" => ~promise[job[k].name]
           /\ \A u \in Approvers : u # k => at'[u] = at[u]
<1> USE DEF OneName!Database, OneName!Engine
<1>0. /\ flow \in [ApprovalNames -> FlowSteps] /\ promise \in [ApprovalNames -> BOOLEAN]
      /\ job \in [Approvers -> OneName!Calls \cup {NoJob}]
      /\ at[k] = "asking" => job[k].op \in {"create", "approve"} /\ job[k].name \in ApprovalNames
  BY DEF ApprovalInv, ApprovalTypes, JobsFit
<1>1. CASE OneName!Begin(k)
  <2>1. PICK call \in OneName!Calls :
          /\ job' = [job EXCEPT ![k] = call]
          /\ OneName!Move(k, IF ~OneName!Sound(call) THEN "rejected"
                             ELSE IF call.op \in {"add", "find"} THEN "connecting" ELSE "asking")
    BY <1>1 DEF OneName!Begin
  <2>2. call.op \in {"add", "find", "create", "approve"} /\ (OneName!Sound(call) => call.name \in ApprovalNames)
    BY DEF OneName!Calls, OneName!Texts, OneName!Sound
  <2>3. job' \in [Approvers -> OneName!Calls \cup {NoJob}] /\ job'[k] = call
        /\ \A u \in Approvers : u # k => job'[u] = job[u]
    BY <1>0, <2>1
  <2>4. at[k] = "idle" /\ UNCHANGED <<made, standings, flow, promise, tries, paused>>
    BY <1>1 DEF OneName!Begin
  <2>5. CASE ~OneName!Sound(call)
    <3>1. OneName!Move(k, "rejected") /\ "rejected" \in OneName!Steps
      BY <2>1, <2>5 DEF OneName!Steps, OneName!Over
    <3> QED
      BY <1>0, <2>3, <2>4, <3>1, CommandMoves
  <2>6. CASE OneName!Sound(call) /\ call.op \in {"add", "find"}
    <3>1. OneName!Move(k, "connecting") /\ "connecting" \in OneName!Steps
      BY <2>1, <2>6 DEF OneName!Steps
    <3> QED
      BY <1>0, <2>2, <2>3, <2>4, <2>6, <3>1, CommandMoves
  <2>7. CASE OneName!Sound(call) /\ call.op \notin {"add", "find"}
    <3>1. OneName!Move(k, "asking") /\ "asking" \in OneName!Steps
      BY <2>1, <2>7 DEF OneName!Steps
    <3> QED
      BY <1>0, <2>2, <2>3, <2>4, <2>7, <3>1, CommandMoves
  <2> QED
    BY <2>5, <2>6, <2>7
<1>2. CASE OneName!Answers(k)
  <2>1. "answered" \in OneName!Steps
    BY DEF OneName!Steps, OneName!Over
  <2> QED
    BY <1>0, <1>2, <2>1, CommandMoves DEF OneName!Answers
<1>3. CASE OneName!Create(k)
  <2>1. "answered" \in OneName!Steps
    BY DEF OneName!Steps, OneName!Over
  <2>2. /\ flow' \in [ApprovalNames -> FlowSteps]
        /\ \A n \in ApprovalNames : flow'[n] # flow[n] => flow[n] = "none" /\ flow'[n] = "accepted"
    BY <1>0, <1>3 DEF OneName!Create, FlowSteps
  <2> QED
    BY <1>0, <1>3, <2>1, <2>2, CommandMoves DEF OneName!Create
<1>4. CASE OneName!Approve(k)
  <2>1. "answered" \in OneName!Steps /\ "refused" \in OneName!Steps
    BY DEF OneName!Steps, OneName!Over
  <2>2. UNCHANGED <<made, standings, flow, tries, paused, job>>
    BY <1>4 DEF OneName!Approve
  <2>3. CASE OneName!Registering(k)
    <3>1. /\ promise' \in [ApprovalNames -> BOOLEAN]
          /\ \A n \in ApprovalNames :
                promise'[n] # promise[n] => promise'[n] /\ flow[n] \notin {"none", "accepted"}
      BY <1>0, <1>4, <2>3 DEF OneName!Approve, OneName!Registering
    <3>2. OneName!Move(k, "answered")
      BY <1>4, <2>3 DEF OneName!Approve
    <3> QED
      BY <1>0, <2>1, <2>2, <3>1, <3>2, CommandMoves
  <2>4. CASE ~OneName!Registering(k)
    <3>1. OneName!Move(k, "refused") /\ UNCHANGED promise
      BY <1>4, <2>4 DEF OneName!Approve
    <3>2. ~promise[job[k].name]
      BY <1>0, <1>4, <2>4 DEF OneName!Approve, OneName!Registering, ApprovalInv, ApprovalTypes, RegistrationsGoOn, FlowSteps
    <3> QED
      BY <1>0, <2>1, <2>2, <3>1, <3>2, CommandMoves
  <2> QED
    BY <2>3, <2>4
<1>5. CASE OneName!Unanswered(k)
  <2>1. "failed" \in OneName!Steps
    BY DEF OneName!Steps, OneName!Over
  <2>2. /\ flow' \in [ApprovalNames -> FlowSteps] /\ promise' \in [ApprovalNames -> BOOLEAN]
        /\ \A n \in ApprovalNames : flow'[n] # flow[n] => flow[n] = "none" /\ flow'[n] = "accepted"
        /\ \A n \in ApprovalNames : promise'[n] # promise[n] => promise'[n] /\ flow'[n] \notin {"none", "accepted"}
    BY <1>0, <1>5 DEF OneName!Unanswered, OneName!Registering, FlowSteps
  <2> QED
    BY <1>0, <1>5, <2>1, <2>2, CommandMoves DEF OneName!Unanswered
<1>6. CASE OneName!Killed(k)
  <2>1. "killed" \in OneName!Steps
    BY DEF OneName!Steps, OneName!Over
  <2> QED
    BY <1>0, <1>6, <2>1, CommandMoves DEF OneName!Killed
<1>7. CASE OneName!Again(k)
  <2>1. "idle" \in OneName!Steps
    BY DEF OneName!Steps
  <2>2. job' \in [Approvers -> OneName!Calls \cup {NoJob}] /\ \A u \in Approvers : u # k => job'[u] = job[u]
    BY <1>0, <1>7 DEF OneName!Again, NoJob
  <2> QED
    BY <1>0, <1>7, <2>1, <2>2, CommandMoves DEF OneName!Again
<1> QED
  BY <1>1, <1>2, <1>3, <1>4, <1>5, <1>6, <1>7 DEF OneName!Command

(* The workflow goes on.                                                   *)
LEMMA RegistrationMoves ==
    ASSUME ApprovalInv, NEW n \in ApprovalNames, OneName!Workflow(n)
    PROVE  ApprovalInv' /\ UNCHANGED standings /\ \A k \in Approvers : at'[k] = at[k]
<1> USE DEF OneName!Database, OneName!Engine
<1>1. n \in OneName!Sessions /\ n \notin Approvers
  BY ApprovalsAreAskedAsMeant DEF OneName!Sessions, OneName!ApprovalAssumption
<1>2. UNCHANGED <<made, standings, promise, job>>
  BY DEF OneName!Workflow, OneName!Starts, OneName!Awakes, OneName!FlowLost, OneName!Attempts, OneName!Finishes,
         OneName!Resumes
<1>3. tries' \in [ApprovalNames -> 0..(Tries - 1)] /\ paused' \subseteq ApprovalNames
  <2>1. CASE OneName!FlowLost(n)
    BY <2>1, AttemptsAreCounted DEF OneName!FlowLost, ApprovalInv
  <2> QED
    BY <2>1, TriesAreCounted
    DEF OneName!Workflow, OneName!Starts, OneName!Awakes, OneName!Attempts, OneName!Finishes, OneName!Resumes,
        ApprovalInv, ApprovalTypes
<1>4. CASE OneName!Starts(n) \/ OneName!Awakes(n) \/ OneName!FlowLost(n) \/ OneName!Resumes(n)
  <2>0. UNCHANGED at
    BY <1>4 DEF OneName!Starts, OneName!Awakes, OneName!FlowLost, OneName!Resumes
  <2>1. /\ flow' \in [ApprovalNames -> FlowSteps]
        /\ \A m \in ApprovalNames : flow'[m] # flow[m] =>
             \/ flow[m] = "accepted" /\ flow'[m] = "waiting"
             \/ flow[m] = "waiting" /\ flow'[m] = "keeping" /\ promise[m]
    BY <1>4 DEF OneName!Starts, OneName!Awakes, OneName!FlowLost, OneName!Resumes, OneName!Approved,
                ApprovalInv, ApprovalTypes, FlowSteps
  <2>2. ApprovalTypes'
    BY <1>2, <1>3, <2>0, <2>1 DEF ApprovalInv, ApprovalTypes
  <2>3. JobsFit' /\ ReadyHaveATable'
    BY <1>2, <2>0 DEF ApprovalInv, JobsFit, ReadyHaveATable
  <2>4. RegistrationsGoOn'
    BY <1>2, <2>0, <2>1 DEF ApprovalInv, ApprovalTypes, RegistrationsGoOn
  <2> QED
    BY <1>2, <2>0, <2>2, <2>3, <2>4 DEF ApprovalInv
<1>5. CASE OneName!Attempts(n)
  <2>1. /\ at' \in [OneName!Sessions -> OneName!Steps] /\ at'[n] = "connecting"
        /\ \A u \in OneName!Sessions : u # n => at'[u] = at[u]
    BY <1>1, <1>5, SessionMoves DEF OneName!Attempts, OneName!Steps, ApprovalInv
  <2>2. ApprovalTypes'
    BY <1>2, <1>3, <1>5, <2>1 DEF OneName!Attempts, ApprovalInv, ApprovalTypes
  <2>3. JobsFit' /\ ReadyHaveATable'
    BY <1>1, <1>2, <2>1 DEF ApprovalInv, JobsFit, ReadyHaveATable, OneName!Sessions
  <2>4. RegistrationsGoOn'
    BY <1>2, <1>5, <2>1 DEF OneName!Attempts, ApprovalInv, RegistrationsGoOn, OneName!Sessions
  <2> QED
    BY <1>1, <1>2, <2>1, <2>2, <2>3, <2>4 DEF ApprovalInv, OneName!Sessions
<1>6. CASE OneName!Finishes(n)
  <2>1. /\ at' \in [OneName!Sessions -> OneName!Steps] /\ at[n] = "committed" /\ at'[n] = "idle"
        /\ \A u \in OneName!Sessions : u # n => at'[u] = at[u]
    BY <1>1, <1>6, SessionMoves DEF OneName!Finishes, OneName!Kept, OneName!Steps, ApprovalInv
  <2>2. /\ flow' \in [ApprovalNames -> FlowSteps] /\ flow'[n] = "done"
        /\ \A m \in ApprovalNames : m # n => flow'[m] = flow[m]
    BY <1>6 DEF OneName!Finishes, ApprovalInv, ApprovalTypes, FlowSteps
  <2>3. ApprovalTypes'
    BY <1>2, <1>3, <2>1, <2>2 DEF ApprovalInv, ApprovalTypes
  <2>4. JobsFit' /\ ReadyHaveATable'
    BY <1>1, <1>2, <2>1 DEF ApprovalInv, JobsFit, ReadyHaveATable, OneName!Sessions
  <2>5. RegistrationsGoOn'
    BY <1>1, <1>2, <2>1, <2>2 DEF ApprovalInv, ReadyHaveATable, RegistrationsGoOn, OneName!Sessions
  <2> QED
    BY <1>1, <1>2, <2>1, <2>3, <2>4, <2>5 DEF ApprovalInv, OneName!Sessions
<1> QED
  BY <1>4, <1>5, <1>6 DEF OneName!Workflow

(* A step of the approvals: what holds goes on holding, and no standing is *)
(* saved that was not approved or added.                                   *)
LEMMA ApprovalsGoOn ==
    ASSUME ApprovalInv, OneName!Next
    PROVE  ApprovalInv' /\ OneName!NothingKeptUnapproved /\ OneName!ApprovalsRepeat
<1>1. ASSUME NEW s \in OneName!Sessions, OneName!Talks(s)
      PROVE  ApprovalInv' /\ OneName!NothingKeptUnapproved /\ OneName!ApprovalsRepeat
  <2>1. ASSUME NEW k \in Approvers, at'[k] = "refused", at[k] = "asking" PROVE FALSE
    <3>1. at'[s] # "refused" /\ \A u \in OneName!Sessions : u # s => at'[u] = at[u]
      BY <1>1, SessionMoves
      DEF OneName!Talks, OneName!SeesTable, OneName!CreatesTable, OneName!TableRefused, OneName!Commits,
          OneName!Fails, OneName!Steps, OneName!Over, ApprovalInv
    <3> QED
      BY <2>1, <3>1 DEF OneName!Sessions
  <2> QED
    BY <1>1, <2>1, SessionTalks DEF OneName!NothingKeptUnapproved, OneName!ApprovalsRepeat
<1>2. ASSUME NEW s \in OneName!Sessions, OneName!Breaks(s)
      PROVE  ApprovalInv' /\ OneName!NothingKeptUnapproved /\ OneName!ApprovalsRepeat
  <2>1. OneName!Fails(s) /\ UNCHANGED <<OneName!Database, job>>
    BY <1>2 DEF OneName!Breaks
  <2>2. at'[s] # "refused" /\ \A u \in OneName!Sessions : u # s => at'[u] = at[u]
    BY <2>1, SessionMoves DEF OneName!Fails, OneName!Steps, OneName!Over, ApprovalInv
  <2> QED
    BY <2>1, <2>2, SessionFails
    DEF OneName!NothingKeptUnapproved, OneName!ApprovalsRepeat, OneName!Database, OneName!Sessions
<1>3. ASSUME NEW k \in Approvers, OneName!Command(k)
      PROVE  ApprovalInv' /\ OneName!NothingKeptUnapproved /\ OneName!ApprovalsRepeat
  BY <1>3, CommandsGoOn DEF OneName!NothingKeptUnapproved, OneName!ApprovalsRepeat
<1>4. ASSUME NEW n \in ApprovalNames, OneName!Workflow(n)
      PROVE  ApprovalInv' /\ OneName!NothingKeptUnapproved /\ OneName!ApprovalsRepeat
  BY <1>4, RegistrationMoves DEF OneName!NothingKeptUnapproved, OneName!ApprovalsRepeat
<1> QED
  BY <1>1, <1>2, <1>3, <1>4 DEF OneName!Next

LEMMA ApprovalInvHolds ==
    ASSUME ApprovalInv
    PROVE  OneName!TypeOK /\ OneName!ApprovalsHaveARegistration /\ OneName!DoneIsFound
<1>1. \A k \in Approvers : job[k].op \in {"none", "add", "find", "create", "approve"}
  BY DEF ApprovalInv, ApprovalTypes, OneName!Calls, NoJob
<1> QED
  BY <1>1 DEF ApprovalInv, ApprovalTypes, RegistrationsGoOn, FlowSteps, OneName!TypeOK,
              OneName!ApprovalsHaveARegistration, OneName!DoneIsFound

(* While nothing fails, an action loses an attempt to the race for the     *)
(* table only, and then there is one.                                      *)
RaceInv ==
    /\ made \in BOOLEAN
    /\ tries \in [RacingNames -> {0, 1}]
    /\ at \in [TableRaces!Sessions -> TableRaces!Steps]
    /\ \A n \in RacingNames : tries[n] = 1 => made /\ at[n] # "creating"
    /\ paused = {}

LEMMA RaceBegins == TableRaces!Init => RaceInv
<1> SUFFICES ASSUME TableRaces!Init PROVE RaceInv
  OBVIOUS
<1>1. at \in [TableRaces!Sessions -> TableRaces!Steps] /\ tries \in [RacingNames -> {0, 1}]
  BY DEF TableRaces!Init, TableRaces!Steps
<1>2. \A n \in RacingNames : tries[n] # 1
  <2>1. 0 # 1
    OBVIOUS
  <2> QED
    BY <2>1 DEF TableRaces!Init
<1> QED
  BY <1>1, <1>2 DEF TableRaces!Init, RaceInv

LEMMA RaceGoesOn ==
    ASSUME Tries > 1, RaceInv, TableRaces!Next
    PROVE  RaceInv'
<1>1. RacingNames \cap Racers = {} /\ Tries \in Nat
  BY ApprovalsAreAskedAsMeant DEF TableRaces!ApprovalAssumption
<1>2. ASSUME NEW s \in TableRaces!Sessions, NEW to \in TableRaces!Steps, TableRaces!Move(s, to)
      PROVE  /\ at' \in [TableRaces!Sessions -> TableRaces!Steps] /\ at'[s] = to
             /\ \A u \in TableRaces!Sessions : u # s => at'[u] = at[u]
  BY <1>2 DEF RaceInv, TableRaces!Move
<1>3. ASSUME NEW s \in TableRaces!Sessions, NEW to \in TableRaces!Steps, TableRaces!Move(s, to),
             UNCHANGED paused, made => made', made' \in BOOLEAN,
             \/ UNCHANGED tries
             \/ s \in RacingNames /\ tries' = [tries EXCEPT ![s] = 0],
             to = "creating" => ~made
      PROVE  RaceInv'
  BY <1>2, <1>3 DEF RaceInv, TableRaces!Sessions
<1>4. ASSUME NEW s \in TableRaces!Sessions, TableRaces!Talks(s)
      PROVE  RaceInv'
  <2> USE DEF TableRaces!Database, TableRaces!Engine
  <2>1. CASE TableRaces!SeesTable(s)
    BY <1>3, <2>1 DEF TableRaces!SeesTable, TableRaces!Steps, RaceInv
  <2>2. CASE TableRaces!CreatesTable(s)
    BY <1>3, <2>2 DEF TableRaces!CreatesTable, TableRaces!Steps, RaceInv
  <2>3. CASE TableRaces!Commits(s)
    BY <1>3, <2>3 DEF TableRaces!Commits, TableRaces!Steps, RaceInv
  <2>4. CASE TableRaces!TableRefused(s) /\ s \notin RacingNames
    BY <1>3, <2>4 DEF TableRaces!TableRefused, TableRaces!Fails, TableRaces!Steps, TableRaces!Over, RaceInv
  <2>5. CASE TableRaces!TableRefused(s) /\ s \in RacingNames
    <3>1. tries[s] = 0 /\ made /\ UNCHANGED made
      BY <2>5 DEF TableRaces!TableRefused, RaceInv
    <3>2. tries[s] + 1 = 1 /\ 1 # Tries
      BY <1>1, <3>1
    <3>3. tries' = [tries EXCEPT ![s] = 1] /\ UNCHANGED paused /\ TableRaces!Move(s, "idle")
      BY <2>5, <3>1, <3>2 DEF TableRaces!TableRefused, TableRaces!Fails, TableRaces!Lost
    <3>4. /\ at' \in [TableRaces!Sessions -> TableRaces!Steps] /\ at'[s] = "idle"
          /\ \A u \in TableRaces!Sessions : u # s => at'[u] = at[u]
      BY <1>2, <3>3 DEF TableRaces!Steps
    <3> QED
      BY <2>5, <3>1, <3>3, <3>4 DEF RaceInv, TableRaces!Sessions
  <2> QED
    BY <1>4, <2>1, <2>2, <2>3, <2>4, <2>5 DEF TableRaces!Talks
<1>5. ASSUME NEW k \in Racers, TableRaces!Command(k)
      PROVE  RaceInv'
  <2> USE DEF TableRaces!Database, TableRaces!Engine
  <2>1. k \in TableRaces!Sessions
    BY DEF TableRaces!Sessions
  <2>2. UNCHANGED <<made, tries, paused>>
    BY <1>5 DEF TableRaces!Command, TableRaces!Begin, TableRaces!Answers, TableRaces!Create, TableRaces!Approve,
                TableRaces!Unanswered, TableRaces!Killed, TableRaces!Again
  <2>3. PICK to \in TableRaces!Steps \ {"creating"} : TableRaces!Move(k, to)
    BY <1>5 DEF TableRaces!Command, TableRaces!Begin, TableRaces!Answers, TableRaces!Create, TableRaces!Approve,
                TableRaces!Unanswered, TableRaces!Killed, TableRaces!Again, TableRaces!Steps, TableRaces!Over
  <2> QED
    BY <1>3, <2>1, <2>2, <2>3 DEF RaceInv
<1>6. ASSUME NEW n \in RacingNames, TableRaces!Workflow(n)
      PROVE  RaceInv'
  <2> USE DEF TableRaces!Database, TableRaces!Engine
  <2>1. n \in TableRaces!Sessions
    BY DEF TableRaces!Sessions
  <2>2. ~ TableRaces!FlowLost(n) /\ ~ TableRaces!Resumes(n)
    BY DEF TableRaces!FlowLost, TableRaces!Resumes, RaceInv
  <2>3. CASE TableRaces!Starts(n) \/ TableRaces!Awakes(n)
    BY <2>3 DEF TableRaces!Starts, TableRaces!Awakes, RaceInv
  <2>4. CASE TableRaces!Attempts(n)
    BY <1>3, <2>1, <2>4 DEF TableRaces!Attempts, TableRaces!Steps, RaceInv
  <2>5. CASE TableRaces!Finishes(n)
    BY <1>3, <2>1, <2>5 DEF TableRaces!Finishes, TableRaces!Steps, RaceInv
  <2> QED
    BY <1>6, <2>2, <2>3, <2>4, <2>5 DEF TableRaces!Workflow
<1> QED
  BY <1>4, <1>5, <1>6 DEF TableRaces!Next, TableRaces!Breaks

(* Of registrations, approvals and commands of the same names (minimal's   *)
(* workflow, action and commands), whatever is lost, late or killed:       *)
(* nothing is kept unapproved, an approval has a registration that began   *)
(* and is never refused again, a registration that is over is found, and   *)
(* commands that race for the table pause none.                            *)
THEOREM WidgetsAreApproved == PartSpec => ApprovalsHold
<1> DEFINE all == <<part, errorVars, databaseVars, widgetVars, bookingVars, approvalVars>>
<1> DEFINE Inv == /\ part = "one name" => ApprovalInv
                  /\ part = "table races" /\ Tries > 1 => RaceInv
<1>1. PartInit => Inv
  BY ApprovalsBegin, RaceBegins DEF PartInit
<1>2. Inv /\ [PartNext]_all => Inv'
  <2> SUFFICES ASSUME Inv, [PartNext]_all PROVE Inv'
    OBVIOUS
  <2>1. CASE OneName!Next /\ part = "one name" /\ UNCHANGED part
    BY <2>1, ApprovalsGoOn
  <2>2. CASE TableRaces!Next /\ part = "table races" /\ UNCHANGED part
    BY <2>2, RaceGoesOn
  <2>3. CASE UNCHANGED <<part, approvalVars>>
    BY <2>3 DEF approvalVars, ApprovalInv, ApprovalTypes, JobsFit, ReadyHaveATable, RegistrationsGoOn, RaceInv
  <2> QED
    BY <2>1, <2>2, <2>3 DEF PartNext
<1>3. Inv => /\ part = "one name" =>
                    OneName!TypeOK /\ OneName!ApprovalsHaveARegistration /\ OneName!DoneIsFound
             /\ part = "table races" => TableRaces!TheTableIsRacedForOnce
  BY ApprovalInvHolds DEF RaceInv, TableRaces!TheTableIsRacedForOnce
<1>4. Inv /\ [PartNext]_all =>
        [part = "one name" => OneName!NothingKeptUnapproved /\ OneName!ApprovalsRepeat]_approvalVars
  BY ApprovalsGoOn DEF PartNext
<1> QED
  BY <1>1, <1>2, <1>3, <1>4, PTL DEF PartSpec, ApprovalsHold

-------------------------------------------------------------------------------
(* The campaigns.                                                          *)

(* A set of numbers with a member has a least one.                         *)
LEMMA LeastOfNumbers ==
    ASSUME NEW S \in SUBSET Nat, S # {}
    PROVE  \E i \in S : \A j \in S : i <= j
<1> DEFINE less == {pair \in Nat \X Nat : pair[1] < pair[2]}
<1>1. \A x, y \in Nat : <<x, y>> \in less <=> x < y
  OBVIOUS
<1>2. IsWellFoundedOn(less, Nat)
  BY NatLessThanWellFounded DEF OpToRel
<1> HIDE DEF less
<1>3. \E i \in S : \A j \in S : ~ (<<j, i>> \in less)
  <2>1. S \subseteq Nat
    OBVIOUS
  <2> QED
    BY <1>2, <2>1, WFMin, Zenon
<1>4. PICK i \in S : \A j \in S : ~ (<<j, i>> \in less)
  BY <1>3
<1>5. \A j \in S : i <= j
  <2> SUFFICES ASSUME NEW j \in S PROVE i <= j
    OBVIOUS
  <2>1. i \in Nat /\ j \in Nat
    OBVIOUS
  <2>2. ~ (j < i)
    BY <1>1, <1>4, <2>1
  <2> QED
    BY <2>1, <2>2
<1> QED
  BY <1>5

LinkBodies == Campaigns!LinkBodies

LinkCodes == {"", "bad_slug", "bad_target_url", "duplicate_slug", "too_many_links"}

(* What is wrong with the i-th of the links, and when nothing is.          *)
ErrorAt(links, i) ==
    IF Campaigns!LinkError(links[i]) # "" THEN Campaigns!LinkError(links[i])
    ELSE Campaigns!RoomError(SubSeq(links, 1, i - 1), links[i])

FitsAt(links, i) ==
    /\ links[i].slug # "BAD" /\ links[i].target # "BAD"
    /\ \A j \in 1..(i - 1) : links[j].slug # links[i].slug
    /\ i <= LinkCap

Fits(links) == \A i \in 1..Len(links) : FitsAt(links, i)

(* Of the places up to n's next, the last is that one.                     *)
LEMMA PlacesUpTo ==
    ASSUME NEW n \in Nat, NEW i \in 1..(n + 1)
    PROVE  (i \in 1..n \/ i = n + 1) /\ (n + 1) - 1 = n /\ \A j \in 1..(i - 1) : j \in 1..n
OBVIOUS

LEMMA AppendKeeps ==
    ASSUME NEW S, NEW s \in Seq(S), NEW x \in S, NEW j \in 1..Len(s)
    PROVE  Append(s, x)[j] = s[j]
BY AppendProperties

LEMMA AppendFacts ==
    ASSUME NEW S, NEW s \in Seq(S), NEW x \in S
    PROVE  /\ Append(s, x) \in Seq(S) /\ Len(s) \in Nat /\ Len(Append(s, x)) = Len(s) + 1
           /\ Append(s, x)[Len(s) + 1] = x /\ \A j \in 1..Len(s) : Append(s, x)[j] = s[j]
<1>1. Append(s, x) \in Seq(S) /\ Len(s) \in Nat /\ Len(Append(s, x)) = Len(s) + 1
  BY AppendProperties
<1>2. Append(s, x)[Len(s) + 1] = x
  BY AppendProperties
<1>3. \A j \in 1..Len(s) : Append(s, x)[j] = s[j]
  BY AppendProperties
<1> QED
  BY <1>1, <1>2, <1>3

LEMMA RoomMeans ==
    ASSUME NEW links \in Seq(LinkBodies), NEW link
    PROVE  /\ Campaigns!RoomError(links, link) \in {"", "duplicate_slug", "too_many_links"}
           /\ Campaigns!RoomError(links, link) = "" <=>
                 (\A j \in 1..Len(links) : links[j].slug # link.slug) /\ Len(links) + 1 <= LinkCap
<1>1. Len(links) \in Nat /\ DOMAIN links = 1..Len(links)
  OBVIOUS
<1>2. LinkCap \in Nat
  BY CampaignsAreAskedAsMeant DEF Campaigns!BoundsNat
<1>3. Len(links) >= LinkCap <=> ~ (Len(links) + 1 <= LinkCap)
  BY <1>1, <1>2
<1> QED
  BY <1>1, <1>3 DEF Campaigns!RoomError

LEMMA ErrorAtMeans ==
    ASSUME NEW links \in Seq(LinkBodies), NEW i \in 1..Len(links)
    PROVE  /\ ErrorAt(links, i) \in LinkCodes
           /\ ErrorAt(links, i) = "" <=> FitsAt(links, i)
           /\ ErrorAt(links, i) = "bad_slug" => links[i].slug = "BAD"
<1> DEFINE before == SubSeq(links, 1, i - 1)
<1>1. i \in Nat /\ i >= 1 /\ i - 1 \in Nat /\ i - 1 <= Len(links) /\ (i - 1) + 1 = i /\ Len(links) \in Nat
  OBVIOUS
<1>2. before \in Seq(LinkBodies) /\ Len(before) = i - 1 /\ \A j \in 1..(i - 1) : before[j] = links[j]
  BY <1>1, SubSeqProperties
<1> HIDE DEF before
<1>3. /\ Campaigns!RoomError(before, links[i]) \in {"", "duplicate_slug", "too_many_links"}
      /\ Campaigns!RoomError(before, links[i]) = "" <=>
            (\A j \in 1..(i - 1) : links[j].slug # links[i].slug) /\ i <= LinkCap
  <2>1. /\ Campaigns!RoomError(before, links[i]) \in {"", "duplicate_slug", "too_many_links"}
        /\ Campaigns!RoomError(before, links[i]) = "" <=>
              (\A j \in 1..Len(before) : before[j].slug # links[i].slug) /\ Len(before) + 1 <= LinkCap
    BY <1>2, RoomMeans
  <2>2. 1..Len(before) = 1..(i - 1) /\ Len(before) + 1 = i
    BY <1>1, <1>2
  <2> QED
    BY <1>2, <2>1, <2>2
<1>4. ErrorAt(links, i) = IF Campaigns!LinkError(links[i]) # "" THEN Campaigns!LinkError(links[i])
                          ELSE Campaigns!RoomError(before, links[i])
  BY DEF ErrorAt, before
<1>5. /\ Campaigns!LinkError(links[i]) \in {"", "bad_slug", "bad_target_url"}
      /\ Campaigns!LinkError(links[i]) = "" <=> links[i].slug # "BAD" /\ links[i].target # "BAD"
      /\ Campaigns!LinkError(links[i]) = "bad_slug" => links[i].slug = "BAD"
  BY DEF Campaigns!LinkError, Campaigns!SlugError, Campaigns!TargetError
<1> QED
  BY <1>3, <1>4, <1>5 DEF LinkCodes, FitsAt

(* The first link that does not fit is what a campaign is refused for.     *)
LEMMA LinksErrorMeans ==
    ASSUME NEW links \in Seq(LinkBodies)
    PROVE  /\ Campaigns!LinksError(links) \in LinkCodes
           /\ Campaigns!LinksError(links) = "" <=> Fits(links)
           /\ Campaigns!LinksError(links) = "bad_slug" => \E i \in DOMAIN links : links[i].slug = "BAD"
<1> DEFINE wrong == {i \in DOMAIN links : ErrorAt(links, i) # ""}
           first == CHOOSE i \in wrong : \A j \in wrong : i <= j
<1>1. DOMAIN links = 1..Len(links) /\ wrong \subseteq Nat
  <2>1. DOMAIN links = 1..Len(links) /\ Len(links) \in Nat
    OBVIOUS
  <2>2. 1..Len(links) \subseteq Nat
    OBVIOUS
  <2> QED
    BY <2>1, <2>2
<1>2. Campaigns!LinksError(links) = IF wrong = {} THEN "" ELSE ErrorAt(links, first)
  BY DEF Campaigns!LinksError, ErrorAt
<1>3. \A i \in DOMAIN links : i \in wrong <=> ~FitsAt(links, i)
  BY <1>1, ErrorAtMeans
<1>4. wrong # {} => first \in wrong
  <2> SUFFICES ASSUME wrong # {} PROVE \E i \in wrong : \A j \in wrong : i <= j
    OBVIOUS
  <2> HIDE DEF wrong
  <2> QED
    BY <1>1, LeastOfNumbers
<1>5. wrong # {} => first \in 1..Len(links) /\ ErrorAt(links, first) # ""
  BY <1>1, <1>4
<1>6. wrong = {} <=> Fits(links)
  BY <1>1, <1>3 DEF Fits
<1> HIDE DEF wrong, first
<1> QED
  BY <1>1, <1>2, <1>5, <1>6, ErrorAtMeans DEF LinkCodes

(* A link that has room joins links that fit.                              *)
LEMMA AppendedFit ==
    ASSUME NEW links \in Seq(LinkBodies), Fits(links), NEW link \in LinkBodies,
           link.slug # "BAD", link.target # "BAD", Campaigns!RoomError(links, link) = ""
    PROVE  Append(links, link) \in Seq(LinkBodies) /\ Fits(Append(links, link))
<1> DEFINE more == Append(links, link)
<1>1. /\ more \in Seq(LinkBodies) /\ Len(links) \in Nat /\ Len(more) = Len(links) + 1
      /\ more[Len(links) + 1] = link /\ \A j \in 1..Len(links) : more[j] = links[j]
  <2>1. Append(links, link) \in Seq(LinkBodies)
    BY AppendFacts
  <2>2. Len(links) \in Nat
    BY AppendFacts
  <2>3. Len(Append(links, link)) = Len(links) + 1
    BY AppendFacts
  <2>4. Append(links, link)[Len(links) + 1] = link
    BY AppendFacts
  <2>5. ASSUME NEW j \in 1..Len(links) PROVE Append(links, link)[j] = links[j]
    BY AppendKeeps, Zenon
  <2> QED
    BY <2>1, <2>2, <2>3, <2>4, <2>5
<1>2. (\A j \in 1..Len(links) : links[j].slug # link.slug) /\ Len(links) + 1 <= LinkCap
  BY RoomMeans
<1> HIDE DEF more
<1>3. ASSUME NEW i \in 1..Len(more)
      PROVE  FitsAt(more, i)
  <2>1. CASE i \in 1..Len(links)
    <3>1. \A j \in 1..(i - 1) : j \in 1..Len(links)
      BY <1>1, PlacesUpTo
    <3> QED
      BY <1>1, <2>1, <3>1 DEF Fits, FitsAt
  <2>2. CASE i = Len(links) + 1
    <3>1. (Len(links) + 1) - 1 = Len(links)
      BY <1>1, PlacesUpTo
    <3> QED
      BY <1>1, <1>2, <2>2, <3>1 DEF FitsAt
  <2>3. i \in 1..Len(links) \/ i = Len(links) + 1
    BY <1>1, PlacesUpTo
  <2> QED
    BY <2>1, <2>2, <2>3
<1> QED
  BY <1>1, <1>3 DEF Fits, more

-------------------------------------------------------------------------------
(* What is stored, and what a request is told.                             *)

Records == [sound : BOOLEAN, links : Seq(LinkBodies)]

StoredFit(kept) ==
    /\ kept \in [CampaignIds -> SUBSET Records]
    /\ \A id \in CampaignIds : \A r \in kept[id] : r.sound => Fits(r.links)

ErrorInv == StoredFit(rows) /\ Campaigns!EveryProblemAtOnce

SlugsOf(call) ==
    CASE call.op = "create" -> {call.links[i].slug : i \in DOMAIN call.links}
      [] call.op = "add" -> {call.link.slug}
      [] call.op = "deactivate" -> {call.slug}
      [] OTHER -> {}

StoredFor(call) == IF call.id = "" THEN {} ELSE rows[call.id]

(* An answer that says what is true, with what it leaves stored.           *)
Blames(call, answer) ==
    /\ answer.code = "campaign_not_found" => ~down /\ StoredFor(call) = {}
    /\ answer.status = 500 => down \/ \E r \in StoredFor(call) : ~r.sound
    /\ answer.code = "bad_slug" => "BAD" \in SlugsOf(call)
    /\ answer.status = 409 => ~down /\ \E r \in StoredFor(call) : r.sound

NamesProblems(call, answer) ==
    call.op = "add" /\ call.parses =>
        /\ "bad_slug" \in answer.problems <=> call.link.slug = "BAD"
        /\ "bad_target_url" \in answer.problems <=> call.link.target = "BAD"
        /\ "bad_campaign_id" \in answer.problems <=> call.id = ""

Told(call, answer, kept) ==
    /\ StoredFit(kept) /\ (answer.status >= 400 => kept = rows)
    /\ Blames(call, answer) /\ NamesProblems(call, answer)

(* An answer is what Answer leaves of it.                                  *)
LEMMA AnswersAreTold ==
    ASSUME ErrorInv, NEW call, NEW answer, NEW kept, Campaigns!Answer(call, answer, kept), Told(call, answer, kept)
    PROVE  /\ ErrorInv'
           /\ \A l \in last' : /\ l.answer.status >= 400 => rows' = rows
                             /\ Blames(l.call, l.answer)
<1>1. rows' = kept /\ last' = {[call |-> call, answer |-> answer]}
  BY DEF Campaigns!Answer
<1>2. \A l \in last' : l.call = call /\ l.answer = answer
  BY <1>1
<1>3. StoredFit(rows')
  BY <1>1 DEF Told
<1>4. Campaigns!EveryProblemAtOnce'
  BY <1>2 DEF Told, NamesProblems, Campaigns!EveryProblemAtOnce
<1> QED
  BY <1>1, <1>2, <1>3, <1>4 DEF Told, ErrorInv, StoredFit

(* A campaign that is loaded is one that was stored, and its links fit.    *)
LEMMA LoadedFit ==
    ASSUME ErrorInv, NEW id \in CampaignIds
    PROVE  /\ Campaigns!LoadFailure(id) \subseteq {Campaigns!Fault, Campaigns!NotFound}
           /\ Campaigns!Fault \in Campaigns!LoadFailure(id) => down \/ \E r \in rows[id] : ~r.sound
           /\ Campaigns!NotFound \in Campaigns!LoadFailure(id) => ~down /\ rows[id] = {}
           /\ Campaigns!LoadFailure(id) = {} =>
                 /\ ~down /\ \E r \in rows[id] : r.sound
                 /\ Campaigns!Loaded(id) \in Seq(LinkBodies) /\ Fits(Campaigns!Loaded(id))
<1>0. Campaigns!Fault # Campaigns!NotFound
  BY DEF Campaigns!Fault, Campaigns!NotFound
<1>1. rows[id] \subseteq Records /\ \A r \in rows[id] : r.sound => Fits(r.links)
  BY DEF ErrorInv, StoredFit
<1>2. ASSUME Campaigns!LoadFailure(id) = {}
      PROVE  /\ ~down /\ \E r \in rows[id] : r.sound
             /\ Campaigns!Loaded(id) \in Seq(LinkBodies) /\ Fits(Campaigns!Loaded(id))
  <2>1. ~down /\ rows[id] # {} /\ \A r \in rows[id] : r.sound
    BY <1>2 DEF Campaigns!LoadFailure
  <2> DEFINE r == CHOOSE one \in rows[id] : TRUE
  <2>2. r \in rows[id]
    BY <2>1
  <2>3. Campaigns!Loaded(id) = r.links
    BY DEF Campaigns!Loaded
  <2> HIDE DEF r
  <2> QED
    BY <1>1, <2>1, <2>2, <2>3 DEF Records
<1> QED
  BY <1>0, <1>2 DEF Campaigns!LoadFailure

(* Links that fit are stored under an id.                                  *)
LEMMA SavedFit ==
    ASSUME ErrorInv, NEW id \in CampaignIds, NEW links \in Seq(LinkBodies), Fits(links)
    PROVE  StoredFit(Campaigns!Saved(id, links))
<1>1. Campaigns!Sound(links) \in Records /\ Campaigns!Sound(links).links = links
  BY DEF Campaigns!Sound, Records
<1> QED
  BY <1>1 DEF ErrorInv, StoredFit, Campaigns!Saved

(* An answer that refuses, with what is stored as it was.                  *)
LEMMA RefusalsAreTold ==
    ASSUME ErrorInv, NEW call, NEW answer, Blames(call, answer), NamesProblems(call, answer)
    PROVE  Told(call, answer, rows)
BY DEF Told, ErrorInv

LEMMA CreateIsTold ==
    ASSUME ErrorInv, NEW call \in Campaigns!Calls, call.op = "create", Campaigns!Create(call)
    PROVE  \E answer, kept : Campaigns!Answer(call, answer, kept) /\ Told(call, answer, kept)
<1> DEFINE code == Campaigns!CampaignError(call.id, call.window, call.links)
<1>1. call.parses \in BOOLEAN /\ (call.parses => call.id \in CampaignIds \cup {""} /\ call.links \in Seq(LinkBodies))
  <2>1. CASE call.parses
    <3>1. PICK n \in 0..BodyCap : call.links \in [1..n -> LinkBodies]
      BY <2>1 DEF Campaigns!Calls, LinkBodies
    <3>2. call.links \in Seq(LinkBodies)
      BY <3>1
    <3> QED
      BY <2>1, <3>2 DEF Campaigns!Calls
  <2> QED
    BY <2>1 DEF Campaigns!Calls
<1>2. CASE ~call.parses
  <2>1. Campaigns!Answer(call, Campaigns!BadRequest, rows)
    BY <1>2 DEF Campaigns!Create
  <2>2. Blames(call, Campaigns!BadRequest) /\ NamesProblems(call, Campaigns!BadRequest)
    BY DEF Blames, NamesProblems, Campaigns!BadRequest
  <2> QED
    BY <2>1, <2>2, RefusalsAreTold
<1>3. CASE call.parses /\ code # ""
  <2>1. Campaigns!Answer(call, Campaigns!Rejected(code, {}), rows)
    BY <1>3 DEF Campaigns!Create
  <2>2. code \in LinkCodes \cup {"bad_campaign_id", "bad_date", "window_order"}
    BY <1>1, <1>3, LinksErrorMeans
    DEF Campaigns!CampaignError, Campaigns!IdError, Campaigns!WindowError, LinkCodes
  <2>3. code = "bad_slug" => "BAD" \in SlugsOf(call)
    <3> SUFFICES ASSUME code = "bad_slug" PROVE "BAD" \in {call.links[i].slug : i \in DOMAIN call.links}
      BY DEF SlugsOf
    <3>1. Campaigns!LinksError(call.links) = "bad_slug"
      BY DEF Campaigns!CampaignError, Campaigns!IdError, Campaigns!WindowError
    <3>2. PICK i \in DOMAIN call.links : call.links[i].slug = "BAD"
      BY <1>1, <1>3, <3>1, LinksErrorMeans
    <3> QED
      BY <3>2
  <2> HIDE DEF code
  <2> DEFINE answer == Campaigns!Rejected(code, {})
  <2>4. answer.status \notin {409, 500} /\ answer.code = code
    BY DEF Campaigns!Rejected
  <2> HIDE DEF answer
  <2>5. answer.code # "campaign_not_found"
    BY <2>2, <2>4 DEF LinkCodes
  <2>6. Blames(call, answer) /\ NamesProblems(call, answer)
    BY <2>3, <2>4, <2>5 DEF Blames, NamesProblems
  <2> QED
    BY <2>1, <2>6, RefusalsAreTold DEF answer
<1>4. CASE call.parses /\ code = ""
  <2> DEFINE kept == Campaigns!Saved(call.id, call.links)
  <2>1. Campaigns!Answer(call, Campaigns!Done(201), kept)
    BY <1>4 DEF Campaigns!Create
  <2>2. call.id # "" /\ Campaigns!LinksError(call.links) = ""
    BY <1>4 DEF Campaigns!CampaignError, Campaigns!IdError, Campaigns!WindowError
  <2>3. StoredFit(kept)
    BY <1>1, <1>4, <2>2, LinksErrorMeans, SavedFit
  <2>4. Blames(call, Campaigns!Done(201)) /\ NamesProblems(call, Campaigns!Done(201))
    BY DEF Blames, NamesProblems, Campaigns!Done
  <2>5. ~ (Campaigns!Done(201).status >= 400)
    BY DEF Campaigns!Done
  <2> HIDE DEF kept
  <2>6. Told(call, Campaigns!Done(201), kept)
    BY <2>3, <2>4, <2>5 DEF Told
  <2> QED
    BY <2>1, <2>6
<1> QED
  BY <1>2, <1>3, <1>4

(* A campaign that cannot be loaded is a fault, or is not there.           *)
LEMMA LoadsAreTold ==
    ASSUME ErrorInv, NEW call, call.id \in CampaignIds, StoredFor(call) = rows[call.id], NEW answer,
           answer \in Campaigns!LoadFailure(call.id)
    PROVE  Blames(call, answer) /\ answer.problems = {}
<1>1. CASE answer = Campaigns!Fault
  <2>1. down \/ \E r \in rows[call.id] : ~r.sound
    BY <1>1, LoadedFit
  <2>2. answer.status = 500 /\ answer.code = "internal" /\ answer.problems = {}
    BY <1>1 DEF Campaigns!Fault
  <2>3. answer.status # 409
    BY <2>2
  <2>4. down \/ \E r \in StoredFor(call) : ~r.sound
    BY <2>1
  <2> QED
    BY <2>2, <2>3, <2>4, Zenon DEF Blames
<1>2. CASE answer = Campaigns!NotFound
  <2>1. ~down /\ rows[call.id] = {}
    BY <1>2, LoadedFit
  <2>2. answer.status = 404 /\ answer.code = "campaign_not_found" /\ answer.problems = {}
    BY <1>2 DEF Campaigns!NotFound
  <2>3. answer.status # 409 /\ answer.status # 500
    BY <2>2
  <2>4. ~down /\ StoredFor(call) = {}
    BY <2>1
  <2> QED
    BY <2>2, <2>3, <2>4, Zenon DEF Blames
<1>3. answer \in {Campaigns!Fault, Campaigns!NotFound}
  BY LoadedFit
<1> QED
  BY <1>1, <1>2, <1>3

LEMMA GetIsTold ==
    ASSUME ErrorInv, NEW call \in Campaigns!Calls, call.op = "get", Campaigns!Get(call)
    PROVE  \E answer, kept : Campaigns!Answer(call, answer, kept) /\ Told(call, answer, kept)
<1>1. call.id \in CampaignIds \cup {""}
  BY DEF Campaigns!Calls
<1>2. \A answer : NamesProblems(call, answer)
  BY DEF NamesProblems
<1>3. CASE call.id = ""
  <2> DEFINE answer == Campaigns!Rejected("bad_campaign_id", {})
  <2>1. Campaigns!Answer(call, answer, rows)
    BY <1>3 DEF Campaigns!Get, Campaigns!IdError
  <2>2. Blames(call, answer)
    BY DEF Blames, Campaigns!Rejected
  <2> QED
    BY <1>2, <2>1, <2>2, RefusalsAreTold
<1>4. CASE call.id # "" /\ Campaigns!LoadFailure(call.id) # {}
  <2>1. PICK answer \in Campaigns!LoadFailure(call.id) : Campaigns!Answer(call, answer, rows)
    BY <1>4 DEF Campaigns!Get, Campaigns!IdError
  <2>2. StoredFor(call) = rows[call.id]
    BY <1>4 DEF StoredFor
  <2> QED
    BY <1>1, <1>2, <1>4, <2>1, <2>2, LoadsAreTold, RefusalsAreTold
<1>5. CASE call.id # "" /\ Campaigns!LoadFailure(call.id) = {}
  <2>1. Campaigns!Answer(call, Campaigns!Done(200), rows)
    BY <1>5 DEF Campaigns!Get, Campaigns!IdError
  <2>2. Blames(call, Campaigns!Done(200))
    BY DEF Blames, Campaigns!Done
  <2> QED
    BY <1>2, <2>1, <2>2, RefusalsAreTold
<1> QED
  BY <1>3, <1>4, <1>5

LEMMA AddIsTold ==
    ASSUME ErrorInv, NEW call \in Campaigns!Calls, call.op = "add", Campaigns!AddLink(call)
    PROVE  \E answer, kept : Campaigns!Answer(call, answer, kept) /\ Told(call, answer, kept)
<1>1. call.id \in CampaignIds \cup {""} /\ call.link \in LinkBodies /\ call.parses \in BOOLEAN
  <2>1. Campaigns!Link("BAD", "BAD") \in LinkBodies
    BY DEF LinkBodies, Campaigns!LinkBodies
  <2> QED
    BY <2>1 DEF Campaigns!Calls, LinkBodies
<1>2. CASE ~call.parses
  <2>1. Campaigns!Answer(call, Campaigns!BadRequest, rows)
    BY <1>2 DEF Campaigns!AddLink
  <2>2. Blames(call, Campaigns!BadRequest)
    BY DEF Blames, Campaigns!BadRequest
  <2>3. NamesProblems(call, Campaigns!BadRequest)
    BY <1>2 DEF NamesProblems
  <2> QED
    BY <2>1, <2>2, <2>3, RefusalsAreTold
<1>3. CASE call.parses /\ Campaigns!Collected(call) # {}
  <2> DEFINE answer == Campaigns!Rejected("validation_failed", Campaigns!Collected(call))
  <2>1. Campaigns!Answer(call, answer, rows)
    BY <1>3 DEF Campaigns!AddLink
  <2>2. answer.status = 422 /\ answer.code = "validation_failed" /\ answer.problems = Campaigns!Collected(call)
    BY DEF Campaigns!Rejected
  <2>3. /\ "bad_slug" \in Campaigns!Collected(call) <=> call.link.slug = "BAD"
        /\ "bad_target_url" \in Campaigns!Collected(call) <=> call.link.target = "BAD"
        /\ "bad_campaign_id" \in Campaigns!Collected(call) <=> call.id = ""
    BY DEF Campaigns!Collected, Campaigns!IdError, Campaigns!SlugError, Campaigns!TargetError
  <2> HIDE DEF answer
  <2>4. Blames(call, answer)
    BY <2>2 DEF Blames
  <2>5. NamesProblems(call, answer)
    <3>1. answer.problems = Campaigns!Collected(call)
      BY <2>2
    <3> QED
      BY <2>3, <3>1, Zenon DEF NamesProblems
  <2> QED
    BY <2>1, <2>4, <2>5, RefusalsAreTold
<1>4. CASE call.parses /\ Campaigns!Collected(call) = {}
  <2>1. call.id # "" /\ call.link.slug # "BAD" /\ call.link.target # "BAD" /\ call.id \in CampaignIds
    <3>1. Campaigns!IdError(call.id) = "" /\ Campaigns!SlugError(call.link.slug) = ""
          /\ Campaigns!TargetError(call.link.target) = ""
      BY <1>4 DEF Campaigns!Collected
    <3> QED
      BY <1>1, <3>1 DEF Campaigns!IdError, Campaigns!SlugError, Campaigns!TargetError
  <2>2. \A answer : answer.problems = {} => NamesProblems(call, answer)
    BY <2>1 DEF NamesProblems
  <2>3. StoredFor(call) = rows[call.id]
    BY <2>1 DEF StoredFor
  <2>4. CASE Campaigns!LoadFailure(call.id) # {}
    <3>1. PICK answer \in Campaigns!LoadFailure(call.id) : Campaigns!Answer(call, answer, rows)
      BY <1>4, <2>4 DEF Campaigns!AddLink
    <3> QED
      BY <2>1, <2>2, <2>3, <3>1, LoadsAreTold, RefusalsAreTold
  <2>5. CASE Campaigns!LoadFailure(call.id) = {} /\ Campaigns!NoRoom(call.id, call.link) # ""
    <3> DEFINE code == Campaigns!NoRoom(call.id, call.link)
               answer == Campaigns!NotAdded(code)
    <3>1. Campaigns!Answer(call, answer, rows)
      BY <1>4, <2>5 DEF Campaigns!AddLink
    <3>2. ~down /\ (\E r \in rows[call.id] : r.sound) /\ Campaigns!Loaded(call.id) \in Seq(LinkBodies)
      BY <2>1, <2>5, LoadedFit
    <3>3. code \in {"", "duplicate_slug", "too_many_links"}
      BY <3>2, RoomMeans DEF Campaigns!NoRoom
    <3> HIDE DEF code
    <3>4. answer.status = 409 /\ answer.code = code /\ answer.problems = {}
      BY DEF Campaigns!NotAdded
    <3> HIDE DEF answer
    <3>5. Blames(call, answer)
      <4>1. answer.status # 500
        BY <3>4
      <4>2. answer.code # "campaign_not_found" /\ answer.code # "bad_slug"
        BY <3>3, <3>4
      <4>3. ~down /\ \E r \in StoredFor(call) : r.sound
        BY <2>3, <3>2
      <4> QED
        BY <4>1, <4>2, <4>3, Zenon DEF Blames
    <3> QED
      BY <2>2, <3>1, <3>4, <3>5, RefusalsAreTold
  <2>6. CASE Campaigns!LoadFailure(call.id) = {} /\ Campaigns!NoRoom(call.id, call.link) = ""
    <3> DEFINE links == Append(Campaigns!Loaded(call.id), call.link)
               kept == Campaigns!Saved(call.id, links)
    <3>1. Campaigns!Answer(call, Campaigns!Done(200), kept)
      BY <1>4, <2>6 DEF Campaigns!AddLink
    <3>2. links \in Seq(LinkBodies) /\ Fits(links)
      BY <1>1, <2>1, <2>6, LoadedFit, AppendedFit DEF Campaigns!NoRoom
    <3> HIDE DEF links
    <3>3. StoredFit(kept)
      BY <2>1, <3>2, SavedFit
    <3>4. Blames(call, Campaigns!Done(200)) /\ Campaigns!Done(200).problems = {}
      BY DEF Blames, Campaigns!Done
    <3>5. ~ (Campaigns!Done(200).status >= 400)
      BY DEF Campaigns!Done
    <3> HIDE DEF kept
    <3>6. Told(call, Campaigns!Done(200), kept)
      BY <2>2, <3>3, <3>4, <3>5 DEF Told
    <3> QED
      BY <3>1, <3>6
  <2> QED
    BY <2>4, <2>5, <2>6
<1> QED
  BY <1>1, <1>2, <1>3, <1>4

LEMMA DeactivateIsTold ==
    ASSUME ErrorInv, NEW call \in Campaigns!Calls, call.op = "deactivate", Campaigns!DeactivateLink(call)
    PROVE  \E answer, kept : Campaigns!Answer(call, answer, kept) /\ Told(call, answer, kept)
<1>1. call.id \in CampaignIds \cup {""}
  BY DEF Campaigns!Calls
<1>2. \A answer : NamesProblems(call, answer)
  BY DEF NamesProblems
<1>3. CASE call.id = ""
  <2> DEFINE answer == Campaigns!Rejected("bad_campaign_id", {})
  <2>1. Campaigns!Answer(call, answer, rows)
    BY <1>3 DEF Campaigns!DeactivateLink, Campaigns!IdError
  <2>2. Blames(call, answer)
    BY DEF Blames, Campaigns!Rejected
  <2> QED
    BY <1>2, <2>1, <2>2, RefusalsAreTold
<1>4. CASE call.id # "" /\ Campaigns!LoadFailure(call.id) # {}
  <2>1. PICK answer \in Campaigns!LoadFailure(call.id) : Campaigns!Answer(call, answer, rows)
    BY <1>4 DEF Campaigns!DeactivateLink, Campaigns!IdError
  <2>2. StoredFor(call) = rows[call.id]
    BY <1>4 DEF StoredFor
  <2> QED
    BY <1>1, <1>2, <1>4, <2>1, <2>2, LoadsAreTold, RefusalsAreTold
<1>5. CASE call.id # "" /\ Campaigns!LoadFailure(call.id) = {} /\ call.slug = "BAD"
  <2> DEFINE answer == Campaigns!Rejected("bad_slug", {})
  <2>1. Campaigns!Answer(call, answer, rows)
    BY <1>5 DEF Campaigns!DeactivateLink, Campaigns!IdError, Campaigns!SlugError
  <2>2. "BAD" \in SlugsOf(call)
    BY <1>5 DEF SlugsOf
  <2>3. answer.status = 422 /\ answer.code = "bad_slug"
    BY DEF Campaigns!Rejected
  <2> HIDE DEF answer
  <2>4. Blames(call, answer)
    BY <2>2, <2>3 DEF Blames
  <2> QED
    BY <1>2, <2>1, <2>4, RefusalsAreTold
<1>6. CASE /\ call.id # "" /\ Campaigns!LoadFailure(call.id) = {} /\ call.slug # "BAD"
           /\ \A i \in DOMAIN Campaigns!Loaded(call.id) : Campaigns!Loaded(call.id)[i].slug # call.slug
  <2> DEFINE answer == Campaigns!NotDeactivated("link_missing")
  <2>1. Campaigns!Answer(call, answer, rows)
    BY <1>6 DEF Campaigns!DeactivateLink, Campaigns!IdError, Campaigns!SlugError
  <2>2. Blames(call, answer)
    BY DEF Blames, Campaigns!NotDeactivated
  <2> QED
    BY <1>2, <2>1, <2>2, RefusalsAreTold
<1>7. CASE /\ call.id # "" /\ Campaigns!LoadFailure(call.id) = {} /\ call.slug # "BAD"
           /\ ~ \A i \in DOMAIN Campaigns!Loaded(call.id) : Campaigns!Loaded(call.id)[i].slug # call.slug
  <2> DEFINE kept == Campaigns!Saved(call.id, Campaigns!Loaded(call.id))
  <2>1. Campaigns!Answer(call, Campaigns!Done(200), kept)
    BY <1>7 DEF Campaigns!DeactivateLink, Campaigns!IdError, Campaigns!SlugError
  <2>2. StoredFit(kept)
    BY <1>1, <1>7, LoadedFit, SavedFit
  <2>3. Blames(call, Campaigns!Done(200))
    BY DEF Blames, Campaigns!Done
  <2>4. ~ (Campaigns!Done(200).status >= 400)
    BY DEF Campaigns!Done
  <2> HIDE DEF kept
  <2>5. Told(call, Campaigns!Done(200), kept)
    BY <1>2, <2>2, <2>3, <2>4 DEF Told
  <2> QED
    BY <2>1, <2>5
<1> QED
  BY <1>3, <1>4, <1>5, <1>6, <1>7

(* A request is told what is true; and nothing else is told anything.      *)
LEMMA ErrorsGoOn ==
    ASSUME ErrorInv, Campaigns!Next
    PROVE  /\ ErrorInv'
           /\ \A l \in last' : last' # last => /\ l.answer.status >= 400 => rows' = rows
                                             /\ Blames(l.call, l.answer)
<1>1. CASE \E call \in Campaigns!Calls : Campaigns!Ask(call)
  <2>1. PICK call \in Campaigns!Calls : Campaigns!Ask(call)
    BY <1>1
  <2>2. call.op \in {"create", "add", "get", "deactivate"}
    BY DEF Campaigns!Calls
  <2>3. \E answer, kept : Campaigns!Answer(call, answer, kept) /\ Told(call, answer, kept)
    BY <2>1, <2>2, CreateIsTold, AddIsTold, GetIsTold, DeactivateIsTold DEF Campaigns!Ask
  <2> QED
    BY <2>3, AnswersAreTold
<1>2. CASE Campaigns!GoesDownOrUp
  BY <1>2 DEF Campaigns!GoesDownOrUp, ErrorInv, StoredFit, Campaigns!EveryProblemAtOnce
<1>3. CASE Campaigns!Spoil
  <2>1. PICK id \in CampaignIds : rows' = [rows EXCEPT ![id] = {Campaigns!Spoilt}]
    BY <1>3 DEF Campaigns!Spoil
  <2>2. Campaigns!Spoilt \in Records /\ ~Campaigns!Spoilt.sound
    BY DEF Campaigns!Spoilt, Records
  <2>3. StoredFit(rows')
    BY <2>1, <2>2 DEF ErrorInv, StoredFit
  <2> QED
    BY <1>3, <2>3 DEF Campaigns!Spoil, ErrorInv, StoredFit, Campaigns!EveryProblemAtOnce
<1> QED
  BY <1>1, <1>2, <1>3 DEF Campaigns!Next

LEMMA StoredCampaignsFit ==
    ASSUME ErrorInv
    PROVE  Campaigns!StoredCampaignsLoad
<1> SUFFICES ASSUME NEW id \in CampaignIds, NEW r \in rows[id], r.sound
             PROVE  Campaigns!CampaignError(id, "sound", r.links) = ""
  BY DEF Campaigns!StoredCampaignsLoad
<1>1. r.links \in Seq(LinkBodies) /\ Fits(r.links)
  BY DEF ErrorInv, StoredFit, Records
<1>2. id # ""
  BY CampaignsAreAskedAsMeant DEF Campaigns!TextsKnown
<1>3. Campaigns!LinksError(r.links) = ""
  BY <1>1, LinksErrorMeans
<1> QED
  BY <1>2, <1>3 DEF Campaigns!CampaignError, Campaigns!IdError, Campaigns!WindowError

(* Of errorspy's requests, whatever goes down or is spoilt between them    *)
(* (CampaignService, its client's errors and the handler): what is stored  *)
(* loads, an answer names every field that is refused, a refusal changes   *)
(* nothing, and it blames the request only for what is the request's.      *)
THEOREM RefusalsAreHonest == PartSpec => ErrorsAreHonest
<1> DEFINE all == <<part, errorVars, databaseVars, widgetVars, bookingVars, approvalVars>>
<1> DEFINE Inv == part = "errors" => ErrorInv
<1>1. PartInit => Inv
  BY DEF PartInit, Campaigns!Init, ErrorInv, StoredFit, Campaigns!EveryProblemAtOnce
<1>2. Inv /\ [PartNext]_all => Inv'
  <2> SUFFICES ASSUME Inv, [PartNext]_all, part' = "errors" PROVE ErrorInv'
    OBVIOUS
  <2>1. CASE Campaigns!Next /\ part = "errors"
    BY <2>1, ErrorsGoOn
  <2>2. CASE UNCHANGED <<part, errorVars>>
    BY <2>2 DEF errorVars, ErrorInv, StoredFit, Campaigns!EveryProblemAtOnce
  <2> QED
    BY <2>1, <2>2 DEF PartNext
<1>3. Inv => (part = "errors" => Campaigns!StoredCampaignsLoad /\ Campaigns!EveryProblemAtOnce)
  BY StoredCampaignsFit DEF ErrorInv
<1>4. ASSUME Inv, [PartNext]_all, ~ UNCHANGED Campaigns!vars
      PROVE  /\ \A l \in last' : last' # last /\ l.answer.status >= 400 => rows' = rows
             /\ \A l \in last' : last' # last => Blames(l.call, l.answer)
  <2>1. ErrorInv /\ Campaigns!Next
    BY <1>4 DEF PartNext, errorVars, Campaigns!vars
  <2> QED
    BY <2>1, ErrorsGoOn
<1>5. Inv /\ [PartNext]_all =>
        [\A l \in last' : last' # last /\ l.answer.status >= 400 => rows' = rows]_(Campaigns!vars)
  BY <1>4
<1>6. Inv /\ [PartNext]_all =>
        [\A l \in last' : last' # last =>
            LET call == l.call
                slugs == CASE call.op = "create" -> {call.links[i].slug : i \in DOMAIN call.links}
                           [] call.op = "add" -> {call.link.slug}
                           [] call.op = "deactivate" -> {call.slug}
                           [] OTHER -> {}
                stored_ == IF call.id = "" THEN {} ELSE rows[call.id]
            IN  /\ l.answer.code = "campaign_not_found" => ~down /\ stored_ = {}
                /\ l.answer.status = 500 => down \/ \E r \in stored_ : ~r.sound
                /\ l.answer.code = "bad_slug" => "BAD" \in slugs
                /\ l.answer.status = 409 => ~down /\ \E r \in stored_ : r.sound]_(Campaigns!vars)
  BY <1>4 DEF Blames, SlugsOf, StoredFor
<1> QED
  BY <1>1, <1>2, <1>3, <1>5, <1>6, PTL
  DEF PartSpec, ErrorsAreHonest, Campaigns!RefusalsChangeNothing, Campaigns!BlameIsRight

===============================================================================
