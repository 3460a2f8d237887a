--------------------------- MODULE DatabaseLifecycle ---------------------------
(***************************************************************************)
(* pgdatabase/database.py: one asyncpg pool for each distinct database,    *)
(* opened and closed together by the app while operations use them.        *)
(*                                                                         *)
(* Every task runs on one event loop: a step below is what runs between    *)
(* two awaits.  A task awaits a database's _lifecycle lock, the creation   *)
(* or the closing of a pool under that lock, or a connection.              *)
(***************************************************************************)
EXTENDS Naturals, Sequences, FiniteSets

CONSTANTS
    Tasks,       \* the tasks of the event loop
    Does,        \* [Tasks -> "open" | "close" | "use"], what each runs
    Order,       \* the databases, in the order of Databases._by_request
    MaxSize,     \* connections of a pool
    Nobody, NoPool

Indexes   == 1..Len(Order)
DatabaseSet == {Order[i] : i \in Indexes}
PoolIds   == Tasks \X DatabaseSet     \* a task builds a database's pool once at most

(* What the module is used with: the databases are distinct, the marks are *)
(* neither tasks nor pools.                                                *)
ASSUME LifecycleAssumption ==
    /\ Does \in [Tasks -> {"open", "close", "use"}]
    /\ Len(Order) \in Nat \ {0} /\ \A i, j \in Indexes : Order[i] = Order[j] => i = j
    /\ MaxSize \in Nat /\ Nobody \notin Tasks /\ NoPool \notin PoolIds

VARIABLES
    ref,     \* Database._pool
    lock,    \* the holder of Database._lifecycle
    pool,    \* [PoolIds -> [at, users]], the pools asyncpg knows of
    task     \* [Tasks -> where it is]

vars == <<ref, lock, pool, task>>

(* mode: what a task is doing; i, upto: the database it is at and the last *)
(* one it visits; owed: the pools that were open when its close began.     *)
Init ==
    /\ ref  = [d \in DatabaseSet |-> NoPool]
    /\ lock = [d \in DatabaseSet |-> Nobody]
    /\ pool = [p \in PoolIds |-> [at |-> "unbuilt", users |-> {}]]
    /\ task = [t \in Tasks |->
                [mode |-> "idle", awaits |-> "nothing", i |-> 1, upto |-> Len(Order),
                 conn |-> NoPool, owed |-> {}]]

At(t)   == Order[task[t].i]
Live(p) == pool[p].at \in {"open", "closing"}
Ends(t, mode)   == [task[t] EXCEPT !.mode = mode, !.awaits = "nothing"]
Awaits(t, what) == [task[t] EXCEPT !.awaits = what]

(* The task has done with a database, and goes on to the next. *)
Passed(t) ==
    IF task[t].i < task[t].upto THEN [task[t] EXCEPT !.i = @ + 1, !.awaits = "lock"]
    ELSE Ends(t, IF task[t].mode = "undoing" THEN "raised" ELSE "returned")

-------------------------------------------------------------------------------
(* Databases.open and Databases.close.                                     *)

Begin(t) ==
    /\ task[t].mode = "idle" /\ Does[t] # "use"
    /\ task' = [task EXCEPT ![t] =
                  [@ EXCEPT !.mode = IF Does[t] = "open" THEN "opening" ELSE "closing",
                            !.awaits = "lock", !.owed = {p \in PoolIds : pool[p].at = "open"}]]
    /\ UNCHANGED <<ref, lock, pool>>

(* A mutant: open without the lock. *)
EnterOpenUnlocked(t) ==
    /\ task[t].mode = "opening" /\ task[t].awaits = "lock"
    /\ task' = [task EXCEPT ![t] = IF ref[At(t)] # NoPool THEN Passed(t) ELSE Awaits(t, "pool")]
    /\ UNCHANGED <<ref, lock, pool>>

(* Database.open, up to its first real wait: a pool there is kept. *)
EnterOpen(t) ==
    /\ task[t].mode = "opening" /\ task[t].awaits = "lock" /\ lock[At(t)] = Nobody
    /\ IF ref[At(t)] # NoPool
       THEN task' = [task EXCEPT ![t] = Passed(t)] /\ UNCHANGED lock
       ELSE lock' = [lock EXCEPT ![At(t)] = t] /\ task' = [task EXCEPT ![t] = Awaits(t, "pool")]
    /\ UNCHANGED <<ref, pool>>

PoolCreated(t) ==
    /\ task[t].mode = "opening" /\ task[t].awaits = "pool"
    /\ ref'  = [ref EXCEPT ![At(t)] = <<t, At(t)>>]
    /\ pool' = [pool EXCEPT ![<<t, At(t)>>].at = "open"]
    /\ lock' = [lock EXCEPT ![At(t)] = Nobody]
    /\ task' = [task EXCEPT ![t] = Passed(t)]

Unlocked(t) == [d \in DatabaseSet |-> IF lock[d] = t THEN Nobody ELSE lock[d]]

(* A mutant: no compensation. *)
UndoingNothing(t) == Ends(t, "raised")

(* Compensation: the databases this open has passed are closed again, and  *)
(* then the failure is raised.                                             *)
Undoing(t) ==
    IF task[t].i = 1 THEN Ends(t, "raised")
    ELSE [task[t] EXCEPT !.mode = "undoing", !.awaits = "lock", !.i = 1, !.upto = task[t].i - 1]

(* The database cannot be reached, or the task is cancelled at an await. *)
OpenFails(t) ==
    /\ task[t].mode = "opening"
    /\ lock' = Unlocked(t)
    /\ task' = [task EXCEPT ![t] = Undoing(t)]
    /\ UNCHANGED <<ref, pool>>

(* A mutant: a database somebody is busy with is left to them. *)
EnterCloseUnlessBusy(t) ==
    LET p == ref[At(t)] busy == p = NoPool \/ lock[At(t)] # Nobody IN
    /\ task[t].mode \in {"closing", "undoing"} /\ task[t].awaits = "lock"
    /\ ref' = IF busy THEN ref ELSE [ref EXCEPT ![At(t)] = NoPool]
    /\ IF busy
       THEN task' = [task EXCEPT ![t] = Passed(t)] /\ UNCHANGED <<lock, pool>>
       ELSE /\ lock' = [lock EXCEPT ![At(t)] = t]
            /\ pool' = [pool EXCEPT ![p].at = "closing"]
            /\ task' = [task EXCEPT ![t] = [Awaits(t, "pool") EXCEPT !.conn = p]]

(* A mutant: the lock is given back before the pool has closed. *)
EnterCloseUnlocked(t) ==
    LET p == ref[At(t)] IN
    /\ task[t].mode \in {"closing", "undoing"} /\ task[t].awaits = "lock" /\ lock[At(t)] = Nobody
    /\ ref' = [ref EXCEPT ![At(t)] = NoPool] /\ UNCHANGED lock
    /\ IF p = NoPool
       THEN task' = [task EXCEPT ![t] = Passed(t)] /\ UNCHANGED pool
       ELSE /\ pool' = [pool EXCEPT ![p].at = "closing"]
            /\ task' = [task EXCEPT ![t] = [Awaits(t, "pool") EXCEPT !.conn = p]]

(* Database.close, up to its first real wait: the reference is dropped     *)
(* before the pool is closed, so nobody else takes it up.                  *)
EnterClose(t) ==
    LET p == ref[At(t)] IN
    /\ task[t].mode \in {"closing", "undoing"} /\ task[t].awaits = "lock" /\ lock[At(t)] = Nobody
    /\ ref' = [ref EXCEPT ![At(t)] = NoPool]
    /\ IF p = NoPool
       THEN task' = [task EXCEPT ![t] = Passed(t)] /\ UNCHANGED <<lock, pool>>
       ELSE /\ lock' = [lock EXCEPT ![At(t)] = t]
            /\ pool' = [pool EXCEPT ![p].at = "closing"]
            /\ task' = [task EXCEPT ![t] = [Awaits(t, "pool") EXCEPT !.conn = p]]

PoolEnds(t, how) ==
    /\ task[t].mode \in {"closing", "undoing"} /\ task[t].awaits = "pool"
    /\ pool' = [pool EXCEPT ![task[t].conn].at = how]
    /\ lock' = [lock EXCEPT ![At(t)] = Nobody]
    /\ UNCHANGED ref

(* Mutants: the pool closes under its users; the timeout spares them. *)
PoolClosedAtOnce(t) ==
    /\ PoolEnds(t, "closed")
    /\ task' = [task EXCEPT ![t] = [Passed(t) EXCEPT !.conn = NoPool]]
PoolTerminatedIfFree(t) ==
    /\ PoolEnds(t, "terminated") /\ pool[task[t].conn].users = {}
    /\ task' = [task EXCEPT ![t] = [Passed(t) EXCEPT !.conn = NoPool]]

(* Pool.close waits until every connection has come back. *)
PoolClosed(t) ==
    /\ PoolEnds(t, "closed") /\ pool[task[t].conn].users = {}
    /\ task' = [task EXCEPT ![t] = [Passed(t) EXCEPT !.conn = NoPool]]

(* close_pool: after the timeout the pool is terminated, connections in    *)
(* use and all.                                                            *)
PoolTerminated(t) ==
    /\ PoolEnds(t, "terminated")
    /\ task' = [task EXCEPT ![t] = [Passed(t) EXCEPT !.conn = NoPool]]

(* Pool.close raises or is cancelled (asyncpg then terminates the pool):   *)
(* the databases after this one are not reached.                           *)
CloseRaises(t) ==
    /\ PoolEnds(t, "terminated")
    /\ task' = [task EXCEPT ![t] = [Ends(t, "broken") EXCEPT !.conn = NoPool]]

(* The task is cancelled while another holds the lock. *)
CloseCancelled(t) ==
    /\ task[t].mode \in {"closing", "undoing"} /\ task[t].awaits = "lock" /\ lock[At(t)] # Nobody
    /\ task' = [task EXCEPT ![t] = Ends(t, "broken")]
    /\ UNCHANGED <<ref, lock, pool>>

-------------------------------------------------------------------------------
(* Database.acquire.                                                       *)

(* The pool is read once, here; what is awaited afterwards is that pool. *)
Acquire(t, d) ==
    /\ task[t].mode = "idle" /\ Does[t] = "use"
    /\ task' = [task EXCEPT ![t] =
                  IF ref[d] = NoPool THEN Ends(t, "raised")
                  ELSE [@ EXCEPT !.mode = "acquiring", !.awaits = "connection", !.conn = ref[d]]]
    /\ UNCHANGED <<ref, lock, pool>>

(* A mutant: one user too many. *)
GrantedToOneMore(t) ==
    LET p == task[t].conn IN
    /\ task[t].mode = "acquiring" /\ Live(p)
    /\ Cardinality(pool[p].users) <= MaxSize
    /\ pool' = [pool EXCEPT ![p].users = @ \cup {t}]
    /\ task' = [task EXCEPT ![t] = [Awaits(t, "nothing") EXCEPT !.mode = "using"]]
    /\ UNCHANGED <<ref, lock>>

(* A waiter may still get a connection of a pool that is closing. *)
Granted(t) ==
    LET p == task[t].conn IN
    /\ task[t].mode = "acquiring" /\ Live(p)
    /\ Cardinality(pool[p].users) < MaxSize
    /\ pool' = [pool EXCEPT ![p].users = @ \cup {t}]
    /\ task' = [task EXCEPT ![t] = [Awaits(t, "nothing") EXCEPT !.mode = "using"]]
    /\ UNCHANGED <<ref, lock>>

(* The pool has begun to close, or the waiter is cancelled. *)
AcquireFails(t) ==
    /\ task[t].mode = "acquiring"
    /\ task' = [task EXCEPT ![t] = Ends(t, "raised")]
    /\ UNCHANGED <<ref, lock, pool>>

(* The operation ends; on a terminated pool it ends with an error. *)
Release(t) ==
    LET p == task[t].conn IN
    /\ task[t].mode = "using"
    /\ pool' = [pool EXCEPT ![p].users = @ \ {t}]
    /\ task' = [task EXCEPT ![t] = Ends(t, IF pool[p].at = "terminated" THEN "raised" ELSE "returned")]
    /\ UNCHANGED <<ref, lock>>

-------------------------------------------------------------------------------
Closing(t) == EnterClose(t) \/ PoolClosed(t) \/ PoolTerminated(t)

Next == \E t \in Tasks :
    \/ Begin(t) \/ EnterOpen(t) \/ PoolCreated(t) \/ OpenFails(t)
    \/ Closing(t) \/ CloseRaises(t) \/ CloseCancelled(t)
    \/ (\E d \in DatabaseSet : Acquire(t, d))
    \/ Granted(t) \/ AcquireFails(t) \/ Release(t)

Spec == Init /\ [][Next]_vars

(* The event loop runs what is ready, the lock serves those who wait, a    *)
(* pool is created or fails, and the timeout fires; operations may hold    *)
(* their connections for ever.                                             *)
Fairness == \A t \in Tasks : SF_vars(Closing(t)) /\ WF_vars(PoolCreated(t) \/ OpenFails(t))

-------------------------------------------------------------------------------
(* Properties.                                                             *)

Modes == {"idle", "opening", "undoing", "closing", "acquiring", "using", "returned", "raised",
          "broken"}

(* Every part of the state has the values the code gives it; a connection  *)
(* is never handed to more users than the pool has.                        *)
TypeOK ==
    /\ ref \in [DatabaseSet -> PoolIds \cup {NoPool}]
    /\ lock \in [DatabaseSet -> Tasks \cup {Nobody}]
    /\ pool \in [PoolIds -> [at : {"unbuilt", "open", "closing", "closed", "terminated"},
                             users : SUBSET Tasks]]
    /\ task \in [Tasks -> [mode : Modes, awaits : {"nothing", "lock", "pool", "connection"},
                           i : Indexes, upto : Indexes, conn : PoolIds \cup {NoPool},
                           owed : SUBSET PoolIds]]
    /\ \A p \in PoolIds : Cardinality(pool[p].users) <= MaxSize

(* Concurrent opens build one pool and orphan nothing, and a close that    *)
(* races an open closes the pool that open built (the tests of these names *)
(* in pgdatabase/test_database.py): an open pool is its database's own, a  *)
(* closing one is being closed by somebody.                                *)
NothingIsOrphaned ==
    \A p \in PoolIds :
        /\ pool[p].at = "open" => ref[p[2]] = p
        /\ pool[p].at = "closing" =>
              \E t \in Tasks : task[t].conn = p /\ task[t].awaits = "pool" /\ lock[p[2]] = t

(* A database has one live pool at most, also while an old one drains and  *)
(* a new one is asked for: its connections stay within one pool's size.    *)
OnePoolPerDatabase ==
    \A p, q \in PoolIds : p[2] = q[2] /\ Live(p) /\ Live(q) => p = q

(* An operation that has a connection keeps it: a pool ends under its      *)
(* users only when its close timed out or raised.                          *)
UsersAreWaitedFor ==
    \A t \in Tasks : task[t].mode = "using" => pool[task[t].conn].at \in {"open", "closing", "terminated"}

(* Databases.open that raises leaves open nothing that it built (an open   *)
(* that fails part way closes what it opened), unless a close raised in    *)
(* the compensation itself.                                                *)
FailedOpenIsUndone ==
    \A t \in Tasks : Does[t] = "open" /\ task[t].mode = "raised" =>
        \A d \in DatabaseSet : pool[<<t, d>>].at # "open"

(* Databases.close that returns has reached every database: no pool that   *)
(* was open when it began still is, whoever closed it.                     *)
CloseReachesEveryDatabase ==
    \A t \in Tasks : Does[t] = "close" /\ task[t].mode = "returned" =>
        \A p \in task[t].owed : ~Live(p)

(* Through opens, closes and uses that race and fail: one live pool for    *)
(* each database, none orphaned, none taken from its users, none left by   *)
(* an open that failed, none missed by a close.                            *)
PoolsAreAccountedFor ==
    /\ TypeOK
    /\ NothingIsOrphaned
    /\ OnePoolPerDatabase
    /\ UsersAreWaitedFor
    /\ FailedOpenIsUndone
    /\ CloseReachesEveryDatabase
===============================================================================
