------------------------------ MODULE WidgetStore ------------------------------
(***************************************************************************)
(* examples/asyncpg: alpha keeps widgets, beta keeps keys, in one Postgres *)
(* database behind one pool.  An operation is a task of the event loop;    *)
(* every statement of it is awaited, so a step is one statement, and other *)
(* tasks run between any two.                                              *)
(*                                                                         *)
(* A transaction holds a connection from its begin to its end and the row  *)
(* it loaded FOR UPDATE, or inserted, from that statement to its end.      *)
(***************************************************************************)
EXTENDS Naturals, FiniteSets

CONSTANTS
    Tasks,
    Calls,        \* [op, name, part], the requests made of the two contexts
    Names,        \* the names of widgets and keys
    Parts,        \* the identities of parts; a widget's own name is one
    PoolSize,     \* connections of the pool the two contexts share
    NoCall, NoRow, Nobody

Row == [part : Parts, standing : {"kept", "released"}]

(* What the module is used with: requests of the two contexts, and marks   *)
(* that are no task and no row.                                            *)
StoreAssumption ==
    /\ Calls \subseteq [op : {"add", "take", "find", "hold"}, name : Names, part : Parts]
    /\ PoolSize \in Nat /\ Nobody \notin Tasks /\ NoRow \notin Row

RowOf(part, standing) == [part |-> part, standing |-> standing]

VARIABLES
    widgets,   \* [Names -> the committed row, NoRow when there is none]
    keys,      \* the committed keys
    holder,    \* [Names -> the transaction that locked or inserted the row]
    users,     \* the tasks that have a connection
    table,     \* [contexts -> BOOLEAN], the schema is in the database
    ready,     \* [contexts -> BOOLEAN], the store's _schema_ready
    task

vars == <<widgets, keys, holder, users, table, ready, task>>

Contexts == {"alpha", "beta"}
Idle == [at |-> "idle", call |-> NoCall, in |-> "alpha", loaded |-> NoRow, pending |-> NoRow,
         standing |-> "kept", made |-> FALSE, answer |-> "none"]

Init ==
    /\ widgets = [n \in Names |-> NoRow] /\ keys = {}
    /\ holder = [n \in Names |-> Nobody] /\ users = {}
    /\ table = [c \in Contexts |-> FALSE] /\ ready = [c \in Contexts |-> FALSE]
    /\ task = [t \in Tasks |-> Idle]

Op(t)   == task[t].call.op
Name(t) == task[t].call.name
Part(t) == task[t].call.part
Goes(t, at) == task' = [task EXCEPT ![t].at = at]

-------------------------------------------------------------------------------
(* An operation begins.                                                    *)

(* A widget is added holding itself as its part: asked for that part, it   *)
(* holds it already and needs beta's clearance; any other part is taken.   *)
NeedsClearance(call) == call.op = "add" /\ call.part = call.name

Start(t, call) ==
    /\ task[t].at = "idle"
    /\ task' = [task EXCEPT ![t] =
                  [@ EXCEPT !.call = call, !.at = "acquire",
                            !.in = IF call.op = "hold" \/ NeedsClearance(call) THEN "beta" ELSE "alpha"]]
    /\ UNCHANGED <<widgets, keys, holder, users, table, ready>>

-------------------------------------------------------------------------------
(* A store's transaction: connection, schema, begin, commit or rollback.   *)

(* A mutant: the pool hands out one connection more than it has. *)
AcquireOneMore(t) ==
    /\ task[t].at = "acquire" /\ t \notin users /\ Cardinality(users) <= PoolSize
    /\ users' = users \cup {t}
    /\ Goes(t, IF ready[task[t].in] THEN "begun" ELSE "schema")
    /\ UNCHANGED <<widgets, keys, holder, table, ready>>

AcquireConnection(t) ==
    /\ task[t].at = "acquire" /\ t \notin users /\ Cardinality(users) < PoolSize
    /\ users' = users \cup {t}
    /\ Goes(t, IF ready[task[t].in] THEN "begun" ELSE "schema")
    /\ UNCHANGED <<widgets, keys, holder, table, ready>>

(* CREATE TABLE IF NOT EXISTS, outside the transaction. *)
MakeSchema(t) ==
    /\ task[t].at = "schema"
    /\ table' = [table EXCEPT ![task[t].in] = TRUE]
    /\ ready' = [ready EXCEPT ![task[t].in] = TRUE]
    /\ task' = [task EXCEPT ![t].at = "begun", ![t].made = TRUE]
    /\ UNCHANGED <<widgets, keys, holder, users>>

Leaves(t) ==
    /\ users' = users \ {t}
    /\ holder' = [n \in Names |-> IF holder[n] = t THEN Nobody ELSE holder[n]]

Ends(t, answer) ==
    task' = [task EXCEPT ![t] = [@ EXCEPT !.at = "done", !.answer = answer, !.pending = NoRow,
                                          !.made = FALSE]]

(* A mutant: the schema was made inside the transaction. *)
RollBackSchema(t) ==
    /\ task[t].at \in {"schema", "begun", "save", "commit"}
    /\ Leaves(t) /\ Ends(t, "raised")
    /\ table' = IF task[t].made THEN [table EXCEPT ![task[t].in] = FALSE] ELSE table
    /\ UNCHANGED <<widgets, keys, ready>>

(* The statement fails, the connection is lost, two first transactions     *)
(* clash over the schema, or the task is cancelled: whatever the           *)
(* transaction wrote is gone.                                              *)
RollBack(t) ==
    /\ task[t].at \in {"schema", "begun", "save", "commit"}
    /\ Leaves(t) /\ Ends(t, "raised")
    /\ UNCHANGED <<widgets, keys, table, ready>>

-------------------------------------------------------------------------------
(* alpha.                                                                  *)

(* A mutant: beta is asked while alpha's transaction is open. *)
CheckNameInside(t) ==
    /\ task[t].at = "begun" /\ task[t].in = "beta" /\ Op(t) = "add"
    /\ task' = [task EXCEPT ![t] =
                  [@ EXCEPT !.standing = IF Name(t) \in keys THEN "kept" ELSE "released",
                            !.at = "acquire", !.in = "alpha", !.made = FALSE]]
    /\ UNCHANGED <<widgets, keys, holder, users, table, ready>>

(* A mutant: the two verdicts are swapped. *)
CheckNameSwapped(t) ==
    /\ task[t].at = "begun" /\ task[t].in = "beta" /\ Op(t) = "add"
    /\ Leaves(t)
    /\ task' = [task EXCEPT ![t] =
                  [@ EXCEPT !.standing = IF Name(t) \in keys THEN "released" ELSE "kept",
                            !.at = "acquire", !.in = "alpha", !.made = FALSE]]
    /\ UNCHANGED <<widgets, keys, table, ready>>

(* beta.check_key reads in a transaction of its own and gives the          *)
(* connection back before alpha asks for one; the widget is kept when the  *)
(* key is held, released when it is not.                                   *)
CheckName(t) ==
    /\ task[t].at = "begun" /\ task[t].in = "beta" /\ Op(t) = "add"
    /\ Leaves(t)
    /\ task' = [task EXCEPT ![t] =
                  [@ EXCEPT !.standing = IF Name(t) \in keys THEN "kept" ELSE "released",
                            !.at = "acquire", !.in = "alpha", !.made = FALSE]]
    /\ UNCHANGED <<widgets, keys, table, ready>>

InAlpha(t, op) == task[t].at = "begun" /\ task[t].in = "alpha" /\ Op(t) = op

(* A mutant: an insert that sees another's uncommitted one as a free name. *)
AddWidgetUnguarded(t) ==
    /\ InAlpha(t, "add") /\ widgets[Name(t)] = NoRow
    /\ task' = [task EXCEPT ![t] = [@ EXCEPT !.pending = RowOf(Part(t), task[t].standing),
                                             !.at = "commit"]]
    /\ UNCHANGED <<widgets, keys, holder, users, table, ready>>

(* INSERT ... ON CONFLICT DO NOTHING waits for another's uncommitted       *)
(* insert of the name, and then for nothing.                               *)
AddWidget(t) ==
    /\ InAlpha(t, "add") /\ widgets[Name(t)] = NoRow /\ holder[Name(t)] = Nobody
    /\ holder' = [holder EXCEPT ![Name(t)] = t]
    /\ task' = [task EXCEPT ![t] = [@ EXCEPT !.pending = RowOf(Part(t), task[t].standing),
                                             !.at = "commit"]]
    /\ UNCHANGED <<widgets, keys, users, table, ready>>

AddWidgetExists(t) ==
    /\ InAlpha(t, "add") /\ widgets[Name(t)] # NoRow
    /\ Leaves(t) /\ Ends(t, "WidgetExists")
    /\ UNCHANGED <<widgets, keys, table, ready>>

(* A mutant: the row is loaded without FOR UPDATE. *)
LoadWidgetUnlocked(t) ==
    /\ InAlpha(t, "take") /\ widgets[Name(t)] # NoRow
    /\ task' = [task EXCEPT ![t] = [@ EXCEPT !.loaded = widgets[Name(t)], !.at = "save"]]
    /\ UNCHANGED <<widgets, keys, holder, users, table, ready>>

(* SELECT ... FOR UPDATE waits for the row and then reads what is          *)
(* committed; a name nobody has committed is not waited for.               *)
LoadWidget(t) ==
    /\ InAlpha(t, "take") /\ widgets[Name(t)] # NoRow /\ holder[Name(t)] = Nobody
    /\ holder' = [holder EXCEPT ![Name(t)] = t]
    /\ task' = [task EXCEPT ![t] = [@ EXCEPT !.loaded = widgets[Name(t)], !.at = "save"]]
    /\ UNCHANGED <<widgets, keys, users, table, ready>>

LoadWidgetMissing(t) ==
    /\ InAlpha(t, "take") /\ widgets[Name(t)] = NoRow
    /\ Leaves(t) /\ Ends(t, "WidgetNotFound")
    /\ UNCHANGED <<widgets, keys, table, ready>>

(* Widget.take: the part held already is not saved again; another part is, *)
(* under the standing the row had.                                         *)
SaveWidget(t) ==
    /\ task[t].at = "save" /\ task[t].loaded.part # Part(t)
    /\ task' = [task EXCEPT ![t] = [@ EXCEPT !.pending = RowOf(Part(t), task[t].loaded.standing),
                                             !.at = "commit"]]
    /\ UNCHANGED <<widgets, keys, holder, users, table, ready>>

TakeHeld(t) ==
    /\ task[t].at = "save" /\ task[t].loaded.part = Part(t)
    /\ Leaves(t) /\ Ends(t, "held")
    /\ UNCHANGED <<widgets, keys, table, ready>>

CommitWidget(t) ==
    /\ task[t].at = "commit" /\ task[t].in = "alpha"
    /\ widgets' = [widgets EXCEPT ![Name(t)] = task[t].pending]
    /\ Leaves(t) /\ Ends(t, task[t].pending.standing)
    /\ UNCHANGED <<keys, table, ready>>

FindWidget(t) ==
    /\ InAlpha(t, "find")
    /\ Leaves(t) /\ Ends(t, IF widgets[Name(t)] = NoRow THEN "no" ELSE "yes")
    /\ UNCHANGED <<widgets, keys, table, ready>>

-------------------------------------------------------------------------------
(* beta.hold_key: a key is only ever added.                                *)
PutKey(t) ==
    /\ task[t].at = "begun" /\ task[t].in = "beta" /\ Op(t) = "hold"
    /\ Goes(t, "commit")
    /\ UNCHANGED <<widgets, keys, holder, users, table, ready>>

CommitKey(t) ==
    /\ task[t].at = "commit" /\ task[t].in = "beta"
    /\ keys' = keys \cup {Name(t)}
    /\ Leaves(t) /\ Ends(t, "held")
    /\ UNCHANGED <<widgets, table, ready>>

-------------------------------------------------------------------------------
Statement(t) ==
    \/ AcquireConnection(t) \/ MakeSchema(t) \/ CheckName(t)
    \/ AddWidget(t) \/ AddWidgetExists(t)
    \/ LoadWidget(t) \/ LoadWidgetMissing(t) \/ SaveWidget(t) \/ TakeHeld(t)
    \/ CommitWidget(t) \/ FindWidget(t) \/ PutKey(t) \/ CommitKey(t)

Next == \E t \in Tasks : (\E call \in Calls : Start(t, call)) \/ Statement(t) \/ RollBack(t)

Spec == Init /\ [][Next]_vars

(* The event loop resumes what can go on; the pool and the row locks serve *)
(* those who wait for them.                                                *)
Fairness == \A t \in Tasks : SF_vars(Statement(t))

-------------------------------------------------------------------------------
(* Properties.                                                             *)

Steps == {"idle", "acquire", "schema", "begun", "save", "commit", "done"}
Answers == {"none", "kept", "released", "held", "yes", "no", "raised", "WidgetExists", "WidgetNotFound"}

(* Every part of the state has the values the code gives it, and the tasks *)
(* never have more connections than the pool.                              *)
TypeOK ==
    /\ widgets \in [Names -> Row \cup {NoRow}] /\ keys \subseteq Names
    /\ holder \in [Names -> Tasks \cup {Nobody}]
    /\ users \subseteq Tasks /\ Cardinality(users) <= PoolSize
    /\ table \in [Contexts -> BOOLEAN] /\ ready \in [Contexts -> BOOLEAN]
    /\ task \in [Tasks -> [at : Steps, call : Calls \cup {NoCall}, in : Contexts,
                           loaded : Row \cup {NoRow}, pending : Row \cup {NoRow},
                           standing : {"kept", "released"}, made : BOOLEAN, answer : Answers]]

(* A row that is locked is locked by a transaction that is open, and has   *)
(* not changed since that transaction loaded it.                           *)
LoadedRowsStand ==
    /\ \A n \in Names : holder[n] # Nobody => holder[n] \in users
    /\ \A t \in Tasks : task[t].at \in {"save", "commit"} /\ Op(t) = "take" =>
           widgets[Name(t)] = task[t].loaded

(* No change is lost: a widget that is stored is only replaced by a        *)
(* take_part that had loaded just that row (a load holds the row until the *)
(* transaction ends), never by an add.                                     *)
ChangesFollowLoads ==
    [][\A n \in Names : widgets[n] # NoRow /\ widgets'[n] # widgets[n] =>
          \E t \in Tasks : task[t].at = "commit" /\ Op(t) = "take" /\ Name(t) = n
                          /\ task[t].loaded = widgets[n]]_vars

(* Of several adds of one name, one at most is answered with a standing,   *)
(* and the others learn that it exists or fail.                            *)
OneAddPerName ==
    \A t, u \in Tasks :
        /\ task[t].at = "done" /\ task[u].at = "done" /\ Op(t) = "add" /\ Op(u) = "add"
        /\ Name(t) = Name(u)
        /\ task[t].answer \in {"kept", "released"} /\ task[u].answer \in {"kept", "released"}
        => t = u

(* A widget stored as kept on beta's word has its name among beta's keys,  *)
(* although the word was given in a transaction that ended before: keys    *)
(* are only added.                                                         *)
ClearedNamesAreHeld ==
    \A t \in Tasks : task[t].at = "done" /\ task[t].answer = "kept" /\ NeedsClearance(task[t].call)
        => Name(t) \in keys

(* The schema outlives a first transaction that rolls back (the test of    *)
(* that name in alpha/adapters/repositories/test_postgres.py): a store     *)
(* that skips its schema step has a table.                                 *)
ReadyMeansPresent == \A c \in Contexts : ready[c] => table[c]
===============================================================================
