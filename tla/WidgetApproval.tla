-------------------------- MODULE WidgetApproval --------------------------
(***************************************************************************)
(* examples/minimal: a widget is created by a workflow that waits for its  *)
(* approval and then keeps it, while commands of the same names add parts  *)
(* and look widgets up.  Each command is a process of its own; it and every*)
(* attempt at the workflow's action open a connection, see to the table    *)
(* and run one transaction.  The engine keeps a key for ever: a name is    *)
(* registered once.                                                        *)
(***************************************************************************)
EXTENDS Naturals, FiniteSets

CONSTANTS
    Names,        \* the widget names commands give; "" is refused
    Held,         \* those beta holds a key for: Beta's frozenset({"k"})
    Commands,     \* the processes of the command line
    MaxTries,     \* max_attempts of _RETRY_POLICY
    Faults        \* may connections fail, attempts be lost and processes die?

(* What the module is used with: a command is no name, and a name no empty *)
(* text; an action is attempted once at least.                             *)
ApprovalAssumption == Names \cap Commands = {} /\ "" \notin Names /\ MaxTries \in Nat \ {0}

VARIABLES
    table,      \* is there a table widgets?
    rows,       \* name -> the standing stored, "none" if no row
    flow,       \* name -> where its registration is
    promise,    \* name -> is the promise approve_widget resolved?
    tries,      \* name -> attempts lost since the invocation last got on
    paused,     \* the names whose invocation the engine has paused
    at,         \* a session is a command or the attempt at a name's action: where it is
    job         \* command -> what it was called with

vars == <<table, rows, flow, promise, tries, paused, at, job>>

Sessions == Commands \cup Names

Over == {"rejected", "answered", "refused", "failed", "killed"}

Steps == {"idle", "connecting", "creating", "ready", "committed", "asking"} \cup Over

TypeOK ==
    /\ table \in BOOLEAN
    /\ rows \in [Names -> {"none", "kept", "released"}]
    /\ flow \in [Names -> {"none", "accepted", "waiting", "keeping", "done"}]
    /\ promise \in [Names -> BOOLEAN]
    /\ tries \in [Names -> 0..(MaxTries - 1)]
    /\ paused \subseteq Names
    /\ at \in [Sessions -> Steps]
    /\ \A c \in Commands : job[c].op \in {"none", "add", "find", "create", "approve"}

Init ==
    /\ table = FALSE
    /\ rows = [n \in Names |-> "none"]
    /\ flow = [n \in Names |-> "none"]
    /\ promise = [n \in Names |-> FALSE]
    /\ tries = [n \in Names |-> 0]
    /\ paused = {}
    /\ at = [s \in Sessions |-> "idle"]
    /\ job = [c \in Commands |-> [op |-> "none"]]

Engine == <<flow, promise, tries, paused>>

Database == <<table, rows>>

Move(s, to) == at' = [at EXCEPT ![s] = to]

-----------------------------------------------------------------------------
(* The sessions with Postgres: connect, CREATE TABLE IF NOT EXISTS in a    *)
(* statement of its own, and the transaction.                              *)

\* The name a session is about and the standing it saves.
NameOf(s) == IF s \in Names THEN s ELSE job[s].name

Saves(s) == s \in Names \/ job[s].op = "add"

\* MapToWidgetSpec gives the widget a part of its own name, so that only a part
\* of that name is held and cleared by beta; any other is taken unasked.
Standing(s) ==
    IF s \in Names THEN "kept"
    ELSE IF job[s].part = job[s].name /\ job[s].name \notin Held THEN "released" ELSE "kept"

\* A mutant: the table is created whether it is there or not.
SeesNone(s) ==
    /\ at[s] = "connecting"
    /\ Move(s, "creating")
    /\ UNCHANGED <<Database, Engine, job>>

SeesTable(s) ==
    /\ at[s] = "connecting"
    /\ Move(s, IF table THEN "ready" ELSE "creating")
    /\ UNCHANGED <<Database, Engine, job>>

\* Two sessions that saw no table both insert it into the catalogue; the
\* second is refused by the catalogue's own key.
CreatesTable(s) ==
    /\ at[s] = "creating" /\ ~table
    /\ table' = TRUE
    /\ Move(s, "ready")
    /\ UNCHANGED <<rows, Engine, job>>

\* Mutants: attempts without end; one attempt too many.
LostForEver(n) == UNCHANGED <<tries, paused>>

OneTooMany(n) == IF tries[n] = MaxTries
                   THEN tries' = [tries EXCEPT ![n] = 0] /\ paused' = paused \cup {n}
                   ELSE tries' = [tries EXCEPT ![n] = @ + 1] /\ UNCHANGED paused

\* The attempt under way is lost: the policy pauses after the last it allows.
Lost(n) == IF tries[n] + 1 = MaxTries
             THEN tries' = [tries EXCEPT ![n] = 0] /\ paused' = paused \cup {n}
             ELSE tries' = [tries EXCEPT ![n] = @ + 1] /\ UNCHANGED paused

\* An attempt that fails is made again after a while, until there were as many
\* as the policy allows; a command says "unexpected error" and is over.
Fails(s) ==
    IF s \in Names
      THEN Lost(s) /\ Move(s, "idle") /\ UNCHANGED <<flow, promise>>
      ELSE Move(s, "failed") /\ UNCHANGED Engine

TableRefused(s) ==
    /\ at[s] = "creating" /\ table
    /\ Fails(s)
    /\ UNCHANGED <<Database, job>>

\* The transaction: one statement, committed.
Commits(s) ==
    /\ at[s] = "ready"
    /\ rows' = IF Saves(s) THEN [rows EXCEPT ![NameOf(s)] = Standing(s)] ELSE rows
    /\ Move(s, "committed")
    /\ UNCHANGED <<table, Engine, job>>

\* The connection, Postgres or the host fails at any step, the last of which is
\* after the commit.
Breaks(s) ==
    /\ Faults
    /\ at[s] \in {"connecting", "creating", "ready", "committed"}
    /\ Fails(s)
    /\ UNCHANGED <<Database, job>>

-----------------------------------------------------------------------------
(* The commands.                                                           *)

Texts == Names \cup {""}

Calls ==
    [op : {"add"}, name : Texts, part : Texts \cup {"p"}]
      \cup [op : {"find", "create", "approve"}, name : Texts]

Sound(call) == call.name # "" /\ (call.op = "add" => call.part # "")

Begin(c) ==
    /\ at[c] = "idle"
    /\ \E call \in Calls :
        /\ job' = [job EXCEPT ![c] = call]
        /\ Move(c, IF ~Sound(call) THEN "rejected"
                   ELSE IF call.op \in {"add", "find"} THEN "connecting" ELSE "asking")
    /\ UNCHANGED <<Database, Engine>>

\* add_part and find_widget answer from what their transaction left.
Answers(c) ==
    /\ at[c] = "committed"
    /\ Move(c, "answered")
    /\ UNCHANGED <<Database, Engine, job>>

\* workflow_send: the engine has taken the registration down, or had.
Create(c) ==
    /\ at[c] = "asking" /\ job[c].op = "create"
    /\ flow' = IF flow[job[c].name] = "none" THEN [flow EXCEPT ![job[c].name] = "accepted"] ELSE flow
    /\ Move(c, "answered")
    /\ UNCHANGED <<Database, promise, tries, paused, job>>

\* Mutants: a promise is completed for a name whatever its registration is; and
\* only while the registration waits for it.
AnyApproval(c) == TRUE

WhileWaiting(c) == flow[job[c].name] = "waiting"

\* The signal reads the state the workflow set when it began.
Registering(c) == flow[job[c].name] \in {"waiting", "keeping", "done"}

\* workflow_call: a promise completed before is as good as one completed now.
Approve(c) ==
    /\ at[c] = "asking" /\ job[c].op = "approve"
    /\ IF Registering(c)
         THEN /\ promise' = [promise EXCEPT ![job[c].name] = TRUE]
              /\ Move(c, "answered")
         ELSE Move(c, "refused") /\ UNCHANGED promise
    /\ UNCHANGED <<Database, flow, tries, paused, job>>

\* The ingress fails, or its answer is late: the engine may have taken the call
\* all the same, and the host may have served it.
Unanswered(c) ==
    /\ Faults
    /\ at[c] = "asking"
    /\ Move(c, "failed")
    /\ \/ UNCHANGED <<flow, promise>>
       \/ /\ job[c].op = "create" /\ flow[job[c].name] = "none"
          /\ flow' = [flow EXCEPT ![job[c].name] = "accepted"]
          /\ UNCHANGED promise
       \/ /\ job[c].op = "approve" /\ Registering(c)
          /\ promise' = [promise EXCEPT ![job[c].name] = TRUE]
          /\ UNCHANGED flow
    /\ UNCHANGED <<Database, tries, paused, job>>

\* The process is killed; what its transaction has not committed is undone.
Killed(c) ==
    /\ Faults
    /\ at[c] \in {"connecting", "creating", "ready", "committed", "asking"}
    /\ Move(c, "killed")
    /\ UNCHANGED <<Database, Engine, job>>

\* Another command takes the place of one that is over.
Again(c) ==
    /\ at[c] \in Over
    /\ Move(c, "idle")
    /\ job' = [job EXCEPT ![c] = [op |-> "none"]]
    /\ UNCHANGED <<Database, Engine>>

-----------------------------------------------------------------------------
(* The workflow, its journaled steps and the action it calls.              *)

Starts(n) ==
    /\ flow[n] = "accepted" /\ n \notin paused
    /\ flow' = [flow EXCEPT ![n] = "waiting"]
    /\ tries' = [tries EXCEPT ![n] = 0]
    /\ UNCHANGED <<Database, promise, paused, at, job>>

\* A mutant: the action is called without the promise's value.
Unasked(n) == flow[n] = "waiting"

Approved(n) == flow[n] = "waiting" /\ promise[n]

Awakes(n) ==
    /\ Approved(n) /\ n \notin paused
    /\ flow' = [flow EXCEPT ![n] = "keeping"]
    /\ tries' = [tries EXCEPT ![n] = 0]
    /\ UNCHANGED <<Database, promise, paused, at, job>>

\* An attempt of the workflow is lost: what it had journaled it finds again.
FlowLost(n) ==
    /\ Faults
    /\ flow[n] \in {"accepted", "waiting"} /\ n \notin paused
    /\ Lost(n)
    /\ UNCHANGED <<Database, flow, promise, at, job>>

Attempts(n) ==
    /\ flow[n] = "keeping" /\ n \notin paused /\ at[n] = "idle"
    /\ Move(n, "connecting")
    /\ UNCHANGED <<Database, Engine, job>>

\* A mutant: the answer is journaled with the transaction still open.
KeptEarly(n) == at[n] = "ready"

Kept(n) == at[n] = "committed"

\* The answer of the action is journaled, and the workflow is over.
Finishes(n) ==
    /\ Kept(n)
    /\ flow' = [flow EXCEPT ![n] = "done"]
    /\ tries' = [tries EXCEPT ![n] = 0]
    /\ Move(n, "idle")
    /\ UNCHANGED <<Database, promise, paused, job>>

\* An operator resumes an invocation.
Resumes(n) ==
    /\ n \in paused
    /\ paused' = paused \ {n}
    /\ UNCHANGED <<Database, flow, promise, tries, at, job>>

-----------------------------------------------------------------------------
Talks(s) == SeesTable(s) \/ CreatesTable(s) \/ TableRefused(s) \/ Commits(s)

Command(c) == Begin(c) \/ Answers(c) \/ Create(c) \/ Approve(c) \/ Unanswered(c) \/ Killed(c) \/ Again(c)

Workflow(n) == Starts(n) \/ Awakes(n) \/ FlowLost(n) \/ Attempts(n) \/ Finishes(n) \/ Resumes(n)

Next ==
    \/ \E s \in Sessions : Talks(s) \/ Breaks(s)
    \/ \E c \in Commands : Command(c)
    \/ \E n \in Names : Workflow(n)

Spec == Init /\ [][Next]_vars

\* The engine gets on with every invocation that is not paused, and Postgres
\* answers; commands may die, and nobody need give one.
Fairness ==
    /\ \A n \in Names : WF_vars(Starts(n)) /\ WF_vars(Awakes(n)) /\ WF_vars(Attempts(n)) /\ WF_vars(Finishes(n))
    /\ \A s \in Sessions : WF_vars(Talks(s))

-----------------------------------------------------------------------------
(* Of a step: the workflow keeps a widget only once its name is approved, and whatever
   else stores a standing is a part being added to that name
   (WidgetOrchestrator.register_widget, AlphaService.add_part). *)
NothingKeptUnapproved ==
    \A n \in Names : rows'[n] # rows[n] =>
        \/ promise[n]
        \/ \E c \in Commands : job[c].op = "add" /\ job[c].name = n /\ at[c] = "ready" /\ at'[c] = "committed"

(* There is an approval on record only for a registration that has begun, so
   that none waits there for a registration to come
   (RestateApproveWidget's reading of REGISTER_WIDGET_STATE). *)
ApprovalsHaveARegistration ==
    \A n \in Names : promise[n] => flow[n] \notin {"none", "accepted"}

(* Of a step: a name that is approved is never refused an approval afterwards, however far
   its registration has got (the 409 RestateApproveWidget takes for success). *)
ApprovalsRepeat ==
    \A c \in Commands : at'[c] = "refused" /\ at[c] = "asking" => ~promise[job[c].name]

(* A registration that is over has left a widget that is found, whatever
   attempts were lost and whoever saw to the table (keep_widget, find_widget). *)
DoneIsFound == \A n \in Names : flow[n] = "done" => table /\ rows[n] # "none"

(* Commands that race to create the table cost an action one attempt at most,
   so that while nothing fails no registration is paused, if two attempts are
   allowed (CREATE TABLE IF NOT EXISTS under _RETRY_POLICY). *)
TheTableIsRacedForOnce == ~Faults /\ MaxTries > 1 => paused = {}
=============================================================================
