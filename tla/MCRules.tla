------------------------------- MODULE MCRules -------------------------------
(***************************************************************************)
(* Five families of the Python analyzer's rules for TLC, side by side: in  *)
(* a behaviour one of them moves, the part, and the others stay unused.    *)
(* They have no state in common; what the names of their variables share   *)
(* is only the idea.                                                       *)
(***************************************************************************)
EXTENDS ImportTiers, Naturals

CONSTANTS
    First, Added,   \* the members of an outcome at first, and those added later
    MaxEdits,       \* bound: edits of a tree in order
    MaxStatements,  \* bound: the length of a function
    MaxRounds       \* bound: the rounds of the loop it is in

ASSUME BoundsNat == {MaxEdits, MaxStatements} \subseteq Nat /\ MaxRounds \in Nat \ {0}

ASSUME MembersAssumption == First # {}

VARIABLES
    part,
    tree, edits, running, last,     \* of every family with a tree that is edited
    main, state, promises, signal,  \* of the engine
    now, asked,                     \* of the outcomes
    where, body, pc, round, env, did

engineOnly  == <<main, state, promises, signal>>
outcomeOnly == <<now, asked>>
treeVars    == <<tree, edits, running, last>>
flowVars    == <<where, body, pc, round, env, did>>
partVars    == <<part, vars, treeVars, engineOnly, outcomeOnly, flowVars>>

Engine ==
    INSTANCE EngineChain WITH OneClient <- TRUE, SetsFirst <- TRUE, Obeys <- TRUE, EverySignal <- FALSE,
        RunsItsName <- TRUE, OneHome <- TRUE
Runner == INSTANCE RunnerChain
Outcome == INSTANCE OutcomeMatch
Flow == INSTANCE SpecFlow

NoImports == start = <<"kernel">> /\ at = start
NoTree    == tree = <<>> /\ edits = 0 /\ running = FALSE /\ last = {}
NoEngine  == main = "idle" /\ state = {} /\ promises = {} /\ signal = "idle"
NoOutcome == now = (CHOOSE m \in First : TRUE) /\ asked = {}
NoFlow    == where = "unused" /\ body = <<>> /\ pc = 0 /\ round = 0 /\ env = <<>> /\ did = {}

PartInit ==
    \/ part = "imports" /\ Init /\ NoTree /\ NoEngine /\ NoOutcome /\ NoFlow
    \/ part = "engine" /\ Engine!Init /\ NoImports /\ NoOutcome /\ NoFlow
    \/ part = "runners" /\ Runner!Init /\ NoImports /\ NoEngine /\ NoOutcome /\ NoFlow
    \/ part = "outcomes" /\ Outcome!Init /\ NoImports /\ NoEngine /\ NoFlow
    \/ part = "specs" /\ Flow!Init /\ NoImports /\ NoTree /\ NoEngine /\ NoOutcome

PartNext ==
    \/ /\ part = "imports" /\ Next
       /\ UNCHANGED <<part, treeVars, engineOnly, outcomeOnly, flowVars>>
    \/ /\ part = "engine" /\ Engine!Next
       /\ UNCHANGED <<part, vars, outcomeOnly, flowVars>>
    \/ /\ part = "runners" /\ Runner!Next
       /\ UNCHANGED <<part, vars, engineOnly, outcomeOnly, flowVars>>
    \/ /\ part = "outcomes" /\ Outcome!Next
       /\ UNCHANGED <<part, vars, engineOnly, flowVars>>
    \/ /\ part = "specs" /\ Flow!Next
       /\ UNCHANGED <<part, vars, treeVars, engineOnly, outcomeOnly>>

PartSpec == PartInit /\ [][PartNext]_partVars

-----------------------------------------------------------------------------

\* Whatever chain of imports the rules admit, where an application client names
\* only its own context, as no rule asks (SpeaksOwn): the domain reaches only domain,
\* contexts meet only at their clients and only through gateways and
\* components, an action only through the engine, an orchestrator only where
\* one is built per invocation, handlers and driven adapters see only the
\* client and the ports, the core's tests no adapter, no context the shell, and
\* no import comes back to a module that is still being loaded.
ImportChainsEnd ==
    /\ [](part = "imports" =>
            /\ DomainReachesOnlyDomain
            /\ ContextsMeetAtClients
            /\ OnlyGatewaysAndComponentsReachOut
            /\ ActionsOnlyThroughEngine
            /\ OrchestratorsOnlyPerInvocation
            /\ HandlersSeeOnlyTheClient
            /\ DrivenAdaptersSeeOnlyPorts
            /\ ContextsStayOutOfTheShell
            /\ CoreTestsReachNoAdapter)
    /\ NoCircularImport

\* In every tree the engine rules accept, whose authors keep to what no rule asks
\* (one client to an activity, a main that sets its state first, a signal that
\* refuses while the state is not set, a main that runs what it is named for, one
\* far side to an operation): a call reaches the handler its relay names on the
\* side its relay is named for, a signal resolves no promise of a main that never
\* started, and is heard while the main waits for it.
EngineMeets ==
    /\ [](part = "engine" =>
            /\ Engine!CallsDoWhatTheirNameSays
            /\ Engine!RelaysNameTheFarSide
            /\ Engine!NoPromiseBeforeTheMain)
    /\ Engine!SignalsHeardWhileWaiting

\* In every tree the runner rules accept: a relay's name leads to the handler
\* that does it, and nothing registered is never called, except where a handler
\* is registered by position under another name than its function's; and it
\* leads to the side the relay is named for, except on a service whose handlers
\* have more than one far side.
RunnersMeet ==
    part = "runners" =>
        /\ Runner!OneNameAcross
        /\ Runner!RelaysNameTheFarSide
        /\ Runner!NothingRegisteredIsIdle

\* In every tree the outcome rules accept: an outcome class loads if and only if
\* none of its members is annotated; a member is named where its answer is
\* decided on, except by a domain object's match that names no member; and the
\* answer decided on is the object's at that time, except where a domain object
\* kept another's.
OutcomesAreDecided ==
    part = "outcomes" =>
        /\ Outcome!TypeOK
        /\ Outcome!AcceptedOutcomesLoad
        /\ Outcome!NoSilentMember
        /\ Outcome!DecidesOnTheAnswer

\* In every function the spec and record rules accept, run in a loop, whose
\* names all get values, each of one type: a spec is read only by its own object
\* and kept by none, and a record is not written if what a method answered
\* reaches no name written to.
SpecsAreUsedUp ==
    part = "specs" =>
        /\ Flow!RecordsStand
        /\ Flow!SpecsReadByTheirObject
        /\ Flow!SpecsAreDone
==============================================================================
