---------------------------- MODULE ImportTiers ----------------------------
(***************************************************************************)
(* The import rules of the Python analyzer (src/tessercheck-py/tessercheck *)
(* /domain/checks.py): which module of a tree may import which other.      *)
(*                                                                         *)
(* Every rule reads one import statement on its own; what a team relies on *)
(* is about chains of them.  The state is a walk along import statements   *)
(* an accepted tree may hold, from one module to any module it ends up     *)
(* importing, and the properties say what no chain reaches.                *)
(*                                                                         *)
(* A module name is the sequence of its dotted parts.  A package has an    *)
(* __init__; a class a rule asks for (a gateway, a handler) may be in any  *)
(* module the placement rules let it live in.  Imports of the standard     *)
(* library and of third-party packages are not followed.                   *)
(***************************************************************************)
EXTENDS SequencesExt

CONSTANTS
    Contexts,       \* the bounded contexts of the tree
    Leaves,         \* the last names of modules: plain, test_*, conftest
    SpeaksOwn       \* TRUE: application clients name only their own context

ASSUME ContextsNamed == Contexts \cap {"srv", "app", "protocol", "tests", "kernel"} = {}
ASSUME LeavesKnown == Leaves \subseteq {"m", "n", "test_m", "conftest"}
ASSUME SpeaksOwn \in BOOLEAN

Roles == {"domain", "application", "client", "adapters", "component"}

ApplicationPackages == {"ports", "client", "orchestrators", "relays", "snapshots"}

KindPackages == {"handlers", "gateways", "repositories", "runners",
                 "runtimes", "activities", "workflows", "dispatchers"}

ShellPackages == {"srv", "app", "protocol", "tests"}

RuntimeKinds == {"runtimes", "activities"}

RunnerKinds == {"runners", "workflows"}

\* What an adapters kind package may import of its own context.
KindReach(kind) ==
    CASE kind = "handlers" -> {<<"client">>}
      [] kind \in {"gateways", "repositories"} -> {<<"application", "ports">>}
      [] kind = "runners" ->
            {<<"application", "relays">>, <<"application", "orchestrators">>}
      [] kind \in {"runtimes", "activities"} ->
            {<<"application", "client">>, <<"application", "relays">>}
      [] kind = "workflows" ->
            {<<"application", "orchestrators">>, <<"application", "relays">>,
             <<"adapters", "activities">>}
      [] kind = "dispatchers" ->
            {<<"application", "relays">>, <<"adapters", "workflows">>}

\* Mutants: the domain may use the client's messages; adapters the services.
DomainSeesClient(role) ==
    CASE role = "client" -> {}
      [] role = "domain" -> {<<"client">>}
      [] role = "application" -> {<<"domain">>, <<"client">>}
      [] role = "adapters" -> {<<"application", "ports">>}
      [] role = "component" -> {<<"application">>, <<"adapters">>, <<"client">>}

CoreSeesAdapters(role) ==
    CASE role \in {"domain", "client"} -> {}
      [] role = "application" -> {<<"domain">>, <<"client">>, <<"adapters">>}
      [] role = "adapters" -> {<<"application", "ports">>}
      [] role = "component" -> {<<"application">>, <<"adapters">>, <<"client">>}

\* What a role may import of its own context besides itself.
SameContext(role) ==
    CASE role \in {"domain", "client"} -> {}
      [] role = "application" -> {<<"domain">>, <<"client">>}
      [] role = "adapters" -> {<<"application", "ports">>}
      [] role = "component" -> {<<"application">>, <<"adapters">>, <<"client">>}

-----------------------------------------------------------------------------
(* The tree: packages (each with its __init__) and the modules in them.    *)

Packages ==
    {<<top>> : top \in Contexts \cup ShellPackages \cup {"kernel"}}
    \cup {<<c, r>> : c \in Contexts, r \in Roles \cup {"tests"}}
    \cup {<<c, "domain", "kernel">> : c \in Contexts}
    \cup {<<c, "application", p>> : c \in Contexts, p \in ApplicationPackages}
    \cup {<<c, "adapters", k>> : c \in Contexts, k \in KindPackages}

IsTest(name) == Last(name) = "test_m"

IsReserved(name) == Last(name) \in {"test_m", "conftest"}

\* The place of a module; "stray" stands for every place that is a finding
\* by itself, whatever the module holds.
Place(name) ==
    LET inApplication == Len(name) >= 4 /\ name[1] \in Contexts /\ name[2] = "application"
        inPackage == name[2] = "application" /\ Len(name) >= 3 /\ name[3] \in ApplicationPackages
        at(from, to) == IF name \in Packages THEN to ELSE from
    IN  IF inApplication /\ name[3] \in {"ports", "client"} /\ IsReserved(name) THEN "stray"
        ELSE IF Last(name) = "conftest" THEN IF Len(name) = 1 THEN "conftest-root" ELSE "conftest"
        ELSE IF IsTest(name) THEN "test"
        ELSE IF name[1] = "srv" THEN at("shell-srv", "shell-init")
        ELSE IF name[1] = "app" THEN at("shell-app", "shell-init")
        ELSE IF name[1] = "tests" THEN at("stray", "root-tests")
        ELSE IF name[1] = "protocol" THEN at("protocol", "protocol-init")
        ELSE IF name[1] = "kernel" THEN at("kernel", "kernel-init")
        ELSE IF name[1] \notin Contexts THEN "stray"
        ELSE IF Len(name) = 1 THEN "context-init"
        ELSE IF name[2] = "tests" THEN at("stray", "context-tests-init")
        ELSE IF name[2] \notin Roles THEN "stray"
        ELSE IF IsPrefix(<<"domain", "kernel">>, Tail(name))
          THEN at("context-kernel", "context-kernel-init")
        ELSE IF inPackage THEN at(name[3], "package-init")
        ELSE at("role", "role-init")

\* The tier a test or a conftest is placed in, "none" off the map.
Tier(name) ==
    IF Len(name) >= 2 /\ name[1] \in ShellPackages \cup {"kernel"} THEN name[1]
    ELSE IF Len(name) < 3 \/ name[1] \notin Contexts THEN "none"
    ELSE IF name[2] = "tests" THEN "tests-of-context"
    ELSE IF name[2] = "adapters"
      THEN IF Len(name) >= 4 /\ name[3] \in KindPackages THEN name[3] ELSE "stray"
    ELSE IF name[2] = "application" /\ Len(name) >= 4
            /\ name[3] \in {"orchestrators", "relays", "snapshots"}
      THEN name[3]
    ELSE IF name[2] \in Roles THEN name[2] ELSE "stray"

Modules ==
    LET names == Packages \cup {<<"conftest">>}
                 \cup {Append(p, leaf) : p \in Packages, leaf \in Leaves}
    IN  {n \in names : /\ Place(n) # "stray"
                       /\ Place(n) = "test" => Tier(n) \notin {"none", "stray"}}

-----------------------------------------------------------------------------
(* The rules, one import at a time: may module m import module n?          *)

InContext(n) == n[1] \in Contexts

Reaches(n, entries) == \E entry \in entries : IsPrefix(entry, Tail(n))

\* Packages whose __init__ is the list of what the outside may name.
ExportPackages ==
    {p \in Packages : Place(p) \in {"role-init", "package-init", "shell-init",
                                    "protocol-init", "context-kernel-init"}}

\* A mutant: any module may import the package it is in.
PackagesOnly(m, n) ==
    n \notin ExportPackages /\ Front(n) \in ExportPackages => m = Front(n)

\* A module outside an exporting package imports the package, never a module
\* of it; a module inside imports neither its siblings nor, unless it is a
\* test, its own package.
ThroughThePackage(m, n) ==
    IF n \in ExportPackages
      THEN IsPrefix(n, m) => IsReserved(m)
      ELSE Front(n) \in ExportPackages => m = Front(n)

\* An __init__ only re-exports the modules directly beneath it, and a context
\* kernel's also a root kernel package.
InitMay(m, n) ==
    \/ Len(n) > 1 /\ Front(n) = m
    \/ Place(m) = "context-kernel-init" /\ n = <<"kernel">>

\* A module of the root kernel stays in it.
KernelMay(m, n) == n[1] = "kernel"

KernelInitMay(m, n) == Len(n) > 1 /\ n[1] = "kernel"

\* A host reaches a context only through a package with handlers or runtimes
\* under it; an app builds from components, clients and adapters; neither
\* imports a kernel or the tests, nor an app a host or the protocol.
HoldsHost(n) == Len(n) = 2 \/ n[3] \in {"handlers", "runtimes"}

ShellMay(m, n) ==
    LET top == n[1] IN
    IF InContext(n)
      THEN /\ Len(n) > 1
           /\ m[1] = "srv" => n[2] = "adapters" /\ HoldsHost(n)
           /\ m[1] = "app" => n[2] \in {"component", "client", "adapters"}
      ELSE /\ top \notin {"kernel", "tests"}
           /\ m[1] = "app" => top \notin {"srv", "protocol"}

\* A protocol module imports nothing of its tree but the protocol package.
ProtocolMay(m, n) == n[1] = "protocol"

\* A ports module is a leaf.
PortsMay(m, n) == FALSE

\* An application client module speaks the messages of one ports or relays
\* package.  The rule does not ask of which context.
AppClientMay(m, n) ==
    /\ Len(n) >= 3 /\ n[2] = "application" /\ n[3] \in {"ports", "relays"}
    /\ InContext(n)
    /\ SpeaksOwn => n[1] = m[1]

KindPackage(m) == IF Len(m) >= 4 /\ m[2] = "adapters" THEN m[3] ELSE "none"

\* A mutant: every adapter counts as a gateway's.
AnyAdapter(m) == m[2] = "adapters"

MayHoldGateway(m) == m[2] = "adapters" /\ KindPackage(m) \in {"gateways", "none"}

\* Mutants: the matrix is asked by role alone; the application client or the
\* orchestrators are open to all.
KindsByRole(m, n) ==
    /\ IsPrefix(<<"domain", "kernel">>, Tail(n)) => m[2] = "domain"
    /\ IsPrefix(<<"application", "client">>, Tail(n)) => KindPackage(m) \in RuntimeKinds
    /\ IsPrefix(<<"application", "orchestrators">>, Tail(n)) => KindPackage(m) \in RunnerKinds
    /\ Len(n) >= 2 /\ (n[2] = m[2] \/ Reaches(n, SameContext(m[2])))

ActionsOpen(m, n) ==
    /\ IsPrefix(<<"application", "orchestrators">>, Tail(n)) => KindPackage(m) \in RunnerKinds
    /\ IF KindPackage(m) \in KindPackages
         THEN Reaches(n, KindReach(KindPackage(m)) \cup {<<"adapters", KindPackage(m)>>})
         ELSE Len(n) >= 2 /\ (n[2] = m[2] \/ Reaches(n, SameContext(m[2])))

OrchestratorsOpen(m, n) ==
    /\ IsPrefix(<<"application", "client">>, Tail(n)) => KindPackage(m) \in RuntimeKinds
    /\ IF KindPackage(m) \in KindPackages
         THEN Reaches(n, KindReach(KindPackage(m)) \cup {<<"adapters", KindPackage(m)>>})
         ELSE Len(n) >= 2 /\ (n[2] = m[2] \/ Reaches(n, SameContext(m[2])))

\* A module of a role, toward its own context ...
OwnContextMay(m, n) ==
    /\ IsPrefix(<<"domain", "kernel">>, Tail(n)) => m[2] = "domain"
    /\ IsPrefix(<<"application", "client">>, Tail(n)) => KindPackage(m) \in RuntimeKinds
    /\ IsPrefix(<<"application", "orchestrators">>, Tail(n)) => KindPackage(m) \in RunnerKinds
    /\ IF KindPackage(m) \in KindPackages
         THEN Reaches(n, KindReach(KindPackage(m)) \cup {<<"adapters", KindPackage(m)>>})
         ELSE Len(n) >= 2 /\ (n[2] = m[2] \/ Reaches(n, SameContext(m[2])))

\* Mutants: a gateway may take a neighbour's ports; a component the app.
NeighboursOpen(m, n) ==
    /\ Len(n) >= 2
    /\ m[2] = "component" \/ MayHoldGateway(m)

ShellOpen(m, n) ==
    IF n[1] = "kernel" THEN Place(m) = "context-kernel"
    ELSE m[2] \notin {"domain", "client", "application"}

\* ... toward another context ...
OtherContextMay(m, n) ==
    /\ Len(n) >= 2 /\ n[2] = "client"
    /\ m[2] = "component" \/ MayHoldGateway(m)

\* ... and toward the rest of the tree: of the shell only protocol, and only
\* from the handlers.  The core roles import nothing the rules do not list.
OutsideMay(m, n) ==
    IF n[1] = "kernel" THEN Place(m) = "context-kernel"
    ELSE /\ m[2] \notin {"domain", "client", "application"}
         /\ n[1] \in ShellPackages =>
               n[1] = "protocol" /\ m[2] = "adapters" /\ Len(m) >= 3 /\ m[3] = "handlers"

RoleMay(m, n) ==
    IF ~InContext(n) THEN OutsideMay(m, n)
    ELSE IF n[1] = m[1] THEN OwnContextMay(m, n) ELSE OtherContextMay(m, n)

-----------------------------------------------------------------------------
(* The reach of tests, by the tier they are placed in.                     *)

TestHome(tier) ==
    CASE tier \in KindPackages -> <<"adapters", tier>>
      [] tier \in {"orchestrators", "relays", "snapshots"} -> <<"application", tier>>
      [] OTHER -> <<tier>>

TestReach(tier) ==
    CASE tier \in Roles -> SameContext(tier)
      [] tier \in {"handlers", "gateways", "repositories"} -> KindReach(tier)
      [] tier \in {"runners", "runtimes", "activities"} -> KindReach(tier) \cup {<<"domain">>}
      [] tier = "workflows" ->
            KindReach(tier) \cup {<<"application", "client">>, <<"domain">>}
      [] tier = "dispatchers" ->
            KindReach(tier) \cup {<<"application", "client">>, <<"adapters", "activities">>,
                                  <<"domain">>}
      [] tier = "orchestrators" ->
            SameContext("application") \cup
            {<<"application", p>> : p \in {"orchestrators", "ports", "relays"}}
      [] tier = "relays" ->
            SameContext("application") \cup {<<"application", p>> : p \in {"relays", "snapshots"}}
      [] tier = "snapshots" ->
            SameContext("application") \cup {<<"application", "snapshots">>}
      [] tier = "tests-of-context" -> {<<r>> : r \in Roles} \cup {<<"tests">>}

TestForeign(tier) ==
    CASE tier \in {"gateways", "component"} -> {"client"}
      [] tier = "tests-of-context" -> {"application", "client"}
      [] OTHER -> {}

TestShell(tier) ==
    CASE tier = "tests" -> ShellPackages
      [] tier = "srv" -> {"srv", "app", "protocol"}
      [] tier = "app" -> {"app"}
      [] tier \in {"protocol", "handlers", "tests-of-context"} -> {"protocol"}
      [] OTHER -> {}

\* A test of the shell, toward a context.
ShellTestMay(tier, n) ==
    CASE tier = "tests" -> Len(n) >= 2 /\ n[2] \in {"component", "client"}
      [] tier = "srv" -> Len(n) >= 3 /\ n[2] = "adapters" /\ n[3] \in {"handlers", "runtimes"}
      [] tier = "app" -> Len(n) >= 2 /\ n[2] \in {"component", "client", "adapters"}
      [] tier \in {"kernel", "protocol"} -> FALSE

\* A test of a context, toward its own: its home and the reach of its tier,
\* the application client and the orchestrators only from the engine's tests.
ContextTestMay(tier, n) ==
    LET home == TestHome(tier)
        atHome == Len(home) = 2 /\ IsPrefix(home, Tail(n))
    IN  /\ Reaches(n, TestReach(tier) \cup {home})
        /\ IsPrefix(<<"application", "client">>, Tail(n)) =>
              atHome \/ tier \in {"runtimes", "activities", "workflows", "dispatchers"}
        /\ IsPrefix(<<"application", "orchestrators">>, Tail(n)) =>
              atHome \/ tier \in RunnerKinds

TestMay(m, n) ==
    LET tier == Tier(m) IN
    /\ n[1] \in ShellPackages => n[1] \in TestShell(tier)
    /\ InContext(n) =>
         IF tier \in ShellPackages \cup {"kernel"} THEN ShellTestMay(tier, n)
         ELSE IF n[1] = m[1] THEN ContextTestMay(tier, n)
         ELSE Len(n) >= 2 /\ n[2] \in TestForeign(tier)

-----------------------------------------------------------------------------
(* Which rules a module answers to, by its place.                          *)

PlaceMay(m, n) ==
    CASE Place(m) = "conftest-root" -> FALSE
      [] Place(m) = "conftest" -> Tier(m) \notin {"none", "stray"} /\ TestMay(m, n)
      [] Place(m) = "test" -> TestMay(m, n)
      [] Place(m) \in {"shell-init", "protocol-init", "role-init", "package-init",
                       "context-kernel-init"} -> InitMay(m, n)
      [] Place(m) \in {"shell-srv", "shell-app"} -> ShellMay(m, n)
      [] Place(m) = "protocol" -> ProtocolMay(m, n)
      [] Place(m) = "kernel-init" -> KernelInitMay(m, n)
      [] Place(m) = "kernel" -> KernelMay(m, n)
      [] Place(m) \in {"context-init", "context-tests-init", "root-tests"} -> FALSE
      [] Place(m) = "ports" -> PortsMay(m, n)
      [] Place(m) = "client" -> AppClientMay(m, n)
      [] OTHER -> RoleMay(m, n)

Imports ==
    [m \in Modules |-> {n \in Modules \ {m} : PlaceMay(m, n) /\ ThroughThePackage(m, n)}]

-----------------------------------------------------------------------------

\* What ships: everything but tests, their conftests and the tests packages.
Production(m) ==
    ~IsReserved(m) /\ m[1] # "tests" /\ ~(Len(m) >= 2 /\ m[2] = "tests")

VARIABLES
    start,  \* the module the walk begins at
    at      \* the module it has reached

vars == <<start, at>>

Init ==
    /\ start \in Modules
    /\ at = start

\* One more import.  A chain of production modules is followed through
\* production modules: what an __init__ might re-export of a test is not.
Follow ==
    \E n \in Imports[at] :
        /\ Production(start) => Production(n)
        /\ at' = n
        /\ UNCHANGED start

Next == Follow

Spec == Init /\ [][Next]_vars

-----------------------------------------------------------------------------

In(m, entry) == IsPrefix(entry, Tail(m))

\* The walk began at a production module of a context.
FromContext == Production(start) /\ InContext(start)

\* The domain of a context reaches its own domain and the root kernel, through
\* any chain the rules admit: no client, no application, no shell, no other
\* context.
DomainReachesOnlyDomain ==
    FromContext /\ In(start, <<"domain">>) =>
        at[1] = "kernel" \/ (at[1] = start[1] /\ In(at, <<"domain">>))

\* What a context's production code reaches of another context is that
\* context's client (TB061: "a context reaches another context only through
\* its client, and only from gateways and components").
ContextsMeetAtClients ==
    FromContext /\ InContext(at) /\ at[1] # start[1] => In(at, <<"client">>)

\* What reaches another context at all is a component, an adapters module that
\* may hold a gateway, or the __init__ of the adapters.
OnlyGatewaysAndComponentsReachOut ==
    FromContext /\ InContext(at) /\ at[1] # start[1] =>
        \/ In(start, <<"component">>)
        \/ In(start, <<"adapters">>) /\ (Len(start) <= 3 \/ start[3] = "gateways")

\* The adapters whose kind is not the engine's, by their package or flat.
KindIs(m, kinds) == m[2] = "adapters" /\ (Len(m) = 2 \/ m[3] \in kinds \/ m[3] \in Leaves)

\* An action is reachable only through the engine (TB060): a chain that ends
\* at the application client began in the application client itself, with the
\* engine's adapters, with the component that builds them, or in an __init__
\* that lists a package beneath it.  No service, orchestrator, relay, handler,
\* gateway, repository or runner reaches it.
ActionsOnlyThroughEngine ==
    FromContext /\ InContext(at) /\ In(at, <<"application", "client">>) =>
        \/ In(start, <<"application", "client">>)
        \/ In(start, <<"component">>)
        \/ KindIs(start, {"runtimes", "activities", "workflows", "dispatchers"})
        \/ start = <<at[1], "application">>

\* An orchestrator is built per invocation (TB060): no service, action, relay,
\* handler, gateway, repository, runtime or activity reaches one.
OrchestratorsOnlyPerInvocation ==
    FromContext /\ InContext(at) /\ In(at, <<"application", "orchestrators">>) =>
        \/ In(start, <<"application", "orchestrators">>)
        \/ In(start, <<"component">>)
        \/ KindIs(start, {"runners", "workflows", "dispatchers"})
        \/ start = <<at[1], "application">>

\* A handler reaches, of every context, only its own client: no use of the
\* domain, of a service or of another adapter behind the client's back.
HandlersSeeOnlyTheClient ==
    FromContext /\ In(start, <<"adapters", "handlers">>) /\ InContext(at) =>
        at[1] = start[1] /\ (In(at, <<"client">>) \/ In(at, <<"adapters", "handlers">>))

\* A gateway or a repository reaches, of its own context, only the ports it
\* implements.
DrivenAdaptersSeeOnlyPorts ==
    \A kind \in {"gateways", "repositories"} :
        FromContext /\ In(start, <<"adapters", kind>>) /\ at[1] = start[1] =>
            In(at, <<"application", "ports">>) \/ In(at, <<"adapters", kind>>)

\* A test placed in the domain, the client, the application or one of the
\* packages of the application reaches no adapter, no component, no shell and
\* no other context, through any chain: the core is tested without its outside.
CoreTestsReachNoAdapter ==
    IsTest(start) /\ InContext(start) /\ start[2] \in {"domain", "client", "application"} =>
        \/ ~InContext(at) /\ at[1] \notin ShellPackages
        \/ at[1] = start[1] /\ at[2] \in {"domain", "client", "application"}

\* No chain from a context's production code ends in a host, in an app or in a
\* tests package; of the shell it reaches only the protocol.
ContextsStayOutOfTheShell ==
    FromContext => at[1] \notin {"srv", "app", "tests"}

\* The relays and the snapshots of one context may import each other's
\* package, and a module of the root kernel its siblings: the rules admit these
\* two circles, and no other.
MayCircle(m) ==
    m[1] = "kernel" \/ (InContext(m) /\ (In(m, <<"application", "relays">>)
                                         \/ In(m, <<"application", "snapshots">>)))

\* No production module imports itself through a chain of imports: a package
\* lists its modules, so a module that could get back to its own package would
\* be loaded half-made.
NoCircularImport == [][Production(start) /\ ~MayCircle(start) => at' # start]_vars
=============================================================================
