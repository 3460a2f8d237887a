----------------------------- MODULE MCGenerator -----------------------------
(***************************************************************************)
(* The generator for TLC, its three concerns side by side: what tree a     *)
(* document makes, what runs of the command leave on disk, and what the    *)
(* renderer makes of a template (twice: short ones of every tag, longer    *)
(* ones of lines).  In a behaviour one of them moves, the part; the others *)
(* rest.                                                                   *)
(***************************************************************************)
EXTENDS GeneratedTree, TLC

CONSTANTS
    Commands,   \* runs of the command
    SpecFiles,  \* specs without problems
    TreePaths   \* the paths of a tree, in the order they are written

ASSUME PathsOfATree ==
    /\ TreePaths \in Seq(STRING) /\ TreePaths # <<>>
    /\ \A i, j \in DOMAIN TreePaths : TreePaths[i] = TreePaths[j] => i = j
ASSUME SpecFilesHaveNames == SpecFiles \cap {"faulty", "nobody", "somebody"} = {}

VARIABLES
    part,
    specFile, root, files, pc, spec, target, at, answered,  \* of the runs
    template, scope                                         \* of the renderer

treeVars   == vars
runVars    == <<specFile, root, files, pc, spec, target, at, answered>>
renderVars == <<template, scope>>

-----------------------------------------------------------------------------
(* The voice spec of the repository (src/generator/specs/voice.toml), with *)
(* names beside it that meet in a class, in a module of the tree or in     *)
(* each other.                                                             *)

MCVerbs == {"place_call", "get_call", "conduct_call", "record_call", "save_call", "load_call", "issue_call_id",
            "person_name"}

MCNames == MCVerbs \cup {"call_id", "call", "line_1", "line1", "app", "calls"}

MCClassOf ==
    "place_call" :> "PlaceCall" @@ "get_call" :> "GetCall" @@ "conduct_call" :> "ConductCall"
      @@ "record_call" :> "RecordCall" @@ "save_call" :> "SaveCall" @@ "load_call" :> "LoadCall"
      @@ "issue_call_id" :> "IssueCallId" @@ "person_name" :> "PersonName" @@ "call_id" :> "CallId"
      @@ "call" :> "Call" @@ "line_1" :> "Line1" @@ "line1" :> "Line1" @@ "app" :> "App" @@ "calls" :> "Calls"

MCRoots == {"Call", "Line1", "CallId"}

MCOrdered ==
    [state |-> "read", extra |-> {}, plain |-> {},
     keys |-> [key \in Scalars |->
        CASE key = "write" -> "place_call" [] key = "read" -> "get_call" [] key = "conduct" -> "conduct_call"
          [] key = "record" -> "record_call" [] key = "save" -> "save_call" [] key = "load" -> "load_call"
          [] key = "issue" -> "issue_call_id" [] key = "context" -> "calls" [] key = "aggregate" -> "Call"
          [] key = "engine" -> "restate" [] key = "database" -> "postgres" [] key = "identity" -> "call_id"
          [] key = "asserted" -> "person_name" [] OTHER -> "fit"],
     fields |-> <<[name |-> "person_name", kind |-> "str"], [name |-> "line1", kind |-> "int"]>>,
     samples |-> "call_id" :> <<Ada, Grace>> @@ "person_name" :> <<Ada, Grace>> @@ "line1" :> <<One, Two>>,
     answers |-> <<"call_id", "person_name">>,
     random |-> <<Ada>>]

-----------------------------------------------------------------------------
(* One run after another writes the files of a tree in their order.        *)

MCPaths == <<"marker", "domain", "tests">>

CommandRuns == INSTANCE TreeRuns WITH Runs <- Commands, Specs <- SpecFiles, Paths <- TreePaths, Together <- FALSE

\* Two names of sections, one inverted, a value, a stretch of text and the end
\* of a line.
EveryToken ==
    {<<"#", "list">>, <<"/", "list">>, <<"^", "list">>, <<"#", "flag">>, <<"/", "flag">>,
     <<"=", "item">>, <<"n", "">>, <<"x", "">>}

LineTokens == {<<"#", "list">>, <<"/", "list">>, <<"n", "">>, <<"x", "">>}

Nested == INSTANCE TemplateRender WITH Tokens <- EveryToken, MaxLen <- 5, Repeats <- {0, 2}

Lined == INSTANCE TemplateRender WITH Tokens <- LineTokens, MaxLen <- 8, Repeats <- {0, 2}

-----------------------------------------------------------------------------

RunsRest == CommandRuns!Init /\ root = "none" /\ specFile = CommandRuns!Faulty

RenderRests == template = <<>> /\ scope = CHOOSE s \in Lined!Scopes : TRUE

PartInit ==
    \/ part = "tree" /\ Init /\ RunsRest /\ RenderRests
    \/ part = "runs" /\ Init /\ CommandRuns!Init /\ RenderRests
    \/ part \in {"nested", "lined"} /\ Init /\ RunsRest /\ Nested!Init

PartNext ==
    \/ part = "tree" /\ Next /\ UNCHANGED <<part, runVars, renderVars>>
    \/ part = "runs" /\ CommandRuns!Next /\ UNCHANGED <<part, treeVars, renderVars>>
    \/ part = "nested" /\ Nested!Next /\ UNCHANGED <<part, treeVars, runVars>>
    \/ part = "lined" /\ Lined!Next /\ UNCHANGED <<part, treeVars, runVars>>

PartSpec == PartInit /\ [][PartNext]_<<part, treeVars, runVars, renderVars>>

Alike == Permutations(Commands)

-----------------------------------------------------------------------------

\* A document is answered with its problems or rendered without a failed lookup;
\* the literals of a tree's tests fit them; of its operations, parameters,
\* packages and domain classes none meet but the classes of two fields, or the
\* identity's and the aggregate's; and nothing the document states is ignored.
DocumentsBecomeTrees ==
    part = "tree" =>
        /\ TypeOK
        /\ NeverFailsRendering
        /\ LiteralsFitTheTests
        /\ NamesMeetOnlyAsClasses
        /\ NothingStatedIsIgnored

\* Of runs that are killed anywhere: an answer names a whole tree, a tree is of
\* one spec, and no run touches a file that was there before it.
RunsLeaveWholeTrees ==
    /\ [](part = "runs" =>
            /\ CommandRuns!TypeOK
            /\ CommandRuns!AnsweredTreeIsWhole
            /\ CommandRuns!OneSpecPerTree)
    /\ CommandRuns!NothingIsOverwritten

\* A template that nests comes out whole, each piece as often as the sections
\* around it say, and lines whole where tags have lines of their own; one that
\* does not nest is refused where every section is entered.
TemplatesAreExpanded ==
    /\ part = "nested" => Nested!TypeOK /\ Nested!TextIsExpanded /\ Nested!TemplateErrorsAreRefused
    /\ part = "lined" => Lined!TextIsExpanded /\ Lined!LinesAreExpanded
=============================================================================
