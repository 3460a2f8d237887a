--------------------------- MODULE GeneratedTree ---------------------------
(***************************************************************************)
(* What the generator makes of a spec file (src/generator/trees): the      *)
(* reader takes a TOML document, the domain's Tree judges it, and a spec   *)
(* without problems is rendered into the modules of a tesser app.          *)
(*                                                                         *)
(* An author starts from a document in order and edits it key by key; the  *)
(* generator is run on what is there.  The tree is what the properties     *)
(* tell of it: the classes its domain module declares, the operations of   *)
(* each of its protocols, the parameters of its signatures, the packages   *)
(* it lays out and the literals its tests are written with.                *)
(***************************************************************************)
EXTENDS Naturals, Sequences, SequencesExt, FiniteSets

CONSTANTS
    Names,        \* the snake_case names an author gives
    Verbs,        \* those of two words or more, the shape of an operation
    ClassOf,      \* the PascalCase class a snake_case name becomes
    Roots,        \* the PascalCase names of aggregates
    Ordered,      \* the document the author starts from
    MaxEdits      \* edits from it

ASSUME VerbsAreNames == Verbs \subseteq Names
ASSUME EveryNameHasAClass == DOMAIN ClassOf = Names
ASSUME MaxEditsNat == MaxEdits \in Nat

VARIABLES
    doc,     \* the document
    edits,   \* edits made so far
    answer,  \* of the last run: "none", "problems", "written", "crashed"
    tree     \* what the last run wrote, at most one tree

vars == <<doc, edits, answer, tree>>

-----------------------------------------------------------------------------
(* The document.                                                           *)

OperationKeys == {"write", "read", "conduct", "record", "save", "load", "issue"}

\* Keys whose text nothing but its own shape depends on: app_name, the
\* collection's name, those of the test and the environment variables.
PlainKeys == {"app_name", "collection", "test_class", "test_method", "storage_url", "ingress"}

Scalars ==
    OperationKeys \cup PlainKeys \cup {"context", "aggregate", "engine", "database", "identity", "asserted"}

\* The table of the document a scalar stands in; "" is its top.
TableOf(key) ==
    CASE key \in {"write", "read"} -> "client"
      [] key = "conduct" -> "orchestrator"
      [] key = "record" -> "action"
      [] key \in {"save", "load", "collection"} -> "repository"
      [] key \in {"asserted", "test_class", "test_method"} -> "acceptance_test"
      [] key \in {"storage_url", "ingress"} -> "environment_variables"
      [] OTHER -> ""

FieldTables == {"aggregate_fields", "sample_values"}
Tables == FieldTables \cup {TableOf(key) : key \in {k \in Scalars : TableOf(k) # ""}}

\* "" is a key the document does not state; NotText a value that is no string.
NotText == "not a string"
Texts == Names \cup Roots \cup {"", "fit", "unfit", "restate", "postgres", NotText}

\* A value of a list: a string (clean, with a space, or with a quote), a
\* whole number, or anything else.
Value(kind, text) == [kind |-> kind, text |-> text]
Ada == Value("str", "ada")
Grace == Value("str", "grace")
Spaced == Value("str", "a b")
Quoted == Value("str", "quote")
One == Value("int", "1")
Two == Value("int", "2")
TextOne == Value("str", "1")
Neither == Value("other", "")

\* What authors write for the samples of a field, and for the random values.
SampleLists ==
    {<<Ada, Grace>>, <<One, Two>>, <<Ada>>, <<Ada, Ada>>, <<Ada, One>>, <<TextOne, One>>,
     <<Quoted, Ada>>, <<Spaced, Ada>>, <<Neither, Two>>}
RandomLists == {<<Ada>>, <<One, Two>>, <<>>, <<Ada, One>>, <<Quoted>>, <<Neither>>}

Kinds == {"str", "int", "float"}

States == {"read", "missing", "unreadable", "malformed"}
Fields == [name : Names \cup {"unfit"}, kind : Kinds \cup {NotText}]

\* A document as TOML has it, a table naming a key once; what else stands in
\* it is the author's.
IsDocument(d) ==
    /\ d \in [state : States, extra : SUBSET {"client.write_operation"}, plain : SUBSET Tables,
             keys : [Scalars -> Texts], fields : Seq(Fields), samples : {d.samples},
             answers : Seq(Names \cup {NotText}), random : RandomLists]
    /\ \A i, j \in DOMAIN d.fields : d.fields[i].name = d.fields[j].name => i = j
    /\ DOMAIN d.samples \subseteq Names
    /\ d.samples \in [DOMAIN d.samples -> SampleLists]

ASSUME OrderedIsADocument == IsDocument(Ordered)
ASSUME NamesHaveLetters == "" \notin Names \cup Roots

-----------------------------------------------------------------------------
(* The reader.                                                             *)

\* The tables of the document; what the document states as a plain value
\* where the spec takes a table holds no key.
Stated(key) == IF TableOf(key) \in doc.plain THEN "" ELSE doc.keys[key]

\* A text is the string stated, and nothing when there is no string.
TextOf(key) == IF Stated(key) = NotText THEN "" ELSE Stated(key)

\* A mutant: a key nobody takes is passed over.
MisplacedTables == doc.plain

\* A plain value in a table's place is a key the spec does not take.
UnknownKeys == doc.extra \cup doc.plain

\* An entry of the answers that is no string is passed over.
StatedAnswers(d) ==
    IF "client" \in d.plain THEN <<>> ELSE SelectSeq(d.answers, LAMBDA name : name # NotText)

\* A file that is not read states nothing, which no one looks at: its state
\* is the one problem.
ReadGeneration ==
    LET fields == IF "aggregate_fields" \in doc.plain THEN <<>> ELSE doc.fields
        samples == IF "sample_values" \in doc.plain THEN <<>> ELSE doc.samples
    IN  [state |-> doc.state,
         unknown |-> UnknownKeys,
         text |-> [key \in Scalars |-> TextOf(key)],
         fields |-> fields,
         samples |-> samples,
         answers |-> StatedAnswers(doc),
         random |-> IF "acceptance_test" \in doc.plain THEN <<>> ELSE doc.random]

-----------------------------------------------------------------------------
(* The judgement of the Tree.                                              *)

Shape(key) ==
    CASE key \in OperationKeys -> Verbs
      [] key \in PlainKeys -> {"fit"}
      [] key = "aggregate" -> Roots
      [] OTHER -> Names

\* Names the generated tree uses for its own modules.
Reserved == {"domain", "app", "srv", "tests", "pgdatabase", "conftest", "identity"}

\* A mutant: a package of the tree is forgotten.
ReservedButOne == Reserved \ {"app"}

\* An int and a str have columns, canonical exits and templates.
Types == {"str", "int"}

FieldNames(spec) == {spec.fields[i].name : i \in DOMAIN spec.fields}

\* The identity field is a str; an aggregate field of its name takes its place.
FieldKinds(spec) ==
    [name \in FieldNames(spec) \cup {spec.text["identity"]} |->
        IF name \in FieldNames(spec)
        THEN LET i == CHOOSE i \in DOMAIN spec.fields : spec.fields[i].name = name IN spec.fields[i].kind
        ELSE "str"]

Capitalized(name) == IF name \in Names THEN ClassOf[name] ELSE name

SpecClass(root) == root \o "Spec"

ASSUME SpecsAreNamedApart == \A root \in Roots : SpecClass(root) # root

\* A mutant: the aggregate's own class is forgotten.
TakenBesideTheRoot(spec) == {Capitalized(spec.text["identity"]), SpecClass(spec.text["aggregate"])}

\* The classes the domain module declares beside those of its fields.
Taken(spec) ==
    {spec.text["aggregate"], Capitalized(spec.text["identity"]), SpecClass(spec.text["aggregate"])}

ShapeProblems(spec) ==
    {<<"shape", key>> : key \in {k \in Scalars \ {"engine", "database"} : spec.text[k] \notin Shape(k)}}
      \cup {<<"no templates", key>> : key \in {k \in {"engine"} : spec.text[k] # "restate"}
                                              \cup {k \in {"database"} : spec.text[k] # "postgres"}}
      \cup {<<"reserved", key>> : key \in {k \in {"context"} : spec.text[k] \in Reserved}}

FieldProblems(spec) ==
    (IF spec.fields = <<>> THEN {<<"no fields">>} ELSE {})
      \cup UNION {LET field == spec.fields[i] IN
                  {<<problem, field.name>> : problem \in
                      {p \in {"shape", "identity", "reserved", "type", "class"} :
                          \/ p = "shape" /\ field.name \notin Names
                          \/ p = "identity" /\ field.name = spec.text["identity"]
                          \/ p = "reserved" /\ field.name \in Reserved
                          \/ p = "type" /\ field.kind \notin Types
                          \/ p = "class" /\ Capitalized(field.name) \in Taken(spec)}}
                  : i \in DOMAIN spec.fields}

SampleCount == 2

\* Printable ASCII free of quotes and backslashes; an identity stands in a
\* URL, so it is letters, digits and four marks.
SampleText(value) == value.text # "quote"
IdentityText(value) == value.text \notin {"quote", "a b", ""}

ValuesProblems(spec, name) ==
    LET values == spec.samples[name]
        kind == FieldKinds(spec)[name]
        texts == {values[i].text : i \in DOMAIN values}
    IN  {p \in {"count", "repeats", "kind", "text"} :
            \/ p = "count" /\ Len(values) # SampleCount
            \/ p = "repeats" /\ Cardinality(texts) # Len(values)
            \/ p = "kind" /\ kind \in Types /\ \E i \in DOMAIN values : values[i].kind # kind
            \/ p = "text" /\ \E i \in DOMAIN values :
                  IF values[i].kind = "str" /\ ~SampleText(values[i]) THEN TRUE
                  ELSE name = spec.text["identity"] /\ ~IdentityText(values[i])}

\* A mutant: a field without samples is passed over.
SamplesThatAreThere(spec) ==
    LET kinds == FieldKinds(spec) IN
    {<<"neither", name>> : name \in DOMAIN spec.samples \ DOMAIN kinds}
      \cup UNION {{<<problem, name>> : problem \in ValuesProblems(spec, name)}
                  : name \in DOMAIN kinds \cap DOMAIN spec.samples}

SampleProblems(spec) ==
    LET kinds == FieldKinds(spec) IN
    {<<"neither", name>> : name \in DOMAIN spec.samples \ DOMAIN kinds}
      \cup {<<"no samples", name>> : name \in DOMAIN kinds \ DOMAIN spec.samples}
      \cup UNION {{<<problem, name>> : problem \in ValuesProblems(spec, name)}
                  : name \in DOMAIN kinds \cap DOMAIN spec.samples}

AnswerProblems(spec) ==
    (IF spec.answers = <<>> THEN {<<"no answers">>} ELSE {})
      \cup {<<"unanswerable", name>> : name \in ToSet(spec.answers) \ DOMAIN FieldKinds(spec)}
      \cup {<<"answered twice", spec.answers[i]>> : i \in
               {j \in DOMAIN spec.answers : \E k \in DOMAIN spec.answers \ {j} : spec.answers[k] = spec.answers[j]}}

\* A mutant: the identity may be asserted on, which the read answers too.
AssertsOnAnyAnswer(spec) ==
    LET asserted == spec.text["asserted"]
        kinds == FieldKinds(spec)
        kind == IF asserted \in DOMAIN kinds THEN kinds[asserted] ELSE ""
        random == spec.random
    IN  {<<p>> : p \in {q \in {"asserted", "no random", "random kind", "random text"} :
            \/ q = "asserted" /\ asserted # "" /\ asserted \notin ToSet(spec.answers)
            \/ q = "no random" /\ random = <<>>
            \/ q = "random kind" /\ kind \in Types /\ \E i \in DOMAIN random : random[i].kind # kind
            \/ q = "random text" /\ \E i \in DOMAIN random : random[i].kind = "str" /\ ~SampleText(random[i])}}

AssertionProblems(spec) ==
    LET asserted == spec.text["asserted"]
        kinds == FieldKinds(spec)
        kind == IF asserted \in DOMAIN kinds THEN kinds[asserted] ELSE ""
        random == spec.random
    IN  {<<p>> : p \in {q \in {"asserted", "no random", "random kind", "random text"} :
            \/ q = "asserted" /\ asserted # "" /\ (asserted = spec.text["identity"] \/ asserted \notin ToSet(spec.answers))
            \/ q = "no random" /\ random = <<>>
            \/ q = "random kind" /\ kind \in Types /\ \E i \in DOMAIN random : random[i].kind # kind
            \/ q = "random text" /\ \E i \in DOMAIN random : random[i].kind = "str" /\ ~SampleText(random[i])}}

\* A mutant: the repository's operations are not compared.
OperationsOfTheClient(spec) ==
    {<<"named twice", spec.text[key]>> : key \in
        {k \in {"write", "read", "conduct", "record"} :
            spec.text[k] # "" /\ \E o \in {"write", "read", "conduct", "record"} \ {k} : spec.text[o] = spec.text[k]}}

OperationProblems(spec) ==
    {<<"named twice", spec.text[key]>> : key \in
        {k \in OperationKeys : spec.text[k] # "" /\ \E o \in OperationKeys \ {k} : spec.text[o] = spec.text[k]}}

Problems(spec) ==
    IF spec.state # "read"
    THEN {<<spec.state>>}
    ELSE {<<"unknown", key>> : key \in spec.unknown}
           \cup ShapeProblems(spec) \cup FieldProblems(spec) \cup SampleProblems(spec)
           \cup AnswerProblems(spec) \cup AssertionProblems(spec) \cup OperationProblems(spec)

-----------------------------------------------------------------------------
(* The rendering.                                                          *)

\* What a field's templates are bound to is looked up: its type, its class
\* and two literals; an answer is looked up among the fields.
Renders(spec) ==
    /\ spec.text["identity"] \in DOMAIN spec.samples
    /\ \A name \in DOMAIN FieldKinds(spec) :
         /\ FieldKinds(spec)[name] \in Types
         /\ name \in DOMAIN spec.samples
         /\ Len(spec.samples[name]) >= 2
    /\ ToSet(spec.answers) \subseteq DOMAIN FieldKinds(spec)

\* A literal of the tests: a string between quotes, anything else as it is.
Literal(value) == [kind |-> value.kind, text |-> value.text]

\* A literal of the wrong kind, for the tests that a field refuses it.
WrongKind(kind) == IF kind = "str" THEN "int" ELSE "str"

NamesOf(spec) == [i \in DOMAIN spec.fields |-> spec.fields[i].name]

Rendered(spec) ==
    LET identity == spec.text["identity"]
        root == spec.text["aggregate"]
        fields == NamesOf(spec)
        record == <<identity>> \o fields
        kinds == FieldKinds(spec)
    IN  [classes |-> [identity |-> Capitalized(identity),
                      fields |-> [i \in DOMAIN fields |-> Capitalized(fields[i])],
                      aggregate |-> <<SpecClass(root), root>>],
         protocols |-> {<<spec.text["write"], spec.text["read"]>>, <<spec.text["save"], spec.text["load"]>>},
         parameters |-> {record, fields, spec.answers},
         packages |-> <<"app", "pgdatabase", "srv", "tests", "conftest", spec.text["context"]>>,
         fields |-> [name \in DOMAIN kinds |->
                        [kind |-> kinds[name],
                         first |-> Literal(spec.samples[name][1]),
                         second |-> Literal(spec.samples[name][2]),
                         wrong |-> WrongKind(kinds[name])]],
         identity |-> identity,
         asserted |-> spec.text["asserted"],
         answers |-> spec.answers,
         choices |-> [i \in DOMAIN spec.random |-> Literal(spec.random[i])]]

-----------------------------------------------------------------------------
(* The author and the generator.                                           *)

TypeOK ==
    /\ doc.state \in {"read", "missing", "unreadable", "malformed"}
    /\ doc.keys \in [Scalars -> Texts]
    /\ doc.plain \subseteq Tables
    /\ \A i \in DOMAIN doc.fields : doc.fields[i].kind \in Kinds \cup {NotText}
    /\ edits \in 0..MaxEdits
    /\ answer \in {"none", "problems", "written", "crashed"}
    /\ Cardinality(tree) <= 1 /\ (tree # {} <=> answer = "written")

Init ==
    /\ doc = Ordered
    /\ edits = 0
    /\ answer = "none"
    /\ tree = {}

Edited(next) ==
    /\ edits < MaxEdits
    /\ doc' = next
    /\ edits' = edits + 1
    /\ answer' = "none"
    /\ tree' = {}

\* The author states a key otherwise, leaves it out or writes no string.
EditKey ==
    \E key \in Scalars : \E text \in Texts :
        /\ text \in {"", NotText} \/ text \in (IF key \in PlainKeys THEN {"fit", "unfit"}
                                               ELSE IF key = "aggregate" THEN Roots \cup {"unfit"}
                                               ELSE IF key \in {"engine", "database"} THEN {"restate", "postgres"}
                                               ELSE Names)
        /\ Edited([doc EXCEPT !.keys[key] = text])

\* A field is added, renamed, retyped or dropped.
EditField ==
    \/ \E name \in Names \cup {"unfit"}, kind \in Kinds \cup {NotText} :
         /\ name \notin FieldNames(doc)
         /\ Len(doc.fields) < 3
         /\ Edited([doc EXCEPT !.fields = Append(@, [name |-> name, kind |-> kind])])
    \/ \E i \in DOMAIN doc.fields : \E name \in Names : \E kind \in Kinds :
         /\ name \notin FieldNames(doc) \/ name = doc.fields[i].name
         /\ Edited([doc EXCEPT !.fields[i] = [name |-> name, kind |-> kind]])
    \/ \E i \in DOMAIN doc.fields : Edited([doc EXCEPT !.fields = RemoveAt(@, i)])

\* Samples are stated for a name, otherwise than before, or left out.
EditSamples ==
    \/ \E name \in Names : \E list \in SampleLists :
         Edited([doc EXCEPT !.samples = [n \in DOMAIN @ \cup {name} |-> IF n = name THEN list ELSE @[n]]])
    \/ \E name \in DOMAIN doc.samples :
         Edited([doc EXCEPT !.samples = [n \in DOMAIN @ \ {name} |-> @[n]]])

EditLists ==
    \/ \E name \in Names \cup {NotText} :
         Len(doc.answers) < 3 /\ Edited([doc EXCEPT !.answers = Append(@, name)])
    \/ \E i \in DOMAIN doc.answers : Edited([doc EXCEPT !.answers = RemoveAt(@, i)])
    \/ \E list \in RandomLists : Edited([doc EXCEPT !.random = list])

\* The file goes, cannot be read or is no TOML; a key the spec does not take
\* is stated; a plain value stands where a table belongs.
EditFile ==
    \/ \E state \in {"missing", "unreadable", "malformed"} : Edited([doc EXCEPT !.state = state])
    \/ Edited([doc EXCEPT !.extra = {"client.write_operation"}])
    \/ \E table \in Tables : Edited([doc EXCEPT !.plain = @ \cup {table}])

\* A mutant: what can be rendered is written, whatever the problems.
GenerateAnyway ==
    LET spec == ReadGeneration IN
    /\ answer' = IF Problems(spec) # {} THEN "problems" ELSE IF Renders(spec) THEN "written" ELSE "crashed"
    /\ tree' = IF Renders(spec) THEN {Rendered(spec)} ELSE {}
    /\ UNCHANGED <<doc, edits>>

GenerateTree ==
    LET spec == ReadGeneration IN
    /\ answer' = IF Problems(spec) # {} THEN "problems" ELSE IF Renders(spec) THEN "written" ELSE "crashed"
    /\ tree' = IF answer' = "written" THEN {Rendered(spec)} ELSE {}
    /\ UNCHANGED <<doc, edits>>

Edit == EditKey \/ EditField \/ EditSamples \/ EditLists \/ EditFile

Next == Edit \/ GenerateTree

Spec == Init /\ [][Next]_vars

-----------------------------------------------------------------------------
(* Properties.                                                             *)

Distinct(list) == \A i, j \in DOMAIN list : list[i] = list[j] => i = j

\* A spec is rendered or answered with its problems, and never half way a
\* lookup that fails: what Tree's checks let through is what the binding of
\* the templates then indexes without looking (tree.py:518-563).
NeverFailsRendering == answer # "crashed"

\* The literals of a tree's tests are what the tests take them for: each field
\* has two of its kind that differ, and one of another kind; the identity's can
\* stand in a URL; the acceptance test asserts on a field the read answers, with
\* at least one value to draw and only values of that field's kind; no literal
\* ends in the middle of its text.
LiteralsFitTheTests ==
    \A t \in tree :
        /\ \A name \in DOMAIN t.fields :
             LET field == t.fields[name] IN
             /\ field.first.kind = field.kind /\ field.second.kind = field.kind
             /\ field.first # field.second
             /\ field.wrong # field.kind
             /\ "quote" \notin {field.first.text, field.second.text}
        /\ {t.fields[t.identity].first.text, t.fields[t.identity].second.text} \cap {"a b", ""} = {}
        /\ t.asserted \in ToSet(t.answers) /\ t.asserted # t.identity
        /\ t.choices # <<>>
        /\ \A i \in DOMAIN t.choices :
             t.choices[i].kind = t.fields[t.asserted].kind /\ t.choices[i].text # "quote"

\* The spec's names meet only in the tree, and the checks look at them in the
\* spec.  No protocol of a tree declares an operation twice, no signature a
\* parameter twice, and no two packages are laid out in one place.  Its domain
\* module may declare a class twice, and then for two fields whose names become
\* one class or for an identity named like the aggregate or its spec, and for
\* nothing else: what a field is compared with is never met by it
\* (tree.py:412-424, where neither of the two is compared).
NamesMeetOnlyAsClasses ==
    \A t \in tree :
        /\ \A operations \in t.protocols : Distinct(operations)
        /\ \A signature \in t.parameters : Distinct(signature)
        /\ Distinct(t.packages)
        /\ Distinct(t.classes.aggregate)
        /\ \A i \in DOMAIN t.classes.fields :
             t.classes.fields[i] \notin {t.classes.identity} \cup ToSet(t.classes.aggregate)

\* "A key is either in or out": a document that generates a tree has no key
\* and no value the tree does without (an entry of read_response_fields that
\* is no string is dropped by the reader, and is the one exception).
NothingStatedIsIgnored ==
    answer = "written" =>
        /\ doc.extra = {}
        /\ \A key \in Scalars : doc.keys[key] \in Names \cup Roots \cup {"fit", "restate", "postgres"}
                                /\ TableOf(key) \notin doc.plain
        /\ \A t \in tree :
             /\ \A i \in DOMAIN doc.fields : doc.fields[i].name \in DOMAIN t.fields
             /\ DOMAIN doc.samples = DOMAIN t.fields
             /\ Len(t.choices) = Len(doc.random)

=============================================================================
