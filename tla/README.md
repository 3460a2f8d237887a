# Verification of tesser-build

tesser-build is a toolkit of construction conventions for Go and Python: analyzers, a runtime of
marker classes, a generator, documents, and worked examples that the analyzers keep conformant. The
parts with behaviour over time, where several callers, an engine, a host that restarts and a network
meet, are the examples that run as services; the tools have some too, where they read and write files
that somebody else edits. The analyzer itself is a function of source text, but what it is *for* is
behaviour: a tree its rules accept should not be able to go wrong in the ways the rules are about.
The models here cover all three.

## 1. Inventory

| Part | State it keeps | Operations | Talks to | What is hard | What makes it correct |
|---|---|---|---|---|---|
| durable ordering (`examples/durable-execution/ordering`) | the engine's journal of two keyed workflows and two actions; the payment processor's receipts, in the host's memory | `submit_order`, `place_order`, `make_order_payment`; workflows `confirm_order`, `pay_for_order`; actions `price_product`, `take_payment` | callers over HTTP, Restate's ingress and its calls back, the processor | shared keys, retries of a charge, restarts, refusals told apart by wording, kills, pauses | a charge is earned, made once and reported; one order id has one outcome; nothing hangs on what has ended |
| campaign (`examples/python-app/campaign`) | campaigns with their short links | create, add link, deactivate, resolve | one thread per HTTP request | check then save, load and save of a whole aggregate | a slug leads to one target, a change survives |
| link policy, reports (`examples/python-app`) | rulings; nothing | check, list | campaign | two reads joined | projections agree with what they read |
| voice calls (`examples/voice/calls`) | the journal of one call workflow, two write-once promises, the LiveKit room and its agent jobs, one row per call | `place_call`, `get_call`, `attend_call`, `person_joined`, `person_turn_completed`, `speak_utterance`; actions dial, say, hang up, record | Restate, LiveKit, Postgres | signals before the question, jobs dispatched twice, retried hang-ups, silence | the name recorded is what the person answered, and a told caller's call is recorded and hung up |
| pgdatabase (`examples/{asyncpg,voice}/pgdatabase`, also a generator template) | one pool per database, a lifecycle lock | `open`, `acquire`, `close`, for one and for all | asyncpg | close while a connection is lent, a timeout, one database of several failing | nothing open is forgotten, nothing closed is used |
| asyncpg example (`alpha`, `beta`) | the widgets and keys tables | add, take, find, hold | pgdatabase, the other context | row locks, a check made before the transaction | a loaded row stands until it is saved, a name is added once |
| llmport booking (`examples/llmport`) | bookings, the slot directory, the tools mounted | begin, name, choose, confirm | a model's tool calls | two stores written one after the other, calls of tools that are gone | a slot is sold once, a booked booking holds one |
| minimal example (`examples/minimal`) | a widget table, one workflow per name | add, create, approve, find | Restate, Postgres, one process per command | approval before the wait, lost attempts, the table made twice | nothing is kept unapproved, an approval is not lost |
| errorspy (`examples/errorspy`) | campaigns over a storage that fails | create, get, add link, deactivate | callers over HTTP | an error's way from a constructor to a status | blame is right, a refusal changes nothing and names every problem |
| debt ledger (`tessercheck-py`: check, mark, rename) | markers in the checked files | check of a tree or a file, `mark_debt`, `apply_renames` | editors of the same files | written back after it was read; markers that hide or die | marking and renaming settle, and touch only what they mean |
| hook (`tessercheck-cli`) | session files, a log, a worker | one process per tool event | the agent that starts and kills it | several processes, one log; a worker past its budget | fails open, one line per write, the guidance complete |
| rules of the Python analyzer (`tessercheck-py`) | none | one judgement per tree | authors | rules that look at one statement, promises that are about chains | an accepted tree cannot go wrong in the way the rules are about |
| generator (`src/generator`) | a directory of files | generate | authors, the file system | documents edited key by key, runs that die | problems or a sound tree; whole trees; no file overwritten |
| layout checker and `scripts/verify` (`src/layout`) | none | check, trees | the script | two lists of one repository, the script between them | green means every tree ran |
| Go analyzers, tesser runtime, specs-app, roadmap, scripts, rationale, Go examples, ports and serdepy, spike-totalreturn | none that outlives a run | - | - | conversion of text, which tests reach | - |

`PROJECT.json` lists the same parts with their files and the status of each, and under `hazards`
what is hard to test in them, at its line.

## 2. Plan

Done, in this order: durable ordering and campaign links, with their abstract specifications; voice
calls with `PlacedCall`; the databases, widgets, slots, approvals and errorspy; the debt ledger, the
hook and the layout; the rules on imports, on the two engine chains, on outcomes and on specs; the
generator. Proved: every safety property and the refinements of the first three, all the properties of
the small examples, of the rules and of the tooling, and of the generator the one on documents and
the one on runs.

| Modules | Section | Run |
|---|---|---|
| `OrderingDomain`, `DurableOrdering`, `OrderSettlement`, `MCDurableOrdering`, `DurableOrderingProofs` | 3 | `race`, `liveness` |
| `CampaignLinks`, `LinkRegistry`, `MCCampaignLinks`, `CampaignLinksProofs` | 4 | `links_race`, `links_readers`, `links_revived`, `links_twice` |
| `VoiceCall`, `PlacedCall`, `MCVoiceCall`, `VoiceCallProofs` | 5 | `voice`, `progress` |
| `DatabaseLifecycle`, `WidgetStore`, `SlotBooking`, `WidgetApproval`, `ErrorMatrix`, `MCExamples`, `ExamplesProofs`, `SlotBookingProofs` | 6 | `examples`, `progress` |
| `DebtLedger`, `HookRuns`, `RepoLayout`, `MCTooling`, `ToolingProofs` | 7 | `tooling`, `progress` |
| `ImportTiers`, `EngineChain`, `RunnerChain`, `OutcomeMatch`, `SpecFlow`, `MCRules`, `RulesProofs` | 8 | `rules`, `progress` |
| `GeneratedTree`, `TemplateRender`, `TreeRuns`, `MCGenerator`, `GeneratorProofs` | 9 | `generator` |

Next: the Go examples (a loan's states, running's campaigns).

### How the runs are laid out

`MCExamples`, `MCTooling`, `MCRules`, `MCGenerator` and `MCProgress` each hold several models that
share nothing. A behaviour of such a run chooses a *part* at its start; from then on only that part
moves, and the variables of the others rest. The states are the sum of the parts' states, not their
product, and a property of the run says `part = p => ...` for each of its parts; its comment names
what each conjunct claims. `MCDurableOrdering` and `MCVoiceCall` choose a *sitting* or an *evening*
in the same way: some of the callers, and a bound on what fails.

Runs have between 30,000 and 1.3 million distinct states, with two to four actors on one or two keys:
every hazard listed is between calls that meet on a key, so more keys add products of independent
behaviours.

### What the authors are taken to do

The models of the rules have an author who edits a tree. Some promises of the rule book rest on
conventions that no rule enforces. For runners, outcomes and specs the models hold every tree the rules
accept, the ones that break such a convention included, and the property itself states where the promise
ends (`RunnersMeet`, `OutcomesAreDecided`, `SpecsAreUsedUp`, section 8). For the engine's rules, the
imports and the layout the convention is a Boolean constant (`OneClient`, `SetsFirst`, `Obeys`,
`EverySignal`, `RunsItsName`, `OneHome`, `SpeaksOwn`, `Plain`, `Shallow`), TRUE in the runs
(`EverySignal` in `progress` only: `rules` does without it), and stated with the property; with one of
them FALSE, TLC finds a tree the rules accept and the promise does not hold for (`OneHome`: more edits
away than the run makes, and found from a tree that has most of them). Section 10 lists these with their
lines.

In every module a definition introduced by "A mutant:" is not part of the model. It is a version of
the definition named after it with a plausible bug; put in its place, some property of a run fails,
which is how each property is known to depend on the code. `PROJECT.json` lists them, for a property
of several parts one for each of them.

## 3. Durable ordering

### The system

A host process serves three doors. `POST /submissions` sends the workflow `OrderOrchestrator` under
the order's id and does not wait; `POST /orders` calls it and waits thirty seconds;
`POST /purchases` calls `PurchaseOrchestrator`, under the same id in another workflow service,
which runs the first as its child, then the action `take_payment`. Restate journals what a
workflow awaited, calls the same host back to run each handler, retries an attempt that was lost or
raised, pauses an invocation after five attempts, and runs a workflow key once: a second call is
refused with a 409 and never attached to the first. The processor remembers a receipt per order in
the host's memory.

### Modules

| Module | What it is |
|---|---|
| `OrderingDomain` | the guards of `Order`, `Price`, `PaymentMethod`, `Purchase`, the catalogue and the arithmetic of a total, as operators; the constants, with their assumptions |
| `DurableOrdering` | the doors, the two workflows, the two actions, the engine and the failures as one state machine; all properties |
| `OrderSettlement` | the abstract promise for one order id: one act, one verdict, money only for the act of paying |
| `MCDurableOrdering` | a menu of twelve calls, a price list, the sittings and the constants' values for the runs |
| `DurableOrderingProofs` | theorems on types, keys and the number of charges; the lemmas on where what a workflow, an action, a receipt and a reply hold came from; the inductive invariant, the theorems on charges and answers, the refinement |

### State and actions against the code

`order[k]`, `purchase[k]` are the workflows under key `k`, `pricing[k]`, `payment[k]` the action
calls they make. A workflow's `status` names the next thing its handler does: `begin`, waiting
(`pricing`, `confirming`, `paying`), resumed with a result (`priced`, `confirmed`, `paid`), ended
(`completed`, `failed`), or `paused`. The steps between two awaits are deterministic and touch
nothing outside, so a replay is one count in `attempts` and nothing else; an action is not journaled
inside, so losing its attempt runs the handler again from its start. `receipts` is
`MemoryPaymentProcessor._receipts`; `charges` is the history of the money, which the code does not
keep and the properties are about. `call`, `reply` and `answer` are a caller, what the
ingress answered it and what the door told it.

| Actions | Code |
|---|---|
| `RejectOrder`, `IngressUnreachable`, `StartConfirmOrder`, `RunConfirmOrder`, `RunPayForOrder`, `CallerGivesUp`, `AnswerCaller` | the services' guards and match statements, the HTTP dispatchers with the 409 they recognise, the handler's table |
| `UnreadableOrder`, `RefuseForeignOrder`, `RunPriceProduct`, `ConfirmOrder`, `PriceNotFound`, `TotalRaises`, `OrderActionFails` | `RestateConfirmOrder` and `OrderOrchestrator.confirm_order`, branch by branch |
| `UnreadablePurchase`, `RefuseForeignPurchase`, `RunChildOrder`, `OrderNotConfirmed`, `ChildOrderFails`, `RunTakePayment`, `SettlePurchase`, `PaymentDeclined`, `PaymentActionFails` | `RestatePayForOrder`, the child dispatcher and `PurchaseOrchestrator.pay_for_order` |
| `PriceProduct`, `ChargePaymentMethod`, `JournalPrice`, `JournalPayment` | the two actions, and the engine recording what they answered |
| `LoseWorkflowAttempt`, `LosePriceAttempt`, `LosePaymentAttempt`, `Restart`, `KillOrder`, `KillPurchase`, `KillAction` | a connection that drops, the host that restarts, an operator of the engine |

`Purchase` and `Purchase.paid` may raise on a mismatch; that branch is in `RunTakePayment` and
`SettlePurchase` as a retried attempt, and `NoPaymentMismatch` says why it is never taken.

Bounds: `MaxAttempts` is the code's policy (five there, two to four in the runs, so that a
pause is reached with fewer lost attempts), `MaxDrops`, `MaxRestarts`, `MaxKills` count failures,
`MaxUnits` and `MaxCents` are the bounds of `kernel/price.py`, scaled down so that one order of the
menu passes the bound on a total (with the real catalogue and the real bounds no order does).

### Runs

A behaviour serves one of four sittings, each with the callers that call and a bound on what fails.

| Run | Sittings | Shows |
|---|---|---|
| `race` | Race: one id; a purchase, a purchase with a declined method, a placed order, a submission; one lost attempt, one restart, one kill. Foreign: two ids; calls on the public workflow routes whose key is not their order's or whose body the serde refuses, and an honest purchase; a restart, a kill (together about 655,000 states) | money, answers and the refinement survive every interleaving of the doors with each failure, and a foreign key never prices, pays for or answers another order |
| `liveness` | Refused: one id; an unpriced purchase, an order past the bound, one rejected at the door, one unreadable; a lost attempt, a kill. Fair: two purchases and a placed order; two lost attempts and a restart, four attempts allowed (together about 87,000 states, with fairness) | refusals are told apart and nothing waits for ever on what has ended; in fair weather workflows end, a charge ends in PAID, waiting callers are answered |

What each property says is in the comment above it. In short: `ChargedOnce` bounds charges by lives
of the processor's memory (the double charge after a restart is real, and the bound is exact);
`EveryChargeIsEarned` ties each charge to the child order confirmed for that very purchase;
`DeclinedNeverCharged`, `NoPaymentMismatch` and `ChargedIsPaid` are what a customer would complain
about; `OneWinner`, `AnswersAreTheCallersOwn`, `AlreadyStartedIsHonest` are
about several callers behind one key; `KeyedByOwnOrder` is the guard on keys; `WorkflowsEnd`,
`NothingHangs`, `WaitersAreAnswered` are progress, the first, the last and `ChargedIsPaid` together
as `FairWeatherServes` of the sitting Fair; `KeepsSettlement` is the refinement of
`OrderSettlement`, with `act` read off the order workflow's caller, `taken` off the charges and the
verdict off the result of the workflow the act is for.

Deadlock is not checked: a service that has answered its last call stops. Every property has a
mutant of the code that breaks it, for example a receipt that is not looked up (`ChargedOnce`), a
409 recognised by its status alone (`AlreadyStartedIsHonest`), an engine that attaches a second
caller (`EveryChargeIsEarned`, `OneWinner`) or a parent that is not resumed (`NothingHangs`).

One restart, one kill and one or two lost attempts suffice for the interleavings that differ: a
second restart repeats the effect of the first on an empty memory, and a second kill hits a
workflow that the first has already separated from its action. Two purchases and two orders on one
key are the smallest set where a child finds its key taken by each other door.

### Fairness

`FairSpec`, whose fairness `FairSittings` of the run repeats, gives weak fairness to the steps of
each workflow and each action of a key and to answering a caller. Restate keeps delivering what it journaled and keeps retrying until its policy
stops it, and a handler that runs returns; a disjunction per invocation is enough since an
invocation has one step enabled at a time. Nothing is assumed of callers (they need not call nor
keep waiting) nor of failures. `WorkflowsEnd`, `ChargedIsPaid` and `WaitersAreAnswered` hold with
fewer losses than the policy allows and no kill; beyond it an invocation pauses until an operator
resumes it, which `NothingHangs` allows for.

### Proofs

For every set of callers, bodies, order ids, every catalogue and all bounds that satisfy the named
assumptions (`RequestsAssumption`, `PricesAssumption`, `BoundsAssumption`):

- `TypeCorrect`: `Spec => []TypeOK`.
- `KeysAreOwn`: `Spec => []KeyedByOwnOrder`.
- `ChargedOncePerLife`: `Spec => []ChargedOnce`.

- `ChargesAreEarned`, `PaymentsAlwaysSettle`, `DeclinedTakesNothing`: `EveryChargeIsEarned`,
  `NoPaymentMismatch` and `DeclinedNeverCharged`.
- `AnswersAreOwn`, `RefusalsAreHonest`, `WinnersAreUnique`: `AnswersAreTheCallersOwn`,
  `AlreadyStartedIsHonest` and `OneWinner`.
- `SettlementIsKept`: `Spec => KeepsSettlement`, the refinement of `OrderSettlement`.

The first three theorems need `TypeOK /\ KeyedByOwnOrder`. The second conjunct is needed because
`ChargePaymentMethod(k)` writes the receipt of the order its *input* names, not of `k`; it is
inductive because a purchase leaves `begin` only through the guard on its key, and a workflow's input
never changes. `ChargedOnce` is inductive on top of it: only `ChargePaymentMethod` and `Restart`
touch money (`WhoTouchesMoney`); the first charges only where no receipt is held and leaves one
behind, so its right-hand side grows with it; the second empties the receipts and adds one life.

The others say where an amount or an answer came from, and none of them is inductive: the state that
a charge is made in does not show what was priced. Their invariant is
`IInv == TypeOK /\ KeyedByOwnOrder /\ Histories /\ DoorsAreHonest`. `Histories` says for each key what
the later of two pieces of state owes to the earlier: a journaled price is the catalogue's, a
completed order's result is the total of its own input at that price (`OrderHistory`); a purchase
that runs a child is the caller that child was started for, and holds what it ended with
(`ChildHistory`); a payment asks for the amount its purchase was confirmed, and answers by the method
of its input (`PaymentHistory`); receipts and charges are of such a payment (`MoneyHistory`).
`DoorsAreHonest` ties each waiting or answered call to the workflow it started, if it started one.
`DurableOrderingProofs` shows that each action keeps these, mostly by showing which of the four a
step cannot touch, and then reads the properties off `IInv`. Before it was proved,
TLC checked `IInv` on the sittings of `race`. For the refinement, `PromiseStep` maps a lost or repeated
attempt, a restart and what happens behind a refusal to a stutter, starting a workflow to the act, a
charge to `taken`, and an end to the verdict; that a charge is mapped for the act of paying alone is
`ChildHistory` once more.

Only model-checked: liveness (`WorkflowsEnd`, `NothingHangs`, `WaitersAreAnswered` and the charge that
ends in PAID), which the proof system cannot reach.

### What the model leaves out

- Wording, the wire format and status codes beyond the ones the code compares; order ids and
  skus as text.
- The engine's retention: a completed key stays taken for ever. After it expires, Restate would
  accept the key again.
- An operator's resume of a paused invocation, and the reset of the attempt counter when an attempt
  makes progress: attempts add up, so a pause comes earlier than in the engine.
- A kill's recursion: what a killed workflow called may still run here, which includes every
  behaviour of an engine that stops it.
- Compensation: the code has none, and the README of the example says so.

## 4. Campaign links

### The system

`srv/http` answers each request on a thread of its own (`ThreadingHTTPServer`). The campaign service
reads and writes whole campaign records in one dictionary, the link policy records its ruling on a
target in another, and the reports service joins the two. Nothing is locked and no write is
conditional. What a thread may be interrupted between is the accesses to the two dictionaries; the
computation between two of them touches only what the thread holds.

### Modules

| Module | What it is |
|---|---|
| `CampaignLinks` | the six operations as threads over the dictionaries; all properties |
| `LinkRegistry` | the abstract promise: links are added one at a time, active, under a free slug, and go out of use one at a time |
| `MCCampaignLinks` | two campaigns and a link left by earlier requests, and two menus of requests |
| `CampaignLinksProofs` | the theorems and their lemmas |

### State and actions against the code

`order` and `links` are the keys and the values of `InMemoryCampaignRepository._rows`, `verdicts` is
`InMemoryVerdictRepository._by_url`. A thread has its request (`call`), the access it makes next
(`pc`), its scan of the rows, the links it loaded (`held`) and what it said (`answer`). Two history
variables name where the promise ends: `tainted` are the campaigns that two threads held between
load and save at the same time, `vied` the slugs that two adds were after at the same time.

| Actions | Code |
|---|---|
| `ReceiveRequest` | the handler, and the fields the service checks before it touches anything |
| `CreateCampaign` | `create_campaign` with the id it is issued and its first save |
| `CheckTarget` | the campaign's gateway to the policy: `check_target`, which records before it answers |
| `OpenScan`, `PassRow`, `RefuseSlug`, `AdmitSlug` | `slug_taken`, row by row, and `MapToShortLinkSpec`, which judges the ruling before the slug |
| `ResolveSlug`, `ResolveNothing` | `load_campaign_by_slug` and the rest of `resolve_slug` |
| `BreakScan` | a dictionary that grew under its iterator, and the host's 500 |
| `MissCampaign`, `RefuseChange`, `LoadCampaign`, `SaveCampaign`, `FindCampaign` | load, change of the aggregate, save of the whole record, and the answer read back |
| `ListLinks`, `ListVerdicts` | `links_by_verdict`: the links, then the rulings, in two calls |

`slug_taken` and `load_campaign_by_slug` run the interpreter between two rows, so a thread can be
left inside them; `list_campaigns` and `list_verdicts` build a tuple in one call of the interpreter
and are one step.

### Runs

| Run | Instance | Shows |
|---|---|---|
| `links_race` | four threads; adds of one slug to one campaign and to two, two deactivations, a resolution (451,034 states) | which overlaps cost a change or the uniqueness of a slug, and that nothing else does; the refinement of `LinkRegistry` |
| `links_readers` | three threads; every operation, refused fields, a denied target, an unreadable one, a campaign that is created meanwhile (115,040 states) | nothing unvetted is stored, shown or followed; a report never misses a ruling; what ends in a 500 |
| `links_revived` | two threads of the first menu | a counterexample: a link whose deactivation was answered is in use again |
| `links_twice` | two threads of the first menu | a counterexample: two adds of one slug to two campaigns both succeed |

`ChangesSurvive`, `AnswersShowTheChange` and `OneHolderPerSlug` are stated beside `tainted` and
`vied`, so they are exact: a loss or a doubled slug is possible only where the named overlap
happened. The two counterexamples are such overlaps. The repository records the cause of both as
deferred (`TODOS.md`, 2610 and 2611), and names tests for what they break, which run one caller at a
time.

Two campaigns are what a slug can be doubled over; four threads allow an overlap of three writers
and a reader. The menu of readers adds a third campaign, which only a creation brings into being.
Deadlock is not checked: when the last request is answered, nothing is left to do. No fairness is
assumed and no liveness stated: a thread never waits for another, so each ends after a number of
steps bounded by the rows, whatever the others do.

### Proofs

For every set of threads, calls, campaigns, slugs and targets, every policy and every seed that
satisfies the named assumptions (`TargetsAssumption`, `CallsAssumption`, `SeedAssumption`, which says
that earlier requests came one after the other), all eight invariants and the refinement are proved:

- `LinksTypeCorrect`, from types and the start of scans (`Positions`).
- `LinksRecordsReload`, `LinksChangesSurvive`, `LinksAnswersShowTheChange`, from `StoreInv`. Its heart is
  `WritersOK`: what a thread will save to an untainted campaign is its change applied to what is
  stored *now*. It is inductive with `OneWriter` (two threads between load and save of one campaign
  taint it), since a save changes what is stored only under the feet of writers that have
  tainted the campaign. The lemmas `ChangeShows`, `ChangeKeeps`, `ChangeRebuilds` say what adding and
  deactivating do to a set of links.
- `LinksOneHolderPerSlug`, from `SlugInv` on top of it: the rows an add has passed do not carry its
  slug (`PassedOK`), so past the scan no campaign does (`AdmittedOK`), unless the overlap is on record;
  a save of another add after the same slug is excluded by `OneSeeker`, and a scan that the store
  outgrew is excluded because it can only break.
- `LinksNothingUnvetted`, `LinksReportsAreRuled`, from `RulingInv`: a ruling on record is the policy's
  for good, and an add past its check has one.
- `LinksOnlyCreationBreaksAScan`: a scan's size differs from the store's only after a creation, and no
  record fails to be rebuilt.
- `LinksKeepRegistry`: `Spec => KeepsRegistry`. A save is an added link, a retired one or, in a tainted
  campaign, an overwriting; opening a scan and loading may end the promise of a slug or of a
  campaign; every other step stutters.

### What the model leaves out

- The budget, which no operation changes after creation, and the wording of messages and statuses
  (a 400 and a 422 are both "rejected").
- The order of a report's rows, which the domain sorts.
- Equal ids from the identity provider: ids are random, and the model issues an unused one.
- A target that the URL parser refuses with an exception of its own.
- The command line host, which serves one request at a time.

## 5. Voice calls

### The system

`place_call` issues an id, starts the workflow `conduct_call` under it and waits, without a timeout,
for its end. The workflow dials, waits for `person_joined`, asks for the name, waits for
`person_turn_completed`, greets, hangs up and records. LiveKit dispatches an agent job for every dial
it takes; the job joins the room, listens, and sends the two signals over HTTP, where Restate resolves
a write-once promise of the workflow's key. Each step that touches the outside is a journaled action:
when its answer is lost it runs again, whatever it had done.

### State and actions against the code

`flow[c]` is the step the journal has reached, with the attempts it lost; `signal[c]` the two promises;
`job[j]` an agent job; `wire` the signals under way; `refused` the calls that answered a signal with
412; `room[c]`, `person[c]` LiveKit's room and who is in it; `asked`, `greeted` what was spoken;
`calls[c]` the row.

| Actions | Code |
|---|---|
| `IssueCallId`, `ConductCall`, `AnswerCaller` | `CallService.place_call` and the dispatcher that starts the workflow and waits |
| `DialPerson`, `AwaitPersonJoined`, `SayQuestion`, `SayRefused`, `AwaitPersonTurnCompleted`, `PersonSaid`, `PersonSaidNothing`, `SayGreeting`, `HangUp`, `HangUpAgain`, `RecordCall` | `CallOrchestrator.conduct_call`, the domain's `person_said`, and the actions with their gateways and the repository |
| `AttemptLost`, `Raise`, the second branch of `Attempted` | the retry policy: lost before, lost after, or raised by itself |
| `AcceptJob`, `ConnectJob`, `StartSession`, `SendPersonJoined`, `CompleteTurn`, `JobDies` | the agent's handler from `attend_call` to its callbacks; jobs of a room share one identity, so a second one displaces the first |
| `PersonEnters`, `PersonLeaves` | the simulated person, and LiveKit closing a session whose person left |
| `DeliverSignal`, `LoseSignal` | the signal handlers with 412 for a key nothing conducts, and the 409 that is swallowed |

`PlacedCall` is the promise without rooms, agents or retries: open, named (or unnamed, for good),
dropped, recorded, answered. `KeepsPlacedCall` reads `stage` off the promise, the room, the row and
the caller.

### Run

`voice` (about 155,000 states). A behaviour is one of two evenings: Retries, one call that is dialled
up to three times, with three faults and four texts (a name, something else first, punctuation,
blank); and TwoCalls, two calls at once on two jobs without faults. Five attempts are the code's
policy; three faults are enough to have two jobs in a room and a retried hang-up in one behaviour.
`CallsGoRight`, in `VoiceCall`, is `TypeOK`, `SignalsFindTheCall`, `OneNameThroughout`, `GoodbyeBeforeTheLineDrops`,
`AnsweredCallIsOnRecord` (which is `get_call` after `place_call`) and `PauseHasACause`. That a call
whose person joined and spoke is answered or paused is part `voice` of the run `progress`, under weak
fairness of the workflow's steps: the engine retries what it holds. Nothing is assumed of the person,
of jobs or of signals; a call whose `person_joined` is lost waits for ever, and so does its caller,
which no document promises otherwise.

### Proofs

`CallsAlwaysGoRight` (`Spec => []CallsGoRight`) and `PlacedCallIsKept` (`Spec => KeepsPlacedCall`), for any
calls, jobs, texts with their names, number of attempts and number of faults. The inductive invariant
adds to `TypeOK` what a step of the workflow has behind it (`CallHistory`: a workflow past its question
was joined and asked, one with a name heard the turn that the promise holds, one past the greeting
greeted that name, a deleted room was asked, greeted and joined) and what agent jobs, signals
and callers have; without it a retried action could find a state that no journal leads to. A
step of a job leaves the journal alone, a step of the workflow leaves the jobs alone, so each action is
shown against one side. TLC checked the invariant on the 154,542 states of `voice`. What is left to TLC
is that a call is answered (`progress`).

## 6. The small examples

One run, `examples` (about 607,000 states), in seven parts; liveness is in `progress` (section 11).
`MCExamples` extends `DatabaseLifecycle` and has an instance of each of the others.

### Databases (`DatabaseLifecycle`)

One event loop; a step is what runs between two awaits. `ref[d]` is `Database._pool`, `lock[d]` the
lifecycle lock, `pool` every pool asyncpg knows of, `task[t]` what each task does and awaits.
`EnterOpen`, `EnterOpenUnlocked`, `PoolCreated`, `OpenFails` with the undoing of what was opened are
`Databases.open` and `Database.open`; `EnterClose`, `EnterCloseUnlocked`, `PoolClosedAtOnce`,
`PoolClosed`, `PoolTerminatedIfFree`, `PoolTerminated`, `CloseRaises`, `CloseCancelled` are `close`
with its timeout and `terminate`; `Acquire`, `Granted`, `AcquireFails`, `Release` are `acquire`. The
part `databases` has two tasks that open two databases, one that closes and two that use them.
`PoolsAreAccountedFor`: no pool is orphaned, one live pool per database, users are waited for, a
failed open undoes itself, a close reaches every database. Left out: the syntax of a DSN; the three
copies of the file are one text.

Proved (`PoolsAreKept`, in `ExamplesProofs` with the rest of this section): `Spec => []PoolsAreAccountedFor` for any tasks, any sequence of databases
without repetition, any size of a pool (`LifecycleAssumption`). The inductive invariant says who holds
what between two awaits: a task that awaits a pool holds the lock of its database, whose reference is
dropped; a lock that is held is held by such a task; a reference is to an open pool of that database;
what an open has still to build is not built and what it has undone is not open; what a close was owed
is gone where it has been; who uses a connection is among its pool's users. Orphans and second pools
are then excluded because the only step that makes a pool runs under the lock. TLC checked it on the 74,687 states of the part.

### Widgets (`WidgetStore`)

A step is one awaited statement. `holder[n]` is who locked or inserted the row, `users` who has a
connection. `AcquireConnection`, `MakeSchema`, `CheckName` (beta's clearance, on a connection of its
own), `AddWidget`, `AddWidgetExists`, `LoadWidget` (`FOR UPDATE`), `SaveWidget`, `CommitWidget`,
`FindWidget`, `PutKey`, `CommitKey` and the roll-backs are `AlphaService`, `BetaService` and their
repositories. Three requests of seven kinds meet on one widget. `WidgetChangesHold`: a loaded row
stands until it is saved, one add of a name is answered, a clearance is good when used, a store that
skips its schema has one.

Proved (`WidgetsAreKept`): `PartSpec => WidgetChangesHold` for any requesters and requests, any widgets
and parts, any number of connections (`StoreAssumption`). The invariant (`StoreInv`) says what an open
transaction has: it is connected; a row's holder is the one transaction that loaded or inserted it
(`HoldersChange`), and while it is held the row is what that transaction loaded, or none if it adds
(`ChangesHold`); beta's transactions only put keys (`BetaHolds`). A clearance is used two awaits after it
was given, so `Cleared` carries the name's key from the answer over the commit; it stands because no
operation takes a key away.

### Slots (`SlotBooking`)

A use case runs without an await, so it is one step; the agent's lock is held from it until the new
tools are mounted. `stored[b]` is the row, `free` and `reserved` the directory, `agent[b]` the session
with what is mounted, `calls[b]` the tool calls under way. `ProvideName`, `ChooseSlot`,
`ConfirmBooked`, `ConfirmReoffered`, `Refused`, `Breaks`, `SaveFails` are the use cases with their
branches, `Mount`, `MountFails`, `MountCancelled` the agent, `Enter`, `EnterFails`, `HangUp` a session.
The parts are two callers over two slots with a session each, and one caller whose model makes two
calls at once, with a session to come back to.
`SlotsAreSoldAsBooked`: a slot is sold once, a booked booking has its slot, a reservation that was not
saved stops the session, no booking goes back, mounted tools are those of the step (`BookingsAreSound`
of the states, `StepsAreSound` of the steps). Left out: what a
caller whose slot was taken is told when no other is left (the booking stays at `confirm`, and every
confirmation is refused); names and the wording of prompts.

Proved (`SlotsAreSold`): `Spec => SlotsAreSoldAsBooked` for any callers, any tool calls side by side,
any directory and any number of sessions (`BookingAssumption`, which TLC evaluates on both parts'
instances). The inductive invariant adds to the safety properties, for each caller, that who has
a session or a call has a row, that the lock is held just by the call that mounts, and that its tools
are those of the row (`Served`); the last is needed since mounting reads what the use case answered,
two awaits before. TLC checked it on 5,341 states. `SlotsAreSold` of `ExamplesProofs` is the same
property of the two instances of the run, `PartSpec => SlotsAreSoldAsBooked`: that theorem, used twice.

### Widget approval (`WidgetApproval`)

Commands and attempts at the workflow's action are sessions with the same database steps
(`Engine`, `Database`, `CreatesTable`, `Commits`, `Fails`, `Breaks`). `Create`, `Approve`, `Answers`,
`Unanswered`, `Killed`, `Again` are commands, `Starts`, `Awakes`, `FlowLost`, `Attempts`, `Finishes`,
`Resumes` the workflow, its promise, pauses and an operator. The parts are two commands on one name
with faults, and one command, two names and a missing table without. `ApprovalsHold`: nothing is kept
unapproved, an approval belongs to a registration and is not refused later, a finished registration
is found, and commands that race for the table pause none. The race itself is
recorded in the repository (`TODOS.md`, 1530): the statement that creates the table can fail, which
is `TableRefused`. A lost attempt that is run again writes its standing over whatever was stored in
between, and the model has that. Left out: labels, keys with a quote in them, a foreign key's refusal,
the engine's retention, attempts that run on after the engine gave them up.

Proved (`WidgetsAreApproved`): `PartSpec => ApprovalsHold` for any names, commands and number of
attempts (`ApprovalAssumption`). With faults the invariant (`ApprovalInv`) says where a registration can
be while its name's action is tried: a promise is resolved only of one that began (`RegistrationsGoOn`),
only a registration that keeps has an attempt under way, and who is past the table has one
(`ReadyHaveATable`). Without faults (`RaceInv`) an attempt is lost only to the race for the table, once per
name and with the table made by then, so the next attempt never makes one and no invocation pauses.

### Errorspy (`ErrorMatrix`)

`rows` is the storage, `down` whether it answers, `last` the last request with its answer. `Create`,
`Get`, `AddLink`, `DeactivateLink` go from the body over the constructors (`IdError` ... `CampaignError`,
`Collected`) to the status; `GoesDownOrUp` and `Spoil` are the storage. The example has no host, so one
request runs at a time. `ErrorsAreHonest`: what is stored loads, an answer names every refused field,
a refusal changes nothing, and blame (4xx or 5xx) is where it belongs. The cap of five links is a
parameter; `create` over an existing id replaces it, and `put` does not ask whether the storage is
down (`TODOS.md`, 687), in the code as in the model.

Proved (`RefusalsAreHonest`): `PartSpec => ErrorsAreHonest` for any campaigns, any slugs and any cap of
links and length of a body (`TextsKnown`, `BoundsNat`). The invariant (`ErrorInv`) is short: what is
stored and not spoilt fits the constructors (`StoredFit`), and the last answer names every problem. The
work is in what an answer says: each constructor's problems are shown to be just the fields it refuses
(`RoomMeans`, `ErrorAtMeans`, `LinksErrorMeans`), so nothing is collected that is not there and nothing there
is missed, and `Blames` goes through the handler's cases from there to the status.

## 7. Tooling

One run, `tooling` (1,289,533 states), in five parts.

### Debt ledger (`DebtLedger`)

`disk` is the tree, `run` the command under way: it reads file by file (`ReadFile`), computes
(`Rewrite`), writes file by file (`WriteFile`), reads again and answers, while `EditLine`,
`EditSyntax`, `EditUse`, `EditDeclaration` are an editor. A line is what rules find on it, what marker
it carries and whether a marker can be put there; which rule is which does not matter, except that one
is renameable and one speaks of a file by what another says. `Marked`, `Renamed`, `Hides`, `Dead`,
`Violations` are the ledger. The parts: `ledger`, two files of two lines, one command, one edit;
`twice`, two files of one line, two commands, two edits, one file a symbolic link. `LedgerSettles`: a
check of one file is the tree's for that file, marking and renaming leave only what they cannot reach,
a second marking writes nothing, marking uncovers nothing and renaming kills no marker; a marker is
written only where its line earns it, even when the file was edited since.

Proved (`LedgersSettle`): `PartSpec => LedgerSettles` for any two ledgers whose constants fit
(`LedgersAreTexts`): at least two files, any lines, any codes other than the three the check itself
speaks in, any rules that lean on other files, any links, taken names, trees, edits and commands. Both
ledgers are instances by one record of constants (`Debt(of)`), and the proof speaks of any `of`. Half of
it is about the rewritings alone: what a command names on a line is what the rules find there and
nothing hides (`NamedIs`); marking hides it where the line takes a marker and keeps what was hidden
(`MarkingHides`); renaming takes from a line no fault that a marker hides, so the marker keeps what it
hides (`RenamingKillsNone`). The invariant (`LedgerInv`) is that a command left alone since it began
holds the tree as it is while it reads, has written exactly the files before the next one while it
writes (`WrittenTo`), and answers for the tree there is; a tree written through is one of which the
command settled all it can reach (`WrittenSettles`).

### Hook (`HookRuns`)

Any number of hook processes over one session, each killed at any point (`Kill`). A write: `ReadConf`,
`ReadGuidance`, a worker (`WorkerAnswers`, `WorkerFails`, `Timeout`, `Alarm`), `AppendLine`,
`LookAtSession`, `Prune`, `Answer`; a load: `OpenSession`, `AppendEvent`. A file may not be opened, and
a write call may append a part or nothing, without a word of it (`PartialWrites`); the pieces of a file are named for their writers, and a line is readable when its
pieces stand together. The parts: `log`, two writes with partial appends and a change of mode;
`guidance`, two writes and two loads. `HooksAreFaithful`: the hook fails open, one reading of the
configuration decides, one line per write, and the line's guidance is what the session recorded
before. With seven idle days (`MaxPauses` 1) in `guidance` TLC finds the event that pruning loses
(section 10), so that part has none. Left out: torn guidance records that both halves make unreadable,
duplicates in the guidance, capping, the refusal of symbolic links.

Proved (`HooksStayFaithful`): `PartSpec => HooksAreFaithful` for any number of hooks
(`HooksAreApart`), any changes of mode and, in `log`, any pauses. The invariant (`HookInv`) has the log
hold at most one piece of a hook that can begin a line, and none before the hook came to the log; that
this makes one record takes reading the file back, whose k-th record is on the line with k - 1 above it
(`LinesAreRanked`: counting the lines above is one to one). What a hook says is bound by its answer and
its mode, and by nothing before the worker answered (`Minds`). That the guidance is complete
is proved where records are whole and no week passes (`GuidanceIsWritten`, `Kept`): a record torn by
another hook's, or pruned under the loader, is lost in the code too, so no more is true.

### Layout (`RepoLayout`)

`repo` is the repository as the app reads it: the manifest's rows, the arms and functions of
`scripts/verify`, the jobs, the declarations and the Python floors. `EditManifest`, `EditDisk`,
`EditScript`, `EditWorkflow` are authors, `Begin`, `Check`, `ListTrees`, `RunTree` a full run of the
script without arguments. Two edits start from a repository in order and from one that prepares a
third tree; the manifest may also be edited between the check and the list, which `meddled` records.
`GreenMeansRun`: a green run never passes on nothing, and with nobody meddling ran every tree and knew
each. Left out: the gates inside a tree, skipped
and hidden directories, wording.

Proved (`GreenMeansTreesRan`): `Spec => []GreenMeansRun` for any directories, any repositories in order
to start from, any edits (`LayoutAssumption`). The script asks the app twice and reads its own text in
between, so the invariant carries what the first check found: while nobody meddles the repository is
the one that check passed (`Problems = {}`, written plainly), the list is of its trees, and
trees no longer on it have run. From no problem it follows that each app, requirement and declaration
of the manifest has one function and one arm, which is what finding a tree's gate takes. TLC checked
the invariant on 75,721 states with `Plain` and `Shallow`, and on 241,432 with neither.

## 8. Rules of the Python analyzer

One run, `rules` (763,644 states), in five parts. Each model takes a family of rules as what it
lets through, and asks what an accepted program can do. Where the rule book promises more than its
rules see to, the property says how much holds, and each of its exceptions is reached within the run's
two edits: a promise is stated without the exception only where it holds without it.

| Module | State | Actions | Property |
|---|---|---|---|
| `ImportTiers` | a walk from one module along imports the rules admit | `Follow`; `PlaceMay` is the rules, by the tier of the importing module | `ImportChainsEnd`: the domain reaches only domain, contexts meet at clients and only through gateways and components, actions only through an engine, orchestrators only where one is built per invocation, handlers see the client and driven adapters the ports, core tests no adapter, no context the shell; no import comes back |
| `EngineChain` | a context's relays, dispatchers, registrations and containers; the engine's state once deployed | `Edit` (two), `Deploy`, `Invoke`, `Begin`, `Finish`, `ReadState`, `Resolve`, `Signal`; `Accepted` is the rules | `EngineMeets`: a call reaches the handler its relay names on that side; no promise before the main; a signal is heard while the main waits |
| `RunnerChain` | relays, runners, a runtime's handlers and the client before the actions | `Edit` (two), `Deploy`, `Invoke` | `RunnersMeet`: one name across (`OneNameAcross`) and nothing registered idle (`NothingRegisteredIsIdle`), except where a handler is registered by position under another name than its function's (`Misnamed`); on the side the relay is named for (`RelaysNameTheFarSide`), except on a service with more than one far side |
| `OutcomeMatch` | an outcome class and two readers; what the object would answer and what the readers hold | `EditClass`, `AddMember`, `EditReader`, `Deploy`, `Change`, `Ask`, `Decide` | `OutcomesAreDecided`: an accepted outcome loads if and only if no member is annotated, the one place where rule and runtime's gate differ (`AcceptedOutcomesLoad`); a member is named where it is decided on, except by a domain object's match that names none (`NoSilentMember`), and on the answer of that time, except in a domain object that kept another's (`DecidesOnTheAnswer`) |
| `SpecFlow` | a function of three statements, run in a loop of three rounds, any statement skippable | `WriteStatement`, `Call`, `Execute`, `NotTaken`, `Again`; `HeldSpecs`, `HeldRecords` are the rules' fixed points | `SpecsAreUsedUp`, of functions whose names all get values, each of one type (`Settled`): a spec is read only by its own object and not kept, and a record is not written if no name written to can hold what a method answered (`FromAnswers`) |

Three statements are the shortest chain of aliases that closes a cycle; three rounds carry a value
through it. Two edits make every pair of mistakes that could cover for each other; one edit moves a
relay's method with its runner to another relay, so that a service with two far sides is met by a relay
named for the wrong one. Two contexts with
all tiers are what an import chain can tell apart.

Left out. `ImportTiers`: only production modules and test homes, every package with an `__init__`, one
root kernel, no unknown adapter kinds, evals; imports of the standard library and of third parties;
`NoCircularImport` speaks of chains that every rule admits and leaves out siblings of the root kernel
and relays beside snapshots, which may circle. `EngineChain`: more than one edit in flight of a
deployed tree; a container's kind is fixed by the type of its parameter, and Restate (external)
refuses two containers of one name. `RunnerChain`: old-style runners. `OutcomeMatch`: enums of ports
and responses, inherited outcome methods, a second match on one answer; a service that drops an answer
unmatched is accepted by the rules and in the model. `SpecFlow`: containers, nested functions and loops,
module level, a spec's own `__init__`, shared specs in tests, `pytest.raises`.

Proved, in `RulesProofs`, of the very specification that the run
checks. Only `EngineCallsMeet` speaks of the authors' constants as they are there (TRUE), and
`ImportsAlwaysEnd` has `SpeaksOwn` as a hypothesis; the other three speak of every accepted tree, outcome and
function, and have their exceptions in the property:

- `RelaysMeetTheirHandlers`, `PartSpec => []RunnersMeet`, for any number of edits. The invariant
  (`RunnersInv`) types the tree (`RunnerTree`), and says that what runs was accepted and that each call
  made is one its tree carries and ran what it names. `CallsAreFound` is the step that matters: in an
  accepted tree the names a relay, its runner and the handlers give are the same one, so exactly one
  handler is found, unless a handler of the service is `Misnamed` and it or its name is what is called.
- `EngineCallsMeet`, `PartSpec => EngineMeets`, for any number of edits. `EngineInv` types the tree
  (`EngineTree`) and says that what runs was accepted, that a call ran the handler its dispatcher
  passes, that the key's state is empty until the main waits and names the main from then on, and that
  nothing was resolved or read before the main began. `CallsAreRouted` finds, in an accepted tree, the one
  handler bound under a call's name, and the side its relay is named for; `StatesAgree` that the main
  sets the state its signal reads, in one container. The proof stopped first at a tree three edits
  away, one more than the run makes: an activity that takes another client than the one whose method it
  calls. No type checker lets that pass, and the engine's `Assured` now says so; it stopped next at a workflow's handler
  that runs another operation than its name, and at an operation with two far sides, which nothing
  rules out: the constants `RunsItsName` and `OneHome`.
- `AnswersAreDecidedOn`, `PartSpec => []OutcomesAreDecided`, for any members of the outcome
  (`MembersAssumption`: it has some), any that may be added and any number of edits. `ReadersMatch` says
  what the rules leave of a reader that decides: a match on what was answered then, every arm
  naming members and none guarded, all members named, or else one of the two exceptions of a domain
  object. `OutcomesInv` carries that to the answers asked for and to the last one decided on. What loads is
  a case analysis of the class: of all that can stand in its body, the rules let only the annotation by.
- `SpecsAlwaysUsedUp`, `PartSpec => []SpecsAreUsedUp`, for functions of any length and any number of
  rounds, over a parameter and two locals. The invariant (`FlowInv`) says that, in a function that is
  `Settled`, a name that holds a spec is one the rules hold to be one. The rules grow their set of names and then shrink it; that two rounds
  of either are all there are is `TwoStepsAreEnough`, that a spec cannot leave the set is
  `SpecsAreHeld` and `RecordsAreHeld`. An attempt to prove it with functions in which every used
  name is merely bound somewhere failed for a reason: with four statements (`x = spec; x.f = 1;
  x = y; y = y.child`) `y` never gets a value, so neither it nor `x` is held to be a record, and the
  write is accepted. Three statements do not reach it. `Settled` therefore asks that every name used gets a
  value that does not need the name itself (`Bound`).
- `ImportsAlwaysEnd`, `SpeaksOwn /\ PartSpec => ImportChainsEnd`, for any bounded contexts
  (`ContextsNamed`) and any of the leaf names (`LeavesKnown`). Names are sequences, so the rules are first turned into
  what they ask of a name's parts (`ProductionByParts`, `ImportsByParts`); what one import of a module
  that ships may be is then a short list (`HostStep`, `InsideStep`). The invariant
  (`ImportsInv`) has two halves. A walk that began in a context has either left it as its start may
  (`Left`) or kept to what its start keeps to (`Kept`): each property is one such set, shown closed under
  the list. And it has come down: `Rank` orders the tiers, a package above what it holds, and every import
  falls, except among the siblings of the root kernel and among relays and snapshots, which stay level
  (`ImportsFall`); a walk that has fallen cannot be back at its start. TLC checked `ImportsInv` on
  the 4,805 states of the run's part. `SpeaksOwn` is a hypothesis because no rule asks it (section 10).
  A proof attempt showed that the model named a module's place by a `CASE` whose guards overlap, which
  TLA+ leaves open and TLC settles by taking the first; such definitions, here and in `ErrorMatrix`, are
  now IF / ELSE IF, in the order of the source.

## 9. Generator

One run, `generator` (806,660 states), in four parts.

- `GeneratedTree`, part `tree`: `doc` is a document, `EditKey`, `EditField`, `EditSamples`,
  `EditLists`, `EditFile` an author's edits from `specs/voice.toml` (two), `GenerateTree` the reader
  (`ReadGeneration`), the judgement (`Problems`) and the rendering (`Rendered`). A tree is what the
  properties tell of it: its classes, operations, parameters, packages and test literals.
  `DocumentsBecomeTrees`: no lookup fails while rendering; the literals of the generated tests are what the
  tests take them for (`LiteralsFitTheTests`); no operation stands twice in a protocol, no parameter
  twice in a signature, no two packages in one place, and of the classes of the domain module only those of
  two fields may meet, or the identity's and the aggregate's (`NamesMeetOnlyAsClasses`: `tree.py:412-424`
  compares neither); nothing stated is ignored. A name's class is the constant `ClassOf`. The documents
  include fields `line1` and `line_1`, and an aggregate `CallId` with the identity `call_id`: both are
  accepted and declare a class twice, so the generated tests of such a tree are not claimed to pass. Class
  names of operations (requests, responses) and Python keywords as names are not modelled.
- `TemplateRender`, parts `nested` (every tag, five tokens) and `lined` (lines, eight tokens): the
  renderer on positions against a reference on the nesting of the tokens (`Expanded`).
  `TemplatesAreExpanded`: a template that nests comes out whole, tags alone on a line take the line
  with them, one that does not nest is refused where its sections are entered. An error inside a
  section that is never entered is not found, nor a tag right after an opener told from one that is
  alone: so the code, and so the model.
- `TreeRuns`, part `runs`: three runs of the command, each `ReadSpec`, `ReadTarget`, `Judge`,
  `MakeParent`, `OpenFile`, `FillFile`, `Die`; `EditSpec`, `RemoveTree` are a person.
  `RunsLeaveWholeTrees`: an answer names a whole tree, a tree is of one spec, no file is overwritten.
  `Together` is FALSE: one run after another; two at once write into one directory (section 10).

Proved, in `GeneratorProofs`:

- `DocumentsAreRendered`, `PartSpec => []DocumentsBecomeTrees`, for any names and verbs, any classes the
  names may have (also the same one for two; an aggregate's spec is named apart from it, `SpecsAreNamedApart`),
  and any number of edits from any document. The invariant
  (`TreesInv`) says that the document is one TOML can state (`IsDocument`: a table has a key once) and
  that a written tree is the rendering of it. The argument is in `NoProblemsAreSound`: from a judgement
  without problems follows everything the renderer and the tests' literals take for granted (`Sound`:
  two different samples of the field's type for every field, answers among the fields, an asserted
  answer with random values of its type, operations of different names); each property is then shown of
  a sound document.
- `TreesAreWhole`, `PartSpec => RunsLeaveWholeTrees`, for any commands, any specs and any paths of a tree
  without repetition (`PathsOfATree`). The invariant (`RunsInv`) says what a run that writes has before
  it: the directory as it judged it, its own files behind it, at most one opened and not filled, nothing
  ahead (`WritesAlone`); a file opened and not filled is of a run at it, or dead (`OpenedByWriters`).

## 10. Where promises rest on more than the code

Met while modelling. With the constant in the second column turned, TLC finds the behaviour; in the
runs it is set so that the rest of the promise is checked. Where there is none, the model has the
behaviour, and no property claims otherwise; where one states it as its exception, the column names it. (`RULES.md` and `checks.py` are the Python analyzer's.)

| Where | Constant | What happens | Promised at, done at |
|---|---|---|---|
| minimal | none (the model has it) | an approval sent right after the creation was answered may be refused: the workflow has not begun | `tests/test_minimal.py:25`, `restate_http_widget_orchestrator_relay.py:68` |
| engine | `SetsFirst` | a main that sets its state after it waits refuses its own signal | `RULES.md:379`, `checks.py:13301` |
| engine | `Obeys` | a signal may read the state and not act on it | `RULES.md:380`, `checks.py:13313` |
| engine | `OneClient` | an activity over two clients has no one far side | `RULES.md:358`, `checks.py:10223` |
| engine | `EverySignal` (only in `progress`; in `rules` FALSE) | a main that awaits an operation no signal resolves waits for ever: a dispatcher's `await_` is only asked to read a promise of that name | `RULES.md:361`, `checks.py:13011` |
| engine | `RunsItsName` | a workflow's handler may run an orchestrator's method of another name: only an activity's is asked to call its own | `RULES.md:384`, `checks.py:13216` |
| engine | `OneHome` | an operation that dispatchers carry to two far sides has none for the rules, so a relay with it may have any name | `RULES.md:358`, `checks.py:15522` |
| runners | none (`OneNameAcross` excepts it) | a handler named by position is taken for its function's name | `RULES.md:395`, `checks.py:13678` |
| runners | none (`RelaysNameTheFarSide` excepts it) | a service with two far sides has none for the rules, so its relay may have any name | `RULES.md:358`, `checks.py:10184` |
| imports | `SpeaksOwn` | an application client may name another context's client | `RULES.md:316`, `checks.py:11582` |
| imports | none (the model has it) | a host may import a context's `adapters` package once a handler is below it, and through its `__init__` whatever that exports | `RULES.md:284`, `checks.py:10956` |
| outcomes | none (`NoSilentMember` excepts it) | a match of a domain object none of whose arms names a member needs no arm for a new one | `RULES.md:228`, `checks.py:8734` |
| outcomes | none (`DecidesOnTheAnswer` excepts it) | another object's answer kept on `self` is decided on later | `RULES.md:227`, `checks.py:8648` |
| outcomes | none (`AcceptedOutcomesLoad` says which) | an annotated member passes the rule and not the runtime's gate | `RULES.md:159`, `checks.py:5581` |
| specs | none (`RecordsStand` excepts it) | a record that a method answered with is written | `RULES.md:409`, `checks.py:14696` |
| specs | none (`Settled` excepts it) | a name that only another use of itself gives a value takes a second name out of the records, which is then written | `RULES.md:409`, `checks.py:14681` |
| specs | none (`Settled` excepts it) | a spec escapes through a name that is bound to values of two types | `RULES.md:408`, `checks.py:14360` |
| errorspy | none (the model has it) | a record keeps no active flag, so a second deactivation of a link succeeds | `domain/campaign.py:166`, `application/service.py:97` |
| hook | `MaxPauses` | pruning loses an event recorded since it looked | `tessercheck-cli/README.md:139`, `hook.py:427` |
| layout | `Plain` | an arm written in a way the app reads differently from bash | `rules.py:351`, `scripts/verify:34` |
| layout | `Shallow` | a row deeper than `examples/` is compared with nothing on disk | `rules.py:328`, `scripts/verify:32` |
| layout | none (the model has it) | a distribution that states no target version is not asked for one | `rules.py:238`, `file_repository.py:150` |
| generator | `Together` | two runs at once both find the directory free | `tree.py:495`, `filesystem_generation_reader.py:84` |
| generator | none (`NamesMeetOnlyAsClasses` excepts it) | two fields whose names become one class are accepted, and an identity named like the aggregate or its spec | `tree.py:412`, `tree.py:423` |

## 11. Progress

`progress` (36,752 states, with fairness) has small instances of seven modules side by side, one
property, `EveryoneIsServed == \A t : Waits(t) ~> Served(t)`, and the fairness below. Restricting an
action to its part does not weaken it: in a behaviour of that part it is the action.

| Part | Who waits for what | Fairness, and why |
|---|---|---|
| `voice` | a call whose person joined and spoke: answered or paused | weak, `FlowStep`: the engine retries what it holds |
| `databases` | a close, and an open that undoes itself: ended, though a user may keep its connection | strong, `Closing`: the lock is handed on in turn and the timeout is the loop's; weak, creating a pool ends or fails |
| `widgets` | an operation: done, with one connection | strong, `Statement`: asyncpg and Postgres queue who waits |
| `bookings` | a tool call: ended | strong, `Call`: an asyncio lock is handed on in turn; weak, mounting returns or is cancelled |
| `approvals` | an approved name: kept, or paused | weak, the workflow's and its attempts' steps: the engine retries |
| `hook` | a hook that reached its end or was killed; its worker gone | weak, each process's steps and the worker's alarm: the system schedules them |
| `engine` | a main that waits: done | weak, the engine's steps, and the signal is sent until it is not refused |

No fairness is given to callers, persons, agents, operators or failures. The safety runs check their
specifications without fairness, so nothing there rests on it.

## 12. Not modelled

- The Go analyzers and the rules of the Python analyzer that look at one class or one statement and
  promise nothing about a run (naming, placement, docstrings, shapes): functions from text to
  findings, which the repository's own fixtures reach.
- The tesser runtime beyond the outcome gate and `errors.collect`: marker classes and serialization.
- The hosts' object graphs, routes and status tables.
- The Go examples: one goroutine over in-memory repositories. A loan's states and running's campaigns
  could be modelled next.
- The specifications page (reads one document), the roadmap and the scripts other than
  `scripts/verify` (convert files of the repository), the rationale, `spike-totalreturn`, the ports and
  serdepy examples (no state).

Proved, for every value of the constants: what sections 3 to 9 list under proofs and `PROJECT.json`
under `theorems`. Only checked by TLC, on the bounds of the runs:

- Liveness and fairness, which the proof system does not reach: `WorkflowsEnd`, `NothingHangs`,
  `WaitersAreAnswered`, `ChargedIsPaid`, together `FairWeatherServes`; `EveryoneIsServed`.
- What a recursive definition computes on every input, which takes an induction over data that it does
  not offer: `TemplatesAreExpanded`, which compares two recursions on templates of any length.
