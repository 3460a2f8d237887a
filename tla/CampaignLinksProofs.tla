------------------------ MODULE CampaignLinksProofs ------------------------
(***************************************************************************)
(* For any threads, campaigns, slugs, targets, calls and seed: the safety  *)
(* invariants of CampaignLinks, and that it keeps the promise of           *)
(* LinkRegistry.                                                           *)
(***************************************************************************)
EXTENDS CampaignLinks, TLAPS, SequenceTheorems

-----------------------------------------------------------------------------
(* Types *)

\* The links a change leaves are links.
LEMMA ChangeType ==
    ASSUME NEW ls \in SUBSET Links, NEW c \in CallSet
    PROVE  Added(ls, c) \in SUBSET Links /\ Deactivated(ls, c) \in SUBSET Links
  <1>1. [slug |-> c.slug, target |-> c.target, active |-> TRUE] \in Links
    BY DEF Links, CallSet
  <1>2. \A l \in ls : (IF l.slug = c.slug THEN [l EXCEPT !.active = FALSE] ELSE l) \in Links
    BY DEF Links
  <1>3. QED
    BY <1>1, <1>2 DEF Added, Deactivated

\* What can be said is an answer.
LEMMA AnswerType ==
    ASSUME TypeOK, NEW t \in Threads,
           NEW what \in [kind : Kinds, links : SUBSET Links, rows : SUBSET Rows],
           Answer(t, what)
    PROVE  /\ pc' \in [Threads -> Steps]
           /\ answer' \in [Threads -> [kind : Kinds, links : SUBSET Links, rows : SUBSET Rows]]
  BY DEF TypeOK, Answer, Goto, Steps

LEMMA SayType ==
    ASSUME NEW kind \in Kinds
    PROVE  Say(kind) \in [kind : Kinds, links : SUBSET Links, rows : SUBSET Rows]
  BY DEF Say

\* A thread past its entry names a step.
LEMMA EntryType == \A op \in Ops : Entry[op] \in Steps
  BY DEF Entry, Ops, Steps

LEMMA RowType ==
    ASSUME TypeOK, NEW t \in Threads, scan[t].at <= Len(order), scan[t].at >= 1
    PROVE  Row(t) \in SUBSET Links
  BY DEF TypeOK, Row

\* Every reachable state is well formed (the invariant TypeOK), with the positions
\* of the scans starting at the first row.
Positions == \A t \in Threads : scan[t].at >= 1

LEMMA InitType == Init => TypeOK /\ Positions
  <1> SUFFICES ASSUME Init PROVE TypeOK /\ Positions
    OBVIOUS
  <1> USE CallsAssumption, SeedAssumption DEF Init
  <1>1. order \in Seq(Campaigns) /\ links \in [Campaigns -> SUBSET Links]
    OBVIOUS
  <1>2. verdicts \in [Targets -> Rulings]
    BY DEF Rulings
  <1>3. pc \in [Threads -> Steps] /\ call \in [Threads -> CallSet]
    BY DEF Steps
  <1>4. answer \in [Threads -> [kind : Kinds, links : SUBSET Links, rows : SUBSET Rows]]
    BY DEF Nothing, Kinds
  <1>5. /\ scan \in [Threads -> [at : Nat, size : Nat]]
        /\ held \in [Threads -> SUBSET Links]
        /\ Positions
    BY DEF Positions
  <1>6. tainted \subseteq Campaigns /\ vied \subseteq Slugs
    OBVIOUS
  <1>7. QED
    BY <1>1, <1>2, <1>3, <1>4, <1>5, <1>6 DEF TypeOK

\* The steps that only say something.
LEMMA SayingType ==
    ASSUME TypeOK, Positions, NEW t \in Threads,
           \/ BreakScan(t) \/ RefuseSlug(t) \/ ResolveNothing(t) \/ MissCampaign(t)
           \/ RefuseChange(t)
    PROVE  TypeOK' /\ Positions'
  <1>1. PICK kind \in Kinds : Answer(t, Say(kind))
    <2>1. Refusal(links[call[t].campaign], call[t]) \in Kinds
      BY DEF Refusal, Kinds
    <2>2. QED
      BY <2>1 DEF BreakScan, RefuseSlug, ResolveNothing, MissCampaign, RefuseChange, Kinds
  <1>2. Say(kind) \in [kind : Kinds, links : SUBSET Links, rows : SUBSET Rows]
    BY SayType
  <1>3. /\ pc' \in [Threads -> Steps]
        /\ answer' \in [Threads -> [kind : Kinds, links : SUBSET Links, rows : SUBSET Rows]]
    BY <1>1, <1>2, AnswerType
  <1>4. UNCHANGED <<order, links, verdicts, call, scan, held, tainted, vied>>
    BY DEF BreakScan, RefuseSlug, ResolveNothing, MissCampaign, RefuseChange, store
  <1>5. QED
    BY <1>3, <1>4 DEF TypeOK, Positions

\* The steps that answer with links or with rows.
LEMMA ShowingType ==
    ASSUME TypeOK, Positions, NEW t \in Threads,
           ResolveSlug(t) \/ FindCampaign(t) \/ ListVerdicts(t)
    PROVE  TypeOK' /\ Positions'
  <1> DEFINE Said == [kind : Kinds, links : SUBSET Links, rows : SUBSET Rows]
  <1>1. ASSUME ResolveSlug(t) PROVE \E what \in Said : Answer(t, what)
    <2> DEFINE led == {l \in Row(t) : l.slug = call[t].slug /\ l.active}
    <2>1. Row(t) \in SUBSET Links
      BY <1>1, RowType DEF ResolveSlug, Positions
    <2>2. [kind |-> "redirect", links |-> led, rows |-> {}] \in Said
      BY <2>1 DEF Kinds
    <2>3. Say("internal") \in Said /\ Say("link_not_found") \in Said
      BY SayType DEF Kinds
    <2>4. QED
      BY <1>1, <2>2, <2>3 DEF ResolveSlug
  <1>2. ASSUME FindCampaign(t) PROVE \E what \in Said : Answer(t, what)
    <2>1. [kind |-> "ok", links |-> links[call[t].campaign], rows |-> {}] \in Said
      BY DEF TypeOK, CallSet, Kinds
    <2>2. QED
      BY <1>2, <2>1 DEF FindCampaign
  <1>3. ASSUME ListVerdicts(t) PROVE \E what \in Said : Answer(t, what)
    <2>1. \A l \in held[t] : RowOf(l) \in Rows
      BY DEF TypeOK, RowOf, Rows, Links
    <2>2. [kind |-> "ok", links |-> {}, rows |-> {RowOf(l) : l \in held[t]}] \in Said
      BY <2>1 DEF Kinds
    <2>3. Say("internal") \in Said
      BY SayType DEF Kinds
    <2>4. QED
      BY <1>3, <2>2, <2>3 DEF ListVerdicts
  <1>4. /\ pc' \in [Threads -> Steps]
        /\ answer' \in [Threads -> Said]
    BY <1>1, <1>2, <1>3, AnswerType
  <1>5. UNCHANGED <<order, links, verdicts, call, scan, held, tainted, vied>>
    BY DEF ResolveSlug, FindCampaign, ListVerdicts, store
  <1>6. QED
    BY <1>4, <1>5 DEF TypeOK, Positions

\* The steps that move a thread on without touching the store.
LEMMA MovingType ==
    ASSUME TypeOK, Positions, NEW t \in Threads,
           ReceiveRequest(t) \/ OpenScan(t) \/ PassRow(t) \/ AdmitSlug(t)
    PROVE  TypeOK' /\ Positions'
  <1> DEFINE Said == [kind : Kinds, links : SUBSET Links, rows : SUBSET Rows]
  <1>1. CASE ReceiveRequest(t)
    <2>1. Entry[call[t].op] \in Steps
      BY EntryType DEF TypeOK, CallSet
    <2>2. Say("rejected") \in Said
      BY SayType DEF Kinds
    <2>3. pc' \in [Threads -> Steps] /\ answer' \in [Threads -> Said]
      <3>1. CASE Answer(t, Say("rejected"))
        BY <3>1, <2>2, AnswerType
      <3>2. CASE Goto(t, Entry[call[t].op]) /\ UNCHANGED answer
        BY <3>2, <2>1 DEF Goto, TypeOK
      <3>3. QED
        BY <1>1, <3>1, <3>2 DEF ReceiveRequest
    <2>4. UNCHANGED <<order, links, verdicts, call, scan, held, tainted, vied>>
      BY <1>1 DEF ReceiveRequest, store
    <2>5. QED
      BY <2>3, <2>4 DEF TypeOK, Positions
  <1>2. CASE OpenScan(t)
    <2>1. Len(order) \in Nat
      BY DEF TypeOK
    <2>2. scan' \in [Threads -> [at : Nat, size : Nat]] /\ Positions'
      BY <1>2, <2>1 DEF TypeOK, Positions, OpenScan
    <2>3. vied' \subseteq Slugs
      BY <1>2 DEF TypeOK, OpenScan, CallSet
    <2>4. pc' \in [Threads -> Steps]
      BY <1>2 DEF TypeOK, OpenScan, Goto, Steps
    <2>5. UNCHANGED <<order, links, verdicts, call, answer, held, tainted>>
      BY <1>2 DEF OpenScan, store
    <2>6. QED
      BY <2>2, <2>3, <2>4, <2>5 DEF TypeOK
  <1>3. CASE PassRow(t)
    <2>1. scan' \in [Threads -> [at : Nat, size : Nat]] /\ Positions'
      <3> DEFINE next == [at |-> scan[t].at + 1, size |-> scan[t].size]
      <3>1. scan[t] \in [at : Nat, size : Nat] /\ scan[t].at + 1 >= 1
        BY DEF TypeOK, Positions
      <3>2. next \in [at : Nat, size : Nat] /\ next.at >= 1
        BY <3>1
      <3>3. scan' = [scan EXCEPT ![t] = next]
        <4>1. [scan[t] EXCEPT !.at = scan[t].at + 1] = next
          BY <3>1
        <4>2. scan' = [scan EXCEPT ![t] = [scan[t] EXCEPT !.at = scan[t].at + 1]]
          BY <1>3 DEF PassRow
        <4>3. QED
          BY <4>1, <4>2
      <3> HIDE DEF next
      <3>4. QED
        BY <3>2, <3>3 DEF TypeOK, Positions
    <2>2. UNCHANGED <<order, links, verdicts, pc, call, answer, held, tainted, vied>>
      BY <1>3 DEF PassRow, store
    <2>3. QED
      BY <2>1, <2>2 DEF TypeOK
  <1>4. CASE AdmitSlug(t)
    <2>1. Say("target_blocked") \in Said
      BY SayType DEF Kinds
    <2>2. pc' \in [Threads -> Steps] /\ answer' \in [Threads -> Said]
      <3>1. CASE Answer(t, Say("target_blocked"))
        BY <3>1, <2>1, AnswerType
      <3>2. CASE Goto(t, "loading") /\ UNCHANGED answer
        BY <3>2 DEF Goto, TypeOK, Steps
      <3>3. QED
        BY <1>4, <3>1, <3>2 DEF AdmitSlug
    <2>3. UNCHANGED <<order, links, verdicts, call, scan, held, tainted, vied>>
      BY <1>4 DEF AdmitSlug, store
    <2>4. QED
      BY <2>2, <2>3 DEF TypeOK, Positions
  <1>5. QED
    BY <1>1, <1>2, <1>3, <1>4

\* The steps that read from the store or write to it.
LEMMA StoringType ==
    ASSUME TypeOK, Positions, NEW t \in Threads,
           \/ CreateCampaign(t) \/ CheckTarget(t) \/ LoadCampaign(t) \/ SaveCampaign(t)
           \/ ListLinks(t)
    PROVE  TypeOK' /\ Positions'
  <1>1. CASE CreateCampaign(t)
    <2>1. PICK c \in Campaigns :
             /\ order' = Append(order, c)
             /\ links' = [links EXCEPT ![c] = {}]
             /\ call' = [call EXCEPT ![t].campaign = c]
      BY <1>1 DEF CreateCampaign
    <2>2. order' \in Seq(Campaigns)
      BY <2>1 DEF TypeOK
    <2>3. links' \in [Campaigns -> SUBSET Links]
      BY <2>1 DEF TypeOK
    <2>4. call' \in [Threads -> CallSet]
      <3>1. [call[t] EXCEPT !.campaign = c] \in CallSet
        BY ZenonT(60) DEF TypeOK, CallSet
      <3>2. QED
        BY <2>1, <3>1 DEF TypeOK
    <2>5. pc' \in [Threads -> Steps]
      BY <1>1 DEF TypeOK, CreateCampaign, Goto, Steps
    <2>6. UNCHANGED <<verdicts, answer, scan, held, tainted, vied>>
      BY <1>1 DEF CreateCampaign
    <2>7. QED
      BY <2>2, <2>3, <2>4, <2>5, <2>6 DEF TypeOK, Positions
  <1>2. CASE CheckTarget(t)
    <2>1. verdicts' \in [Targets -> Rulings] /\ pc' \in [Threads -> Steps]
      BY <1>2 DEF TypeOK, CheckTarget, Ruling, Rulings, Goto, Steps
    <2>2. UNCHANGED <<order, links, call, answer, scan, held, tainted, vied>>
      BY <1>2 DEF CheckTarget
    <2>3. QED
      BY <2>1, <2>2 DEF TypeOK, Positions
  <1>3. CASE LoadCampaign(t)
    <2> DEFINE c == call[t].campaign
    <2>1. c \in Campaigns /\ call[t] \in CallSet /\ links[c] \in SUBSET Links
      BY DEF TypeOK, CallSet
    <2>2. /\ Added(links[c], call[t]) \in SUBSET Links
          /\ Deactivated(links[c], call[t]) \in SUBSET Links
      BY <2>1, ChangeType
    <2>3. held' \in [Threads -> SUBSET Links]
      BY <1>3, <2>2 DEF TypeOK, LoadCampaign
    <2>4. tainted' \subseteq Campaigns
      BY <1>3, <2>1 DEF TypeOK, LoadCampaign
    <2>5. pc' \in [Threads -> Steps]
      BY <1>3 DEF TypeOK, LoadCampaign, Goto, Steps
    <2>6. UNCHANGED <<order, links, verdicts, call, answer, scan, vied>>
      BY <1>3 DEF LoadCampaign, store
    <2>7. QED
      BY <2>3, <2>4, <2>5, <2>6 DEF TypeOK, Positions
  <1>4. CASE SaveCampaign(t)
    <2>1. links' \in [Campaigns -> SUBSET Links] /\ pc' \in [Threads -> Steps]
      BY <1>4 DEF TypeOK, SaveCampaign, Goto, Steps
    <2>2. UNCHANGED <<order, verdicts, call, answer, scan, held, tainted, vied>>
      BY <1>4 DEF SaveCampaign
    <2>3. QED
      BY <2>1, <2>2 DEF TypeOK, Positions
  <1>5. CASE ListLinks(t)
    <2>1. \A i \in 1..Len(order) : links[order[i]] \in SUBSET Links
      BY DEF TypeOK
    <2>2. held' \in [Threads -> SUBSET Links] /\ pc' \in [Threads -> Steps]
      BY <1>5, <2>1 DEF TypeOK, ListLinks, Goto, Steps
    <2>3. UNCHANGED <<order, links, verdicts, call, answer, scan, tainted, vied>>
      BY <1>5 DEF ListLinks, store
    <2>4. QED
      BY <2>2, <2>3 DEF TypeOK, Positions
  <1>6. QED
    BY <1>1, <1>2, <1>3, <1>4, <1>5

LEMMA StepType == TypeOK /\ Positions /\ [Next]_vars => TypeOK' /\ Positions'
  <1> SUFFICES ASSUME TypeOK, Positions, [Next]_vars PROVE TypeOK' /\ Positions'
    OBVIOUS
  <1>1. CASE Next
    BY <1>1, SayingType, ShowingType, MovingType, StoringType DEF Next
  <1>2. CASE UNCHANGED vars
    BY <1>2 DEF vars, TypeOK, Positions
  <1>3. QED
    BY <1>1, <1>2

\* TypeOK: every reachable state of the context is well formed.
THEOREM LinksTypeCorrect == Spec => []TypeOK
  <1>1. Spec => [](TypeOK /\ Positions)
    BY InitType, StepType, PTL DEF Spec
  <1>2. QED
    BY <1>1, PTL

-----------------------------------------------------------------------------
(* What a change does to a set of links                                      *)

Changed(ls, c) == IF c.op = "add" THEN Added(ls, c) ELSE Deactivated(ls, c)
After(l, c) == IF l.slug = c.slug THEN [l EXCEPT !.active = FALSE] ELSE l
Writes(c) == c.op \in {"add", "deactivate"}

\* What it takes for a change not to be refused.
LEMMA Admitted ==
    ASSUME NEW ls, NEW c, Refusal(ls, c) = "none"
    PROVE  /\ Rebuildable(ls)
           /\ c.op = "add" => ~Carries(ls, c.slug)
           /\ c.op # "add" => Carries(ls, c.slug)
  BY DEF Refusal

\* A slug a change brings in is the one an add was asked for.
LEMMA ChangeCarries ==
    ASSUME NEW ls \in SUBSET Links, NEW c \in CallSet, NEW s, Carries(Changed(ls, c), s)
    PROVE  Carries(ls, s) \/ (c.op = "add" /\ s = c.slug)
  <1>1. CASE c.op = "add"
    BY <1>1 DEF Changed, Added, Carries
  <1>2. CASE c.op # "add"
    <2>1. PICK l \in ls : (IF l.slug = c.slug THEN [l EXCEPT !.active = FALSE] ELSE l).slug = s
      BY <1>2 DEF Changed, Deactivated, Carries
    <2>2. l.slug = s
      BY <2>1 DEF Links
    <2>3. QED
      BY <2>2 DEF Carries
  <1>3. QED
    BY <1>1, <1>2

\* A record that could be built again still can be after a change.
LEMMA ChangeRebuilds ==
    ASSUME NEW ls \in SUBSET Links, NEW c \in CallSet, Refusal(ls, c) = "none"
    PROVE  Rebuildable(Changed(ls, c))
  <1>1. Rebuildable(ls)
    BY Admitted
  <1>2. CASE c.op = "add"
    <2> DEFINE new == [slug |-> c.slug, target |-> c.target, active |-> TRUE]
    <2>1. Changed(ls, c) = ls \union {new} /\ new.slug = c.slug
      BY <1>2 DEF Changed, Added
    <2>2. \A l \in ls : l.slug # new.slug
      BY <1>2, <2>1, Admitted DEF Carries
    <2> HIDE DEF new
    <2>3. QED
      BY <1>1, <2>1, <2>2 DEF Rebuildable
  <1>3. CASE c.op # "add"
    <2>1. \A l \in ls : After(l, c).slug = l.slug
      BY DEF Links, After
    <2>2. ASSUME NEW l \in ls, NEW m \in ls, After(l, c).slug = After(m, c).slug PROVE After(l, c) = After(m, c)
      <3>1. l = m
        BY <1>1, <2>1, <2>2 DEF Rebuildable
      <3>2. QED
        BY <3>1
    <2>3. Changed(ls, c) = {After(l, c) : l \in ls}
      BY <1>3 DEF Changed, Deactivated, After
    <2>4. \A a \in Changed(ls, c) : \E l \in ls : a = After(l, c)
      BY <2>3
    <2>5. QED
      BY <2>2, <2>4 DEF Rebuildable
  <1>4. QED
    BY <1>2, <1>3

\* A change shows in what it leaves.
LEMMA ChangeShows ==
    ASSUME NEW ls \in SUBSET Links, NEW c \in CallSet, Refusal(ls, c) = "none"
    PROVE  ShownIn(c, Changed(ls, c))
  <1>1. CASE c.op = "add"
    <2> DEFINE new == [slug |-> c.slug, target |-> c.target, active |-> TRUE]
    <2>1. new \in Changed(ls, c) /\ new.slug = c.slug /\ new.target = c.target
      BY <1>1 DEF Changed, Added
    <2>2. QED
      BY <1>1, <2>1 DEF ShownIn
  <1>2. CASE c.op # "add"
    <2>1. Changed(ls, c) = {After(l, c) : l \in ls}
      BY <1>2 DEF Changed, Deactivated, After
    <2>2. \A l \in ls : After(l, c).slug = l.slug /\ (l.slug = c.slug => ~After(l, c).active)
      BY DEF Links, After
    <2>3. PICK l \in ls : l.slug = c.slug
      BY <1>2, Admitted DEF Carries
    <2>4. Carries(Changed(ls, c), c.slug)
      BY <2>1, <2>2, <2>3 DEF Carries
    <2>5. \A m \in Changed(ls, c) : m.slug = c.slug => ~m.active
      BY <2>1, <2>2
    <2>6. QED
      BY <1>2, <2>4, <2>5 DEF ShownIn
  <1>3. QED
    BY <1>1, <1>2

\* What shows before a change shows after it.
LEMMA ChangeKeeps ==
    ASSUME NEW ls \in SUBSET Links, NEW c \in CallSet, NEW d \in CallSet,
           Refusal(ls, c) = "none", ShownIn(d, ls)
    PROVE  ShownIn(d, Changed(ls, c))
  <1>1. CASE c.op = "add"
    <2> DEFINE new == [slug |-> c.slug, target |-> c.target, active |-> TRUE]
    <2>1. Changed(ls, c) = ls \union {new} /\ new.slug = c.slug
      BY <1>1 DEF Changed, Added
    <2>2. CASE d.op = "add"
      BY <2>1, <2>2 DEF ShownIn
    <2>3. CASE d.op # "add"
      <3>1. Carries(ls, d.slug) /\ ~Carries(ls, c.slug)
        BY <1>1, <2>3, Admitted DEF ShownIn
      <3>2. d.slug # c.slug
        BY <3>1
      <3> HIDE DEF new
      <3>3. QED
        BY <2>1, <2>3, <3>1, <3>2 DEF ShownIn, Carries
    <2>4. QED
      BY <2>2, <2>3
  <1>2. CASE c.op # "add"
    <2>1. Changed(ls, c) = {After(l, c) : l \in ls}
      BY <1>2 DEF Changed, Deactivated, After
    <2>2. \A l \in ls : After(l, c).slug = l.slug /\ After(l, c).target = l.target
      BY DEF Links, After
    <2>2a. ASSUME NEW l \in ls, ~l.active PROVE ~After(l, c).active
      BY <2>2a DEF Links, After
    <2>3. CASE d.op = "add"
      <3>1. PICK l \in ls : l.slug = d.slug /\ l.target = d.target
        BY <2>3 DEF ShownIn
      <3>2. After(l, c) \in Changed(ls, c) /\ After(l, c).slug = d.slug /\ After(l, c).target = d.target
        BY <2>1, <2>2, <3>1
      <3>3. QED
        BY <2>3, <3>2 DEF ShownIn
    <2>4. CASE d.op # "add"
      <3>1. PICK l \in ls : l.slug = d.slug
        BY <2>4 DEF ShownIn, Carries
      <3>2. After(l, c) \in Changed(ls, c) /\ After(l, c).slug = d.slug
        BY <2>1, <2>2, <3>1
      <3>3. ASSUME NEW m \in Changed(ls, c), m.slug = d.slug PROVE ~m.active
        <4>1. PICK k \in ls : m = After(k, c)
          BY <2>1
        <4>2. k.slug = d.slug
          BY <2>2, <3>3, <4>1
        <4>3. ~k.active
          BY <2>4, <4>2 DEF ShownIn
        <4>4. QED
          BY <2>2a, <4>1, <4>3
      <3>4. QED
        BY <2>4, <3>2, <3>3 DEF ShownIn, Carries
    <2>5. QED
      BY <2>3, <2>4
  <1>3. QED
    BY <1>1, <1>2

-----------------------------------------------------------------------------
(* One writer to an untainted campaign                                       *)

\* A thread's step belongs to its operation, and an answer ends it.
StepsOK == \A t \in Threads :
    /\ pc[t] = "creating" => call[t].op = "create"
    /\ pc[t] = "checking" => call[t].op = "add"
    /\ pc[t] \in {"opening", "scanning"} => call[t].op \in {"add", "resolve"}
    /\ pc[t] \in {"loading", "saving"} => Writes(call[t])
    /\ pc[t] = "viewing" => call[t].op \in {"create", "add", "deactivate", "get"}
    /\ pc[t] \in {"listing", "ruling"} => call[t].op = "report"
    /\ answer[t].kind # "none" => pc[t] = "done"

\* Only campaigns that exist have links, one to a slug.
StoreOK == \A c \in Campaigns : /\ links[c] # {} => Exists(c)
                               /\ Rebuildable(links[c])

\* What a writer will save can be built again, and is what it was asked for
\* applied to what is there, unless the campaign is tainted.
WritersOK == \A t \in Threads : pc[t] = "saving" =>
    LET c == call[t].campaign IN
    /\ Exists(c)
    /\ Rebuildable(held[t])
    /\ c \notin tainted => /\ Refusal(links[c], call[t]) = "none"
                          /\ held[t] = Changed(links[c], call[t])

OneWriter == \A t, u \in Threads :
    /\ pc[t] = "saving" /\ pc[u] = "saving" /\ t # u
    /\ call[t].campaign = call[u].campaign
    => call[t].campaign \in tainted

Saved(t) == Writes(call[t]) /\ (pc[t] = "viewing" \/ answer[t].kind = "ok")
SavedOK == \A t \in Threads : Saved(t) =>
    /\ Exists(call[t].campaign)
    /\ call[t].campaign \notin tainted => ShownIn(call[t], links[call[t].campaign])

StoreInv == TypeOK /\ Positions /\ StepsOK /\ StoreOK /\ WritersOK /\ OneWriter /\ SavedOK

\* What another thread's step leaves alone.
Others(t) == \A u \in Threads \ {t} :
    /\ pc'[u] = pc[u] /\ call'[u] = call[u] /\ answer'[u] = answer[u]
    /\ scan'[u] = scan[u] /\ held'[u] = held[u]

\* A step that neither loads for a change, nor saves, nor creates.
Plain(t) ==
    /\ UNCHANGED <<order, links, call, tainted>>
    /\ Others(t)
    /\ pc[t] # "saving" /\ pc'[t] # "saving"
    /\ Writes(call[t]) /\ pc'[t] = "viewing" => pc[t] = "viewing"
    /\ Writes(call[t]) /\ answer'[t].kind = "ok" => pc[t] = "viewing"

LEMMA SayingPlain ==
    ASSUME TypeOK, StepsOK, NEW t \in Threads,
           \/ BreakScan(t) \/ RefuseSlug(t) \/ ResolveSlug(t) \/ ResolveNothing(t)
           \/ MissCampaign(t) \/ RefuseChange(t) \/ FindCampaign(t) \/ ListVerdicts(t)
    PROVE  /\ Plain(t) /\ StepsOK'
           /\ UNCHANGED <<order, links, verdicts, call, scan, held, tainted, vied>>
           /\ pc'[t] = "done"
  <1>1. PICK what : Answer(t, what)
    BY DEF BreakScan, RefuseSlug, ResolveSlug, ResolveNothing, MissCampaign, RefuseChange,
           FindCampaign, ListVerdicts
  <1>2. UNCHANGED <<order, links, verdicts, call, scan, held, tainted, vied>>
    BY DEF BreakScan, RefuseSlug, ResolveSlug, ResolveNothing, MissCampaign, RefuseChange,
           FindCampaign, ListVerdicts, store
  <1>3. pc[t] \in {"scanning", "loading", "viewing", "ruling"}
    BY DEF BreakScan, RefuseSlug, ResolveSlug, ResolveNothing, MissCampaign, RefuseChange,
           FindCampaign, ListVerdicts, Scanning
  <1>4. pc' = [pc EXCEPT ![t] = "done"] /\ answer' = [answer EXCEPT ![t] = what]
    BY <1>1 DEF Answer, Goto
  <1>5. Writes(call[t]) /\ what.kind = "ok" => pc[t] = "viewing"
    <2>1. CASE FindCampaign(t)
      BY <2>1 DEF FindCampaign
    <2>2. CASE ListVerdicts(t)
      BY <2>2 DEF ListVerdicts, StepsOK, Writes
    <2>3. CASE ResolveSlug(t)
      BY <2>3 DEF ResolveSlug, Writes
    <2>4. CASE BreakScan(t) \/ RefuseSlug(t) \/ ResolveNothing(t) \/ MissCampaign(t)
      <3>1. PICK kind \in Kinds \ {"ok"} : Answer(t, Say(kind))
        BY <2>4 DEF BreakScan, RefuseSlug, ResolveNothing, MissCampaign, Kinds
      <3>2. what = Say(kind)
        BY <1>4, <3>1 DEF Answer, TypeOK
      <3>3. QED
        BY <3>2 DEF Say
    <2>5. CASE RefuseChange(t)
      <3>1. PICK kind \in Kinds \ {"ok"} : Answer(t, Say(kind))
        BY <2>5 DEF RefuseChange, Refusal, Kinds
      <3>2. what = Say(kind)
        BY <1>4, <3>1 DEF Answer, TypeOK
      <3>3. QED
        BY <3>2 DEF Say
    <2>6. QED
      BY <2>1, <2>2, <2>3, <2>4, <2>5
  <1>6. Others(t) /\ pc'[t] = "done" /\ answer'[t] = what
    BY <1>2, <1>4 DEF Others, TypeOK
  <1>7. StepsOK'
    BY <1>2, <1>6 DEF StepsOK, Others
  <1>8. QED
    BY <1>2, <1>3, <1>5, <1>6, <1>7 DEF Plain

LEMMA MovingPlain ==
    ASSUME TypeOK, StepsOK, NEW t \in Threads,
           \/ ReceiveRequest(t) \/ CheckTarget(t) \/ OpenScan(t) \/ PassRow(t)
           \/ AdmitSlug(t) \/ ListLinks(t)
    PROVE  Plain(t) /\ StepsOK'
  <1>1. CASE ReceiveRequest(t)
    <2>1. UNCHANGED <<order, links, call, tainted, scan, held>> /\ pc[t] = "idle"
      BY <1>1 DEF ReceiveRequest, store
    <2>2. CASE Answer(t, Say("rejected"))
      <3>1. Others(t) /\ pc'[t] = "done" /\ answer'[t].kind = "rejected"
        BY <2>1, <2>2 DEF Others, TypeOK, Answer, Goto, Say
      <3>2. QED
        BY <2>1, <3>1 DEF Others, StepsOK, Plain
    <2>3. CASE Goto(t, Entry[call[t].op]) /\ UNCHANGED answer
      <3>1. Others(t) /\ pc'[t] = Entry[call[t].op] /\ answer'[t] = answer[t]
        BY <2>1, <2>3 DEF Others, TypeOK, Goto
      <3>2. call[t].op \in Ops
        BY DEF TypeOK, CallSet
      <3>3. answer[t].kind = "none"
        BY <2>1 DEF StepsOK
      <3>4. /\ Entry["create"] = "creating" /\ Entry["add"] = "checking"
            /\ Entry["deactivate"] = "loading" /\ Entry["get"] = "viewing"
            /\ Entry["resolve"] = "opening" /\ Entry["report"] = "listing"
        BY DEF Entry
      <3>5. Plain(t)
        BY <2>1, <3>1, <3>2, <3>3, <3>4 DEF Plain, Ops, Writes
      <3>6. StepsOK'
        BY <2>1, <3>1, <3>2, <3>3, <3>4 DEF StepsOK, Others, Ops, Writes
      <3>7. QED
        BY <3>5, <3>6
    <2>4. QED
      BY <1>1, <2>2, <2>3 DEF ReceiveRequest
  <1>2. CASE CheckTarget(t) \/ OpenScan(t) \/ PassRow(t) \/ ListLinks(t)
    <2>1. UNCHANGED <<order, links, call, tainted, answer>>
      BY <1>2 DEF CheckTarget, OpenScan, PassRow, ListLinks, store
    <2>2. Others(t)
      BY <1>2 DEF CheckTarget, OpenScan, PassRow, ListLinks, Others, Goto, TypeOK, store
    <2>3. \/ pc[t] = "checking" /\ pc'[t] = "opening"
          \/ pc[t] = "opening" /\ pc'[t] = "scanning"
          \/ pc[t] = "scanning" /\ pc'[t] = "scanning"
          \/ pc[t] = "listing" /\ pc'[t] = "ruling"
      BY <1>2 DEF CheckTarget, OpenScan, PassRow, ListLinks, Goto, TypeOK, Scanning
    <2>4. Plain(t)
      BY <2>1, <2>2, <2>3 DEF Plain, StepsOK
    <2>5. StepsOK'
      BY <2>1, <2>2, <2>3 DEF StepsOK, Others
    <2>6. QED
      BY <2>4, <2>5
  <1>3. CASE AdmitSlug(t)
    <2>1. UNCHANGED <<order, links, call, tainted, scan, held>>
      BY <1>3 DEF AdmitSlug, store
    <2>2. pc[t] = "scanning" /\ call[t].op = "add"
      BY <1>3 DEF AdmitSlug, Scanning
    <2>3. \/ Answer(t, Say("target_blocked"))
          \/ Goto(t, "loading") /\ UNCHANGED answer
      BY <1>3 DEF AdmitSlug
    <2>4. /\ Others(t) /\ pc'[t] \in {"done", "loading"}
          /\ \/ pc'[t] = "done" /\ answer'[t].kind = "target_blocked"
             \/ pc'[t] = "loading" /\ answer'[t] = answer[t]
      BY <2>1, <2>3 DEF Others, Answer, Goto, Say, TypeOK
    <2>5. Plain(t)
      BY <2>1, <2>2, <2>4 DEF Plain, StepsOK
    <2>6. StepsOK'
      BY <2>1, <2>2, <2>4 DEF StepsOK, Others, Writes
    <2>7. QED
      BY <2>5, <2>6
  <1>4. QED
    BY <1>1, <1>2, <1>3

\* A plain step leaves the campaigns, their writers and what was saved as they were.
LEMMA PlainKeeps ==
    ASSUME StoreOK, WritersOK, OneWriter, SavedOK, NEW t \in Threads, Plain(t)
    PROVE  StoreOK' /\ WritersOK' /\ OneWriter' /\ SavedOK'
  <1>1. \A c : Exists(c)' <=> Exists(c)
    BY DEF Plain, Exists
  <1>2. links' = links /\ call' = call /\ tainted' = tainted
    BY DEF Plain
  <1>3. StoreOK'
    BY <1>1, <1>2 DEF StoreOK
  <1>4. \A u \in Threads : pc'[u] = "saving" => u # t /\ pc[u] = "saving" /\ held'[u] = held[u]
    BY DEF Plain, Others
  <1>5. WritersOK'
    BY <1>1, <1>2, <1>4 DEF WritersOK
  <1>6. OneWriter'
    BY <1>2, <1>4 DEF OneWriter
  <1>7. SavedOK'
    <2> SUFFICES ASSUME NEW u \in Threads, Saved(u)'
                 PROVE  /\ Exists(call[u].campaign)
                        /\ call[u].campaign \notin tainted
                             => ShownIn(call[u], links[call[u].campaign])
      BY <1>1, <1>2 DEF SavedOK
    <2>1. CASE u # t
      BY <1>2, <2>1 DEF Plain, Others, Saved, SavedOK
    <2>2. CASE u = t
      BY <1>2, <2>2 DEF Plain, Saved, SavedOK
    <2>3. QED
      BY <2>1, <2>2
  <1>8. QED
    BY <1>3, <1>5, <1>6, <1>7

-----------------------------------------------------------------------------
\* A new campaign is empty, and nobody writes to it.
LEMMA CreateKeeps ==
    ASSUME StoreInv, NEW t \in Threads, CreateCampaign(t)
    PROVE  StepsOK' /\ StoreOK' /\ WritersOK' /\ OneWriter' /\ SavedOK'
  <1>1. PICK c \in Campaigns :
           /\ ~Exists(c)
           /\ order' = Append(order, c)
           /\ links' = [links EXCEPT ![c] = {}]
           /\ call' = [call EXCEPT ![t].campaign = c]
    BY DEF CreateCampaign
  <1>2. pc[t] = "creating" /\ pc' = [pc EXCEPT ![t] = "viewing"]
    BY DEF CreateCampaign, Goto
  <1>3. UNCHANGED <<answer, held, scan, tainted>>
    BY DEF CreateCampaign
  <1>4. call[t].op = "create" /\ answer[t].kind = "none"
    BY <1>2 DEF StoreInv, StepsOK
  <1>5. links' = links
    BY <1>1 DEF StoreInv, StoreOK, TypeOK
  <1>6. \A d : Exists(d) => Exists(d)'
    BY <1>1 DEF StoreInv, TypeOK, Exists
  <1>7. call'[t].op = "create" /\ pc'[t] = "viewing"
    BY <1>1, <1>2, <1>4 DEF StoreInv, TypeOK, CallSet
  <1>8. Others(t)
    BY <1>1, <1>2, <1>3 DEF Others, StoreInv, TypeOK
  <1>9. StepsOK'
    BY <1>3, <1>4, <1>7, <1>8 DEF StoreInv, StepsOK, Others
  <1>10. StoreOK'
    BY <1>5, <1>6 DEF StoreInv, StoreOK
  <1>11. \A u \in Threads : pc'[u] = "saving" =>
            u # t /\ pc[u] = "saving" /\ held'[u] = held[u] /\ call'[u] = call[u]
    BY <1>7, <1>8 DEF Others
  <1>12. WritersOK'
    BY <1>3, <1>5, <1>6, <1>11 DEF StoreInv, WritersOK
  <1>13. OneWriter'
    BY <1>3, <1>11 DEF StoreInv, OneWriter
  <1>14. \A u \in Threads : Saved(u)' => u # t /\ Saved(u) /\ call'[u] = call[u]
    BY <1>7, <1>8 DEF Others, Saved, Writes
  <1>15. SavedOK'
    BY <1>3, <1>5, <1>6, <1>14 DEF StoreInv, SavedOK
  <1>16. QED
    BY <1>9, <1>10, <1>12, <1>13, <1>15

\* A load taints the campaign if another thread is about to save to it.
LEMMA LoadKeeps ==
    ASSUME StoreInv, NEW t \in Threads, LoadCampaign(t)
    PROVE  StepsOK' /\ StoreOK' /\ WritersOK' /\ OneWriter' /\ SavedOK'
  <1> DEFINE c == call[t].campaign
  <1>1. /\ pc[t] = "loading" /\ Exists(c) /\ Refusal(links[c], call[t]) = "none"
        /\ tainted' = IF Writers(c) # {} THEN tainted \union {c} ELSE tainted
        /\ pc' = [pc EXCEPT ![t] = "saving"]
        /\ UNCHANGED <<order, links, call, answer, scan>>
    BY DEF LoadCampaign, Goto, store
  <1>2. held' = [held EXCEPT ![t] = Changed(links[c], call[t])]
    BY DEF LoadCampaign, Changed
  <1>3. c \in Campaigns /\ call[t] \in CallSet /\ links[c] \in SUBSET Links
    BY DEF StoreInv, TypeOK, CallSet
  <1>4. /\ pc'[t] = "saving" /\ held'[t] = Changed(links[c], call[t])
        /\ Others(t)
    BY <1>1, <1>2 DEF StoreInv, TypeOK, Others
  <1>5. \A d : Exists(d)' <=> Exists(d)
    BY <1>1 DEF Exists
  <1>6. tainted \subseteq tainted'
    BY <1>1
  <1>7. StepsOK'
    BY <1>1, <1>4 DEF StoreInv, StepsOK, Others
  <1>8. StoreOK'
    BY <1>1, <1>5 DEF StoreInv, StoreOK
  <1>9. WritersOK'
    <2> SUFFICES ASSUME NEW u \in Threads, pc'[u] = "saving"
                 PROVE  LET d == call[u].campaign IN
                        /\ Exists(d)
                        /\ Rebuildable(held'[u])
                        /\ d \notin tainted' =>
                              /\ Refusal(links[d], call[u]) = "none"
                              /\ held'[u] = Changed(links[d], call[u])
      BY <1>1, <1>5 DEF WritersOK
    <2>1. CASE u = t
      BY <1>1, <1>3, <1>4, <2>1, ChangeRebuilds
    <2>2. CASE u # t
      BY <1>4, <1>6, <2>2 DEF StoreInv, WritersOK, Others
    <2>3. QED
      BY <2>1, <2>2
  <1>10. OneWriter'
    <2> SUFFICES ASSUME NEW u \in Threads, NEW v \in Threads, u # v,
                        pc'[u] = "saving", pc'[v] = "saving",
                        call[u].campaign = call[v].campaign
                 PROVE  call[u].campaign \in tainted'
      BY <1>1 DEF OneWriter
    <2>1. CASE u # t /\ v # t
      BY <1>4, <1>6, <2>1 DEF StoreInv, OneWriter, Others
    <2>2. CASE u = t
      <3>1. v \in Writers(c)
        BY <1>4, <2>2 DEF Others, Writers
      <3>2. QED
        BY <1>1, <2>2, <3>1
    <2>3. CASE v = t
      <3>1. u \in Writers(c)
        BY <1>4, <2>3 DEF Others, Writers
      <3>2. QED
        BY <1>1, <2>3, <3>1
    <2>4. QED
      BY <2>1, <2>2, <2>3
  <1>11. \A u \in Threads : Saved(u)' => Saved(u)
    <2>1. answer[t].kind = "none"
      BY <1>1 DEF StoreInv, StepsOK
    <2>2. QED
      BY <1>1, <1>4, <2>1 DEF Others, Saved
  <1>12. SavedOK'
    BY <1>1, <1>5, <1>6, <1>11 DEF StoreInv, SavedOK
  <1>13. QED
    BY <1>7, <1>8, <1>9, <1>10, <1>12

\* A save to an untainted campaign writes what is there, changed once.
LEMMA SaveKeeps ==
    ASSUME StoreInv, NEW t \in Threads, SaveCampaign(t)
    PROVE  StepsOK' /\ StoreOK' /\ WritersOK' /\ OneWriter' /\ SavedOK'
  <1> DEFINE c == call[t].campaign
  <1>1. /\ pc[t] = "saving"
        /\ links' = [links EXCEPT ![c] = held[t]]
        /\ pc' = [pc EXCEPT ![t] = "viewing"]
        /\ UNCHANGED <<order, call, answer, scan, held, tainted>>
    BY DEF SaveCampaign, Goto
  <1>2. c \in Campaigns /\ call[t] \in CallSet /\ links[c] \in SUBSET Links
    BY DEF StoreInv, TypeOK, CallSet
  <1>3. /\ Exists(c) /\ Rebuildable(held[t])
        /\ c \notin tainted => /\ Refusal(links[c], call[t]) = "none"
                              /\ held[t] = Changed(links[c], call[t])
    BY <1>1 DEF StoreInv, WritersOK
  <1>4. pc'[t] = "viewing" /\ Others(t)
    BY <1>1 DEF StoreInv, TypeOK, Others
  <1>5. \A d : Exists(d)' <=> Exists(d)
    BY <1>1 DEF Exists
  <1>6. links'[c] = held[t] /\ \A d \in Campaigns \ {c} : links'[d] = links[d]
    BY <1>1, <1>2 DEF StoreInv, TypeOK
  <1>7. StepsOK'
    BY <1>1, <1>4 DEF StoreInv, StepsOK, Others, Writes
  <1>8. StoreOK'
    BY <1>3, <1>5, <1>6 DEF StoreInv, StoreOK
  <1>9. \A u \in Threads : pc'[u] = "saving" => u # t /\ pc[u] = "saving"
    BY <1>4 DEF Others
  <1>10. WritersOK'
    <2> SUFFICES ASSUME NEW u \in Threads, pc'[u] = "saving"
                 PROVE  LET d == call[u].campaign IN
                        /\ Exists(d)
                        /\ Rebuildable(held[u])
                        /\ d \notin tainted =>
                              /\ Refusal(links'[d], call[u]) = "none"
                              /\ held[u] = Changed(links'[d], call[u])
      BY <1>1, <1>5 DEF WritersOK
    <2>1. u # t /\ pc[u] = "saving" /\ call[u].campaign \in Campaigns
      BY <1>9 DEF StoreInv, TypeOK, CallSet
    <2>2. call[u].campaign = c => c \in tainted
      BY <1>1, <2>1 DEF StoreInv, OneWriter
    <2>3. QED
      BY <1>6, <2>1, <2>2 DEF StoreInv, WritersOK
  <1>11. OneWriter'
    BY <1>1, <1>9 DEF StoreInv, OneWriter
  <1>12. SavedOK'
    <2> SUFFICES ASSUME NEW u \in Threads, Saved(u)'
                 PROVE  /\ Exists(call[u].campaign)
                        /\ call[u].campaign \notin tainted
                             => ShownIn(call[u], links'[call[u].campaign])
      BY <1>1, <1>5 DEF SavedOK
    <2>1. CASE u = t
      BY <1>2, <1>3, <1>6, <2>1, ChangeShows
    <2>2. CASE u # t
      <3>1. Saved(u) /\ call[u] \in CallSet /\ call[u].campaign \in Campaigns
        BY <1>1, <1>4, <2>2 DEF Others, Saved, StoreInv, TypeOK, CallSet
      <3>2. /\ Exists(call[u].campaign)
            /\ call[u].campaign \notin tainted
                 => ShownIn(call[u], links[call[u].campaign])
        BY <3>1 DEF StoreInv, SavedOK
      <3>3. CASE call[u].campaign = c
        BY <1>2, <1>3, <1>6, <3>1, <3>2, <3>3, ChangeKeeps
      <3>4. CASE call[u].campaign # c
        BY <1>6, <3>1, <3>2, <3>4
      <3>5. QED
        BY <3>3, <3>4
    <2>3. QED
      BY <2>1, <2>2
  <1>13. QED
    BY <1>7, <1>8, <1>10, <1>11, <1>12

LEMMA StoreInit == Init => StoreInv
  <1> SUFFICES ASSUME Init PROVE StoreInv
    OBVIOUS
  <1>1. TypeOK /\ Positions
    BY InitType
  <1>2. \A t \in Threads : pc[t] = "idle" /\ answer[t].kind = "none"
    BY DEF Init, Nothing
  <1>3. StepsOK /\ WritersOK /\ OneWriter /\ SavedOK
    BY <1>2 DEF StepsOK, WritersOK, OneWriter, SavedOK, Saved
  <1>4. StoreOK
    BY SeedAssumption DEF Init, StoreOK, Exists, Rebuildable
  <1>5. QED
    BY <1>1, <1>3, <1>4 DEF StoreInv

LEMMA StoreStep == StoreInv /\ [Next]_vars => StoreInv'
  <1> SUFFICES ASSUME StoreInv, [Next]_vars PROVE StoreInv'
    OBVIOUS
  <1>1. TypeOK' /\ Positions'
    BY StepType DEF StoreInv
  <1>2. CASE UNCHANGED vars
    <2>1. StepsOK' /\ StoreOK' /\ WritersOK' /\ OneWriter' /\ SavedOK'
      BY <1>2 DEF StoreInv, vars, StepsOK, StoreOK, WritersOK, OneWriter, SavedOK, Saved, Exists
    <2>2. QED
      BY <1>1, <2>1 DEF StoreInv
  <1>3. CASE Next
    <2>1. PICK t \in Threads :
             \/ ReceiveRequest(t) \/ CreateCampaign(t) \/ CheckTarget(t)
             \/ OpenScan(t) \/ BreakScan(t) \/ PassRow(t) \/ RefuseSlug(t) \/ AdmitSlug(t)
             \/ ResolveSlug(t) \/ ResolveNothing(t)
             \/ MissCampaign(t) \/ RefuseChange(t) \/ LoadCampaign(t) \/ SaveCampaign(t)
             \/ FindCampaign(t) \/ ListLinks(t) \/ ListVerdicts(t)
      BY <1>3 DEF Next
    <2>2. CASE CreateCampaign(t)
      BY <1>1, <2>2, CreateKeeps DEF StoreInv
    <2>3. CASE LoadCampaign(t)
      BY <1>1, <2>3, LoadKeeps DEF StoreInv
    <2>4. CASE SaveCampaign(t)
      BY <1>1, <2>4, SaveKeeps DEF StoreInv
    <2>5. CASE \/ BreakScan(t) \/ RefuseSlug(t) \/ ResolveSlug(t) \/ ResolveNothing(t)
               \/ MissCampaign(t) \/ RefuseChange(t) \/ FindCampaign(t) \/ ListVerdicts(t)
      BY <1>1, <2>5, SayingPlain, PlainKeeps DEF StoreInv
    <2>6. CASE \/ ReceiveRequest(t) \/ CheckTarget(t) \/ OpenScan(t) \/ PassRow(t)
               \/ AdmitSlug(t) \/ ListLinks(t)
      BY <1>1, <2>6, MovingPlain, PlainKeeps DEF StoreInv
    <2>7. QED
      BY <2>1, <2>2, <2>3, <2>4, <2>5, <2>6
  <1>4. QED
    BY <1>2, <1>3

\* RecordsReload: whatever the races, no record holds two links under one slug, so
\* ShortLinks can always be built again from what was saved.
THEOREM LinksRecordsReload == Spec => []RecordsReload
  <1>1. StoreInv => RecordsReload
    BY DEF StoreInv, StoreOK, WritersOK, RecordsReload
  <1>2. QED
    BY <1>1, StoreInit, StoreStep, PTL DEF Spec

\* ChangesSurvive: a change that was saved is lost only where two writers held one
\* campaign at the same time.
THEOREM LinksChangesSurvive == Spec => []ChangesSurvive
  <1>1. StoreInv => ChangesSurvive
    BY DEF StoreInv, SavedOK, Saved, Writes, ChangesSurvive
  <1>2. QED
    BY <1>1, StoreInit, StoreStep, PTL DEF Spec

-----------------------------------------------------------------------------
(* What is answered                                                          *)

\* An answer that claims a change is the one given before, or the links just found.
Shown(t) ==
    answer'[t].kind = "ok" /\ Writes(call'[t]) =>
        /\ call'[t] = call[t]
        /\ \/ answer'[t] = answer[t]
           \/ pc[t] = "viewing" /\ answer'[t].links = links[call[t].campaign]

LEMMA AnswersGrow ==
    ASSUME StoreInv, [Next]_vars
    PROVE  tainted \subseteq tainted' /\ \A u \in Threads : Shown(u)
  <1>1. CASE UNCHANGED vars
    BY <1>1 DEF vars, Shown
  <1>2. ASSUME NEW t \in Threads, CreateCampaign(t)
        PROVE  tainted \subseteq tainted' /\ \A u \in Threads : Shown(u)
    <2>1. pc[t] = "creating" /\ UNCHANGED <<answer, tainted>>
      BY <1>2 DEF CreateCampaign
    <2>2. answer'[t].kind = "none"
      BY <2>1 DEF StoreInv, StepsOK
    <2>3. \A u \in Threads \ {t} : call'[u] = call[u]
      BY <1>2 DEF CreateCampaign, StoreInv, TypeOK
    <2>4. QED
      BY <2>1, <2>2, <2>3 DEF Shown
  <1>3. ASSUME NEW t \in Threads,
               \/ CheckTarget(t) \/ OpenScan(t) \/ PassRow(t) \/ ListLinks(t)
               \/ LoadCampaign(t) \/ SaveCampaign(t)
        PROVE  tainted \subseteq tainted' /\ \A u \in Threads : Shown(u)
    <2>1. tainted \subseteq tainted' /\ UNCHANGED <<call, answer>>
      BY <1>3 DEF CheckTarget, OpenScan, PassRow, ListLinks, LoadCampaign, SaveCampaign, store
    <2>2. QED
      BY <2>1 DEF Shown
  <1>4. ASSUME NEW t \in Threads, FindCampaign(t)
        PROVE  tainted \subseteq tainted' /\ \A u \in Threads : Shown(u)
    <2>1. /\ pc[t] = "viewing" /\ UNCHANGED <<call, tainted>>
          /\ answer' = [answer EXCEPT ![t] =
                [kind |-> "ok", links |-> links[call[t].campaign], rows |-> {}]]
      BY <1>4 DEF FindCampaign, Answer, store
    <2>2. QED
      BY <2>1 DEF Shown, StoreInv, TypeOK
  <1>5. ASSUME NEW t \in Threads,
               \/ ReceiveRequest(t) \/ BreakScan(t) \/ RefuseSlug(t) \/ AdmitSlug(t)
               \/ ResolveSlug(t) \/ ResolveNothing(t) \/ MissCampaign(t) \/ RefuseChange(t)
        PROVE  tainted \subseteq tainted' /\ \A u \in Threads : Shown(u)
    <2>1. UNCHANGED <<call, tainted>>
      BY <1>5 DEF ReceiveRequest, BreakScan, RefuseSlug, AdmitSlug, ResolveSlug,
                  ResolveNothing, MissCampaign, RefuseChange, store
    <2>2. \/ UNCHANGED answer
          \/ \E what : what.kind # "ok" /\ answer' = [answer EXCEPT ![t] = what]
      <3>1. CASE ReceiveRequest(t) \/ BreakScan(t) \/ RefuseSlug(t) \/ AdmitSlug(t)
                 \/ ResolveNothing(t) \/ MissCampaign(t)
        <4>1. \/ UNCHANGED answer
              \/ \E kind \in Kinds \ {"ok"} : Answer(t, Say(kind))
          BY <3>1 DEF ReceiveRequest, BreakScan, RefuseSlug, AdmitSlug, ResolveNothing,
                      MissCampaign, Kinds
        <4>2. QED
          BY <4>1 DEF Answer, Say
      <3>2. CASE RefuseChange(t)
        <4>1. Refusal(links[call[t].campaign], call[t]) # "ok"
          BY DEF Refusal
        <4>2. QED
          BY <3>2, <4>1 DEF RefuseChange, Answer, Say
      <3>3. CASE ResolveSlug(t)
        BY <3>3 DEF ResolveSlug, Answer, Say
      <3>4. QED
        BY <1>5, <3>1, <3>2, <3>3
    <2>3. QED
      BY <2>1, <2>2 DEF Shown, StoreInv, TypeOK
  <1>6. ASSUME NEW t \in Threads, ListVerdicts(t)
        PROVE  tainted \subseteq tainted' /\ \A u \in Threads : Shown(u)
    <2>1. pc[t] = "ruling" /\ UNCHANGED <<call, tainted>>
      BY <1>6 DEF ListVerdicts, store
    <2>2. ~Writes(call[t])
      BY <2>1 DEF StoreInv, StepsOK, Writes
    <2>3. \A u \in Threads \ {t} : answer'[u] = answer[u]
      BY <1>6 DEF ListVerdicts, Answer, StoreInv, TypeOK
    <2>4. QED
      BY <2>1, <2>2, <2>3 DEF Shown
  <1>7. QED
    BY <1>1, <1>2, <1>3, <1>4, <1>5, <1>6 DEF Next

\* AnswersShowTheChange: the caller's own change shows in the answer, unless two
\* writers held the campaign at the same time.
THEOREM LinksAnswersShowTheChange == Spec => []AnswersShowTheChange
  <1>1. Init => AnswersShowTheChange
    BY DEF Init, Nothing, AnswersShowTheChange
  <1>2. StoreInv /\ AnswersShowTheChange /\ [Next]_vars => AnswersShowTheChange'
    <2> SUFFICES ASSUME StoreInv, AnswersShowTheChange, [Next]_vars,
                        NEW t \in Threads,
                        call'[t].op \in {"add", "deactivate"}, answer'[t].kind = "ok",
                        call'[t].campaign \notin tainted'
                 PROVE  ShownIn(call'[t], answer'[t].links)
      BY DEF AnswersShowTheChange
    <2>1. Shown(t) /\ call[t].campaign \notin tainted /\ call'[t] = call[t]
      BY AnswersGrow DEF Shown, Writes
    <2>2. CASE answer'[t] = answer[t]
      BY <2>1, <2>2 DEF AnswersShowTheChange
    <2>3. CASE pc[t] = "viewing" /\ answer'[t].links = links[call[t].campaign]
      BY <2>1, <2>3 DEF StoreInv, SavedOK, Saved, Writes
    <2>4. QED
      BY <2>1, <2>2, <2>3 DEF Shown, Writes
  <1>3. QED
    BY <1>1, <1>2, StoreInit, StoreStep, PTL DEF Spec

-----------------------------------------------------------------------------
(* One campaign to a slug                                                    *)

Excused(s, c) == s \in vied \/ c \in tainted
Seeker(t) == call[t].op = "add" /\ pc[t] \in {"scanning", "loading", "saving"}

\* Two adds after one slug vie for it.
OneSeeker == \A t, u \in Threads :
    Seeker(t) /\ Seeker(u) /\ t # u /\ call[t].slug = call[u].slug => call[t].slug \in vied

\* The rows an add has passed do not carry its slug, and when it has passed them
\* all, no campaign does.
PassedOK == \A t \in Threads : Seeker(t) /\ pc[t] = "scanning" =>
    /\ scan[t].size <= Len(order)
    /\ scan[t].size = Len(order) =>
          \A i \in 1..Len(order) :
              i < scan[t].at /\ Carries(links[order[i]], call[t].slug)
              => Excused(call[t].slug, order[i])

AdmittedOK == \A t \in Threads : Seeker(t) /\ pc[t] # "scanning" =>
    \A c \in Campaigns : Carries(links[c], call[t].slug) => Excused(call[t].slug, c)

HoldersOK == \A c, d \in Campaigns : \A s \in Slugs :
    c # d /\ Carries(links[c], s) /\ Carries(links[d], s)
    => s \in vied \/ c \in tainted \/ d \in tainted

SlugInv == OneSeeker /\ PassedOK /\ AdmittedOK /\ HoldersOK

\* An add after the slug was after it already, and as far.
Stays(t) == Seeker(t)' =>
    /\ Seeker(t) /\ call'[t] = call[t] /\ scan'[t] = scan[t]
    /\ pc'[t] = "scanning" <=> pc[t] = "scanning"

\* A step that changes no row and brings no add nearer to its slug.
LEMMA StayingKeeps ==
    ASSUME StoreInv, SlugInv,
           UNCHANGED <<order, links, vied>>, tainted \subseteq tainted',
           \A u \in Threads : Stays(u)
    PROVE  SlugInv'
  <1>1. \A s, c : Excused(s, c) => Excused(s, c)'
    BY DEF Excused
  <1>2. OneSeeker'
    BY DEF SlugInv, OneSeeker, Stays
  <1>3. PassedOK'
    BY <1>1 DEF SlugInv, PassedOK, Stays
  <1>4. AdmittedOK'
    BY <1>1 DEF SlugInv, AdmittedOK, Stays
  <1>5. HoldersOK'
    BY DEF SlugInv, HoldersOK
  <1>6. QED
    BY <1>2, <1>3, <1>4, <1>5 DEF SlugInv

LEMMA StayingSteps ==
    ASSUME StoreInv, SlugInv, NEW t \in Threads,
           \/ ReceiveRequest(t) \/ CheckTarget(t) \/ BreakScan(t) \/ RefuseSlug(t)
           \/ ResolveSlug(t) \/ ResolveNothing(t) \/ MissCampaign(t) \/ RefuseChange(t)
           \/ LoadCampaign(t) \/ FindCampaign(t) \/ ListLinks(t) \/ ListVerdicts(t)
    PROVE  SlugInv'
  <1>1. UNCHANGED <<order, links, vied, call, scan>> /\ tainted \subseteq tainted'
    BY DEF ReceiveRequest, CheckTarget, BreakScan, RefuseSlug, ResolveSlug, ResolveNothing,
           MissCampaign, RefuseChange, LoadCampaign, FindCampaign, ListLinks, ListVerdicts, store
  <1>2. \A u \in Threads \ {t} : pc'[u] = pc[u]
    BY DEF ReceiveRequest, CheckTarget, BreakScan, RefuseSlug, ResolveSlug, ResolveNothing,
           MissCampaign, RefuseChange, LoadCampaign, FindCampaign, ListLinks, ListVerdicts,
           Answer, Goto, StoreInv, TypeOK
  <1>3. \/ pc'[t] \in {"done", "opening", "ruling"}
        \/ pc[t] = "loading" /\ pc'[t] = "saving"
        \/ pc'[t] = Entry[call[t].op]
    <2>1. CASE ReceiveRequest(t)
      BY <2>1 DEF ReceiveRequest, Answer, Goto, StoreInv, TypeOK
    <2>2. CASE ~ReceiveRequest(t)
      BY <2>2 DEF CheckTarget, BreakScan, RefuseSlug, ResolveSlug, ResolveNothing,
           MissCampaign, RefuseChange, LoadCampaign, FindCampaign, ListLinks, ListVerdicts,
           Answer, Goto, StoreInv, TypeOK
    <2>3. QED
      BY <2>1, <2>2
  <1>4. Entry["add"] = "checking"
    BY DEF Entry
  <1>5. \A u \in Threads : Stays(u)
    BY <1>1, <1>2, <1>3, <1>4 DEF Stays, Seeker
  <1>6. QED
    BY <1>1, <1>5, StayingKeeps

\* A scan the store outgrew never ends well, so what it passed no longer counts.
LEMMA CreateKeepsSlugs ==
    ASSUME StoreInv, SlugInv, NEW t \in Threads, CreateCampaign(t)
    PROVE  SlugInv'
  <1>1. PICK c \in Campaigns :
           /\ ~Exists(c)
           /\ order' = Append(order, c)
           /\ links' = [links EXCEPT ![c] = {}]
           /\ call' = [call EXCEPT ![t].campaign = c]
    BY DEF CreateCampaign
  <1>2. links' = links
    BY <1>1 DEF StoreInv, StoreOK, TypeOK
  <1>3. Len(order') = Len(order) + 1 /\ Len(order) \in Nat
    BY <1>1 DEF StoreInv, TypeOK
  <1>4. UNCHANGED <<scan, tainted, vied>> /\ pc' = [pc EXCEPT ![t] = "viewing"]
    BY DEF CreateCampaign, Goto
  <1>5. \A u \in Threads : Stays(u)
    BY <1>1, <1>4 DEF Stays, Seeker, StoreInv, TypeOK
  <1>6. PassedOK'
    <2> SUFFICES ASSUME NEW u \in Threads, Seeker(u)', pc'[u] = "scanning"
                 PROVE  scan'[u].size <= Len(order') /\ scan'[u].size # Len(order')
      BY DEF PassedOK
    <2>1. scan'[u] = scan[u] /\ scan[u].size \in Nat /\ scan[u].size <= Len(order)
      BY <1>5 DEF Stays, SlugInv, PassedOK, StoreInv, TypeOK
    <2>2. QED
      BY <1>3, <2>1
  <1>7. OneSeeker'
    BY <1>4, <1>5 DEF SlugInv, OneSeeker, Stays
  <1>8. AdmittedOK'
    BY <1>2, <1>4, <1>5 DEF SlugInv, AdmittedOK, Stays, Excused
  <1>9. HoldersOK'
    BY <1>2, <1>4 DEF SlugInv, HoldersOK
  <1>10. QED
    BY <1>6, <1>7, <1>8, <1>9 DEF SlugInv

\* An add that starts to look for its slug vies with those already after it.
LEMMA OpenKeepsSlugs ==
    ASSUME StoreInv, SlugInv, NEW t \in Threads, OpenScan(t)
    PROVE  SlugInv'
  <1>1. /\ pc[t] = "opening"
        /\ scan' = [scan EXCEPT ![t] = [at |-> 1, size |-> Len(order)]]
        /\ vied' = IF call[t].op = "add" /\ Seeking(call[t].slug) # {}
                   THEN vied \union {call[t].slug} ELSE vied
        /\ pc' = [pc EXCEPT ![t] = "scanning"]
        /\ UNCHANGED <<order, links, call, tainted>>
    BY DEF OpenScan, Goto, store
  <1>2. vied \subseteq vied'
    BY <1>1
  <1>3. \A s, c : Excused(s, c) => Excused(s, c)'
    BY <1>1, <1>2 DEF Excused
  <1>4. \A u \in Threads \ {t} : Stays(u) /\ (Seeker(u)' => u \in Seeking(call[u].slug))
    BY <1>1 DEF Stays, Seeker, Seeking, StoreInv, TypeOK
  <1>5. scan'[t].at = 1 /\ scan'[t].size = Len(order) /\ Len(order) \in Nat /\ pc'[t] = "scanning"
    BY <1>1 DEF StoreInv, TypeOK
  <1>6. OneSeeker'
    <2> SUFFICES ASSUME NEW u \in Threads, NEW v \in Threads, u # v,
                        Seeker(u)', Seeker(v)', call[u].slug = call[v].slug
                 PROVE  call[u].slug \in vied'
      BY <1>1 DEF OneSeeker
    <2>1. CASE u # t /\ v # t
      BY <1>2, <1>4, <2>1 DEF SlugInv, OneSeeker, Stays
    <2>2. CASE u = t
      BY <1>1, <1>4, <2>2 DEF Seeker
    <2>3. CASE v = t
      BY <1>1, <1>4, <2>3 DEF Seeker
    <2>4. QED
      BY <2>1, <2>2, <2>3
  <1>7. PassedOK'
    <2> SUFFICES ASSUME NEW u \in Threads, Seeker(u)', pc'[u] = "scanning"
                 PROVE  /\ scan'[u].size <= Len(order)
                        /\ scan'[u].size = Len(order) =>
                             \A i \in 1..Len(order) :
                                i < scan'[u].at /\ Carries(links[order[i]], call[u].slug)
                                => Excused(call[u].slug, order[i])'
      BY <1>1 DEF PassedOK, Excused
    <2>1. CASE u = t
      BY <1>5, <2>1
    <2>2. CASE u # t
      <3>1. Seeker(u) /\ pc[u] = "scanning" /\ scan'[u] = scan[u]
        BY <1>4, <2>2 DEF Stays
      <3>2. UNCHANGED <<order, call>>
        BY <1>1
      <3>3. \A i : Excused(call[u].slug, order[i]) => Excused(call[u].slug, order[i])'
        BY <1>2, <3>2, <1>1 DEF Excused
      <3>4. QED
        BY <3>1, <3>3 DEF SlugInv, PassedOK
    <2>3. QED
      BY <2>1, <2>2
  <1>8. AdmittedOK'
    BY <1>1, <1>3, <1>4, <1>5 DEF SlugInv, AdmittedOK, Stays
  <1>9. HoldersOK'
    BY <1>1, <1>2 DEF SlugInv, HoldersOK
  <1>10. QED
    BY <1>6, <1>7, <1>8, <1>9 DEF SlugInv

\* A row is passed when it does not carry the slug.
LEMMA PassKeepsSlugs ==
    ASSUME StoreInv, SlugInv, NEW t \in Threads, PassRow(t)
    PROVE  SlugInv'
  <1>1. /\ scan' = [scan EXCEPT ![t].at = @ + 1]
        /\ UNCHANGED <<order, links, pc, call, tainted, vied>>
        /\ ~Carries(links[order[scan[t].at]], call[t].slug)
    BY DEF PassRow, Row, store
  <1>2. /\ scan[t].at \in Nat /\ scan'[t].at = scan[t].at + 1
        /\ scan'[t].size = scan[t].size
        /\ \A u \in Threads \ {t} : scan'[u] = scan[u]
    BY <1>1 DEF StoreInv, TypeOK
  <1>3. PassedOK'
    <2> SUFFICES ASSUME NEW u \in Threads, Seeker(u), pc[u] = "scanning"
                 PROVE  /\ scan'[u].size <= Len(order)
                        /\ scan'[u].size = Len(order) =>
                             \A i \in 1..Len(order) :
                                i < scan'[u].at /\ Carries(links[order[i]], call[u].slug)
                                => Excused(call[u].slug, order[i])
      BY <1>1 DEF PassedOK, Excused, Seeker
    <2>1. CASE u # t
      BY <1>2, <2>1 DEF SlugInv, PassedOK
    <2>2. CASE u = t
      <3>1. scan[t].size <= Len(order)
        BY <2>2 DEF SlugInv, PassedOK
      <3>2. ASSUME NEW i \in 1..Len(order), i < scan'[t].at, scan[t].size = Len(order),
                   Carries(links[order[i]], call[t].slug)
            PROVE  Excused(call[t].slug, order[i])
        <4>1. i # scan[t].at
          BY <1>1, <3>2
        <4>2. i < scan[t].at
          BY <1>2, <3>2, <4>1
        <4>3. QED
          BY <2>2, <3>2, <4>2 DEF SlugInv, PassedOK
      <3>3. QED
        BY <1>2, <2>2, <3>1, <3>2
    <2>3. QED
      BY <2>1, <2>2
  <1>4. OneSeeker' /\ AdmittedOK' /\ HoldersOK'
    BY <1>1 DEF SlugInv, OneSeeker, AdmittedOK, HoldersOK, Seeker, Excused
  <1>5. QED
    BY <1>3, <1>4 DEF SlugInv

\* A scan that has passed every row has passed every campaign.
LEMMA AdmitKeepsSlugs ==
    ASSUME StoreInv, SlugInv, NEW t \in Threads, AdmitSlug(t)
    PROVE  SlugInv'
  <1>1. /\ pc[t] = "scanning" /\ scan[t].size = Len(order) /\ call[t].op = "add"
        /\ scan[t].at > Len(order)
        /\ UNCHANGED <<order, links, call, scan, tainted, vied>>
    BY DEF AdmitSlug, Scanning, store
  <1>2. pc'[t] \in {"done", "loading"} /\ \A u \in Threads \ {t} : pc'[u] = pc[u]
    BY DEF AdmitSlug, Answer, Goto, StoreInv, TypeOK
  <1>3. \A u \in Threads : Seeker(u)' => Seeker(u)
    BY <1>1, <1>2 DEF Seeker
  <1>4. \A u \in Threads : pc'[u] = "scanning" => pc[u] = "scanning"
    BY <1>1, <1>2
  <1>5. OneSeeker' /\ PassedOK' /\ HoldersOK'
    BY <1>1, <1>3, <1>4 DEF SlugInv, OneSeeker, PassedOK, HoldersOK, Excused
  <1>6. AdmittedOK'
    <2> SUFFICES ASSUME NEW u \in Threads, Seeker(u)', pc'[u] # "scanning",
                        NEW c \in Campaigns, Carries(links[c], call[u].slug)
                 PROVE  Excused(call[u].slug, c)
      BY <1>1 DEF AdmittedOK, Excused
    <2>1. CASE u # t
      BY <1>2, <1>3, <2>1 DEF SlugInv, AdmittedOK
    <2>2. CASE u = t
      <3>1. links[c] # {}
        BY DEF Carries
      <3>2. PICK i \in 1..Len(order) : order[i] = c
        BY <3>1 DEF StoreInv, StoreOK, Exists
      <3>3. scan[t].at \in Nat /\ Len(order) \in Nat
        BY DEF StoreInv, TypeOK
      <3>4. i < scan[t].at
        BY <1>1, <3>2, <3>3
      <3>5. Seeker(t)
        BY <1>3, <2>2
      <3>6. QED
        BY <1>1, <2>2, <3>2, <3>4, <3>5 DEF SlugInv, PassedOK
    <2>3. QED
      BY <2>1, <2>2
  <1>7. QED
    BY <1>5, <1>6 DEF SlugInv

\* A save brings a new slug to an untainted campaign only for an add that was
\* admitted, which no other add was after.
LEMMA SaveKeepsSlugs ==
    ASSUME StoreInv, SlugInv, NEW t \in Threads, SaveCampaign(t)
    PROVE  SlugInv'
  <1> DEFINE c == call[t].campaign
  <1>1. /\ pc[t] = "saving"
        /\ links' = [links EXCEPT ![c] = held[t]]
        /\ pc' = [pc EXCEPT ![t] = "viewing"]
        /\ UNCHANGED <<order, call, scan, tainted, vied>>
    BY DEF SaveCampaign, Goto
  <1>2. c \in Campaigns /\ call[t] \in CallSet /\ links[c] \in SUBSET Links
    BY DEF StoreInv, TypeOK, CallSet
  <1>3. links'[c] = held[t] /\ \A d \in Campaigns \ {c} : links'[d] = links[d]
    BY <1>1, <1>2 DEF StoreInv, TypeOK
  <1>4. \A u \in Threads : Seeker(u)' => u # t /\ Seeker(u) /\ pc'[u] = pc[u]
    BY <1>1 DEF Seeker, StoreInv, TypeOK
  <1>5. ASSUME NEW s, Carries(links'[c], s), ~Carries(links[c], s), c \notin tainted
        PROVE  Seeker(t) /\ call[t].slug = s
    <2>1. held[t] = Changed(links[c], call[t])
      BY <1>1, <1>5 DEF StoreInv, WritersOK
    <2>2. call[t].op = "add" /\ s = call[t].slug
      BY <1>2, <1>3, <1>5, <2>1, ChangeCarries
    <2>3. QED
      BY <1>1, <2>2 DEF Seeker
  <1>6. ASSUME NEW u \in Threads \ {t}, Seeker(u), NEW d \in Campaigns,
               Carries(links'[d], call[u].slug), ~Carries(links[d], call[u].slug)
        PROVE  Excused(call[u].slug, d)
    <2>1. d = c
      BY <1>3, <1>6
    <2>2. CASE d \in tainted
      BY <2>2 DEF Excused
    <2>3. CASE d \notin tainted
      BY <1>5, <1>6, <2>1, <2>3 DEF SlugInv, OneSeeker, Excused
    <2>4. QED
      BY <2>2, <2>3
  <1>7. OneSeeker'
    BY <1>1, <1>4 DEF SlugInv, OneSeeker
  <1>8. PassedOK'
    <2> SUFFICES ASSUME NEW u \in Threads, Seeker(u)', pc'[u] = "scanning"
                 PROVE  /\ scan[u].size <= Len(order)
                        /\ scan[u].size = Len(order) =>
                             \A i \in 1..Len(order) :
                                i < scan[u].at /\ Carries(links'[order[i]], call[u].slug)
                                => Excused(call[u].slug, order[i])
      BY <1>1 DEF PassedOK, Excused
    <2>1. u # t /\ Seeker(u) /\ pc[u] = "scanning"
      BY <1>4
    <2>2. \A i \in 1..Len(order) : order[i] \in Campaigns
      BY DEF StoreInv, TypeOK
    <2>3. QED
      BY <1>6, <2>1, <2>2 DEF SlugInv, PassedOK
  <1>9. AdmittedOK'
    <2> SUFFICES ASSUME NEW u \in Threads, Seeker(u)', pc'[u] # "scanning",
                        NEW d \in Campaigns, Carries(links'[d], call[u].slug)
                 PROVE  Excused(call[u].slug, d)
      BY <1>1 DEF AdmittedOK, Excused
    <2>1. u # t /\ Seeker(u) /\ pc[u] # "scanning"
      BY <1>4
    <2>2. QED
      BY <1>6, <2>1 DEF SlugInv, AdmittedOK
  <1>10. HoldersOK'
    <2> SUFFICES ASSUME NEW a \in Campaigns, NEW b \in Campaigns, NEW s \in Slugs, a # b,
                        Carries(links'[a], s), Carries(links'[b], s),
                        a \notin tainted, b \notin tainted
                 PROVE  s \in vied
      BY <1>1 DEF HoldersOK
    <2>1. CASE Carries(links[a], s) /\ Carries(links[b], s)
      BY <2>1 DEF SlugInv, HoldersOK
    <2>2. ASSUME NEW d \in Campaigns, NEW e \in Campaigns, d # e,
                 Carries(links'[d], s), Carries(links'[e], s), e \notin tainted,
                 d \notin tainted, ~Carries(links[d], s)
          PROVE  s \in vied
      <3>1. d = c
        BY <1>3, <2>2
      <3>2. Seeker(t) /\ call[t].slug = s
        BY <1>5, <2>2, <3>1
      <3>3. Carries(links[e], s)
        BY <1>3, <2>2, <3>1
      <3>4. QED
        BY <1>1, <2>2, <3>2, <3>3 DEF SlugInv, AdmittedOK, Excused
    <2>3. QED
      BY <2>1, <2>2
  <1>11. QED
    BY <1>7, <1>8, <1>9, <1>10 DEF SlugInv

LEMMA SlugInit == Init => SlugInv
  <1> SUFFICES ASSUME Init PROVE SlugInv
    OBVIOUS
  <1>1. \A t \in Threads : pc[t] = "idle"
    BY DEF Init
  <1>2. OneSeeker /\ PassedOK /\ AdmittedOK
    BY <1>1 DEF OneSeeker, PassedOK, AdmittedOK, Seeker
  <1>3. HoldersOK
    BY SeedAssumption DEF Init, HoldersOK, Carries
  <1>4. QED
    BY <1>2, <1>3 DEF SlugInv

LEMMA SlugStep == StoreInv /\ SlugInv /\ [Next]_vars => SlugInv'
  <1> SUFFICES ASSUME StoreInv, SlugInv, [Next]_vars PROVE SlugInv'
    OBVIOUS
  <1>1. CASE UNCHANGED vars
    BY <1>1, StayingKeeps DEF vars, Stays, Seeker
  <1>2. CASE Next
    BY <1>2, StayingSteps, CreateKeepsSlugs, OpenKeepsSlugs, PassKeepsSlugs,
       AdmitKeepsSlugs, SaveKeepsSlugs DEF Next
  <1>3. QED
    BY <1>1, <1>2

\* OneHolderPerSlug: looking before saving keeps a slug in one campaign, as long as no
\* two adds of the slug are under way at once and no campaign that carries it had two
\* writers at once.
THEOREM LinksOneHolderPerSlug == Spec => []OneHolderPerSlug
  <1>1. StoreInv /\ SlugInv => OneHolderPerSlug
    <2> SUFFICES ASSUME StoreInv, SlugInv, NEW c \in Campaigns, NEW d \in Campaigns,
                        NEW l \in links[c], NEW m \in links[d], l.slug = m.slug, c # d
                 PROVE  l.slug \in vied \/ c \in tainted \/ d \in tainted
      BY DEF OneHolderPerSlug
    <2>1. l.slug \in Slugs
      BY DEF StoreInv, TypeOK, Links
    <2>2. Carries(links[c], l.slug) /\ Carries(links[d], l.slug)
      BY DEF Carries
    <2>3. QED
      BY <2>1, <2>2 DEF SlugInv, HoldersOK
  <1>2. QED
    BY <1>1, StoreInit, StoreStep, SlugInit, SlugStep, PTL DEF Spec

-----------------------------------------------------------------------------
(* Rulings                                                                   *)

\* A ruling on record is the policy's, for good.
RulingsOK == \A target \in Targets : verdicts[target] \in {"unrecorded", Ruling(target)}

\* An add that has asked has a ruling, and one that goes on has leave to.
AskedOK == \A t \in Threads :
    /\ call[t].op = "add" /\ pc[t] \in {"opening", "scanning", "loading", "saving"}
         => verdicts[call[t].target] = Ruling(call[t].target)
    /\ call[t].op = "add" /\ pc[t] \in {"loading", "saving"} => call[t].target \notin Denied

Vetted(ls) == \A l \in ls : verdicts[l.target] = "allowed"
VettedOK ==
    /\ \A c \in Campaigns : Vetted(links[c])
    /\ \A t \in Threads : Vetted(held[t]) /\ Vetted(answer[t].links)

RulingInv == RulingsOK /\ AskedOK /\ VettedOK /\ ReportsAreRuled

\* A change of a vetted record that an add has leave for is vetted.
LEMMA ChangeVetted ==
    ASSUME NEW ls \in SUBSET Links, NEW c \in CallSet, Vetted(ls),
           c.op = "add" => verdicts[c.target] = "allowed"
    PROVE  Vetted(Changed(ls, c))
  <1>1. CASE c.op = "add"
    <2> DEFINE new == [slug |-> c.slug, target |-> c.target, active |-> TRUE]
    <2>1. Changed(ls, c) = ls \union {new} /\ new.target = c.target
      BY <1>1 DEF Changed, Added
    <2> HIDE DEF new
    <2>2. QED
      BY <1>1, <2>1 DEF Vetted
  <1>2. CASE c.op # "add"
    <2>1. Changed(ls, c) = {After(l, c) : l \in ls}
      BY <1>2 DEF Changed, Deactivated, After
    <2>2. \A l \in ls : After(l, c).target = l.target
      BY DEF Links, After
    <2>3. QED
      BY <2>1, <2>2 DEF Vetted
  <1>3. QED
    BY <1>1, <1>2

\* A ruling that allows is never taken back, and no ruling but a missing one changes.
LEMMA RulingsStay ==
    ASSUME StoreInv, RulingInv, [Next]_vars
    PROVE  /\ RulingsOK'
           /\ \A target \in Targets : verdicts[target] = Ruling(target)
                                      => verdicts'[target] = Ruling(target)
           /\ \A target \in Targets : verdicts[target] = "allowed"
                                      => verdicts'[target] = "allowed"
  <1>1. CASE UNCHANGED verdicts
    BY <1>1 DEF RulingInv, RulingsOK
  <1>2. ASSUME NEW t \in Threads, CheckTarget(t) PROVE RulingsOK' /\
           \A target \in Targets :
             /\ verdicts[target] = Ruling(target) => verdicts'[target] = Ruling(target)
             /\ verdicts[target] = "allowed" => verdicts'[target] = "allowed"
    <2>1. verdicts' = [verdicts EXCEPT ![call[t].target] = Ruling(call[t].target)]
      BY <1>2 DEF CheckTarget
    <2>2. call[t].target \in Targets
      BY DEF StoreInv, TypeOK, CallSet
    <2>3. \A target \in Targets : verdicts'[target] \in {verdicts[target], Ruling(target)}
      BY <2>1, <2>2 DEF StoreInv, TypeOK
    <2>4. QED
      BY <2>3 DEF RulingInv, RulingsOK
  <1>3. UNCHANGED verdicts \/ \E t \in Threads : CheckTarget(t)
    BY DEF Next, vars, store, ReceiveRequest, CreateCampaign, OpenScan, BreakScan, PassRow,
           RefuseSlug, AdmitSlug, ResolveSlug, ResolveNothing, MissCampaign, RefuseChange,
           LoadCampaign, SaveCampaign, FindCampaign, ListLinks, ListVerdicts
  <1>4. QED
    BY <1>1, <1>2, <1>3

\* What is vetted stays vetted.
LEMMA VettedStays ==
    ASSUME StoreInv, RulingInv, [Next]_vars, NEW ls \in SUBSET Links, Vetted(ls)
    PROVE  \A l \in ls : verdicts'[l.target] = "allowed"
  <1>1. \A l \in ls : l.target \in Targets
    BY DEF Links
  <1>2. QED
    BY <1>1, RulingsStay DEF Vetted

\* No step stores, holds or shows a link without leave.
LEMMA VettedStep ==
    ASSUME StoreInv, RulingInv, [Next]_vars
    PROVE  /\ \A c \in Campaigns : Vetted(links'[c])
           /\ \A t \in Threads : Vetted(held'[t]) /\ Vetted(answer'[t].links)
  <1>0. TypeOK /\ VettedOK
    BY DEF StoreInv, RulingInv
  <1>1. \A t \in Threads : UNCHANGED links /\ UNCHANGED held /\ UNCHANGED answer
           => /\ \A c \in Campaigns : Vetted(links'[c])
              /\ \A u \in Threads : Vetted(held'[u]) /\ Vetted(answer'[u].links)
    BY <1>0 DEF VettedOK
  <1>2. ASSUME NEW t \in Threads, NEW what, Answer(t, what), Vetted(what.links),
               UNCHANGED links, UNCHANGED held
        PROVE  /\ \A c \in Campaigns : Vetted(links'[c])
               /\ \A u \in Threads : Vetted(held'[u]) /\ Vetted(answer'[u].links)
    <2>1. \A u \in Threads : answer'[u] \in {answer[u], what}
      BY <1>0, <1>2 DEF Answer, TypeOK
    <2>2. QED
      BY <1>0, <1>2, <2>1 DEF VettedOK
  <1>3. ASSUME NEW t \in Threads, CreateCampaign(t)
        PROVE  /\ \A c \in Campaigns : Vetted(links'[c])
               /\ \A u \in Threads : Vetted(held'[u]) /\ Vetted(answer'[u].links)
    <2>1. PICK c \in Campaigns : links' = [links EXCEPT ![c] = {}]
      BY <1>3 DEF CreateCampaign
    <2>2. \A d \in Campaigns : links'[d] = {} \/ links'[d] = links[d]
      BY <1>0, <2>1 DEF TypeOK
    <2>3. UNCHANGED <<held, answer>>
      BY <1>3 DEF CreateCampaign
    <2>4. QED
      BY <1>0, <2>2, <2>3 DEF VettedOK, Vetted
  <1>4. ASSUME NEW t \in Threads, LoadCampaign(t)
        PROVE  /\ \A c \in Campaigns : Vetted(links'[c])
               /\ \A u \in Threads : Vetted(held'[u]) /\ Vetted(answer'[u].links)
    <2> DEFINE c == call[t].campaign
    <2>1. /\ pc[t] = "loading" /\ UNCHANGED <<links, answer>>
          /\ held' = [held EXCEPT ![t] = Changed(links[c], call[t])]
      BY <1>4 DEF LoadCampaign, Changed, store
    <2>2. c \in Campaigns /\ call[t] \in CallSet /\ links[c] \in SUBSET Links
      BY <1>0 DEF TypeOK, CallSet
    <2>3. call[t].op = "add" => verdicts[call[t].target] = "allowed"
      BY <2>1 DEF RulingInv, AskedOK, Ruling
    <2>4. Vetted(Changed(links[c], call[t]))
      BY <1>0, <2>2, <2>3, ChangeVetted DEF VettedOK
    <2>5. \A u \in Threads : held'[u] = held[u] \/ held'[u] = Changed(links[c], call[t])
      BY <1>0, <2>1 DEF TypeOK
    <2>6. QED
      BY <1>0, <2>1, <2>4, <2>5 DEF VettedOK
  <1>5. ASSUME NEW t \in Threads, SaveCampaign(t)
        PROVE  /\ \A c \in Campaigns : Vetted(links'[c])
               /\ \A u \in Threads : Vetted(held'[u]) /\ Vetted(answer'[u].links)
    <2>1. UNCHANGED <<held, answer>> /\ links' = [links EXCEPT ![call[t].campaign] = held[t]]
      BY <1>5 DEF SaveCampaign
    <2>2. \A d \in Campaigns : links'[d] = held[t] \/ links'[d] = links[d]
      BY <1>0, <2>1 DEF TypeOK
    <2>3. QED
      BY <1>0, <2>1, <2>2 DEF VettedOK
  <1>6. ASSUME NEW t \in Threads, ListLinks(t)
        PROVE  /\ \A c \in Campaigns : Vetted(links'[c])
               /\ \A u \in Threads : Vetted(held'[u]) /\ Vetted(answer'[u].links)
    <2> DEFINE all == UNION {links[order[i]] : i \in 1..Len(order)}
    <2>1. UNCHANGED <<links, answer>> /\ held' = [held EXCEPT ![t] = all]
      BY <1>6 DEF ListLinks, store
    <2>2. \A i \in 1..Len(order) : Vetted(links[order[i]])
      BY <1>0 DEF TypeOK, VettedOK
    <2>3. Vetted(all)
      BY <2>2 DEF Vetted
    <2> HIDE DEF all
    <2>4. \A u \in Threads : held'[u] = held[u] \/ held'[u] = all
      BY <1>0, <2>1 DEF TypeOK
    <2>5. QED
      BY <1>0, <2>1, <2>3, <2>4 DEF VettedOK
  <1>7. \A kind : Vetted(Say(kind).links)
    BY DEF Vetted, Say
  <1>8. ASSUME NEW t \in Threads,
               \/ ReceiveRequest(t) \/ BreakScan(t) \/ RefuseSlug(t) \/ AdmitSlug(t)
               \/ ResolveNothing(t) \/ MissCampaign(t) \/ RefuseChange(t)
        PROVE  /\ \A c \in Campaigns : Vetted(links'[c])
               /\ \A u \in Threads : Vetted(held'[u]) /\ Vetted(answer'[u].links)
    <2>1. UNCHANGED <<links, held>>
      BY <1>8 DEF ReceiveRequest, BreakScan, RefuseSlug, AdmitSlug, ResolveNothing,
                  MissCampaign, RefuseChange, store
    <2>2. UNCHANGED answer \/ \E kind : Answer(t, Say(kind))
      BY <1>8 DEF ReceiveRequest, BreakScan, RefuseSlug, AdmitSlug, ResolveNothing,
                  MissCampaign, RefuseChange
    <2>3. QED
      BY <1>1, <1>2, <1>7, <2>1, <2>2
  <1>9. ASSUME NEW t \in Threads, ResolveSlug(t)
        PROVE  /\ \A c \in Campaigns : Vetted(links'[c])
               /\ \A u \in Threads : Vetted(held'[u]) /\ Vetted(answer'[u].links)
    <2> DEFINE led == {l \in Row(t) : l.slug = call[t].slug /\ l.active}
    <2>1. scan[t].at \in 1..Len(order)
      BY <1>0, <1>9 DEF ResolveSlug, StoreInv, Positions, TypeOK
    <2>2. order[scan[t].at] \in Campaigns
      BY <1>0, <2>1 DEF TypeOK
    <2>3. Vetted(led)
      BY <1>0, <2>2 DEF VettedOK, Vetted, Row
    <2>4. \/ \E kind : Answer(t, Say(kind))
          \/ Answer(t, [kind |-> "redirect", links |-> led, rows |-> {}])
      BY <1>9 DEF ResolveSlug
    <2> HIDE DEF led
    <2>5. Vetted([kind |-> "redirect", links |-> led, rows |-> {}].links)
      BY <2>3
    <2>6. UNCHANGED <<links, held>>
      BY <1>9 DEF ResolveSlug, store
    <2>7. QED
      BY <1>2, <1>7, <2>4, <2>5, <2>6
  <1>10. ASSUME NEW t \in Threads, FindCampaign(t)
        PROVE  /\ \A c \in Campaigns : Vetted(links'[c])
               /\ \A u \in Threads : Vetted(held'[u]) /\ Vetted(answer'[u].links)
    <2> DEFINE what == [kind |-> "ok", links |-> links[call[t].campaign], rows |-> {}]
    <2>1. call[t].campaign \in Campaigns
      BY <1>0 DEF TypeOK, CallSet
    <2>2. Vetted(what.links)
      BY <1>0, <2>1 DEF VettedOK
    <2>3. Answer(t, what) /\ UNCHANGED <<links, held>>
      BY <1>10 DEF FindCampaign, store
    <2>4. QED
      BY <1>2, <2>2, <2>3
  <1>11. ASSUME NEW t \in Threads, ListVerdicts(t)
        PROVE  /\ \A c \in Campaigns : Vetted(links'[c])
               /\ \A u \in Threads : Vetted(held'[u]) /\ Vetted(answer'[u].links)
    <2>1. UNCHANGED <<links, held>>
      BY <1>11 DEF ListVerdicts, store
    <2>2. PICK what : Answer(t, what) /\ what.links = {}
      BY <1>11 DEF ListVerdicts, Say
    <2>3. QED
      BY <1>2, <2>1, <2>2 DEF Vetted
  <1>12. ASSUME NEW t \in Threads, CheckTarget(t) \/ OpenScan(t) \/ PassRow(t)
        PROVE  /\ \A c \in Campaigns : Vetted(links'[c])
               /\ \A u \in Threads : Vetted(held'[u]) /\ Vetted(answer'[u].links)
    BY <1>1, <1>12 DEF CheckTarget, OpenScan, PassRow, store
  <1>13. CASE UNCHANGED vars
    BY <1>0, <1>13 DEF vars, VettedOK
  <1>14. QED
    BY <1>3, <1>4, <1>5, <1>6, <1>8, <1>9, <1>10, <1>11, <1>12, <1>13 DEF Next

\* A report's rows come from the links it holds, each with a ruling that allows it.
LEMMA RowsStep ==
    ASSUME StoreInv, RulingInv, [Next]_vars
    PROVE  ReportsAreRuled'
  <1>1. ASSUME NEW t \in Threads, ListVerdicts(t) PROVE ReportsAreRuled'
    <2>1. \A l \in held[t] : verdicts[l.target] = "allowed"
      BY DEF RulingInv, VettedOK, Vetted
    <2>2. \A l \in held[t] : RowOf(l).recorded /\ RowOf(l).decision = "allowed"
      BY <2>1 DEF RowOf
    <2>3. PICK what : Answer(t, what) /\ (\A r \in what.rows : r.recorded /\ r.decision = "allowed")
      BY <1>1, <2>2 DEF ListVerdicts, Say
    <2>4. \A u \in Threads : answer'[u] \in {answer[u], what}
      BY <2>3 DEF Answer, StoreInv, TypeOK
    <2>5. QED
      BY <2>3, <2>4 DEF RulingInv, ReportsAreRuled
  <1>2. ASSUME NEW t \in Threads, ~ListVerdicts(t),
               \/ ReceiveRequest(t) \/ CreateCampaign(t) \/ CheckTarget(t)
               \/ OpenScan(t) \/ BreakScan(t) \/ PassRow(t) \/ RefuseSlug(t) \/ AdmitSlug(t)
               \/ ResolveSlug(t) \/ ResolveNothing(t)
               \/ MissCampaign(t) \/ RefuseChange(t) \/ LoadCampaign(t) \/ SaveCampaign(t)
               \/ FindCampaign(t) \/ ListLinks(t)
        PROVE  ReportsAreRuled'
    <2>1. UNCHANGED answer \/ \E what : Answer(t, what) /\ what.rows = {}
      BY <1>2 DEF Say, ReceiveRequest, CreateCampaign, CheckTarget, OpenScan, BreakScan,
           PassRow, RefuseSlug, AdmitSlug, ResolveSlug, ResolveNothing, MissCampaign,
           RefuseChange, LoadCampaign, SaveCampaign, FindCampaign, ListLinks, store
    <2>2. \A u \in Threads : answer'[u] = answer[u] \/ answer'[u].rows = {}
      BY <2>1 DEF Answer, StoreInv, TypeOK
    <2>3. QED
      BY <2>2 DEF RulingInv, ReportsAreRuled
  <1>3. CASE UNCHANGED vars
    BY <1>3 DEF vars, RulingInv, ReportsAreRuled
  <1>4. QED
    BY <1>1, <1>2, <1>3 DEF Next

\* An add asks before it looks, and goes on only with leave.
LEMMA AskedStep ==
    ASSUME StoreInv, RulingInv, [Next]_vars
    PROVE  AskedOK'
  <1> DEFINE Asks(u) == call'[u].op = "add" /\ pc'[u] \in {"opening", "scanning", "loading", "saving"}
             Leaves(u) == call'[u].op = "add" /\ pc'[u] \in {"loading", "saving"}
             Asked(u) ==
                /\ Asks(u) => /\ call'[u] = call[u]
                              /\ \/ pc[u] \in {"opening", "scanning", "loading", "saving"}
                                 \/ verdicts'[call[u].target] = Ruling(call[u].target)
                /\ Leaves(u) => \/ pc[u] \in {"loading", "saving"}
                                \/ call[u].target \notin Denied
  <1>1. ASSUME NEW t \in Threads,
               \/ BreakScan(t) \/ RefuseSlug(t) \/ ResolveSlug(t) \/ ResolveNothing(t)
               \/ MissCampaign(t) \/ RefuseChange(t) \/ FindCampaign(t) \/ ListVerdicts(t)
        PROVE  \A u \in Threads : Asked(u)
    <2>1. UNCHANGED call /\ pc'[t] = "done" /\ Others(t)
      BY <1>1, SayingPlain DEF StoreInv, Plain
    <2>2. QED
      BY <2>1 DEF Others
  <1>2. ASSUME NEW t \in Threads, CreateCampaign(t)
        PROVE  \A u \in Threads : Asked(u)
    <2>1. /\ \A u \in Threads \ {t} : call'[u] = call[u] /\ pc'[u] = pc[u]
          /\ pc'[t] = "viewing"
      BY <1>2 DEF CreateCampaign, Goto, StoreInv, TypeOK
    <2>2. QED
      BY <2>1
  <1>3. ASSUME NEW t \in Threads,
               OpenScan(t) \/ LoadCampaign(t) \/ SaveCampaign(t) \/ PassRow(t) \/ ListLinks(t)
        PROVE  \A u \in Threads : Asked(u)
    <2>1. UNCHANGED call /\ \A u \in Threads \ {t} : pc'[u] = pc[u]
      BY <1>3 DEF OpenScan, LoadCampaign, SaveCampaign, PassRow, ListLinks, Goto, store,
                  StoreInv, TypeOK
    <2>2. \/ pc[t] = "opening" /\ pc'[t] = "scanning"
          \/ pc[t] = "loading" /\ pc'[t] = "saving"
          \/ pc'[t] \in {"viewing", "ruling"}
          \/ pc[t] = "scanning" /\ pc'[t] = "scanning"
      BY <1>3 DEF OpenScan, LoadCampaign, SaveCampaign, PassRow, ListLinks, Goto, Scanning,
                  StoreInv, TypeOK
    <2>3. QED
      BY <2>1, <2>2
  <1>4. ASSUME NEW t \in Threads, ReceiveRequest(t)
        PROVE  \A u \in Threads : Asked(u)
    <2>1. UNCHANGED call /\ \A u \in Threads \ {t} : pc'[u] = pc[u]
      BY <1>4 DEF ReceiveRequest, Answer, Goto, StoreInv, TypeOK
    <2>2. pc'[t] = "done" \/ pc'[t] = Entry[call[t].op]
      BY <1>4 DEF ReceiveRequest, Answer, Goto, StoreInv, TypeOK
    <2>3. Entry["add"] = "checking"
      BY DEF Entry
    <2>4. QED
      BY <2>1, <2>2, <2>3
  <1>5. ASSUME NEW t \in Threads, CheckTarget(t)
        PROVE  \A u \in Threads : Asked(u)
    <2>1. /\ UNCHANGED call /\ pc'[t] = "opening"
          /\ \A u \in Threads \ {t} : pc'[u] = pc[u]
      BY <1>5 DEF CheckTarget, Goto, StoreInv, TypeOK
    <2>2. verdicts'[call[t].target] = Ruling(call[t].target)
      BY <1>5 DEF CheckTarget, StoreInv, TypeOK, CallSet
    <2>3. QED
      BY <2>1, <2>2
  <1>6. ASSUME NEW t \in Threads, AdmitSlug(t)
        PROVE  \A u \in Threads : Asked(u)
    <2>1. UNCHANGED call /\ pc[t] = "scanning" /\ \A u \in Threads \ {t} : pc'[u] = pc[u]
      BY <1>6 DEF AdmitSlug, Scanning, Answer, Goto, StoreInv, TypeOK
    <2>2. pc'[t] = "done" \/ (pc'[t] = "loading" /\ call[t].target \notin Denied)
      BY <1>6 DEF AdmitSlug, Answer, Goto, StoreInv, TypeOK
    <2>3. QED
      BY <2>1, <2>2
  <1>7. CASE UNCHANGED vars
    BY <1>7 DEF vars, AskedOK, RulingInv
  <1>8. ASSUME \A u \in Threads : Asked(u) PROVE AskedOK'
    <2>1. \A u \in Threads : call[u].target \in Targets
      BY DEF StoreInv, TypeOK, CallSet
    <2>2. QED
      BY <1>8, <2>1, RulingsStay DEF AskedOK, RulingInv
  <1>9. QED
    BY <1>1, <1>2, <1>3, <1>4, <1>5, <1>6, <1>7, <1>8 DEF Next

LEMMA RulingInit == Init => RulingInv
  <1> SUFFICES ASSUME Init PROVE RulingInv
    OBVIOUS
  <1>1. \A c \in Campaigns : \A l \in links[c] :
           /\ l.target \in Targets /\ l.target \notin Denied
           /\ verdicts[l.target] = "allowed"
    BY SeedAssumption DEF Init, Links
  <1>2. RulingsOK
    BY SeedAssumption DEF Init, RulingsOK, Ruling
  <1>3. AskedOK /\ ReportsAreRuled
    BY DEF Init, AskedOK, ReportsAreRuled, Nothing
  <1>4. VettedOK
    <2>1. \A t \in Threads : held[t] = {} /\ answer[t].links = {}
      BY DEF Init, Nothing
    <2>2. QED
      BY <1>1, <2>1 DEF VettedOK, Vetted
  <1>5. QED
    BY <1>2, <1>3, <1>4 DEF RulingInv

LEMMA RulingStep == StoreInv /\ RulingInv /\ [Next]_vars => RulingInv'
  <1> SUFFICES ASSUME StoreInv, RulingInv, [Next]_vars PROVE RulingInv'
    OBVIOUS
  <1>1. TypeOK'
    BY StepType DEF StoreInv
  <1>2. VettedOK'
    <2>1. ASSUME NEW c \in Campaigns PROVE \A l \in links'[c] : verdicts'[l.target] = "allowed"
      <3>1. links'[c] \in SUBSET Links /\ Vetted(links'[c])
        BY <1>1, VettedStep DEF TypeOK
      <3>2. QED
        BY <3>1, VettedStays
    <2>2. ASSUME NEW t \in Threads
          PROVE  /\ \A l \in held'[t] : verdicts'[l.target] = "allowed"
                 /\ \A l \in answer'[t].links : verdicts'[l.target] = "allowed"
      <3>1. held'[t] \in SUBSET Links /\ Vetted(held'[t])
        BY <1>1, VettedStep DEF TypeOK
      <3>2. answer'[t].links \in SUBSET Links /\ Vetted(answer'[t].links)
        BY <1>1, VettedStep DEF TypeOK
      <3>3. QED
        BY <3>1, <3>2, VettedStays
    <2>3. QED
      BY <2>1, <2>2 DEF VettedOK, Vetted
  <1>3. QED
    BY <1>2, RulingsStay, AskedStep, RowsStep DEF RulingInv

\* NothingUnvetted: every link stored, about to be stored, shown or followed has a
\* ruling on record that allows it (ComplianceGateway, add_link).
THEOREM LinksNothingUnvetted == Spec => []NothingUnvetted
  <1>1. RulingInv => NothingUnvetted
    BY DEF RulingInv, VettedOK, Vetted, NothingUnvetted
  <1>2. QED
    BY <1>1, StoreInit, StoreStep, RulingInit, RulingStep, PTL DEF Spec

\* ReportsAreRuled: a row of a report never says that no verdict was recorded.
THEOREM LinksReportsAreRuled == Spec => []ReportsAreRuled
  <1>1. RulingInv => ReportsAreRuled
    BY DEF RulingInv
  <1>2. QED
    BY <1>1, StoreInit, StoreStep, RulingInit, RulingStep, PTL DEF Spec

-----------------------------------------------------------------------------
(* What ends in a 500                                                        *)

Created == \E u \in Threads : call[u].op = "create" /\ pc[u] \in {"viewing", "done"}

\* Only a campaign created since makes a scan outgrown.
SizesOK == \A t \in Threads : pc[t] = "scanning" /\ scan[t].size # Len(order) => Created

LEMMA CreatedStays == StoreInv /\ Created /\ [Next]_vars => Created'
  <1> SUFFICES ASSUME StoreInv, [Next]_vars,
                      NEW u \in Threads, call[u].op = "create", pc[u] \in {"viewing", "done"}
               PROVE  call'[u].op = "create" /\ pc'[u] \in {"viewing", "done"}
    BY DEF Created
  <1>1. CASE UNCHANGED vars
    BY <1>1 DEF vars
  <1>2. ASSUME NEW t \in Threads, CreateCampaign(t)
        PROVE  call'[u].op = "create" /\ pc'[u] \in {"viewing", "done"}
    BY <1>2 DEF CreateCampaign, Goto, StoreInv, TypeOK
  <1>3. ASSUME NEW t \in Threads,
               \/ BreakScan(t) \/ RefuseSlug(t) \/ ResolveSlug(t) \/ ResolveNothing(t)
               \/ MissCampaign(t) \/ RefuseChange(t) \/ FindCampaign(t) \/ ListVerdicts(t)
        PROVE  call'[u].op = "create" /\ pc'[u] \in {"viewing", "done"}
    <2>1. UNCHANGED call /\ pc'[t] = "done" /\ Others(t)
      BY <1>3, SayingPlain DEF StoreInv, Plain
    <2>2. QED
      BY <2>1 DEF Others
  <1>4. ASSUME NEW t \in Threads,
               \/ ReceiveRequest(t) \/ CheckTarget(t) \/ OpenScan(t) \/ PassRow(t)
               \/ AdmitSlug(t) \/ ListLinks(t) \/ LoadCampaign(t) \/ SaveCampaign(t)
        PROVE  call'[u].op = "create" /\ pc'[u] \in {"viewing", "done"}
    <2>1. UNCHANGED call /\ \A v \in Threads \ {t} : pc'[v] = pc[v]
      BY <1>4 DEF ReceiveRequest, CheckTarget, OpenScan, PassRow, AdmitSlug, ListLinks,
                  LoadCampaign, SaveCampaign, Answer, Goto, store, StoreInv, TypeOK
    <2>2. pc[t] \notin {"viewing", "done"}
      BY <1>4 DEF ReceiveRequest, CheckTarget, OpenScan, PassRow, AdmitSlug, ListLinks,
                  LoadCampaign, SaveCampaign, Scanning
    <2>3. QED
      BY <2>1, <2>2
  <1>5. QED
    BY <1>1, <1>2, <1>3, <1>4 DEF Next

BreakInv == SizesOK /\ OnlyCreationBreaksAScan

LEMMA BreakStep == StoreInv /\ BreakInv /\ [Next]_vars => BreakInv'
  <1> SUFFICES ASSUME StoreInv, BreakInv, ~Created, ~Created', [Next]_vars PROVE BreakInv'
    BY CreatedStays DEF BreakInv, SizesOK, OnlyCreationBreaksAScan, Created
  <1>1. /\ \A t \in Threads : pc[t] = "scanning" => scan[t].size = Len(order)
        /\ \A t \in Threads : answer[t].kind = "internal" => call[t].op = "report"
    BY DEF BreakInv, SizesOK, OnlyCreationBreaksAScan, Created
  <1>2. ASSUME /\ \A t \in Threads : pc'[t] = "scanning" => scan'[t].size = Len(order')
               /\ \A t \in Threads : answer'[t].kind = "internal" => call'[t].op = "report"
        PROVE  BreakInv'
    BY <1>2 DEF BreakInv, SizesOK, OnlyCreationBreaksAScan
  <1>3. CASE UNCHANGED vars
    BY <1>1, <1>2, <1>3 DEF vars
  <1>4. ASSUME NEW t \in Threads PROVE ~CreateCampaign(t) /\ ~BreakScan(t)
    <2>1. ~BreakScan(t)
      BY <1>1 DEF BreakScan
    <2>2. ASSUME CreateCampaign(t) PROVE FALSE
      <3>1. pc[t] = "creating" /\ pc'[t] = "viewing"
        BY <2>2 DEF CreateCampaign, Goto, StoreInv, TypeOK
      <3>2. call[t].op = "create"
        BY <3>1 DEF StoreInv, StepsOK
      <3>3. call'[t].op = "create"
        BY <2>2, <3>2 DEF CreateCampaign, StoreInv, TypeOK, CallSet
      <3>4. QED
        BY <3>1, <3>3 DEF Created
    <2>3. QED
      BY <2>1, <2>2
  <1>5. ASSUME NEW t \in Threads,
               \/ RefuseSlug(t) \/ ResolveSlug(t) \/ ResolveNothing(t) \/ MissCampaign(t)
               \/ RefuseChange(t) \/ FindCampaign(t) \/ ListVerdicts(t)
        PROVE  BreakInv'
    <2>1. /\ pc'[t] = "done" /\ Others(t) /\ UNCHANGED <<order, call, scan>>
      BY <1>5, SayingPlain DEF StoreInv, Plain
    <2>2. answer'[t].kind = "internal" => call[t].op = "report"
      <3>1. CASE RefuseSlug(t) \/ ResolveNothing(t) \/ MissCampaign(t)
        BY <3>1 DEF RefuseSlug, ResolveNothing, MissCampaign, Answer, Say, StoreInv, TypeOK
      <3>2. CASE FindCampaign(t)
        BY <3>2 DEF FindCampaign, Answer, StoreInv, TypeOK
      <3>3. CASE ListVerdicts(t)
        BY <3>3 DEF ListVerdicts, StoreInv, StepsOK
      <3>4. CASE RefuseChange(t)
        <4>1. Rebuildable(links[call[t].campaign])
          BY DEF StoreInv, StoreOK, TypeOK, CallSet
        <4>2. Refusal(links[call[t].campaign], call[t]) # "internal"
          BY <4>1 DEF Refusal
        <4>3. answer'[t] = Say(Refusal(links[call[t].campaign], call[t]))
          BY <3>4 DEF RefuseChange, Answer, StoreInv, TypeOK
        <4>4. QED
          BY <4>2, <4>3 DEF Say
      <3>5. CASE ResolveSlug(t)
        <4>1. scan[t].at \in 1..Len(order)
          BY <3>5 DEF ResolveSlug, StoreInv, Positions, TypeOK
        <4>2. order[scan[t].at] \in Campaigns
          BY <4>1 DEF StoreInv, TypeOK
        <4>3. Rebuildable(Row(t))
          BY <4>2 DEF StoreInv, StoreOK, Row
        <4>4. QED
          BY <3>5, <4>3 DEF ResolveSlug, Answer, Say, StoreInv, TypeOK
      <3>6. QED
        BY <1>5, <3>1, <3>2, <3>3, <3>4, <3>5
    <2>3. QED
      BY <1>1, <1>2, <2>1, <2>2 DEF Others
  <1>6. ASSUME NEW t \in Threads, ReceiveRequest(t) \/ AdmitSlug(t)
        PROVE  BreakInv'
    <2>1. UNCHANGED <<order, call, scan>>
      BY <1>6 DEF ReceiveRequest, AdmitSlug, store
    <2>2. \A u \in Threads : pc'[u] = "scanning" => pc[u] = "scanning"
      <3>1. \A op \in Ops : Entry[op] # "scanning"
        BY DEF Entry, Ops
      <3>2. call[t].op \in Ops
        BY DEF StoreInv, TypeOK, CallSet
      <3>3. QED
        BY <1>6, <3>1, <3>2 DEF ReceiveRequest, AdmitSlug, Answer, Goto, StoreInv, TypeOK
    <2>3. \A u \in Threads : answer'[u].kind = "internal" => answer[u].kind = "internal"
      <3>1. UNCHANGED answer \/ \E kind \in Kinds \ {"internal"} : Answer(t, Say(kind))
        BY <1>6 DEF ReceiveRequest, AdmitSlug, Kinds
      <3>2. UNCHANGED answer \/ \E what : what.kind # "internal" /\ answer' = [answer EXCEPT ![t] = what]
        BY <3>1 DEF Answer, Say
      <3>3. QED
        BY <3>2 DEF StoreInv, TypeOK
    <2>4. QED
      BY <1>1, <1>2, <2>1, <2>2, <2>3
  <1>7. ASSUME NEW t \in Threads,
               \/ CheckTarget(t) \/ PassRow(t) \/ ListLinks(t) \/ LoadCampaign(t)
               \/ SaveCampaign(t) \/ OpenScan(t)
        PROVE  BreakInv'
    <2>1. UNCHANGED <<order, call, answer>>
      BY <1>7 DEF CheckTarget, PassRow, ListLinks, LoadCampaign, SaveCampaign, OpenScan, store
    <2>2. \A u \in Threads : pc'[u] = "scanning" => scan'[u].size = Len(order)
      <3>1. CASE OpenScan(t)
        BY <1>1, <3>1 DEF OpenScan, Goto, StoreInv, TypeOK
      <3>2. CASE PassRow(t)
        BY <1>1, <3>2 DEF PassRow, StoreInv, TypeOK
      <3>3. CASE CheckTarget(t) \/ ListLinks(t) \/ LoadCampaign(t) \/ SaveCampaign(t)
        BY <1>1, <3>3 DEF CheckTarget, ListLinks, LoadCampaign, SaveCampaign, Goto,
                          StoreInv, TypeOK
      <3>4. QED
        BY <1>7, <3>1, <3>2, <3>3
    <2>3. QED
      BY <1>1, <1>2, <2>1, <2>2
  <1>8. QED
    BY <1>3, <1>4, <1>5, <1>6, <1>7 DEF Next

\* OnlyCreationBreaksAScan: a request other than a report ends in a 500 only if a
\* campaign was created while requests were under way.
THEOREM LinksOnlyCreationBreaksAScan == Spec => []OnlyCreationBreaksAScan
  <1>1. Init => BreakInv
    BY DEF Init, Nothing, BreakInv, SizesOK, OnlyCreationBreaksAScan
  <1>2. BreakInv => OnlyCreationBreaksAScan
    BY DEF BreakInv
  <1>3. QED
    BY <1>1, <1>2, StoreInit, StoreStep, BreakStep, PTL DEF Spec

-----------------------------------------------------------------------------
(* The promise of the registry                                               *)

LEMMA RegistryStart == Init => Registry!RegistryInit
  <1>1. Links = Registry!RegistryLinks
    BY DEF Links, Registry!RegistryLinks
  <1>2. QED
    BY <1>1, SeedAssumption DEF Init, Registry!RegistryInit

\* Putting the one link under a slug out of use changes one link.
LEMMA DeactivatedIsRetired ==
    ASSUME NEW ls \in SUBSET Links, NEW c \in CallSet, Rebuildable(ls), NEW l \in ls, l.slug = c.slug
    PROVE  Deactivated(ls, c) = (ls \ {l}) \union {[l EXCEPT !.active = FALSE]}
  <1>1. Deactivated(ls, c) = {After(k, c) : k \in ls}
    BY DEF Deactivated, After
  <1>2. After(l, c) = [l EXCEPT !.active = FALSE]
    BY DEF After
  <1>3. \A k \in ls : k # l => After(k, c) = k
    BY DEF After, Rebuildable
  <1>4. {After(k, c) : k \in ls} \subseteq (ls \ {l}) \union {After(l, c)}
    BY <1>3
  <1>5. (ls \ {l}) \union {After(l, c)} \subseteq {After(k, c) : k \in ls}
    BY <1>3
  <1>6. {After(k, c) : k \in ls} = (ls \ {l}) \union {After(l, c)}
    BY <1>4, <1>5
  <1>7. QED
    BY <1>1, <1>2, <1>6

\* A save adds one link, retires one, or writes over a campaign whose promise ended.
LEMMA SaveKeepsPromise ==
    ASSUME StoreInv, SlugInv, TypeOK', NEW t \in Threads, SaveCampaign(t)
    PROVE  Registry!RegistryNext
  <1> DEFINE c == call[t].campaign
  <1>1. /\ pc[t] = "saving"
        /\ links' = [links EXCEPT ![c] = held[t]]
        /\ UNCHANGED <<tainted, vied>>
    BY DEF SaveCampaign
  <1>2. c \in Campaigns /\ call[t] \in CallSet /\ links[c] \in SUBSET Links
    BY DEF StoreInv, TypeOK, CallSet
  <1>3. Links = Registry!RegistryLinks
    BY DEF Links, Registry!RegistryLinks
  <1>4. CASE c \in tainted
    <2>1. links'[c] = held[t]
      BY <1>1, <1>2 DEF StoreInv, TypeOK
    <2>2. links'[c] \subseteq Links
      BY <1>2 DEF TypeOK
    <2>3. Registry!Overwrite(c)
      BY <1>1, <1>3, <1>4, <2>1, <2>2 DEF Registry!Overwrite
    <2>4. QED
      BY <1>2, <2>3 DEF Registry!RegistryNext
  <1>5. CASE c \notin tainted
    <2>1. Refusal(links[c], call[t]) = "none" /\ held[t] = Changed(links[c], call[t])
      BY <1>1, <1>5 DEF StoreInv, WritersOK
    <2>2. CASE call[t].op = "add"
      <3> DEFINE new == [slug |-> call[t].slug, target |-> call[t].target, active |-> TRUE]
      <3>1. new \in Links /\ new.active /\ new.slug = call[t].slug
        BY <1>2 DEF Links, CallSet
      <3>2. held[t] = links[c] \union {new}
        BY <2>1, <2>2 DEF Changed, Added
      <3> HIDE DEF new
      <3>3. \A k \in links[c] : k.slug # new.slug
        BY <2>1, <2>2, <3>1, Admitted DEF Carries
      <3>4. \A d \in Campaigns : Carries(links[d], new.slug) => Excused(new.slug, d)
        BY <1>1, <2>2, <3>1 DEF SlugInv, AdmittedOK, Seeker
      <3>5. new.slug \in vied \/ Registry!Holders(new.slug) \subseteq tainted
        BY <3>4 DEF Excused, Carries, Registry!Holders
      <3>6. Registry!AddLink(c, new)
        BY <1>1, <1>5, <3>1, <3>2, <3>3, <3>5 DEF Registry!AddLink
      <3>7. QED
        BY <1>2, <1>3, <3>1, <3>6 DEF Registry!RegistryNext
    <2>3. CASE call[t].op # "add"
      <3>1. PICK l \in links[c] : l.slug = call[t].slug
        BY <2>1, <2>3, Admitted DEF Carries
      <3>2. Rebuildable(links[c])
        BY <2>1, Admitted
      <3>3. held[t] = (links[c] \ {l}) \union {[l EXCEPT !.active = FALSE]}
        BY <1>2, <2>1, <2>3, <3>1, <3>2, DeactivatedIsRetired DEF Changed
      <3>4. Registry!RetireLink(c, l)
        BY <1>1, <1>5, <3>1, <3>3 DEF Registry!RetireLink
      <3>5. l \in Registry!RegistryLinks
        BY <1>2, <1>3, <3>1
      <3>6. QED
        BY <1>2, <3>4, <3>5 DEF Registry!RegistryNext
    <2>4. QED
      BY <2>2, <2>3
  <1>6. QED
    BY <1>4, <1>5

LEMMA PromiseStep ==
    ASSUME StoreInv, SlugInv, TypeOK', [Next]_vars
    PROVE  [Registry!RegistryNext]_(Registry!regvars)
  <1>1. CASE UNCHANGED vars
    BY <1>1 DEF vars, Registry!regvars
  <1>2. ASSUME NEW t \in Threads, CreateCampaign(t)
        PROVE  UNCHANGED <<links, tainted, vied>>
    <2>1. PICK c \in Campaigns : ~Exists(c) /\ links' = [links EXCEPT ![c] = {}]
      BY <1>2 DEF CreateCampaign
    <2>2. links' = links
      BY <2>1 DEF StoreInv, StoreOK, TypeOK
    <2>3. QED
      BY <1>2, <2>2 DEF CreateCampaign
  <1>3. ASSUME NEW t \in Threads, OpenScan(t)
        PROVE  Registry!RegistryNext \/ UNCHANGED <<links, tainted, vied>>
    <2>1. call[t].slug \in Slugs
      BY DEF StoreInv, TypeOK, CallSet
    <2>2. UNCHANGED <<links, tainted>>
      BY <1>3 DEF OpenScan, store
    <2>3. vied' = vied \/ vied' = vied \union {call[t].slug}
      BY <1>3 DEF OpenScan
    <2>4. QED
      BY <2>1, <2>2, <2>3 DEF Registry!RegistryNext, Registry!Vie
  <1>4. ASSUME NEW t \in Threads, LoadCampaign(t)
        PROVE  Registry!RegistryNext \/ UNCHANGED <<links, tainted, vied>>
    <2>1. call[t].campaign \in Campaigns
      BY DEF StoreInv, TypeOK, CallSet
    <2>2. UNCHANGED <<links, vied>>
      BY <1>4 DEF LoadCampaign, store
    <2>3. tainted' = tainted \/ tainted' = tainted \union {call[t].campaign}
      BY <1>4 DEF LoadCampaign
    <2>4. QED
      BY <2>1, <2>2, <2>3 DEF Registry!RegistryNext, Registry!Spoil
  <1>5. ASSUME NEW t \in Threads,
               \/ ReceiveRequest(t) \/ CheckTarget(t) \/ BreakScan(t) \/ PassRow(t)
               \/ RefuseSlug(t) \/ AdmitSlug(t) \/ ResolveSlug(t) \/ ResolveNothing(t)
               \/ MissCampaign(t) \/ RefuseChange(t) \/ FindCampaign(t) \/ ListLinks(t)
               \/ ListVerdicts(t)
        PROVE  UNCHANGED <<links, tainted, vied>>
    BY <1>5 DEF ReceiveRequest, CheckTarget, BreakScan, PassRow, RefuseSlug, AdmitSlug,
           ResolveSlug, ResolveNothing, MissCampaign, RefuseChange, FindCampaign, ListLinks,
           ListVerdicts, store
  <1>6. CASE Next
    BY <1>2, <1>3, <1>4, <1>5, <1>6, SaveKeepsPromise DEF Next, Registry!regvars
  <1>7. QED
    BY <1>1, <1>6

\* KeepsRegistry: every behaviour of the threads is one of the registry, with the
\* links of the store for its own and a step of the store for at most one of its steps.
THEOREM LinksKeepRegistry == Spec => KeepsRegistry
  <1>1. StoreInv /\ SlugInv /\ [Next]_vars /\ StoreInv' => [Registry!RegistryNext]_(Registry!regvars)
    BY PromiseStep DEF StoreInv
  <1>2. QED
    BY <1>1, RegistryStart, StoreInit, StoreStep, SlugInit, SlugStep, PTL
       DEF Spec, KeepsRegistry, Registry!RegistrySpec
=============================================================================
