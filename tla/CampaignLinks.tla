--------------------------- MODULE CampaignLinks ---------------------------
(***************************************************************************)
(* The campaign context of examples/python-app with the two contexts it    *)
(* meets: link policy, which rules on a target, and reports, which joins   *)
(* links to rulings.  srv/http answers every request on a thread of its    *)
(* own (ThreadingHTTPServer) over one in-memory repository per context;    *)
(* nothing is locked.  A step of this model is one access of a thread to   *)
(* one of those dictionaries, with the pure computation that follows it;   *)
(* a scan of the rows is one step per row, because a generator that walks  *)
(* a dictionary can be left between two rows.                              *)
(*                                                                         *)
(* A thread serves one request: `call` is what it was asked, `pc` the      *)
(* access it does next, `answer` what it said.                             *)
(***************************************************************************)
EXTENDS Naturals, Sequences

CONSTANTS
    Threads,        \* the requests served, each by its thread
    Campaigns,      \* the ids SecretsCampaignIdentity may issue
    Slugs, Targets, \* texts of links
    Denied,         \* targets the policy rules against
    Unreadable,     \* targets campaign.TargetURL admits, reports.TargetURL refuses
    Calls,          \* what callers may ask
    SeedOrder,      \* the campaigns earlier requests created, oldest first
    SeedLinks       \* and the links they left there

Fields == {"campaign", "slug", "target", "budget"}
Ops == {"create", "add", "deactivate", "get", "resolve", "report"}

\* A call names a campaign, a slug and a target; `malformed` tells which of its
\* fields the domain's constructors refuse, and an operation reads its own.
CallSet == [op : Ops, campaign : Campaigns, slug : Slugs, target : Targets,
            malformed : SUBSET Fields]

Links == [slug : Slugs, target : Targets, active : BOOLEAN]

ASSUME TargetsAssumption == Denied \subseteq Targets /\ Unreadable \subseteq Targets

ASSUME CallsAssumption == Calls \subseteq CallSet

\* What earlier requests left, one after the other: distinct ids, links only in
\* campaigns that exist, one link and one campaign to a slug, targets allowed.
ASSUME SeedAssumption ==
    /\ SeedOrder \in Seq(Campaigns)
    /\ \A i, j \in 1..Len(SeedOrder) : SeedOrder[i] = SeedOrder[j] => i = j
    /\ SeedLinks \in [Campaigns -> SUBSET Links]
    /\ \A c \in Campaigns : \A l \in SeedLinks[c] :
          /\ l.target \notin Denied
          /\ \E i \in 1..Len(SeedOrder) : SeedOrder[i] = c
    /\ \A c, d \in Campaigns : \A l \in SeedLinks[c], m \in SeedLinks[d] :
          l.slug = m.slug => c = d /\ l = m

VARIABLES
    order,    \* InMemoryCampaignRepository._rows: its keys, in insertion order
    links,    \* its values: the links of each campaign
    verdicts, \* InMemoryVerdictRepository._by_url: the ruling recorded per target
    pc, call, answer,
    scan,     \* the row a thread's scan is at and the size it started with
    held,     \* the links a thread read and, if it writes, will save
    tainted,  \* history: campaigns that two writers held at the same time
    vied      \* history: slugs that two adds were after at the same time

store == <<order, links, verdicts>>
vars == <<order, links, verdicts, pc, call, answer, scan, held, tainted, vied>>

\* A mutant: the word of the caller's port, which the policy's own does not know.
RulingMisspelt(target) == IF target \in Denied THEN "blocked" ELSE "allowed"
Ruling(target) == IF target \in Denied THEN "denied" ELSE "allowed"
Rulings == {"allowed", "denied", "unrecorded"}

Kinds == {"none", "ok", "redirect", "rejected", "campaign_not_found", "link_not_found",
          "slug_taken", "target_blocked", "internal"}
Rows == [slug : Slugs, target : Targets, decision : {"allowed", "denied"},
         recorded : BOOLEAN]
Steps == {"idle", "creating", "checking", "opening", "scanning", "loading", "saving",
          "viewing", "listing", "ruling", "done"}

Nothing == [kind |-> "none", links |-> {}, rows |-> {}]
Say(kind) == [kind |-> kind, links |-> {}, rows |-> {}]

Exists(c) == \E i \in 1..Len(order) : order[i] = c
\* A mutant: only links in use take a slug.
CarriesInUse(ls, s) == \E l \in ls : l.slug = s /\ l.active
Carries(ls, s) == \E l \in ls : l.slug = s

\* ShortLinks.__init__ refuses a record with two links under one slug.
Rebuildable(ls) == \A l, m \in ls : l.slug = m.slug => l = m

-----------------------------------------------------------------------------
Init ==
    /\ order = SeedOrder
    /\ links = SeedLinks
    /\ verdicts = [target \in Targets |->
                     IF \E c \in Campaigns : \E l \in SeedLinks[c] : l.target = target
                     THEN "allowed" ELSE "unrecorded"]
    /\ pc = [t \in Threads |-> "idle"]
    /\ call \in [Threads -> Calls]
    /\ answer = [t \in Threads |-> Nothing]
    /\ scan = [t \in Threads |-> [at |-> 1, size |-> 0]]
    /\ held = [t \in Threads |-> {}]
    /\ tainted = {}
    /\ vied = {}

\* The first access each operation makes, past its checks of the request.
Entry == [create |-> "creating", add |-> "checking", deactivate |-> "loading",
          get |-> "viewing", resolve |-> "opening", report |-> "listing"]

\* The fields an operation checks before it touches anything.
Checked == [create |-> {"budget"}, add |-> {"slug", "target", "campaign"},
            deactivate |-> {"campaign"}, get |-> {"campaign"}, resolve |-> {"slug"},
            report |-> {}]

Goto(t, step) == pc' = [pc EXCEPT ![t] = step]
Answer(t, what) == answer' = [answer EXCEPT ![t] = what] /\ Goto(t, "done")

\* A handler hands its request to the service, which checks the fields first.
ReceiveRequest(t) ==
    /\ pc[t] = "idle"
    /\ IF call[t].malformed \intersect Checked[call[t].op] # {}
       THEN Answer(t, Say("rejected"))
       ELSE Goto(t, Entry[call[t].op]) /\ UNCHANGED answer
    /\ UNCHANGED <<store, call, scan, held, tainted, vied>>

\* create_campaign: an id nobody has, an empty campaign under it.
CreateCampaign(t) ==
    /\ pc[t] = "creating"
    /\ \E c \in Campaigns :
          /\ ~Exists(c)
          /\ order' = Append(order, c)
          /\ links' = [links EXCEPT ![c] = {}]
          /\ call' = [call EXCEPT ![t].campaign = c]
    /\ Goto(t, "viewing")
    /\ UNCHANGED <<verdicts, answer, scan, held, tainted, vied>>

\* A mutant: only refusals are recorded.
CheckUnrecorded(t) ==
    /\ pc[t] = "checking"
    /\ verdicts' = IF call[t].target \in Denied
                   THEN [verdicts EXCEPT ![call[t].target] = "denied"] ELSE verdicts
    /\ Goto(t, "opening")
    /\ UNCHANGED <<order, links, call, answer, scan, held, tainted, vied>>

\* add_link asks the policy, which records its ruling before it answers.
CheckTarget(t) ==
    /\ pc[t] = "checking"
    /\ verdicts' = [verdicts EXCEPT ![call[t].target] = Ruling(call[t].target)]
    /\ Goto(t, "opening")
    /\ UNCHANGED <<order, links, call, answer, scan, held, tainted, vied>>

-----------------------------------------------------------------------------
(* slug_taken and load_campaign_by_slug walk the rows, oldest first.         *)

\* Threads between the first look for a slug and the save of a link under it.
Seeking(s) == {t \in Threads : /\ call[t].op = "add"
                               /\ call[t].slug = s
                               /\ pc[t] \in {"scanning", "loading", "saving"}}

OpenScan(t) ==
    /\ pc[t] = "opening"
    /\ scan' = [scan EXCEPT ![t] = [at |-> 1, size |-> Len(order)]]
    /\ vied' = IF call[t].op = "add" /\ Seeking(call[t].slug) # {}
               THEN vied \union {call[t].slug} ELSE vied
    /\ Goto(t, "scanning")
    /\ UNCHANGED <<store, call, answer, held, tainted>>

Scanning(t) == pc[t] = "scanning" /\ scan[t].size = Len(order)
Row(t) == links[order[scan[t].at]]

\* A dictionary that grew under its iterator raises at the next row; the host
\* answers any exception it does not know with a 500.
BreakScan(t) ==
    /\ pc[t] = "scanning"
    /\ scan[t].size # Len(order)
    /\ Answer(t, Say("internal"))
    /\ UNCHANGED <<store, call, scan, held, tainted, vied>>

PassRow(t) ==
    /\ Scanning(t)
    /\ scan[t].at <= Len(order)
    /\ ~Carries(Row(t), call[t].slug)
    /\ scan' = [scan EXCEPT ![t].at = @ + 1]
    /\ UNCHANGED <<store, pc, call, answer, held, tainted, vied>>

\* MapToShortLinkSpec judges the ruling before it judges the slug.
RefuseSlug(t) ==
    /\ Scanning(t)
    /\ call[t].op = "add"
    /\ scan[t].at <= Len(order)
    /\ Carries(Row(t), call[t].slug)
    /\ Answer(t, Say(IF call[t].target \in Denied THEN "target_blocked" ELSE "slug_taken"))
    /\ UNCHANGED <<store, call, scan, held, tainted, vied>>

\* A mutant: the ruling is recorded and not judged.
AdmitUnvetted(t) ==
    /\ Scanning(t)
    /\ call[t].op = "add"
    /\ scan[t].at > Len(order)
    /\ Goto(t, "loading")
    /\ UNCHANGED <<store, call, answer, scan, held, tainted, vied>>

AdmitSlug(t) ==
    /\ Scanning(t)
    /\ call[t].op = "add"
    /\ scan[t].at > Len(order)
    /\ IF call[t].target \in Denied
       THEN Answer(t, Say("target_blocked"))
       ELSE Goto(t, "loading") /\ UNCHANGED answer
    /\ UNCHANGED <<store, call, scan, held, tainted, vied>>

\* resolve_slug: the oldest campaign that carries the slug decides, in use or not.
ResolveSlug(t) ==
    /\ Scanning(t)
    /\ call[t].op = "resolve"
    /\ scan[t].at <= Len(order)
    /\ Carries(Row(t), call[t].slug)
    /\ LET led == {l \in Row(t) : l.slug = call[t].slug /\ l.active}
       IN  Answer(t, IF ~Rebuildable(Row(t)) THEN Say("internal")
                     ELSE IF led = {} THEN Say("link_not_found")
                     ELSE [kind |-> "redirect", links |-> led, rows |-> {}])
    /\ UNCHANGED <<store, call, scan, held, tainted, vied>>

ResolveNothing(t) ==
    /\ Scanning(t)
    /\ call[t].op = "resolve"
    /\ scan[t].at > Len(order)
    /\ Answer(t, Say("link_not_found"))
    /\ UNCHANGED <<store, call, scan, held, tainted, vied>>

-----------------------------------------------------------------------------
(* load_campaign, the change on the loaded copy, save_campaign, find_campaign *)

\* A mutant: a link is rebuilt from its record in use, whatever its status was.
AddedReviving(ls, c) ==
    {[l EXCEPT !.active = TRUE] : l \in ls}
        \union {[slug |-> c.slug, target |-> c.target, active |-> TRUE]}
\* A mutant: the loop does not compare the slug.
DeactivatedAll(ls, c) == {[l EXCEPT !.active = FALSE] : l \in ls}

\* Campaign.add_short_link, Campaign.deactivate_short_link
Added(ls, c) == ls \union {[slug |-> c.slug, target |-> c.target, active |-> TRUE]}
Deactivated(ls, c) == {IF l.slug = c.slug THEN [l EXCEPT !.active = FALSE] ELSE l : l \in ls}

\* A mutant: add_short_link leaves the slug to slug_taken.
RefusalOfMissing(ls, c) ==
    IF ~Rebuildable(ls) THEN "internal"
    ELSE IF c.op = "add" THEN "none"
    ELSE IF "slug" \in c.malformed THEN "rejected"
    ELSE IF Carries(ls, c.slug) THEN "none" ELSE "link_not_found"

\* What the service says instead of saving, "none" when it saves.
Refusal(ls, c) ==
    IF ~Rebuildable(ls) THEN "internal"
    ELSE IF c.op = "add" THEN (IF Carries(ls, c.slug) THEN "slug_taken" ELSE "none")
    ELSE IF "slug" \in c.malformed THEN "rejected"
    ELSE IF Carries(ls, c.slug) THEN "none" ELSE "link_not_found"

Writers(c) == {t \in Threads : pc[t] = "saving" /\ call[t].campaign = c}

MissCampaign(t) ==
    /\ pc[t] \in {"loading", "viewing"}
    /\ ~Exists(call[t].campaign)
    /\ Answer(t, Say("campaign_not_found"))
    /\ UNCHANGED <<store, call, scan, held, tainted, vied>>

RefuseChange(t) ==
    /\ pc[t] = "loading"
    /\ Exists(call[t].campaign)
    /\ Refusal(links[call[t].campaign], call[t]) # "none"
    /\ Answer(t, Say(Refusal(links[call[t].campaign], call[t])))
    /\ UNCHANGED <<store, call, scan, held, tainted, vied>>

LoadCampaign(t) ==
    LET c == call[t].campaign IN
    /\ pc[t] = "loading"
    /\ Exists(c)
    /\ Refusal(links[c], call[t]) = "none"
    /\ held' = [held EXCEPT ![t] = IF call[t].op = "add" THEN Added(links[c], call[t])
                                   ELSE Deactivated(links[c], call[t])]
    /\ tainted' = IF Writers(c) # {} THEN tainted \union {c} ELSE tainted
    /\ Goto(t, "saving")
    /\ UNCHANGED <<store, call, answer, scan, vied>>

\* A mutant: the changed aggregate is answered for and not saved.
SaveForgotten(t) ==
    /\ pc[t] = "saving"
    /\ Goto(t, "viewing")
    /\ UNCHANGED <<store, call, answer, scan, held, tainted, vied>>

\* A mutant: every save adds a row.
SaveAppending(t) ==
    /\ pc[t] = "saving"
    /\ order' = Append(order, call[t].campaign)
    /\ links' = [links EXCEPT ![call[t].campaign] = held[t]]
    /\ Goto(t, "viewing")
    /\ UNCHANGED <<verdicts, call, answer, scan, held, tainted, vied>>

\* The whole record is written over whatever is there.
SaveCampaign(t) ==
    /\ pc[t] = "saving"
    /\ links' = [links EXCEPT ![call[t].campaign] = held[t]]
    /\ Goto(t, "viewing")
    /\ UNCHANGED <<order, verdicts, call, answer, scan, held, tainted, vied>>

\* The answer is read back from the store.
FindCampaign(t) ==
    /\ pc[t] = "viewing"
    /\ Exists(call[t].campaign)
    /\ Answer(t, [kind |-> "ok", links |-> links[call[t].campaign], rows |-> {}])
    /\ UNCHANGED <<store, call, scan, held, tainted, vied>>

-----------------------------------------------------------------------------
(* ReportsService.links_by_verdict                                           *)

ListLinks(t) ==
    /\ pc[t] = "listing"
    /\ held' = [held EXCEPT ![t] = UNION {links[order[i]] : i \in 1..Len(order)}]
    /\ Goto(t, "ruling")
    /\ UNCHANGED <<store, call, answer, scan, tainted, vied>>

\* LinkVerdicts: a link nobody ruled on is shown as allowed, and says so.
RowOf(l) == [slug |-> l.slug, target |-> l.target,
             decision |-> IF verdicts[l.target] = "denied" THEN "denied" ELSE "allowed",
             recorded |-> verdicts[l.target] # "unrecorded"]

\* One text the reader's TargetURL refuses, linked or only ruled on, fails the join.
Joinable(ls) == \A target \in Unreadable :
    verdicts[target] = "unrecorded" /\ \A l \in ls : l.target # target

ListVerdicts(t) ==
    /\ pc[t] = "ruling"
    /\ Answer(t, IF Joinable(held[t])
                 THEN [kind |-> "ok", links |-> {}, rows |-> {RowOf(l) : l \in held[t]}]
                 ELSE Say("internal"))
    /\ UNCHANGED <<store, call, scan, held, tainted, vied>>

-----------------------------------------------------------------------------
Next == \E t \in Threads :
    \/ ReceiveRequest(t) \/ CreateCampaign(t) \/ CheckTarget(t)
    \/ OpenScan(t) \/ BreakScan(t) \/ PassRow(t) \/ RefuseSlug(t) \/ AdmitSlug(t)
    \/ ResolveSlug(t) \/ ResolveNothing(t)
    \/ MissCampaign(t) \/ RefuseChange(t) \/ LoadCampaign(t) \/ SaveCampaign(t)
    \/ FindCampaign(t) \/ ListLinks(t) \/ ListVerdicts(t)

Spec == Init /\ [][Next]_vars
-----------------------------------------------------------------------------
(* Properties *)

\* The type invariant: what each dictionary and each thread's locals may hold.
TypeOK ==
    /\ order \in Seq(Campaigns)
    /\ links \in [Campaigns -> SUBSET Links]
    /\ verdicts \in [Targets -> Rulings]
    /\ pc \in [Threads -> Steps]
    /\ call \in [Threads -> CallSet]
    /\ answer \in [Threads -> [kind : Kinds, links : SUBSET Links, rows : SUBSET Rows]]
    /\ scan \in [Threads -> [at : Nat, size : Nat]]
    /\ held \in [Threads -> SUBSET Links]
    /\ tainted \subseteq Campaigns
    /\ vied \subseteq Slugs

\* What a saved change looks like in the links of its campaign.
ShownIn(c, ls) ==
    IF c.op = "add" THEN \E l \in ls : l.slug = c.slug /\ l.target = c.target
    ELSE /\ Carries(ls, c.slug)
         /\ \A l \in ls : l.slug = c.slug => ~l.active

\* A change that was saved is lost only where two writers held one campaign at the
\* same time: otherwise the link stays, and one put out of use stays out of use,
\* through every later load and save of the whole record (service.py, add_link
\* and deactivate_link).
ChangesSurvive ==
    \A t \in Threads :
        /\ call[t].op \in {"add", "deactivate"}
        /\ pc[t] = "viewing" \/ answer[t].kind = "ok"
        /\ call[t].campaign \notin tainted
        => ShownIn(call[t], links[call[t].campaign])

\* The answer is read back after the save, so others' changes may show in it; the
\* caller's own always does, unless two writers held the campaign at the same time.
AnswersShowTheChange ==
    \A t \in Threads :
        /\ call[t].op \in {"add", "deactivate"}
        /\ answer[t].kind = "ok"
        /\ call[t].campaign \notin tainted
        => ShownIn(call[t], answer[t].links)

\* slug_taken looks before the save, row by row.  That is enough to keep a slug in
\* one campaign as long as no two adds of the slug are under way at once and no
\* campaign that carries it had two writers at once.
OneHolderPerSlug ==
    \A c, d \in Campaigns : \A l \in links[c], m \in links[d] :
        l.slug = m.slug /\ c # d => l.slug \in vied \/ c \in tainted \/ d \in tainted

\* Whatever the races, a record never holds two links under one slug, so the
\* aggregate can always be built again from what was saved (campaign.py, ShortLinks).
RecordsReload ==
    /\ \A c \in Campaigns : Rebuildable(links[c])
    /\ \A t \in Threads : pc[t] = "saving" => Rebuildable(held[t])

\* Fail-closed: every link that is stored, about to be stored, shown or followed
\* has a ruling on record, and the ruling allows it (README, moment 1).
NothingUnvetted ==
    \A l \in UNION ({links[c] : c \in Campaigns}
                     \union {held[t] : t \in Threads}
                     \union {answer[t].links : t \in Threads}) :
        verdicts[l.target] = "allowed"

\* The report reads the links and later the rulings, in two calls to two contexts;
\* a row never has to say that no verdict was recorded, since a ruling is on record
\* before its link is saved and rulings are never withdrawn.
ReportsAreRuled ==
    \A t \in Threads : \A row \in answer[t].rows : row.recorded /\ row.decision = "allowed"

\* A request other than a report ends in a 500 only if a campaign was created while
\* requests were under way: the size of the dictionary changed under a scan.
OnlyCreationBreaksAScan ==
    (\E t \in Threads : answer[t].kind = "internal" /\ call[t].op # "report")
        => \E u \in Threads : call[u].op = "create" /\ pc[u] \in {"viewing", "done"}

\* The context keeps the promise of the registry: one add or one change of status
\* at a time, beside the campaigns and the slugs whose promise has ended.
Registry == INSTANCE LinkRegistry WITH registry <- links, spoiled <- tainted
KeepsRegistry == Registry!RegistrySpec

-----------------------------------------------------------------------------
(* What tests of the repository say of one caller at a time, said of any.    *)

\* test_add_link_keeps_an_earlier_deactivated_link_inactive: a link whose
\* deactivation was answered is not in use again.
DeactivationHolds ==
    \A t \in Threads : call[t].op = "deactivate" /\ answer[t].kind = "ok" =>
        \A l \in links[call[t].campaign] : l.slug = call[t].slug => ~l.active

\* test_add_link_refuses_a_slug_another_campaign_already_uses: of two adds of one
\* slug to two campaigns, one is refused.
SlugHasOneCampaign ==
    \A t, u \in Threads :
        /\ call[t].op = "add" /\ answer[t].kind = "ok"
        /\ call[u].op = "add" /\ answer[u].kind = "ok"
        /\ call[t].slug = call[u].slug
        => call[t].campaign = call[u].campaign
=============================================================================
