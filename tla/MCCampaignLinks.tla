--------------------------- MODULE MCCampaignLinks ---------------------------
(***************************************************************************)
(* Two campaigns and a link in use, left by earlier requests, and the      *)
(* requests that meet on them.                                             *)
(***************************************************************************)
EXTENDS CampaignLinks, TLC

CONSTANTS spring, summer, autumn, promo, sale, shop, blog, odd, evil, r1, r2, r3, r4

MCThreads2 == {r1, r2}
MCThreads3 == {r1, r2, r3}
MCThreads4 == {r1, r2, r3, r4}
MCCampaigns == {spring, summer, autumn}
MCSlugs == {promo, sale}
MCTargets == {shop, blog, odd, evil}
MCDenied == {evil}
MCUnreadable == {odd}

MCSeedOrder == <<spring, summer>>
MCSeedLinks ==
    [c \in MCCampaigns |->
        IF c = spring THEN {[slug |-> promo, target |-> shop, active |-> TRUE]} ELSE {}]

Ask(op, campaign, slug, target) ==
    [op |-> op, campaign |-> campaign, slug |-> slug, target |-> target, malformed |-> {}]
Garbled(c, field) == [c EXCEPT !.malformed = {field}]

Create == Ask("create", spring, promo, shop)
AddTo(campaign, slug, target) == Ask("add", campaign, slug, target)
Retire(campaign, slug) == Ask("deactivate", campaign, slug, shop)
Look(campaign) == Ask("get", campaign, promo, shop)
Follow(slug) == Ask("resolve", spring, slug, shop)
Report == Ask("report", spring, promo, shop)

\* Writers that meet on one campaign and one slug.
WriterCalls ==
    {AddTo(spring, sale, shop), AddTo(spring, sale, blog), AddTo(summer, sale, shop),
     Retire(spring, promo), Retire(spring, sale), Follow(sale)}

\* Readers, refusals and texts the reader of the report cannot take.
ReaderCalls ==
    {Create, AddTo(summer, sale, blog), AddTo(summer, promo, blog), AddTo(summer, sale, odd),
     AddTo(summer, sale, evil), AddTo(autumn, sale, shop), Garbled(AddTo(summer, sale, shop), "target"),
     Garbled(Create, "budget"), Garbled(Retire(spring, promo), "slug"),
     Garbled(Look(spring), "campaign"), Garbled(Follow(promo), "slug"),
     Retire(spring, promo), Look(summer), Look(autumn), Follow(promo), Follow(sale), Report}

Symmetric == Permutations(Threads)
=============================================================================
