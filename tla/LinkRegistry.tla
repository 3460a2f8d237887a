---------------------------- MODULE LinkRegistry ----------------------------
(***************************************************************************)
(* What the campaign context promises about short links, without threads,  *)
(* records or scans: a registry that an add grows by one active link and a *)
(* deactivation changes by one status, each at one instant.  The promise   *)
(* has a limit, which the registry names: a campaign that two writers held *)
(* at the same time is `spoiled`, and a slug that two adds vied for is     *)
(* `vied`; there the promise ends.                                         *)
(***************************************************************************)

CONSTANTS Campaigns, Slugs, Targets

VARIABLES
    registry,   \* the links of each campaign, a set
    spoiled,    \* the campaigns two writers held at once
    vied        \* the slugs two adds were after at once

regvars == <<registry, spoiled, vied>>

RegistryLinks == [slug : Slugs, target : Targets, active : BOOLEAN]

\* The campaigns that lead somewhere under a slug, in use or retired.
Holders(s) == {c \in Campaigns : \E l \in registry[c] : l.slug = s}

\* The registry starts with whatever earlier requests left in it, one campaign
\* to a slug and one link to a slug within it.
RegistryInit ==
    /\ registry \in [Campaigns -> SUBSET RegistryLinks]
    /\ \A c, d \in Campaigns : \A l \in registry[c], m \in registry[d] :
          l.slug = m.slug => c = d /\ l = m
    /\ spoiled = {}
    /\ vied = {}

\* A new link: active, under a slug nobody holds unless its promise has ended.
AddLink(c, l) ==
    /\ c \notin spoiled
    /\ l.active
    /\ \A k \in registry[c] : k.slug # l.slug
    /\ l.slug \in vied \/ Holders(l.slug) \subseteq spoiled
    /\ registry' = [registry EXCEPT ![c] = @ \union {l}]
    /\ UNCHANGED <<spoiled, vied>>

\* A link goes out of use and stays where it is.
RetireLink(c, l) ==
    /\ c \notin spoiled
    /\ l \in registry[c]
    /\ registry' = [registry EXCEPT ![c] = (@ \ {l}) \union {[l EXCEPT !.active = FALSE]}]
    /\ UNCHANGED <<spoiled, vied>>

\* In a spoiled campaign a writer may put back what another took away.
Overwrite(c) ==
    /\ c \in spoiled
    /\ registry'[c] \subseteq RegistryLinks
    /\ registry' = [registry EXCEPT ![c] = registry'[c]]
    /\ UNCHANGED <<spoiled, vied>>

Spoil(c) == spoiled' = spoiled \union {c} /\ UNCHANGED <<registry, vied>>
Vie(s)   == vied' = vied \union {s} /\ UNCHANGED <<registry, spoiled>>

RegistryNext ==
    \/ \E c \in Campaigns, l \in RegistryLinks : AddLink(c, l) \/ RetireLink(c, l)
    \/ \E c \in Campaigns : Overwrite(c) \/ Spoil(c)
    \/ \E s \in Slugs : Vie(s)

RegistrySpec == RegistryInit /\ [][RegistryNext]_regvars
=============================================================================
