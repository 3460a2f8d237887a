---------------------------- MODULE ErrorMatrix ----------------------------
(***************************************************************************)
(* examples/errorspy: what reaches a caller when a request of the campaign *)
(* context fails - a body that does not parse, values the domain refuses,  *)
(* a conflict, a missing row, a row that is corrupt, a storage that is     *)
(* down - from the domain's constructors over the service and the client's *)
(* errors to the status the HTTP handler answers.  The example has no      *)
(* host: its handler serves one request at a time, over storage that may   *)
(* go down and come up, or have a row spoilt, between two requests.        *)
(***************************************************************************)
EXTENDS Naturals, SequencesExt

CONSTANTS
    Ids,          \* the campaign ids callers use; "" is refused
    Slugs,        \* the slugs they use; "BAD" is refused
    MaxLinks,     \* _MAX_LINKS
    MaxBody       \* links in a body

(* What the module is used with.                                           *)
TextsKnown == "" \notin Ids /\ "BAD" \notin Slugs
BoundsNat  == MaxLinks \in Nat /\ MaxBody \in Nat

VARIABLES
    rows,       \* FakeStorage._rows: id -> the record under it, if any
    down,       \* FakeStorage.down
    last        \* the last request and its answer, if any

vars == <<rows, down, last>>

Link(slug, target) == [slug |-> slug, target |-> target]

LinkBodies == {Link(s, t) : s \in Slugs \cup {"BAD"}, t \in {"https", "BAD"}}

Sound(links) == [sound |-> TRUE, links |-> links]

Spoilt == [sound |-> FALSE, links |-> <<>>]

-----------------------------------------------------------------------------
(* What callers send.  "parses" is FALSE for a body that is not JSON or has *)
(* a field of another type or none at all.                                 *)

Windows == {"sound", "badDate", "backwards"}

Calls ==
    [op : {"create"}, id : Ids \cup {""}, parses : {TRUE}, window : Windows,
     links : UNION {[1..n -> LinkBodies] : n \in 0..MaxBody}]
      \cup [op : {"create"}, id : Ids, parses : {FALSE}, window : {"sound"}, links : {<<>>}]
      \cup [op : {"add"}, id : Ids \cup {""}, parses : {TRUE}, link : LinkBodies]
      \cup [op : {"add"}, id : Ids, parses : {FALSE}, link : {Link("BAD", "BAD")}]
      \cup [op : {"get"}, id : Ids \cup {""}]
      \cup [op : {"deactivate"}, id : Ids \cup {""}, slug : Slugs \cup {"BAD"}]

-----------------------------------------------------------------------------
(* The domain: what a constructor or a method is left with, and the code it *)
(* refuses with ("" when it does not).                                     *)

IdError(id) == IF id = "" THEN "bad_campaign_id" ELSE ""

WindowError(w) ==
    CASE w = "badDate" -> "bad_date"
      [] w = "backwards" -> "window_order"
      [] OTHER -> ""

SlugError(slug) == IF slug = "BAD" THEN "bad_slug" ELSE ""

TargetError(target) == IF target = "BAD" THEN "bad_target_url" ELSE ""

LinkError(link) == IF SlugError(link.slug) # "" THEN SlugError(link.slug) ELSE TargetError(link.target)

RoomError(links, link) ==
    IF \E i \in DOMAIN links : links[i].slug = link.slug THEN "duplicate_slug"
    ELSE IF Len(links) >= MaxLinks THEN "too_many_links" ELSE ""

\* Campaign.__init__: the links in order, each constructed, then looked for
\* among those before it, then counted.
LinksError(links) ==
    LET ErrorAt(i) == IF LinkError(links[i]) # "" THEN LinkError(links[i])
                      ELSE RoomError(SubSeq(links, 1, i - 1), links[i])
        wrong == {i \in DOMAIN links : ErrorAt(i) # ""}
    IN  IF wrong = {} THEN "" ELSE ErrorAt(CHOOSE i \in wrong : \A j \in wrong : i <= j)

CampaignError(id, window, links) ==
    IF IdError(id) # "" THEN IdError(id)
    ELSE IF WindowError(window) # "" THEN WindowError(window)
    ELSE LinksError(links)

\* A mutant: the first field that is refused ends the reading of them.
FirstOnly(call) ==
    LET codes == <<IdError(call.id), SlugError(call.link.slug), TargetError(call.link.target)>>
        wrong == {i \in DOMAIN codes : codes[i] # ""}
    IN  {codes[i] : i \in {j \in wrong : \A k \in wrong : j <= k}}

\* errors.collect: every field is tried, and what each is refused for is kept.
Collected(call) ==
    {IdError(call.id), SlugError(call.link.slug), TargetError(call.link.target)} \ {""}

-----------------------------------------------------------------------------
(* Answers: what the handler makes of what leaves the service.             *)

Done(status) == [status |-> status, code |-> "", problems |-> {}]

BadRequest == [status |-> 400, code |-> "malformed_request", problems |-> {}]

Rejected(code, problems) == [status |-> 422, code |-> code, problems |-> problems]

NotFound == [status |-> 404, code |-> "campaign_not_found", problems |-> {}]

NotAdded(code) == [status |-> 409, code |-> code, problems |-> {}]

NotDeactivated(code) == [status |-> 404, code |-> code, problems |-> {}]

Fault == [status |-> 500, code |-> "internal", problems |-> {}]

\* find_campaign and the mapper: an outage and a record that is not sound are
\* no answers of the client, and end in the handler's last arm.  A mutant: a
\* storage error of any kind is a miss.
AnyMiss(id) ==
    IF down \/ rows[id] = {} THEN {NotFound}
    ELSE IF \E r \in rows[id] : ~r.sound THEN {Fault} ELSE {}

LoadFailure(id) ==
    IF down THEN {Fault}
    ELSE IF rows[id] = {} THEN {NotFound}
    ELSE IF \E r \in rows[id] : ~r.sound THEN {Fault} ELSE {}

Loaded(id) == (CHOOSE r \in rows[id] : TRUE).links

\* A mutant: a link is added that no other has the slug of, over the cap.
DuplicatesOnly(id, link) ==
    IF \E i \in DOMAIN Loaded(id) : Loaded(id)[i].slug = link.slug THEN "duplicate_slug" ELSE ""

\* Campaign.add_link of a link whose fields are sound.
NoRoom(id, link) == RoomError(Loaded(id), link)

\* The record that is saved has no place for the status of a link, and a link
\* that is built has the status active.
Saved(id, links) == [rows EXCEPT ![id] = {Sound(links)}]

-----------------------------------------------------------------------------
Init ==
    /\ rows = [id \in Ids |-> {}]
    /\ down \in BOOLEAN
    /\ last = {}

Answer(call, answer, kept) ==
    /\ rows' = kept
    /\ last' = {[call |-> call, answer |-> answer]}
    /\ UNCHANGED down

\* A mutant: a rejected campaign is stored without its links.
CreateAnyway(call) ==
    LET code == CampaignError(call.id, call.window, call.links)
    IN  CASE ~call.parses -> Answer(call, BadRequest, rows)
          [] call.parses /\ code # "" -> Answer(call, Rejected(code, {}), IF call.id = "" THEN rows ELSE Saved(call.id, <<>>))
          [] OTHER -> Answer(call, Done(201), Saved(call.id, call.links))

\* A campaign of the id that is there already is replaced, whether the storage
\* is down or not: put looks at neither.
Create(call) ==
    LET code == CampaignError(call.id, call.window, call.links)
    IN  CASE ~call.parses -> Answer(call, BadRequest, rows)
          [] call.parses /\ code # "" -> Answer(call, Rejected(code, {}), rows)
          [] OTHER -> Answer(call, Done(201), Saved(call.id, call.links))

Get(call) ==
    IF IdError(call.id) # "" THEN Answer(call, Rejected(IdError(call.id), {}), rows)
    ELSE IF LoadFailure(call.id) # {}
      THEN \E answer \in LoadFailure(call.id) : Answer(call, answer, rows)
      ELSE Answer(call, Done(200), rows)

AddLink(call) ==
    IF ~call.parses THEN Answer(call, BadRequest, rows)
    ELSE IF Collected(call) # {}
      THEN Answer(call, Rejected("validation_failed", Collected(call)), rows)
    ELSE IF LoadFailure(call.id) # {}
      THEN \E answer \in LoadFailure(call.id) : Answer(call, answer, rows)
    ELSE IF NoRoom(call.id, call.link) # ""
      THEN Answer(call, NotAdded(NoRoom(call.id, call.link)), rows)
      ELSE Answer(call, Done(200), Saved(call.id, Append(Loaded(call.id), call.link)))

\* The slug is looked at after the campaign is rebuilt.  A link just rebuilt is
\* active, so that it is never found deactivated already.
DeactivateLink(call) ==
    IF IdError(call.id) # "" THEN Answer(call, Rejected(IdError(call.id), {}), rows)
    ELSE IF LoadFailure(call.id) # {}
      THEN \E answer \in LoadFailure(call.id) : Answer(call, answer, rows)
    ELSE IF SlugError(call.slug) # "" THEN Answer(call, Rejected(SlugError(call.slug), {}), rows)
    ELSE IF \A i \in DOMAIN Loaded(call.id) : Loaded(call.id)[i].slug # call.slug
      THEN Answer(call, NotDeactivated("link_missing"), rows)
      ELSE Answer(call, Done(200), Saved(call.id, Loaded(call.id)))

Ask(call) ==
    CASE call.op = "create" -> Create(call)
      [] call.op = "add" -> AddLink(call)
      [] call.op = "get" -> Get(call)
      [] call.op = "deactivate" -> DeactivateLink(call)

GoesDownOrUp == down' = ~down /\ UNCHANGED <<rows, last>>

\* Something else writes a record the domain refuses, or that lacks a key.
Spoil ==
    /\ \E id \in Ids : rows[id] # {} /\ rows' = [rows EXCEPT ![id] = {Spoilt}]
    /\ UNCHANGED <<down, last>>

Next ==
    \/ \E call \in Calls : Ask(call)
    \/ GoesDownOrUp
    \/ Spoil

Spec == Init /\ [][Next]_vars

-----------------------------------------------------------------------------
(* What the service stores is a campaign the domain lets be rebuilt: distinct
   slugs, each well formed, no more links than the cap (Campaign.__init__ and
   add_link against MapToSaveCampaignRequest). *)
StoredCampaignsLoad ==
    \A id \in Ids : \A r \in rows[id] : r.sound => CampaignError(id, "sound", r.links) = ""

(* A request that is refused or fails changes nothing that is stored
   (CampaignService's operations). *)
RefusalsChangeNothing ==
    [][\A l \in last' : last' # last /\ l.answer.status >= 400 => rows' = rows]_vars

(* A refusal is about the request: 422 names something wrong in it, whatever
   is stored, and a stored record at fault or a storage that is down is a fault
   of the server, never a campaign that is not found (find_campaign, the
   handler's arms, test_repo_storage.py, test_repository.py). *)
BlameIsRight ==
    [][\A l \in last' : last' # last =>
        LET call == l.call
            slugs == CASE call.op = "create" -> {call.links[i].slug : i \in DOMAIN call.links}
                       [] call.op = "add" -> {call.link.slug}
                       [] call.op = "deactivate" -> {call.slug}
                       [] OTHER -> {}
            stored == IF call.id = "" THEN {} ELSE rows[call.id]
        IN  /\ l.answer.code = "campaign_not_found" => ~down /\ stored = {}
            /\ l.answer.status = 500 => down \/ \E r \in stored : ~r.sound
            /\ l.answer.code = "bad_slug" => "BAD" \in slugs
            /\ l.answer.status = 409 => ~down /\ \E r \in stored : r.sound]_vars

(* One answer reports every field of a link that is refused, and those only
   (errors.collect in add_link). *)
EveryProblemAtOnce ==
    \A l \in last : l.call.op = "add" /\ l.call.parses =>
        /\ "bad_slug" \in l.answer.problems <=> l.call.link.slug = "BAD"
        /\ "bad_target_url" \in l.answer.problems <=> l.call.link.target = "BAD"
        /\ "bad_campaign_id" \in l.answer.problems <=> l.call.id = ""
=============================================================================
