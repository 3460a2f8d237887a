\* One campaign of one link or two slugs, two databases, one widget of three parts, two
\* slots, two names; the actors of each part are in the module.
SPECIFICATION PartSpec
CONSTANTS
  Tasks <- PoolTasks
  Does <- PoolOps
  Order <- PoolOrder
  MaxSize = 1
  CampaignIds = {"c1"}
  CampaignSlugs = {"sale", "deal"}
  LinkCap = 1
  BodyCap = 2
  Requesters = {a1, a2, c}
  Requests <- LampRequests
  WidgetNames = {"lamp"}
  WidgetParts = {"lamp", "bulb", "cord"}
  Connections = 2
  ApprovalNames = {"z"}
  Approvers = {a1, a2}
  RacingNames = {"k", "z"}
  RacingHeld = {"k"}
  Racers = {c}
  Tries = 2
  a1 = a1
  a2 = a2
  b1 = b1
  b2 = b2
  c = c
  Nobody = Nobody
  NoPool = NoPool
  NoCall = NoCall
  NoRow = NoRow
  NoSlot = NoSlot
SYMMETRY Alike
CHECK_DEADLOCK FALSE
INVARIANTS
  PoolsAreAccountedFor
PROPERTIES
  ErrorsAreHonest
  WidgetChangesHold
  SlotsAreSoldAsBooked
  ApprovalsHold
