\* One call, two databases and one closer, three requests on one widget with one connection,
\* two tool calls, two commands, one write with one load, two edits of a tree.
SPECIFICATION FairSpec
CONSTANTS
    x1 = x1
    x2 = x2
    x3 = x3
    NoTask = NoTask
    NoPool = NoPool
    NoCall = NoCall
    NoRow = NoRow
    NoSlot = NoSlot
    NoText = NoText
CHECK_DEADLOCK FALSE
PROPERTIES
    EveryoneIsServed
