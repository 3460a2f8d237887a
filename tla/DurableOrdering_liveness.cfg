\* One order id and two sittings: orders refused on every ground there is, with
\* a kill, and fair weather with fewer lost attempts than the retry policy allows.
SPECIFICATION FairSittings
CONSTANTS
    Requests = {"pay_unpriced", "place_too_much", "submit_nothing", "run_unreadable",
                "pay_card", "pay_declined", "place"}
    Body <- MCBody
    OrderIds = {"o1"}
    Catalog <- MCCatalog
    MaxUnits = 3
    MaxCents = 25
    MaxAttempts = 4
    MaxDrops = 2
    MaxRestarts = 1
    MaxKills = 1
PROPERTIES
    NothingHangs
    FairWeatherServes
CHECK_DEADLOCK FALSE
