\* Two sittings: four calls that race for one order id through every door, and
\* four on the public routes of two order ids.
SPECIFICATION RaceSpec
CONSTANTS
    Requests = {"pay_card", "pay_declined", "place", "submit",
                "run_foreign", "pay_foreign", "pay_unreadable", "pay_other"}
    Body <- MCBody
    OrderIds = {"o1", "o2"}
    Catalog <- MCCatalog
    MaxUnits = 3
    MaxCents = 25
    MaxAttempts = 2
    MaxDrops = 1
    MaxRestarts = 1
    MaxKills = 1
INVARIANTS
    TypeOK
    ChargedOnce
    EveryChargeIsEarned
    AnswersAreTheCallersOwn
    NoPaymentMismatch
    AlreadyStartedIsHonest
    DeclinedNeverCharged
    OneWinner
    KeyedByOwnOrder
PROPERTIES
    KeepsSettlement
CHECK_DEADLOCK FALSE
