SPECIFICATION Spec
CONSTANTS
    spring = spring
    summer = summer
    autumn = autumn
    promo = promo
    sale = sale
    shop = shop
    blog = blog
    odd = odd
    evil = evil
    r1 = r1
    r2 = r2
    r3 = r3
    r4 = r4
    Threads <- MCThreads3
    Campaigns <- MCCampaigns
    Slugs <- MCSlugs
    Targets <- MCTargets
    Denied <- MCDenied
    Unreadable <- MCUnreadable
    Calls <- ReaderCalls
    SeedOrder <- MCSeedOrder
    SeedLinks <- MCSeedLinks
SYMMETRY Symmetric
CHECK_DEADLOCK FALSE
INVARIANTS
    TypeOK
    NothingUnvetted
    ReportsAreRuled
    OnlyCreationBreaksAScan
