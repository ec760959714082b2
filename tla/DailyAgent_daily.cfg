SPECIFICATION FairSpec
CONSTANTS
    r1 = r1
    r2 = r2
    w1 = w1
    w2 = w2
    l1 = l1
    l2 = l2
    Run = {r1, r2}
    Worker = {w1, w2}
    Listing = {l1, l2}
    NoListing = NoListing
    Watched = {r1}
    ListingCap = 2
    Cost = 2
    InitialBalance = 3
    DailyCap = 9
    TTL = 1
    Threshold = 2
    MaxFires = 1
    MaxFaults = 1
INVARIANTS
    TypeOK
    BalanceFallsOnce
    DigestIsComplete
    TotalsAreLogged
    OneNoticePerFlag
    ToldIsFinished
PROPERTY RunCompletes
