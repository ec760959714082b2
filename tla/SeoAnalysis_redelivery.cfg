CONSTANTS
    r1 = r1
    NoProc = NoProc
    Run = {r1}
    StoreOf <- OneStore
    Cost = 2
    InitialBalance = 4
    DailyCap = 4
    TTL = 2
    StaleAfter = 1
    MaxDeliveries = 3
    Unlucky = {r1}
    MaxMidnights = 0
    RedisMayFail = TRUE

SPECIFICATION FairSpec

INVARIANTS
    MessageHasRow

PROPERTIES
    RunFinishes
    HoldsExpire
