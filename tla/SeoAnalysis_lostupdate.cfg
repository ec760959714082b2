CONSTANTS
    r1 = r1
    NoProc = NoProc
    Run = {r1, r2}
    StoreOf <- TwoStores
    Cost = 2
    InitialBalance = 4
    DailyCap = 4
    TTL = 2
    StaleAfter = 1
    MaxDeliveries = 1
    Unlucky = {}
    MaxMidnights = 0
    RedisMayFail = FALSE

SPECIFICATION Spec

INVARIANT BalancePays
