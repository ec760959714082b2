CONSTANTS
    r1 = r1
    NoProc = NoProc
    Run = {r1}
    StoreOf <- OneStore
    Cost = 2
    InitialBalance = 4
    DailyCap = 4
    TTL = 2
    StaleAfter = 1
    MaxDeliveries = 1
    Unlucky = {}
    MaxMidnights = 0
    RedisMayFail = FALSE

SPECIFICATION Spec

INVARIANT CompletedRunIsCharged
