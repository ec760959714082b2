CONSTANTS
    r1 = r1
    NoProc = NoProc
    Run = {r1, r2}
    StoreOf <- OneStore
    Cost = 2
    InitialBalance = 4
    DailyCap = 2
    TTL = 2
    StaleAfter = 1
    MaxDeliveries = 2
    Unlucky = {r1}
    MaxMidnights = 0
    RedisMayFail = FALSE

SPECIFICATION Spec

INVARIANT DailyAllowance
