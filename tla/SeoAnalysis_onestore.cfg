CONSTANTS
    r1 = r1
    NoProc = NoProc
    Run = {r1, r2}
    StoreOf <- OneStore
    Cost = 2
    InitialBalance = 2
    DailyCap = 4
    TTL = 2
    StaleAfter = 1
    MaxDeliveries = 2
    Unlucky = {r1}
    MaxMidnights = 1
    RedisMayFail = FALSE

SPECIFICATION Spec

INVARIANTS
    TypeOK
    ChargeAtMostOnce
    OneAnalysisPerRun
    CounterOutlivesHolds
    RefusalLeavesNothing

PROPERTY KeepsThePromise
