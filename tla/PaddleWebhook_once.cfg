CONSTANTS
    starter = starter
    growth = growth
    Trial = Trial
    NoPlan = NoPlan
    Nobody = Nobody
    Plan = {starter, growth}
    Monthly <- MonthlyCredits
    Event <- FirstPurchases
    Delivery = {d1, d2, d3}
    Server = {s1}
    Charge = {c1}
    RunCost = 2
    InitialBalance = 1

SPECIFICATION FairSpec

INVARIANTS
    TypeOK
    AppliedOnce
    RecordedIsApplied

PROPERTIES
    StaleColumnsStay
    EndsOrFreezes
