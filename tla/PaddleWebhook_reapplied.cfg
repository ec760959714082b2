CONSTANTS
    starter = starter
    growth = growth
    Trial = Trial
    NoPlan = NoPlan
    Nobody = Nobody
    Plan = {starter, growth}
    Monthly <- MonthlyCredits
    Event <- Purchases
    Delivery = {d1, d2, d3}
    Server = {s1}
    Charge = {}
    RunCost = 2
    InitialBalance = 1

SPECIFICATION Spec

INVARIANT
    NeverReapplied
