SPECIFICATION Spec
CONSTANTS
    s1 = s1
    s2 = s2
    a1 = a1
    c1 = c1
    c2 = c2
    shop1 = shop1
    shop2 = shop2
    Sync = {}
    Apply = {}
    Connect = {c1, c2}
    Shop = {shop1, shop2}
    StoreLimit = 1
    MaxRetries = 0
    MaxStale = 0
    MaxFaults = 0
INVARIANTS
    WithinStoreLimit
