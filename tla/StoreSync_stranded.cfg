SPECIFICATION Spec
CONSTANTS
    s1 = s1
    s2 = s2
    a1 = a1
    c1 = c1
    c2 = c2
    shop1 = shop1
    shop2 = shop2
    Sync = {s1}
    Apply = {}
    Connect = {c1}
    Shop = {shop1}
    StoreLimit = 1
    MaxRetries = 0
    MaxStale = 1
    MaxFaults = 0
INVARIANTS
    DisconnectedCanReconnect
