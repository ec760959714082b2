SPECIFICATION FairSpec
CONSTANTS
    r1 = r1
    r2 = r2
    r3 = r3
    r4 = r4
    r5 = r5
    e1 = e1
    e2 = e2
    Request = {r1, r2, r3, r4}
    Email = {e1}
    AccessLife = 1
    RefreshLife = 2
    MaxTime = 2
INVARIANTS
    TypeOK
    OneAccountPerEmail
PROPERTIES
    LogoutIsFinal
    RequestEnds
