SPECIFICATION Spec
CONSTANTS
    p1 = p1
    p2 = p2
    Proc = {p1, p2}
    Capacity = 4
    Rate = 1
    One = 2
    Timeout = 2
    KeyLife = 5
    MaxLag = 1
    MaxTime = 9
    MaxBack = 2
INVARIANT NeverTooFastAtAll
