CONSTANTS
    Request = {p1, p2}
    Field = {title}
    Existing = {}
    MaxLive = 2
    Earlier = Earlier
    Original = Original
    Nobody = Nobody

SPECIFICATION Spec

INVARIANT
    OnePendingPerField
