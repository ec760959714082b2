CONSTANTS
    Request = {p1, p2}
    Field = {title}
    Existing = {title}
    MaxLive = 1
    Earlier = Earlier
    Original = Original
    Nobody = Nobody

SPECIFICATION Spec

INVARIANT
    RetryIsPossible
