CONSTANTS
    Request = {p1, p2, p3}
    Field = {title}
    Existing = {title}
    MaxLive = 3
    Earlier = Earlier
    Original = Original
    Nobody = Nobody

SPECIFICATION Spec

INVARIANT
    RejectedIsNotWritten
