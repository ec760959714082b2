CONSTANTS
    Request = {p1, p2, p3, p4}
    Field = {title, tags}
    Existing = {title}
    MaxLive = 1
    Earlier = Earlier
    Original = Original
    Nobody = Nobody

SPECIFICATION Spec

INVARIANTS
    MirrorAfterAnswer
