CONSTANTS
    Request = {p1, p2, p3, p4}
    Field = {title, tags}
    Existing = {title, tags}
    MaxLive = 2
    Earlier = Earlier
    Original = Original
    Nobody = Nobody

SPECIFICATION Spec

SYMMETRY RequestSymmetry

INVARIANT
    HashIsOfContent
