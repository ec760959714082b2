CONSTANTS
    Request = {p1, p2, p3, p4, p5}
    Field = {title}
    Existing = {title}
    MaxLive = 2
    Earlier = Earlier
    Original = Original
    Nobody = Nobody

SPECIFICATION Spec

SYMMETRY RequestSymmetry

INVARIANT
    MirrorIsConsistent
