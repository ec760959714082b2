CONSTANTS
    Request = {p1, p2, p3, p4}
    Field = {title, tags}
    Existing = {title}
    MaxLive = 3
    Earlier = Earlier
    Original = Original
    Nobody = Nobody

SPECIFICATION FairSpec

INVARIANTS
    TypeOK
    WrittenWasApproved
    OneApplyPerRow
    ShownWasWritten

PROPERTY
    EveryRequestAnswered
