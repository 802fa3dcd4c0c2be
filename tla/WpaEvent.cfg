SPECIFICATION Spec
CONSTANTS
    Posters = {p1, p2}
    MaxEvents = 3
    None = None
INVARIANTS
    TypeOK
    AckIsOwn
PROPERTIES
    ImplementsFifo
    PosterReturns
    DestroyEnds
CHECK_DEADLOCK FALSE
