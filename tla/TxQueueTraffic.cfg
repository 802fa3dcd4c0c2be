SPECIFICATION Spec
SYMMETRY SkbSymmetry
CONSTANTS
    Capacity = 3
    Vifs = {0}
    Links = {0, 1}
    Skbs = {s1, s2}
    FlushVifs = {}
    TimerSlots = 1
    MaxClears = 0
    MaxRequeue = 1
    MaxGone = 1
    None = None
    Dangling = Dangling
INVARIANTS
    TypeOK
    PoolPartition
    CountersExact
    ConfirmHitsOwnFrame
    ExpiryArmed
