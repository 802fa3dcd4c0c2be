SPECIFICATION Spec
SYMMETRY SkbSymmetry
CONSTANTS
    Capacity = 3
    Vifs = {0, 1}
    Links = {0}
    Skbs = {s1, s2}
    FlushVifs = {1}
    TimerSlots = 1
    MaxClears = 1
    MaxRequeue = 0
    MaxGone = 0
    None = None
    Dangling = Dangling
INVARIANTS
    SkbFreedOnce
    CountersExact
    LockBalance
