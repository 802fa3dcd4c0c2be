SPECIFICATION Spec
CONSTANTS
    SeqSpace = 16
    BuffLen = 4
    Retry = 8
    Timeout = 2
    FirstSeq = 13
    MaxFrame = 7
    MaxLoss = 7
    MaxAddba = 2
    MaxReset = 1
    TimerSlots = 3
    None = None
INVARIANTS
    TypeOK
    BuffExact
    TimeMarked
    InOrder
    HeldAtMost
CHECK_DEADLOCK FALSE
