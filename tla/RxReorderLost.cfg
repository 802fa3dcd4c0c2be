SPECIFICATION Spec
CONSTANTS
    SeqSpace = 16
    BuffLen = 4
    Retry = 8
    Timeout = 2
    FirstSeq = 13
    MaxFrame = 8
    MaxLoss = 4
    MaxAddba = 2
    MaxReset = 1
    TimerSlots = 3
    None = None
INVARIANTS
    NewestSentUp
CHECK_DEADLOCK FALSE
