SPECIFICATION FairSpec
CONSTANTS
    NumInpChBufs = 2
    Half = 16
    MaxXmits = 4
    MaxQueued = 2
INVARIANTS
    TypeOK
    DeviceNotOverrun
    XmitAsserts
    StaleFreeNeedsStall
PROPERTIES
    FramesAreSent
    StopEnds
CHECK_DEADLOCK FALSE
