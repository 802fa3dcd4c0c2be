SPECIFICATION Spec
CONSTANTS
    NumInpChBufs = 2
    Half = 3
    MaxXmits = 5
    MaxQueued = 2
INVARIANTS
    XmitAsserts
CHECK_DEADLOCK FALSE
