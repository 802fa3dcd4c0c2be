SPECIFICATION Spec
CONSTANTS
    MaxWorks = 4
    Works <- MCWorks
    NoWork = NoWork
    Modes <- MCModes
    MaxTrouble = 3
    MaxQueue = 4
INVARIANTS
    TypeOK
    WayBack
    OwnWork
    Calm
    StopQuiet
CHECK_DEADLOCK FALSE
PROPERTY Reconnected
