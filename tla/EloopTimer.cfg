SPECIFICATION FairSpec
CONSTANTS
    Timers = {t1, t2}
    QueueSize = 2
    Handlers = {h1, h2}
    MaxRegs = 4
    None = None
INVARIANTS
    TypeOK
    OneList
    RunsAsRegistered
PROPERTIES
    Served
CHECK_DEADLOCK FALSE
