SPECIFICATION FairSpec
CONSTANTS
    Types = {"a", "b"}
    MaxCmds = 2
    Faults = {"timeout", "stall", "loss", "repeat", "buserror", "syncTimeout"}
    MaxFaults = 3
INVARIANTS
    TypeOK
    OwnAnswer
    EventMeansDone
    SlotOwned
    RecoveryOnItsWay
PROPERTIES
    CommandsReturn
CHECK_DEADLOCK FALSE
