SPECIFICATION Spec
CONSTANTS
    Types = {"a", "b"}
    MaxCmds = 2
    Faults = {"timeout"}
    MaxFaults = 2
INVARIANTS
    LateAnswerFindsNoArg
CHECK_DEADLOCK FALSE
