SPECIFICATION Spec
CONSTANTS
    PreserveRecent = 2
    MaxMessages = 8
    MaxSystem = 2
    MaxUpsets = 0
    MayFail = FALSE
    Managed = FALSE
INVARIANT ToolPairs
CHECK_DEADLOCK FALSE
