SPECIFICATION Spec
CONSTANTS
    PreserveRecent = 2
    MaxMessages = 6
    MaxSystem = 0
    MaxUpsets = 1
    MayFail = FALSE
    Managed = FALSE
INVARIANT SessionResumes
CHECK_DEADLOCK FALSE
