SPECIFICATION Spec
CONSTANTS
    a1 = a1
    a2 = a2
    a3 = a3
    Agents <- Solo
    Callers = {tool, operator}
    Batches <- SoloBatch
    Deps <- Loose
    Files <- SoloFile
    Ops = {"interrupt", "resume", "cancel"}
    MaxRestarts = 1
    MaxSends = 0
    StoreFails = FALSE
PROPERTY Settles
PROPERTY LeaseReturned
CHECK_DEADLOCK FALSE
