SPECIFICATION Spec
CONSTANTS
    a1 = a1
    a2 = a2
    a3 = a3
    Agents <- Solo
    Callers = {tool, operator}
    Batches <- SoloBatch
    Deps <- Loose
    Files <- SoloFile
    Ops = {"cancel"}
    MaxRestarts = 0
    MaxSends = 0
    StoreFails = FALSE
PROPERTY CancelSticks
CHECK_DEADLOCK FALSE
