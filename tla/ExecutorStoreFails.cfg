SPECIFICATION Spec
CONSTANTS
    a1 = a1
    a2 = a2
    a3 = a3
    Agents <- Solo
    Callers = {tool}
    Batches <- SoloBatch
    Deps <- Loose
    Files <- SoloFile
    Ops = {"queue", "interrupt", "resume", "cancel"}
    MaxRestarts = 2
    MaxSends = 1
    StoreFails = TRUE
INVARIANT TypeOK
 
CHECK_DEADLOCK FALSE
