SPECIFICATION Spec
CONSTANTS
    a1 = a1
    a2 = a2
    a3 = a3
    Agents <- Solo
    Callers = {tool}
    Batches <- SoloBatch
    Deps <- Loose
    Files <- SoloFile
    Ops = {"queue"}
    MaxRestarts = 0
    MaxSends = 2
    StoreFails = FALSE
INVARIANT TakenInputsRun
CHECK_DEADLOCK FALSE
