SPECIFICATION Spec
CONSTANTS
    a1 = a1
    a2 = a2
    a3 = a3
    Agents <- Solo
    Callers = {tool}
    Batches <- SoloBatch
    Deps <- Loose
    Files <- SoloFile
    Ops = {"resume", "queue"}
    MaxRestarts = 1
    MaxSends = 1
    StoreFails = FALSE
INVARIANT WorkingHoldsLease
CHECK_DEADLOCK FALSE
