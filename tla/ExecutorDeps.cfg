SPECIFICATION Spec
CONSTANTS
    a1 = a1
    a2 = a2
    a3 = a3
    Agents <- Pair
    Callers = {tool}
    Batches <- OneBatch
    Deps <- Chain
    Files <- Disjoint
    Ops = {"cancel", "resume"}
    MaxRestarts = 1
    MaxSends = 0
    StoreFails = FALSE
INVARIANT NoOrphan
INVARIANT DependentsWait
CHECK_DEADLOCK FALSE
