SPECIFICATION Spec
CONSTANTS
    a1 = a1
    a2 = a2
    a3 = a3
    Agents <- Trio
    Callers = {tool, operator}
    Batches <- TwoBatches
    Deps <- ChainedBatch
    Files <- Nested
    Ops = {"resume"}
    MaxRestarts = 1
    MaxSends = 0
    StoreFails = FALSE
INVARIANT LeasesExclusive
CHECK_DEADLOCK FALSE
