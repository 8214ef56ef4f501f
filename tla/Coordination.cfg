SPECIFICATION CoordinationSpec
CONSTANTS
    a1 = a1
    a2 = a2
    Agents <- MCAgents
    Callers = {c1, c2}
    Waiters = {w1}
    Requests <- MCRequests
    Holders <- MCAgents
    RawPaths <- MCRawPaths
    MaxClaim = 2
INVARIANTS
    NoLostWakeup
    IndexConsistent
PROPERTIES
    WaitReturns ImplementsWriteLease
