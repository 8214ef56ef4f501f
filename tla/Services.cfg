SPECIFICATION ServicesSpec
CONSTANTS
    c1 = c1
    c2 = c2
    MaxCommands = 3
    Monitors = {m1}
    Stoppers = {k1, k2}
    Crons <- MCCrons
    MaxRuns <- MCMaxRuns
    MaxCronFaults = 2
    Clients = {d1, d2}
    MaxRequests = 2
INVARIANTS
    ServicesTypeOK
    AppliedAsShown SteersInOrder
    StopReported
    RunsHaveTasks
    
PROPERTIES
    QueueServed MonitorSettles  LeaseEnforced
CHECK_DEADLOCK FALSE
