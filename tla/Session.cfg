SPECIFICATION SessionSpec
CONSTANTS
    PreserveRecent = 2
    MaxMessages = 7
    MaxSystem = 1
    MaxUpsets = 2
    MayFail = TRUE
    Managed = TRUE
    Sessions = {s1, s2}
    MaxEvents = 3
    MaxFaults = 2
    MaxSessions = 1
    MaxAge = 9
    Patterns = {p1, p2, p3}
    Outcomes = {o1, o2}
    NoPattern = none
    HistorySize = 5
    Warning = 3
    Critical = 4
    Breaker = 4
    Runtimes = {r1, r2}
    Root = r1
    MaxCalls = 2
    MaxTurns = 1
    e1 = e1
    e2 = e2
    ExecIds <- MCExecIds
    ExecCallers = {x1, x2}
    MaxOutput <- MCMaxOutput
    MaxTracked = 1
    Paths = {f1, f2}
    Texts = {t1}
    Absent = gone
    MaxRecords = 3
    MaxAnchors = 2
    MaxUnrecorded = 1
    MaxPastes = 2
    Images = {i1}
    MaxRemotes = 2
    MaxText = 4
    MaxHistory = 2
    MaxSteps = 4
INVARIANTS
    SessionTypeOK
     ChainIsCurrent  AlwaysResumable
    AckedReadable 
    ChurnBounded WarningsScoped
     WaitersAreServed TurnGrantsEnd
     
    RestoreReaches RoundRewindsTurn
    ShowsEntry

     
CHECK_DEADLOCK FALSE
