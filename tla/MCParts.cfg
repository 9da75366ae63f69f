CONSTANTS
    m1 = m1  m2 = m2  m3 = m3
    c1 = c1  c2 = c2
    Members <- SmallMembers
    Foreign = {m3}
    Tasks = {t1}
    TeamCalls = {c1, c2}
    Tries <- SmallTries
    MaxMembers = 2
    MaxMembersPerRun = 3
    MaxTasksPerRun = 1
    MaxMessages = 1
    MaxMessagesPerRun = 1
    InboxLimit = 1
    MaxAgents = 2
    Nobody = Nobody
    Maker = maker
    Reapers = {r1, r2}
    NoProc = NoProc
    MaxFaults = 2
    RecordProcs = {p1, p2}
    LegacyFiles = {"legacy"}
    NoOwner = NoOwner
    DeadOwner = DeadOwner
    MaxRevision = 3
    MaxFileFaults = 1
    o1 = o1  o2 = o2
    OutCalls = {o1, o2}
    MaxOutbox = 3
    MaxPerWait = 1
    MaxSteering = 1
    MaxResults = 2
    MaxOutGens = 2
    MaxDelivered = 2
    MaxOutFaults = 1
    k1 = k1  k2 = k2
    Calls <- TwoCalls
    MaxTries <- OneRetry
    Estimate = 1
    Amounts = {0, 2}
    TokenBudget = 3
    MaxExecutions = 2
    Unknown = Unknown
    Projects = {here, there}
    LaunchDir = here
    Versions = {v1, v2}
    WorkRuns = {w1}
    MaxManagers = 3
    MaxSessions = 3
    NoOne = NoOne
    Results = {1, 2, 3, 4}
    Notices = {4}
    MaxProjections = 1
    MaxSubmissions = 2
    MaxFailures = 1
    MaxGeneration = 1
    MaxHostRestarts = 1
SPECIFICATION Spec
INVARIANTS
    ReservedIsHeld FailedMembersHoldNothing
    HealthySurvives FailedCleanupIsKnown
    NewestOrGone
    EachResultOnce ResultsStayReachable WaitsAreReleased
    SpendingIsAccounted NoRunStranded EachGenerationHasAll
PROPERTIES SweepSparesTheLiving ResultsFindASession
CHECK_DEADLOCK FALSE
