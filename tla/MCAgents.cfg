CONSTANTS
    a1 = a1  a2 = a2  a3 = a3
    r1 = r1  r2 = r2
    Attempts <- SmallAttempts
    Signals <- SmallAttempts
    SignalOf <- OwnSignal
    Runs <- SmallRuns
    RunOf <- SmallRunOf
    MaxProviderConcurrency = 2
    MaxQueuedProviderAttempts = 1
    MaxLateAttempts = 1
    Sessions = {s1, s2, s3}
    WithSchema = {s1}
    MaxSchemaRetries = 1
    MaxExpiries = 1
    ShownRuns = {n1, n2}
    Agents = {g1}
    Saved <- SavedOne
    NoView = NoView
    MaxHistory = 1
    MaxChanges = 1
SPECIFICATION Spec
INVARIANTS OverrunsAreMarked ActivityIsShown
PROPERTIES UsesPermits AbortEndsCalls GateLetsGo
CHECK_DEADLOCK FALSE
