CONSTANTS
    a1 = a1  a2 = a2  a3 = a3  a4 = a4  a5 = a5
    s1 = s1  s2 = s2  s3 = s3  s4 = s4
    Attempts <- SmallAttempts
    Signals <- SmallSignals
    SignalOf <- SmallSignalOf
    MaxProviderConcurrency = 2
    MaxQueuedProviderAttempts = 2
    Procs = {p1, p2}
    NoLock = NoLock
    MaxCrashes = 1
    MaxRevision = 3
    LimitedRuns = {r1, r2}
    OptedOut = {}
    MaxAttempts = 1
    MaxArmedTimers = 1
    MaxHits = 2
    MaxRestarts = 1
SPECIFICATION Spec
INVARIANT OnlyLimitPausesResume
PROPERTIES FirstComeFirstServed EveryWaiterAnswered NoLostUpdate DeadLockYields LimitPausesEnd
CHECK_DEADLOCK FALSE
