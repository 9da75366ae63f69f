CONSTANTS
    Procs = {p1, p2, p3}
    NoLock = NoLock
    MaxCrashes = 1
    MaxRevision = 1
SPECIFICATION LeaseSpec
INVARIANT LeaseExclusive
CHECK_DEADLOCK FALSE
