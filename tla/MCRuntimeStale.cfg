SPECIFICATION RuntimeSpec
CONSTANTS
    Keys = {k1}
    Values = {v1}
    NoValue = NoValue
    k1 = k1
    v1 = v1
    SizeOf <- ValueSizes
    MaxKeys = 1
    MaxBytes = 2
    NumLanes = 2
    Stages <- OneCallEach
    Scripts <- FirstCallEdited
    Nested = {}
    Asks <- NoAsks
    Results = {"r"}
    Writes <- WritesOfFirst
    MaxAgents = 4
    Concurrency = 2
    MaxExecutions = 3
INVARIANT NoStaleReplay
CHECK_DEADLOCK FALSE
