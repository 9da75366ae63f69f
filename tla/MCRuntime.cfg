SPECIFICATION Spec
CONSTANTS
    Keys = {k1, k2}
    Values = {v1, v2}
    NoValue = NoValue
    k1 = k1
    k2 = k2
    v1 = v1
    v2 = v2
    SizeOf <- ValueSizes
    MaxKeys = 2
    MaxBytes = 3
    NumLanes = 3
    Stages <- StagesOfLanes
    Scripts <- ScriptVersions
    Nested = {2}
    Asks <- LastStageAsks
    Results = {"r"}
    Writes <- WritesOfLanes
    MaxAgents = 4
    Concurrency = 2
    MaxExecutions = 2
    Windows = {w1, w2}
    Snapshots <- SavedContents
    MaxWrites = 3
INVARIANTS StoreFollowsCallOrder ReplaysPrefix StoreAgreesWithLog
PROPERTY RunEnds
CHECK_DEADLOCK FALSE
