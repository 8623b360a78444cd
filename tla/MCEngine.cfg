SPECIFICATION EngineSpec
CONSTANTS
    Keys = {k1, k2}
    Values = {v1}
    None = None
    Absent = Absent
    MaxTxnId = 3
    CheckpointFrames = 3
    Settings <- AllSettings
    MaxLog = 2
INVARIANT EngineIsSound
INVARIANT LoggedIdsAreSpent
PROPERTY CrashesKeepCommits
PROPERTY DurableSnapshotIsolation
