SPECIFICATION Spec
CONSTANTS
    Keys = {k1, k2}
    Values = {v1, v2}
    None = None
    Absent = Absent
    MaxTxnId = 3
SYMMETRY Symmetry
INVARIANT FirstCommitterWins
INVARIANT SnapshotsCounted
PROPERTY SnapshotIsolation
