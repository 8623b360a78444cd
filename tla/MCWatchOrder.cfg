SPECIFICATION WatchSpec
CONSTANTS
    all = all
    some = some
    k1 = k1
    k2 = k2
    Nobody = Nobody
    Writers = {w1, w2}
    Watchers = {all, some}
    Observed <- MCObserved
    WatchSettings <- KeepsUp
    Valued = {all}
    Keys = {k1, k2}
INVARIANTS
    InCommitOrder
CHECK_DEADLOCK FALSE
