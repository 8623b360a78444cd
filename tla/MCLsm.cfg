SPECIFICATION LsmSpec
CONSTANTS
    Tombstone = Tombstone
    Missing = Missing
    RestartInterval = 2
    BloomBits = 3
    NumHashes = 2
    Hash1 <- MCHash1
    Hash2 <- MCHash2
    Keys = {1, 2}
    MemtableBytes = 2
    CompactAfterEdits = 3
    Settings <- Crashing
    MaxTableId = 5
CHECK_DEADLOCK FALSE
INVARIANT LsmReadsTheWrites
INVARIANT LevelsAreSound
INVARIANT ManifestNamesWholeFiles
