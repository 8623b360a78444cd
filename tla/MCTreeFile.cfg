SPECIFICATION TreeFileSpec
CONSTANTS
    KeyLen <- MCKeyLen
    ValueLen <- MCValueLen
    GrowChunk = 2
    Settings <- Shapes
CHECK_DEADLOCK FALSE
INVARIANT CacheIsCurrent
INVARIANT TreeHoldsTheWrites
INVARIANT TreeIsSound
INVARIANT SalvageRecoversIntactPairs
