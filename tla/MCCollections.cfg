SPECIFICATION CollectionsSpec
CONSTANTS
    MAX_INDEXED_STRING = 3
    MAX_FIELD_PATH = 4
    MAX_METADATA_DEPTH = 4
    MAX_INDEXED_VALUES = 6
    MAX_FILTER_DEPTH = 3
    MagnitudeBits = 2
    Ids <- TwoIds
    Batches <- SomeBatches
    Deletes <- SomeDeletes
    Settings <- WorkingSettings
CHECK_DEADLOCK FALSE
INVARIANT IndexMatchesDocuments
INVARIANT StoresAgree
PROPERTY BackToIdle
