SPECIFICATION QueriesSpec
CONSTANTS
    MAX_INDEXED_STRING = 3
    MAX_FIELD_PATH = 4
    MAX_METADATA_DEPTH = 4
    MAX_INDEXED_VALUES = 6
    MAX_FILTER_DEPTH = 3
    MagnitudeBits = 2
    Idf <- IdfTable
    MIN_FETCH = 2
    MAX_CANDIDATES = 4
    MAX_K = 4
    Cjk = {"cat", "dog"}
    Separators = {" ", "dot"}
    Wide = {"e'", "E'", "I.", "dot"}
    Lower <- LowerCase
    STOPWORDS <- Stops
    MAX_TOKEN_CHARS = 6
    LANES = 8
    NEON_LANES = 4
    Questions <- AllQuestions
CHECK_DEADLOCK FALSE
INVARIANT FiltersAgree
INVARIANT ListingsAreWhole
INVARIANT SearchIsHonest
INVARIANT TextIsSearchable
INVARIANT KernelsAddEachOnce
