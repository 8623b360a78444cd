SPECIFICATION VectorsSpec
CONSTANTS
    Params <- SmallGraph
    Settings <- WorkingSettings
    Ids = {a, b, c}
    Vecs = {1, 3}
    MaxRecords = 4
    a = a
    b = b
    c = c
SYMMETRY AnyId
CHECK_DEADLOCK FALSE
INVARIANT EngineHoldsTheVectors
INVARIANT IndexIsSound
INVARIANT SearchesAnswer
