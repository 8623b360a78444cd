SPECIFICATION IsolatesSpec
CONSTANTS
    Holders = {"worker", "watch", "app"}
    NoOne = NoOne
    Elsewhere = Elsewhere
    Closers = {"first", "second"}
    Settings <- MCSettings
CHECK_DEADLOCK FALSE
INVARIANT OneEngine
INVARIANT HandlesAreSound
PROPERTY EveryCallReturns
PROPERTY NothingIsLeftOpen
