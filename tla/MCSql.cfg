SPECIFICATION SqlSpec
CONSTANTS
    INT_MAX = 15
    UpperCase <- Letters
    fold <- Folding
    UnusableNames = {}
    MAX_DEPTH = 8
    MAX_KEY_TEXT = 2
    Clients = {c1, c2}
    Nobody = Nobody
    MAX_CONFLICT_RETRIES = 2
    Settings <- AllSettings
CHECK_DEADLOCK FALSE
INVARIANT RunsWhatIsWritten
INVARIANT TablesStaySound
INVARIANT SelectsMeanTheirClauses
PROPERTY AllOrNothing
PROPERTY StatementsReturn
