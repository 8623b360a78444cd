SPECIFICATION Spec
CONSTANTS
    Pages = {0, 1, 2}
    Contents = {a, b}
    Blank = a
    Torn = Torn
    Settings <- OneKindOfCrash
    MaxCrashes = 2
INVARIANT FileIsOneFlush
PROPERTY OpenReturnsOneFlush
