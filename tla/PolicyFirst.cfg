SPECIFICATION Spec
CONSTANTS
    N = 2
    M = 5
    CountMod = 16
    Span = 3
    MaxError50 = 3
INVARIANTS FirstPointsSent
CHECK_DEADLOCK FALSE
