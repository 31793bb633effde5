SPECIFICATION GnssSpec
CONSTANTS
    N = 1
    M = 3
    CountMod = 8
    Span = 1
    MaxError50 = 2
    Options <- MCOptions
    Delayed = {"autogps"}
    AutoGps = "autogps"
    MaxRetry = 1
    MaxCuts = 1
INVARIANTS GnssTypeOK Configured InEffect OneInM
PROPERTIES StartUpEnds
