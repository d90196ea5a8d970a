SPECIFICATION FailoverSpec
CONSTANTS
    Agents = {a1, a2}
    None = None
    LeaseLengths = {1}
    Grace = 0
    TakeoverAfter = 0
    AutoTakeover = TRUE
    MaxTime = 4
    MaxMessages = 2
    CrashBy = 2
    Flight = 1
PROPERTY AlwaysCollected
