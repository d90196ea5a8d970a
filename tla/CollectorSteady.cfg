SPECIFICATION MCSteadySpec
CONSTANTS
    Agents = {a1, a2, a3}
    None = None
    LeaseLengths = {1, 2}
    Grace = 0
    TakeoverAfter = 0
    AutoTakeover = TRUE
    MaxTime = 3
    MaxMessages = 2
    MaxExtras = 2
SYMMETRY Symmetry
INVARIANTS
    LeaseInv
    LeaseMutex
    DeadlineBeforeExpiry
    PredecessorClosed
PROPERTIES
    OnlyLapsedLeasesMove
    ImplementsToken
