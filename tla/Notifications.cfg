SPECIFICATION MCDeliverySpec
CONSTANTS
    Alerts = {a1, a2}
    Channels = {mail, chat}
    BatchLimit = 1
    MaxAttempts = 2
    Base = 1
    BackoffCap = 1
    GiveUp = 2
    EscalateAfter = 1
    Cooldown = 1
    MaxTime = 3
    MaxRows = 3
    MaxChanges = 2
SYMMETRY Symmetry
CHECK_DEADLOCK FALSE
INVARIANTS TypeOK NothingLost NoDoublePage TurnsCome
PROPERTY ImplementsOutbox
