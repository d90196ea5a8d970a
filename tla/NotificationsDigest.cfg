SPECIFICATION MCDeliverySpec
CONSTANTS
    Alerts = {a1}
    Channels = {mail, chat}
    BatchLimit = 2
    MaxAttempts = 2
    Base = 1
    BackoffCap = 2
    GiveUp = 2
    EscalateAfter = 0
    Cooldown = 0
    MaxTime = 3
    MaxRows = 3
    MaxChanges = 2
CHECK_DEADLOCK FALSE
PROPERTY OutageNeverSettles
