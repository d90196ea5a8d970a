SPECIFICATION MCSpec
CONSTANTS
    Facts = {f1, f2}
    Clients = {acme}
    Global = Global
    Types = {opened, resolved}
    Subscriptions = {1, 2}
    BatchLimit = 2
    MaxAttempts = 2
    Base = 1
    BackoffCap = 1
    Retention = 1
    MaxTime = 3
    MaxChanges = 2
SYMMETRY Symmetry
CHECK_DEADLOCK FALSE
INVARIANTS TypeOK NoDoublePost
PROPERTIES EventsKept ImplementsOutbox
