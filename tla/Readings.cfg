SPECIFICATION MCSpec
CONSTANTS
    Primary = p
    Standby = s
    None = None
    Ttl = 2
    BatchSize = 1
    SpoolMax = 2
    PrinterLimit = 0
    Grace = 1
    MaxTime = 3
    MaxChanges = 2
INVARIANTS TypeOK ReadingsKept
PROPERTY Replayed
