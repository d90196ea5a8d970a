SPECIFICATION MCSpec
CONSTANTS
    None = None
    Global = Global
    Versions = {1, 2, 3}
    MaxCommands = 3
    Keys = {k1, k2}
    Clients = {acme, bolt}
    Specs = {s1, s2}
    Known = {s1}
    MaxKeys = 2
    PCs = {w1, w2}
    ComputerNames = {desk, lobby}
    EnrollKeys = {e1, e2}
    Stale = 1
    Retry = 1
    MaxMachines = 4
    MaxSerial = 8
    MaxTime = 2
    Printers = {p1, p2}
    Labels = {front, back}
    Addresses = {x, y}
    OwnQueue = own
    QueryBudget = 1
    MaxUpdate = 3
    MaxFeed = 3
    MaxMachine = 2
    MaxQueue = 3
CHECK_DEADLOCK FALSE
INVARIANTS TypesOK RecordsAgree
PROPERTIES LiveKeepsKey Recovers QueuesConverge
