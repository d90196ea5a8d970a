SPECIFICATION MCSpec
CONSTANTS
    Parts = {"sessions", "throttle", "directory", "assign", "remote", "presses", "enroll", "fleet", "places"}
    None = None
    Gone = Gone
    Worker = worker
    Users = {u1, u2}
    Sources = {s1}
    Browsers = {b1, b2}
    Handlers = {h1}
    DefaultRole = "tech"
    LinkLocal = FALSE
    AutoProvision = TRUE
    UserThreshold = 1
    SourceThreshold = 2
    Window = 1
    MaxEpoch = 2
    MaxTime = 3
    Clients = {acme, bolt}
    DirectoryIds = {d1, d2}
    Addresses = {ann, ben}
    Runners = {worker, desk}
    People = {jo}
    Groups = {g1, g2}
    Machines = {kiosk, other}
    Printers = {1, 2, 3}
    ClientOf <- TwoTenants
    Agents = {a1, a2}
    RemotePrinters = {1}
    RemoteAgents = {a1}
    Reach <- AnyAgent
    Operators = {o1, o2}
    MaxOpen = 2
    MinInterval = 1
    RequestTtl = 1
    MaxRequests = 3
    Sites = {hq, lab}
    Codes = {c1, c2}
    Installs = {i1, i2}
    Networks = {n1, n2}
    SiteOf <- AllHome
    MaxTtl = 2
    MaxAgents = 4
    Devices = {e1, e2}
    Hosts = {1, 2}
    Entries = {1, 2}
    Lan <- OneNetwork
    SeatOf <- AllSeated
    MaxAccount = 4
    MaxDirectory = 3
    MaxAssign = 4
    MaxRemote = 1
    MaxEnroll = 4
    MaxFleet = 3
    MaxPlaces = 5
SYMMETRY Symmetry
CHECK_DEADLOCK FALSE
INVARIANTS TypesOK SessionsBound AgentsBound CustomersApart
PROPERTY DecisionsStand
