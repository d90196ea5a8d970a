SPECIFICATION MCSpec
CONSTANTS
    Parts = {"retain", "wear", "meters", "cards", "monthly", "yield", "forecast",
             "stock", "mail", "desk", "calendar", "health"}
    None = None
    Grace = 1
    MaxTime = 3
    PerDay = 2
    PageCounts = {1, 2}
    RawDays = 0
    Budget = 3
    Slots = {"toner", "waste"}
    Filling = {"waste"}
    MaxMeter = 3
    Cards = {c1, c2}
    Admins = {a1, a2}
    Rates = {4, 7}
    Ceilings = {1, 3}
    PerMonth = 2
    InvoiceMonths = 2
    MaxPages = 2
    Workers = {w1, w2}
    Wanted = 3
    Lengths <- ShortMonth
    Printers = {p1, p2, p3}
    Yields = {6, 10}
    MinCycles = 2
    BaselineCycles = 2
    BaselinePrinters = 2
    ShortfallPct = 30
    MaxCycles = 3
    Full = 3
    Tolerance = 1
    MinSpan = 1
    Window = 2
    ReorderLevel = 2
    UrgentLevel = 1
    ReorderDays = 4
    FullLevel = 3
    UrgentFull = 4
    OrderWindow = 2
    Overrides = {0, 3}
    Orders = {o1, o2}
    Cycles = {k1, k2}
    Mails = {m1, m2}
    Products = {ink, drum}
    Desks = {d1}
    Quantities = {1}
    Lookback = 1
    Overlap = 1
    Lag = 1
    Cap = 2
    Schedules = {s1}
    Intervals = {0, 1}
    Thresholds = {0, 1}
    Dates = {0, 1}
    Worn = 0
    NewPart = 1
    Clients = {acme, bolt}
    Windows = {1, 2}
    Instants = {0, 1, 2, 3, 4, 5, 6, 7, 8}
    Zone <- BothWays
    WeekDays = 2
    QuietHorizon = 4
    MaintenanceHorizon = 5
    Severities = {0, 1}
    Nothing = 2
    Jobs = 2
    StaleAfter = 2
    SchemaWait = 1
    MaxFailures = 2
    MaxDay = 2
    MaxRetention = 3
    MaxWear = 3
    MaxMisreads = 1
    MaxCardOps = 5
    MaxRows = 1
    MaxSwaps = 1
    MaxStockOps = 5
    MaxMailOps = 2
    MaxDeskOps = 3
    MaxEdits = 1
    MaxMishaps = 2
CHECK_DEADLOCK FALSE
INVARIANTS TypesOK BooksTrue NothingMissed
PROPERTIES TermsKept SuppliesWatched DeskKeepsWord
