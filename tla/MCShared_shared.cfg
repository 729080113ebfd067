SPECIFICATION SharedSpec
CHECK_DEADLOCK FALSE
CONSTANTS
    MaxTime = 6
    NoRow = norow
    Contenders = {l, m, n}
    Ttl = 2
    LockFaults = TRUE
    Logins = {q, r}
    Max = 2
    Window = 4
    Grain = 2
    Lag = 1
    MaxHits = 5
    NoTries = none
    Pages = {p1, p2}
    Instances = {i}
    On <- OnOne
    Room = 2
    MaxVersion = 3
    MaxFails = 1
    MaxId = 3
    GapWait = 2
    Kept = 3
    MaxListens = 2
    Conns = {c, d}
    Hubs = {"h", "g"}
    MemberOf <- OneMember
    HubOf <- HubEach
    Lease = 3
    Stores = {"memory", "table"}
    MaxFaults = 2
    Databases = {"postgres", "sqlite", "mysql"}
    Procs = {"new", "old", "changed"}
    Files <- Versions
    Count = 3
    Stmts = 2
    LostAnswers = FALSE
    MaxTroubles = 2
INVARIANTS
    SharedTypesOK
    HoldersRow
    NoneOverMax
    AtMostTwoWindows
    MissesNothing
    HeardOnce
    NonePassedOver
    OpenIsHere
    ShowsWhosHere
    RecordTrue
    InOrder
PROPERTIES
    ImplementsMutex
    ChangedStops
