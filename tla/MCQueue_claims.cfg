SPECIFICATION Spec
CHECK_DEADLOCK FALSE
CONSTANTS
    Kinds = {"mail", "sms"}
    Keys = {"v"}
    NoKey = ""
    UniqueKinds = {"sms"}
    LatestKinds = {}
    OneAtATimeKinds = {}
    AtOnce <- NoLimit
    ScheduledKinds = {}
    MaxJobs = 1
    AppJobs = 1
    Instances = {"a", "b"}
    Drainers = {"b"}
    Slots = 1
    Knows <- OldB
    RatedKinds = {"mail"}
    TrackedKinds = {"mail", "sms"}
    Attempts = 2
    HoldFor = 2
    Period = 1
    ScheduleValue = "v"
    Backoffs = {0}
    InWakes = {}
    Ahead = {0}
    Waits = {1}
    Faults = TRUE
    Hangs = FALSE
    MaxTime = 4
    MaxEnds = 1
    FaultsUntil = 4
INVARIANTS
    TypeOK
    ExclusiveHold
    NoPushLost
PROPERTIES
    ImplementsRuns
