SPECIFICATION OperatorSpec
CHECK_DEADLOCK FALSE
CONSTANTS
    Kinds = {"prune"}
    Keys = {"v"}
    NoKey = ""
    UniqueKinds = {"prune"}
    LatestKinds = {}
    OneAtATimeKinds = {}
    AtOnce <- NoLimit
    ScheduledKinds = {"prune"}
    MaxJobs = 2
    AppJobs = 0
    Instances = {"a", "b"}
    Drainers = {}
    Slots = 1
    Knows <- KnowsAll
    RatedKinds = {"prune"}
    TrackedKinds = {}
    Attempts = 1
    HoldFor = 2
    Period = 2
    ScheduleValue = "v"
    Backoffs = {0}
    InWakes = {}
    Ahead = {0}
    Waits = {1}
    Faults = FALSE
    Hangs = FALSE
    MaxTime = 3
    MaxEnds = 1
    FaultsUntil = 3
INVARIANTS
    OneJobPerRun
    OneWaits
