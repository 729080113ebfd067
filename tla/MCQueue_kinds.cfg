SPECIFICATION Spec
CHECK_DEADLOCK FALSE
CONSTANTS
    Kinds = {"photo", "report"}
    Keys = {"v"}
    NoKey = ""
    UniqueKinds = {"photo"}
    LatestKinds = {"photo"}
    OneAtATimeKinds = {"photo"}
    AtOnce <- OneReport
    ScheduledKinds = {}
    MaxJobs = 3
    AppJobs = 3
    Instances = {"a"}
    Drainers = {}
    Slots = 2
    Knows <- KnowsAll
    RatedKinds = {}
    TrackedKinds = {"photo"}
    Attempts = 2
    HoldFor = 1
    Period = 1
    ScheduleValue = "v"
    Backoffs = {0}
    InWakes = {}
    Ahead = {0}
    Waits = {1}
    Faults = FALSE
    Hangs = FALSE
    MaxTime = 1
    MaxEnds = 0
    FaultsUntil = 3
INVARIANTS
    AtOnceLimit
    OneRuns
    NoPushLost
    NoSleepOnWork
