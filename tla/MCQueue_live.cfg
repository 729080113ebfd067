SPECIFICATION FairSpec
CHECK_DEADLOCK FALSE
CONSTANTS
    Kinds = {"prune"}
    Keys = {"v"}
    NoKey = ""
    UniqueKinds = {}
    LatestKinds = {}
    OneAtATimeKinds = {}
    AtOnce <- NoLimit
    ScheduledKinds = {"prune"}
    MaxJobs = 3
    AppJobs = 1
    Instances = {"a"}
    Drainers = {}
    Slots = 2
    Knows <- KnowsAll
    RatedKinds = {}
    TrackedKinds = {}
    Attempts = 2
    HoldFor = 1
    Period = 2
    ScheduleValue = "v"
    Backoffs = {0}
    InWakes = {FALSE}
    Ahead = {0, 1}
    Waits = {1}
    Faults = FALSE
    Hangs = TRUE
    MaxTime = 2
    MaxEnds = 1
    FaultsUntil = 1
PROPERTIES
    EveryJobEnds
    StopReturns
    NextRunPushed
