SPECIFICATION FairSqlSpec
CHECK_DEADLOCK FALSE
CONSTANTS
    Kinds = {"photo"}
    Keys = {"v", "w"}
    NoKey = ""
    UniqueKinds = {"photo"}
    LatestKinds = {}
    OneAtATimeKinds = {"photo"}
    AtOnce <- Ones
    ScheduledKinds = {}
    MaxJobs = 2
    HoldFor = 1
    MaxTime = 1
    Claimers = {c1, c2}
    Faults = TRUE
PROPERTIES
    ClaimEnds
