SPECIFICATION SqlSpec
CHECK_DEADLOCK FALSE
SYMMETRY AnyClaimer
CONSTANTS
    Kinds = {"photo", "report"}
    Keys = {"v"}
    NoKey = ""
    UniqueKinds = {"photo"}
    LatestKinds = {"photo"}
    OneAtATimeKinds = {"photo"}
    AtOnce <- Limits
    ScheduledKinds = {}
    MaxJobs = 2
    HoldFor = 1
    MaxTime = 1
    Claimers = {c1, c2}
    Faults = TRUE
INVARIANTS
    SqlTypeOK
    LimitsKept
PROPERTIES
    ClaimsAreAtomic
