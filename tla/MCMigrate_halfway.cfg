SPECIFICATION MigrateSpec
CHECK_DEADLOCK FALSE
CONSTANTS
    Databases = {"mysql"}
    Procs = {"new"}
    Files <- Versions
    Count = 3
    Stmts = 2
    LostAnswers = TRUE
    MaxTroubles = 1
INVARIANTS
    RecordTrue
