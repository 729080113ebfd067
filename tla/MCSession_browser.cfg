SPECIFICATION BrowserSpec
CHECK_DEADLOCK FALSE
SYMMETRY Alike
CONSTANTS
    None = none
    Requests = {q, r}
    Ids = {i, j}
    Users = {"u", "w"}
    Values = {}
    Flashes = {f}
    Lifetime = 1
    Lifetimes = {}
    Refresh = 2
    Rotates = TRUE
    Passing <- OnePasses
    Kept = {FALSE}
    MaxFaults = 1
    MaxTime = 2
INVARIANTS
    TypeOK
    EndedWhenAlone
    OneOwner
PROPERTIES
    FindsWhatWasLeft
