SPECIFICATION Spec
CHECK_DEADLOCK FALSE
SYMMETRY Alike
CONSTANTS
    None = none
    Requests = {q, r}
    Ids = {i, j}
    Users = {}
    Values = {v}
    Flashes = {}
    Lifetime = 2
    Lifetimes = {}
    Refresh = 2
    Rotates = FALSE
    Passing <- OnePasses
    Kept = {TRUE}
    MaxFaults = 0
    MaxTime = 3
PROPERTIES
    FindsToTheEnd
