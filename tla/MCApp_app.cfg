SPECIFICATION AppSpec
CONSTANTS
    NoRow = norow
    None = none
    Callers = {c, d, e}
    Instances = {i, j}
    On <- OnTwo
    Ttl = 1
    MaxTime = 1
    MaxVersion = 1
    Faults = TRUE
    Servers = {s, t}
    Work = {f, ssr}
    Ssr = ssr
    Requests = {q, r}
    MaxNodes = 2
INVARIANTS
    AppTypesOK
    OneFnAtATime
    FreshUnlessRaced
    NothingRunsOn
PROPERTIES
    CallsEnd
    StopsWhole
