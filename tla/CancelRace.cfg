CONSTANTS
    s1 = s1
    s2 = s2
    NoSession = none
    p1 = p1
    p2 = p2
    c1 = c1
    NumParts = 1
    Sessions = {s1}
    TotalParts <- MCTotalParts
    Emailed = {s1}
    Procs = {p1, p2}
    Cleaners = {c1}
    BatchSize = 1
    SessionTtl = 1
    FileTtl = 2
    UrlTtl = 1
SPECIFICATION Spec
CHECK_DEADLOCK FALSE
PROPERTIES
    CompletedObjectKept
