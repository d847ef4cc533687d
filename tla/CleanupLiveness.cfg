CONSTANTS
    s1 = s1
    s2 = s2
    NoSession = none
    p1 = p1
    p2 = p2
    c1 = c1
    NumParts = 1
    Sessions = {s1}
    TotalParts <- MCTotalParts
    Emailed = {}
    Procs = {p1}
    Cleaners = {c1}
    BatchSize = 1
    SessionTtl = 1
    FileTtl = 1
    UrlTtl = 2
SPECIFICATION FairSpec
CHECK_DEADLOCK FALSE
PROPERTIES
    SessionsSettle
    ObjectsReclaimed
    ExpiredRowsMarked
