CONSTANTS
    f1 = f1
    f2 = f2
    NoSession = none
    c1 = c1
    Sessions = {f1, f2}
    TotalParts <- MCTotalParts
    Emailed = {}
    Procs = {}
    Cleaners = {c1}
    BatchSize = 1
    SessionTtl = 1
    FileTtl = 1
    UrlTtl = 2
SPECIFICATION RetentionSpec
CHECK_DEADLOCK FALSE
PROPERTIES
    ExpiredRowsMarked
