CONSTANTS
    r1 = r1
    r2 = r2
    s1 = s1
    s2 = s2
    Logins = {r1, r2}
    MaxLogins = 3
    AdminRequests = {r1, r2}
    AdminSessions = {s1, s2}
    NoAdminSession = none
    MaxOtpTries = 1
    MaxChanges = 1
    CloudRequests = {r1, r2}
    MaxConsents = 2
    MaxCloudSessions = 2
    MaxRows = 2
    PageRows = 1
    EXPORT_CAP = 1
    MaxListings = 2
    CLOUD_CAP = 1
    Captures = {r1, r2}
    MaxCaptures = 3
    Tabs = {s1, s2}
    MaxAudit = 3
    MaxRefreshes = 2
    OtpRequests = {r1, r2}
    MaxCodes = 2
    MAX_ATTEMPTS = 2
    LinkGets = {r1, r2}
    MailTries = 3
    PageW = 11
    PageH = 10
    Typable = {0, 1, 5}
    MaxDrag = 4
SPECIFICATION ConsoleSpec
CHECK_DEADLOCK FALSE
SYMMETRY Slots
CONSTRAINT OneAtATime
INVARIANTS
    LockoutHolds
    OldSessionsEnd
    DisconnectHolds
    RowsFitQuery
    ExportTellsCut
    CrossesAsPdf
    RetryRepeatsFailure
    CapturesCounted
    AuditTellsStory
    ConsoleSettles
    GuessesBounded
    CodeUsedOnce
    LinkSpentOnce
PROPERTY DragMovesOneEdge
