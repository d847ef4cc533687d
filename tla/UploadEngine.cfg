CONSTANTS
    w1 = w1
    w2 = w2
    Workers = {w1, w2}
    TotalParts = 3
    MAX_PART_ATTEMPTS = 2
    MAX_SESSION_RESUMES = 1
SPECIFICATION FairEngineSpec
INVARIANTS
    FinalizesOnlyWhenStored
PROPERTIES
    QuietAfterCancel
    OnlyMissingResent
    Settles
