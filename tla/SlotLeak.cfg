CONSTANTS
    r1 = r1
    r2 = r2
    r3 = r3
    Requests = {r1, r2}
    MaxConcurrent = 1
    SlotTtl = 2
    RunMax = 1
    MaxCount = 2
SPECIFICATION FairConversionSpec
PROPERTIES
    SelfHeals
