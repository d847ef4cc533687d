CONSTANTS
    r1 = r1
    r2 = r2
    r3 = r3
    Requests = {r1, r2, r3}
    MaxConcurrent = 2
    SlotTtl = 3
    RunMax = 2
    MaxCount = 3
    RateMax = 3
    WindowTtl = 1
    DailyBudget = 3
    MaxBudget = 4
SYMMETRY Exchangeable
SPECIFICATION SlotsSpec
INVARIANTS
    CapKept
    CallsWithinBudget
PROPERTIES
    NeverReclaimedMidRun
