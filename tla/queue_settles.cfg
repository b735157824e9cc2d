SPECIFICATION FairSpec
CONSTANTS
    Procs = {p1}
    Jobs = {j1, j2}
    Foreign = {j2}
    NoJob = NoJob
    NoTask = NoTask
    p1 = p1
    j1 = j1
    j2 = j2
    MaxRetries = 2
    ClaimCount = 2
    MaxEntries = 4
    SlowRuns = FALSE
    RedisErrors = FALSE
    GapFaults = FALSE
INVARIANT HandedOutWithinBudget
PROPERTY EveryJobSettles
CHECK_DEADLOCK FALSE
