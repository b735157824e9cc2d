SPECIFICATION Spec
CONSTANTS
    Procs = {p1}
    Jobs = {j1}
    Foreign = {}
    NoJob = NoJob
    NoTask = NoTask
    p1 = p1
    j1 = j1
    MaxRetries = 2
    ClaimCount = 2
    MaxEntries = 3
    SlowRuns = TRUE
    RedisErrors = TRUE
    GapFaults = TRUE
INVARIANTS
    IInv
    DoneMeansRan
PROPERTY OnlyTheGapLosesJobs
CHECK_DEADLOCK FALSE
