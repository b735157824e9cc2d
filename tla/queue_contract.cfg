SPECIFICATION Spec
CONSTANTS
    Procs = {p1, p2}
    Jobs = {j1, j2}
    Foreign = {}
    NoJob = NoJob
    NoTask = NoTask
    p1 = p1
    p2 = p2
    j1 = j1
    j2 = j2
    MaxRetries = 2
    ClaimCount = 2
    MaxEntries = 4
    SlowRuns = FALSE
    RedisErrors = FALSE
    GapFaults = FALSE
SYMMETRY Symmetry
PROPERTIES
    OnlyLateRunsTwice
    KeepsTheLedger
CHECK_DEADLOCK FALSE
