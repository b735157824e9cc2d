SPECIFICATION FairSpec
CONSTANTS
    MaxRecorded = 3
    MaxClauses = 3
    Teaches <- MCTeaches
    Officer <- MCOfficer
    Brief = {2}
    Gate = 2
    MinCluster = 2
    Limit = 3
    Passes = {loop}
    Requests = {r1}
    MaxFaults = 1
    MaxActs = 2
INVARIANTS
    IInv
    ConsumedIsCited
    ActiveIsEarned
PROPERTIES
    HoldsStand
    EveryLessonLands
CHECK_DEADLOCK FALSE
