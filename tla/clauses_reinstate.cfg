SPECIFICATION Spec
CONSTANTS
    MaxRecorded = 2
    MaxClauses = 3
    Teaches <- MCTeaches
    Officer <- MCOfficer
    Brief = {2}
    Gate = 2
    MinCluster = 2
    Limit = 3
    Passes = {loop}
    Requests = {r1}
    MaxFaults = 1
    MaxActs = 2
PROPERTIES
    ReinstatedIsRemeasured
CHECK_DEADLOCK FALSE
