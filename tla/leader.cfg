SPECIFICATION Spec
CONSTANTS
    i1 = i1
    i2 = i2
    i3 = i3
    NoInstance = NoInstance
    Instances = {i1, i2, i3}
    TTL = 4
    Renew = 2
    Lag = 1
    Stallers = {i3}
    MaxErrors = 2
INVARIANTS
    TypeOK
    LeadersHoldTheLock
    IInv
PROPERTIES
    OnlyFaultsBringTrouble
    Failover
