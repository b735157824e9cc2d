SPECIFICATION Spec
CONSTANTS
    p1 = p1
    p2 = p2
    a1 = a1
    a2 = a2
    o1 = o1
    o2 = o2
    Processes = {p1, p2}
    Scopes = {"global", "app"}
    Apps = {a1, a2}
    Covers <- MCCovers
    Operations = {o1, o2}
    Home <- MCHome
    AppOf <- MCAppOf
    CacheTTL = 2
    MaxRead = 1
    MaxSettings = 1
INVARIANTS
    IInv
PROPERTIES
    HaltTakesHold
    LiftTakesHold
    OwnHaltHolds
