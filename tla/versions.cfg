SPECIFICATION Spec
CONSTANTS
    r1 = r1
    r2 = r2
    t1 = t1
    Requests = {r1, r2}
    Triggers = {t1}
    MayOverlap = {}
    Keep = 1
    MaxVersion = 3
    MaxShipped = 2
    MaxTexts = 2
    MaxFaults = 1
SYMMETRY Symmetry
INVARIANTS
    IInv
    NoReleaseLost
PROPERTIES
    RollbackRestores
    ShipsWhatIsInTest
    ArmedByHand
