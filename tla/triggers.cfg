SPECIFICATION FairSpec
CONSTANTS
    p1 = p1
    p2 = p2
    Passes = {p1, p2}
    Ticks = {p1}
    NumRows = 2
    MaxRows = 1
    MaxAttempts = 2
    SeenMax = 1
    MaxFaults = 1
    Crashes = TRUE
    AutoProcess = TRUE
    Overlap = FALSE
INVARIANTS
    IInv
    ConsumedIsSettled
    OnceWhenClean
PROPERTY EveryRowSettles
