SPECIFICATION FairSpec
CONSTANTS
    p1 = p1
    p2 = p2
    Passes = {p1}
    Ticks = {p1}
    NumRows = 3
    MaxRows = 1
    MaxAttempts = 2
    SeenMax = 1
    MaxFaults = 0
    Crashes = FALSE
    AutoProcess = TRUE
    Overlap = FALSE
PROPERTY BacklogDrains
