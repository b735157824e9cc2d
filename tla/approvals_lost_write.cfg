SPECIFICATION Spec
CONSTANTS
    r1 = r1
    r2 = r2
    q1 = q1
    q2 = q2
    NoRun = NoRun
    Runs = {r1}
    OnDemand = {r1}
    ItemRuns = {r1}
    Malformed = {}
    Keyless = {r1}
    Cases = {"c1"}
    CaseOf <- OneCase
    NumWrites = 2
    Requests = {q1, q2}
    Creates = {1, 2}
SYMMETRY Symmetry
INVARIANT AppliedIsBacked
