SPECIFICATION Spec
CONSTANTS
    r1 = r1
    r2 = r2
    q1 = q1
    q2 = q2
    NoRun = NoRun
    Runs = {r1, r2}
    OnDemand = {r1, r2}
    ItemRuns = {r1}
    Malformed = {r2}
    Keyless = {}
    Cases = {"c1"}
    CaseOf <- OneCase
    NumWrites = 2
    Requests = {q1, q2}
    Creates = {1}
SYMMETRY Symmetry
INVARIANTS
    IInv
    AppliedIsBacked
PROPERTIES
    ResolvedIsFinal
    KeepsTheRegister
