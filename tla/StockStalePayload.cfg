CONSTANTS
    Requests = {r1, r2, r3, r4}
    Directors = {d1}
    Supervisors = {s1}
    NoUser = NoUser
    Quantities = {2}
    Deltas = {}
    Counts = {0}
    UnitCosts = {}
    InitialQuantity = 2
    InitialUnitCost = 1
    LargeExitQuantity = 1
    LargeExitValue = 5
    SensitivePercent = 50
    MaxInFlight = 2
    MaxFaults = 0
SYMMETRY Symmetry
SPECIFICATION Spec
INVARIANTS
    AppliedIsWhatWasSubmitted
CHECK_DEADLOCK FALSE
