CONSTANTS
    Requests = {r1, r2, r3}
    Directors = {d1}
    Supervisors = {s1, s2}
    NoUser = NoUser
    Quantities = {1, 2}
    Deltas <- MCDeltas
    Counts = {0, 3}
    UnitCosts = {1}
    InitialQuantity = 2
    InitialUnitCost = 1
    LargeExitQuantity = 1
    LargeExitValue = 5
    SensitivePercent = 50
    MaxInFlight = 2
    MaxFaults = 0
SYMMETRY Symmetry
SPECIFICATION Spec
INVARIANTS
    AppliedAtMostOnce
CHECK_DEADLOCK FALSE
