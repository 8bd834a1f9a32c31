SPECIFICATION Spec
CONSTANTS
    Gotchas = {g1, g2}
    Files = {f1, f2}
    MaxCalls = 3
    MaxFails = 1
    MaxCrashes = 1
SYMMETRY Symmetry
INVARIANTS CompleteOpsExact DriftMarked
PROPERTIES RepairMonotone
