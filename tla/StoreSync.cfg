SPECIFICATION Spec
CONSTANTS
    k1 = k1
    k2 = k2
    k3 = k3
    Keys <- MCKeys
    Unsearchable = {k3}
    Touched <- MCTouched
    Namespaces <- MCNamespaces
    Writers = {w1, w2}
    MaxWrites = 2
    MaxFails = 1
    MaxCrashes = 1
SYMMETRY Symmetry
INVARIANTS DriftExplained ReportsFresh
PROPERTIES RebuildExact
CHECK_DEADLOCK FALSE
