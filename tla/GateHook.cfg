SPECIFICATION Spec
CONSTANTS
    Files = {"f", "l"}
    g = g
    h = h
    Gotchas = {g, h}
    Agents = {"s"}
    Admins = {"d"}
    Main = "main"
    ScopeOf <- MCScopeOf
    Affects <- MCAffects
    Target <- MCTarget
    Mandated = {"l"}
    Variants = {"bash", "edit", "patch"}
    Memory = "memory"
    MaxCalls = 2
    MaxChanges = 2
    MaxFaults = 1
    Levels = {"liability"}
CONSTRAINT MCBudget
VIEW MCView
SYMMETRY MCSymmetry
INVARIANT GateHolds
CHECK_DEADLOCK FALSE
