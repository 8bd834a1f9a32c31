SPECIFICATION FairSpec
CONSTANTS
    Files = {"f"}
    Gotchas = {"g"}
    Agents = {"m", "s"}
    Admins = {"d"}
    Main = "main"
    ScopeOf <- MCScopeOf
    Affects <- MCAffects
    Target <- MCTarget
    Mandated = {}
    Variants = {"edit"}
    Memory = "memory"
    MaxCalls = 2
    MaxChanges = 1
    MaxFaults = 1
    Levels = {"weak", "liability"}
INVARIANT ReceiptsStaySound
PROPERTY NoLockout
CHECK_DEADLOCK FALSE
