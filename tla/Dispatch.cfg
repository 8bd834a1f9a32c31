SPECIFICATION Spec
CONSTANTS
    Conns = {c1, c2}
    Cmds <- MCCmds
    MaxReqs = 2
    MaxFails = 1
    MaxCrashes = 1
SYMMETRY Symmetry
INVARIANTS AuditMatches SerialOutcome
CHECK_DEADLOCK FALSE
