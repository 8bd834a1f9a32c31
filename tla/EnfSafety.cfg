SPECIFICATION Spec
CONSTANTS
    NoProc = NoProc
    Procs = {p1}
    Tasks = {t1, t2}
    MaxCalls = 3
    MaxFails = 2
    MaxCrashes = 1
    ReadFaults = FALSE
    ReopenInProcess = FALSE
INVARIANTS TypeOK WriterInv ChainIntact HolesAccounted
PROPERTIES AppendOnly ImplementsAuditLog CallsReturn
