SPECIFICATION FairSpec
CONSTANTS
    Gotchas = {g1, g2}
    Files = {f1}
    Tasks = {t1, t2}
    Retries = 2
    MaxCalls = 2
    MaxFails = 1
    MaxCrashes = 1
INVARIANTS HandlersExact
PROPERTIES RequestsReturn
