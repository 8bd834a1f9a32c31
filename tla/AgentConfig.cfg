CONSTANTS
  Events <- MCEvents
  MaxEdits = 2
  MaxMishaps = 1
  MaxInstalls = 2
  MaxActs = 4
  Gotchas = {g1, g2}
  Inside = {"a", "b"}
  Outside = {"out"}
  FileSets <- MCFileSets
  FloorProcs = {p1, p2}
  Daemons = {TRUE, FALSE}
  MaxSbOps = 3
  Lore = {"g1", "g2", "c"}
  CochangeKeys = {"c"}
  CtxFiles = {"f1", "f2"}
  CtxDecisions = {"d1", "d2"}
  Texts <- MCTexts
  CtxBases <- MCCtxBases
  Avail = 5
  FallbackLimit = 1
  MaxCtxEvents = 2
  MaxCtxCalls = 1
  Hoods <- MCHoods
  GroupCaps <- MCCaps
  DepCap = 2
  Scans <- MCScans
  MaxQueryLimit = 6
  QueryLimits = {0, 3, 9}
  Capitals <- MCCapitals
  LowerOf <- MCLowerOf
  Digits = {"1"}
  Alphabet <- MCAlphabet
  Outside3p <- MCOutside
  Worlds <- MCWorlds
  Visitors = {1, 2}
  FlushThreshold = 2
  Parts = {"installer", "sandbox", "context", "query", "scan"}
INIT MCInit
NEXT MCNext
INVARIANTS InstalledChecks UserKept FloorExact ContextHonest FilesCollected SourceMapped
CHECK_DEADLOCK FALSE
