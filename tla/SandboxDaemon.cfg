CONSTANTS
  Events <- MCEvents
  MaxEdits = 0
  MaxMishaps = 0
  MaxInstalls = 0
  MaxActs = 0
  Gotchas = {g1, g2}
  Inside = {"a", "b"}
  Outside = {"out"}
  FileSets <- MCFileSets
  FloorProcs = {p1, p2}
  Daemons = {TRUE, FALSE}
  MaxSbOps = 3
  Lore = {"g1", "g2", "c"}
  CochangeKeys = {}
  CtxFiles = {"f1", "f2"}
  CtxDecisions = {"d1", "d2"}
  Texts <- MCTexts
  CtxBases <- MCCtxBases
  Avail = 5
  FallbackLimit = 1
  MaxCtxEvents = 0
  MaxCtxCalls = 0
  Hoods = {}
  GroupCaps <- MCCaps
  DepCap = 2
  Scans = {}
  MaxQueryLimit = 6
  QueryLimits = {}
  Capitals <- MCCapitals
  LowerOf <- MCLowerOf
  Digits = {"1"}
  Alphabet <- MCAlphabet
  Outside3p <- MCOutside
  Worlds <- MCWorlds
  Visitors = {1, 2}
  FlushThreshold = 2
  Parts = {"sandbox"}
INIT MCInit
NEXT MCNext
INVARIANT ProtectDenies
CHECK_DEADLOCK FALSE
