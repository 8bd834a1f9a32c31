CONSTANTS
  Files = {1, 2}
  Bodies = {1, 2}
  LinesOf <- MCLinesOf
  ImportsOf <- MCImportsOf
  Manual = {"m"}
  ManualFiles <- MCManualFiles
  Owned = {2}
  Sections = {"s"}
  Deps = {"d"}
  Commits <- MCCommits
  MinCount = 1
  MinReverts = 1
  MinCommits = 1
  MaxPerFile = 5
  MaxCommitFiles = 50
  MaxTime = 2
  MaxHistory = 2
  MaxInits = 2
  MaxUserOps = 2
  MaxInitFaults = 1
  AutoGotchas = {"a1", "a2"}
  OwnGotchas = {"m"}
  TreeFiles = {"x", "y"}
  MaxChanges = 2
  Units = {1, 2, 3, 4}
  FirstEdges <- MCFirstEdges
  MoreEdges <- MCMoreEdges
  Pairs <- MCPairs
  Levels = {50, 85}
  MaxChanged = 2
  MaxFailed = 1
  TransitiveDepth = 3
  StaleThreshold = 40
  TombstoneThreshold = 80
  Namespaces = {"file", "gotcha"}
  EdgeKinds = {"imports", "has_gotcha"}
  Slugs = {"a", "imports", "file"}
  SrcFiles = {1}
  Notes <- MCNotes
  DepOf = {1}
  Dep = 99
  Diffs <- MCDiffs
  Window = 2
  Ramp = 3
  MaxSignals = 20
  ReviewMin = 4000
  ReviewMax = 7000
  MaxClock = 3
  MaxCommits = 1
  MaxEvents = 5
  EvKinds = {"deny", "receipt"}
  Subjects = {"f", "g"}
  Sessions = {"s"}
  RetentionAge = 1
  GapThreshold = 1
  ConsultWindow = 1
  MaxLog = 3
  MaxNow = 2
  MaxFaults = 1
  FileKeys = {1, 2}
  GotchaNos = {11}
  DecisionNos = {21}
  Bases <- MCBases
  TestFiles = {2}
  NonSource = {1}
  FanIn <- MCFanIn
  FanInThreshold = 5
  SnapshotMaxAge = 1
  Limits = {0, 1, 9}
  MinRisks = {0, 30}
  MaxWrites = 3
  MaxDay = 1
  MaxHooks = 1
  Rules = {"a1", "s1", "s2"}
  SlugOf <- MCSlugOf
  Weak = {"a1"}
  Paths = {"p", "q"}
  DirOf <- MCDirOf
  MaxSuffix = 2
  CrStarts <- MCStarts
  MaxCommands = 4
  KindOf <- MCKindOf
  MaxPicks = 2
  Parts = {"init", "migration", "graph", "clusters", "keys", "health", "evidence", "routes", "review", "status", "stats", "stale", "gaps", "ls"}
INIT MCInit
NEXT MCNext
INVARIANTS InitComplete MigrationSafe DerivedExact DeletedIsTombstone
  EvidenceTrue ReportsTrue RoutesAgree ReviewHonest
PROPERTIES DecisionsKept ReparseOutlastsAnalysis
CHECK_DEADLOCK FALSE
