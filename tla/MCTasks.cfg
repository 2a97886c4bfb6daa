CONSTANTS
  Task <- Tasks4
  TaskKind <- AllKinds
  Registered <- WithModule
  ModuleName <- AllModules
  Kind <- Kind4
  Module <- Module4
  Priority <- Priority4
  Deps <- Deps4
  MaxAttempts <- Attempts4
  Plan <- Plan4
  FollowUps <- FollowUps4
  Slots = 2
  KindLimit <- NoKindLimit
  Capacity = 2
  MaxTasks = 4
  MaxRetries = 1
  MaxEvidence = 1
  ModuleMaxTasks <- OneTaskEach
  ModuleMaxRetries <- OneRetryEach
  EvidenceSizes = {1}
  Outcome <- AnyOutcome
  Flippable = {1}
  CallerCancels = {1}
  CallerStops = TRUE
  ServiceTasks <- FourTasks
  Servers <- FiveServers
  PackFiles = {1, 2}
  Packs <- SevenPacks
  Observations <- ObservedServices
  MaxCandidates = 2
  MaxAlternates = 1
  OsWorlds <- OsCasesAndQuiet
  OsMaxProbes = 2
  GraphWorlds <- FiveGraphsAndQuiet
  MaxEntities = 11
  MaxEdges = 11
  FetchWorlds <- FourFetchesAndQuiet
  BodyCap = 2
  RunWorlds <- Runs
  RunMaxVulns = 3
  RunMaxSoftware = 2
  VulnWorlds <- VulnCases
  VersionsShort <- ShortVersions
  MaxAdvisories = 4
  MaxIndexed = 3
  MaxMatches = 2
  MaxDials = 2
  ChunkSizes = {1, 2}
  AnalysisWorlds <- AnalysisCases
  MaxSignals = 10
  TopSignals = 8
  MaxRefs = 1
  ReportTop = 3
  DetailLimit = 6
  UsernameWorlds <- UsernameCases
  MaxFlights = 2
  PublicAddresses = {"p1", "p2"}
  ViewWorlds <- ViewCases
  ViewPage = 3
  MinBudget = 3
  MinCluster = 2
  MaxLinks = 3
  CrawlWorlds <- CrawlCasesAndQuiet
  CrawlStarts = 2
  PageLinks = 2
  PageScripts = 2
  RootSitemaps = 2
  PageFindings = 1
SPECIFICATION MCSpec
CHECK_DEADLOCK FALSE
INVARIANTS
  RunExact TasksWithinBounds ConclusionsJustified
PROPERTIES
  StartsAllowed RunReturns
