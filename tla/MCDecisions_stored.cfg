SPECIFICATION MCSpec
CONSTANTS
  Worlds <- TenWorlds
  Hosts <- FourHosts
  Names <- TwoNames
  MaxDepth = 3
  SanCap = 2
  MaxTasks = 20
  MaxFails = 2
  PerDomain <- Limit
  MaxDomains = 1
  Urls <- ThreeUrls
  ContactsMax = 30
  Sites <- FourSites
  MaxRedirects = 1
  Samples = 2
  FuzzLimit = 1
  MaxProposals = 2
  Slots = 2
  MaxWebResumes = 1
  InvWorlds <- SixInquiries
  MaxMisses = 1
  scan1 = scan1
  search1 = search1
  c1 = c1
  Job <- TwoJobs
  ScanJob <- Scans
  Client <- OneClient
  MaxStored = 1
  MaxRunning = 1
  MaxEvents = 3
  MaxRequests = 4
  MaxProgress = 1
CHECK_DEADLOCK FALSE
INVARIANTS StoreWithinLimit
