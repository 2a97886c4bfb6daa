SPECIFICATION MCSpec
CONSTANTS
  TcpPorts <- Ports3
  TcpWindow = 2
  TcpRetries = 1
  UdpPorts <- Ports2
  UdpWindow = 2
  UdpRetries = 1
  PoolPorts <- Ports3
  PoolWorkers = {1, 2}
  PoolRetries = 1
  SynPorts <- Ports2
  SynWindow = 2
  SynRetries = 1
  PaceEvery = 1
  TaskAddresses <- ThreeAddresses
  TaskPorts <- Ports2
  CommonPorts = {1}
  DetailLimit = 1
  MaxTaskIps = 2
  Candidates <- TwoAddresses
  MaxEchoes = 1
  MaxDoors = 1
  Names = {"n1", "n2", "n3"}
  MaxHops = 2
  PerDomain = 2
  RegistryMax = 3
  MaxResumes = 1
  Requested = 6
  HostName <- HostNames
  Host <- HostOf
  Accepted <- Accepting
  MaxProviders = 5
  MaxConcurrency = 2
  MaxPerHost = 0
CHECK_DEADLOCK FALSE
INVARIANTS
  NetworkWithinBounds PortsExact HostStateJustified QueriesExact SearchExact
PROPERTIES
  TcpKeepsPromise PoolKeepsPromise UdpLateAnswerCounts NetworkEnds
