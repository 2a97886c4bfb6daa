CONSTANTS
  Task <- Tasks2
  TaskKind <- Kinds
  Registered <- Kinds
  ModuleName <- Modules
  Kind <- KindTwo
  Module <- ModuleTwo
  Priority <- PriorityTwo
  Deps <- Deps2
  MaxAttempts <- Attempts2
  Plan <- Plan2
  FollowUps <- FollowUps2
  Slots = 2
  KindLimit <- WideKinds
  Capacity = 1
  MaxTasks = 2
  MaxRetries = 1
  MaxEvidence = 1
  ModuleMaxTasks <- NoModuleLimit
  ModuleMaxRetries <- NoModuleLimit
  EvidenceSizes = {0, 1}
  Outcome <- AnyOutcome
  Flippable = {}
  CallerCancels = {}
  CallerStops = FALSE
SPECIFICATION Spec
PROPERTIES
  DeadlineVerdictIsTrue
