CONSTANTS
  Task <- Tasks3
  TaskKind <- Kinds
  Registered <- Kinds
  ModuleName <- Modules
  Kind <- Kind3
  Module <- Module3
  Priority <- Priority3
  Deps <- Deps3
  MaxAttempts <- Attempts3
  Plan <- Plan3
  FollowUps <- FollowUps3
  Slots = 2
  KindLimit <- OnePortSlot
  Capacity = 1
  MaxTasks = 3
  MaxRetries = 1
  MaxEvidence = 1
  ModuleMaxTasks <- NoModuleLimit
  ModuleMaxRetries <- NoModuleLimit
  EvidenceSizes = {0, 1}
  Outcome <- AnyOutcome
  Flippable = {}
  CallerCancels = {}
  CallerStops = FALSE
SPECIFICATION SteadySpec
INVARIANTS
  TypeOK SlotsWithinCaps QueueExact AttemptsExact LedgerExact DrainAdmitsNothing CompletedMeansWhole
PROPERTIES
  ImplementsLifecycle
