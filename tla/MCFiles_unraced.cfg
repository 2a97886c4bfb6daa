SPECIFICATION MCProjectSpec
CONSTANTS
  p1 = p1
  p2 = p2
  i1 = i1
  i2 = i2
  i3 = i3
  i4 = i4
  i5 = i5
  a = a
  b = b
  c = c
  d = d
  e = e
  None = None
  Torn = Torn
  Process <- TwoProcesses
  Inode <- FiveInodes
  TempOf <- TempOfPid
  MaxScans = 4
  tmp = tmp
  Scans <- ThreeScans
  MaxCommands = 4
  runner = p1
  RunInode <- ThreeInodes
  Task <- FourTasks
  Plan <- PlanAB
  Deps <- NeedsA
  FollowUps <- ProposesCD
  SavesEarly = TRUE
  MaxTasks = 3
  MaxOutputs = 2
  MaxStarts = 3
SYMMETRY Symmetry
CHECK_DEADLOCK FALSE
PROPERTIES UnracedSaveLosesNothing
