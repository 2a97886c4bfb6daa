SPECIFICATION MCSpec
CONSTANTS
  Outcomes <- FiveOutcomes
  MaxWriters = 2
  MaxWork = 3
  Scans <- FiveScans
  Repeat = 2
  ToFile = TRUE
  ToWebhook = TRUE
  Thresholds <- OneTwoOne
  MaxSchedules = 2

CHECK_DEADLOCK FALSE

INVARIANTS
  DatabaseExact
  MonitorExact
