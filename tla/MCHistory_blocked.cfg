SPECIFICATION MCSpec
CONSTANTS
  Outcomes <- FourOutcomes
  MaxWriters = 1
  MaxWork = 5
  Scans <- FiveScans
  Repeat = 2
  ToFile = TRUE
  ToWebhook = TRUE
  Thresholds <- OneTwoOne
  MaxSchedules = 2

CHECK_DEADLOCK FALSE

INVARIANTS
  AbsenceStaysUnknown
