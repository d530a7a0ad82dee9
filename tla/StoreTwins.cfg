SPECIFICATION Spec
CONSTANTS
  d1 = d1
  d2 = d2
  r1 = r1
  x = x
  NULL = NULL
  Plain = plain
  Delivery <- TwoDeliveries
  Reader <- OneReader
  Base <- Twins
  Undatable = {}
  Random = {r, s}
  Times = {1, 2}
  MaxCrashes = 2
  MaxRetries = 1
  DiskFails = FALSE
CHECK_DEADLOCK FALSE
INVARIANTS AnnouncedIsKept
