SPECIFICATION FairLoading
CONSTANTS
  d1 = d1
  d2 = d2
  r1 = r1
  r2 = r2
  x = x
  r = r
  NULL = NULL
  Plain = plain
  Delivery <- TwoDeliveries
  Reader <- Readers
  Base <- Twins
  Undatable = {}
  Random = {r}
  Times = {1}
  MaxCrashes = 2
  MaxRetries = 1
  DiskFails = TRUE
  Hash <- Hashes
  HashBits = 8
  LockObjectCount = 3
CHECK_DEADLOCK FALSE
INVARIANTS LoadingTypeOK NothingPartialIsCached ServedUnderItsName LoadsExclude LoadIsNotRepeated
PROPERTY LoadingEnds
