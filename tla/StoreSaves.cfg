SPECIFICATION FairSpec
CONSTANTS
  d1 = d1
  d2 = d2
  r1 = r1
  x = x
  NULL = NULL
  Plain = plain
  Delivery <- TwoDeliveries
  Reader <- OneReader
  Base <- Twins
  Undatable <- PlainPaths
  Random = {r, s}
  Times = {1, 2}
  MaxCrashes = 2
  MaxRetries = 1
  DiskFails = TRUE
CHECK_DEADLOCK FALSE
INVARIANTS TypeOK OwnsWhatItWrites ReadsNoPartialMessage
PROPERTIES SavingEnds ImplementsFolder
