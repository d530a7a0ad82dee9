SPECIFICATION Spec
CONSTANTS
  a1 = a1
  a2 = a2
  NULL = NULL
  Address <- MCAddress
  Commands <- AheadCommands
  BodyLines <- OneLine
  LockStep = FALSE
  RequiresAuthentication = FALSE
  MaxWire = 4
  MaxBody = 2
  MaxRecipients = 1
  MemoryLines = 2
CHECK_DEADLOCK FALSE
INVARIANTS EnvelopeInOrder NullEndsNoMessage
PROPERTIES ClosedForGood
