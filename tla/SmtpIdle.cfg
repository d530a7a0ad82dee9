SPECIFICATION Spec
CONSTANTS
  a1 = a1
  a2 = a2
  NULL = NULL
  Address <- MCAddress
  Commands <- IdleCommands
  BodyLines <- OneLine
  LockStep = TRUE
  RequiresAuthentication = FALSE
  MaxWire = 0
  MaxBody = 2
  MaxRecipients = 1
  MemoryLines = 1
CHECK_DEADLOCK FALSE
PROPERTIES DisconnectsOnlyIdle
