SPECIFICATION FairSpec
CONSTANTS
  a1 = a1
  a2 = a2
  NULL = NULL
  Address <- MCAddress
  Commands <- SessionCommands
  BodyLines <- MailLines
  LockStep = TRUE
  RequiresAuthentication = TRUE
  MaxWire = 0
  MaxBody = 2
  MaxRecipients = 2
  MemoryLines = 2
CHECK_DEADLOCK FALSE
INVARIANTS TypeOK HandedAsComposed AuthenticatedHandover OneReplyPerCommand
PROPERTIES WaitingClientIsReleased AbandonedIsClosed
