SPECIFICATION Spec
CONSTANTS
  Survivable <- Stubborn
  ExitCodes <- Codes
CHECK_DEADLOCK FALSE
INVARIANT SignalsOnlyAtShutdown
