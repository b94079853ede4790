CONSTANTS
  MaxNodes = 2
  MaxDevs = 3
  Retries = 3
  Budget = 3
  MaxSettle = 3
SPECIFICATION FairSpec
CHECK_DEADLOCK FALSE
INVARIANTS
  TypeOK
  LeftMappedHasCause
PROPERTIES
  DownIsReached
  ShimsEnd
