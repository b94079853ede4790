CONSTANTS
  Node = {n1, n2}
  Patience = 2
  MaxMishaps = 4
SPECIFICATION FairSpec
CHECK_DEADLOCK FALSE
INVARIANTS
  TypeOK
  OsdsHaveAStarter
PROPERTIES
  OsdDataKept
  OsdsComeBack
