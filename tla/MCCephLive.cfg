\* EditedSpecs: see MCClusterReconcile
CONSTANTS
  Nil = Nil
  Specs <- EditedSpecs
  MaxNodes = 1
  MaxOsds = 1
  MaxEdits = 1
  MaxFaults = 1
SPECIFICATION TimelySpec
CHECK_DEADLOCK FALSE
INVARIANTS
  ReadyMeansCephBuilt
PROPERTIES
  CephClusterBecomesReady
  InvalidSpecReported
