\* PlainSpecs: see MCClusterReconcile
CONSTANTS
  Nil = Nil
  Specs <- PlainSpecs
  MaxNodes = 2
  MaxOsds = 1
  MaxEdits = 1
  MaxFaults = 0
SPECIFICATION Spec
CHECK_DEADLOCK FALSE
INVARIANT ReadyMeansAllJoined
