\* The user scales to three nodes, to two, and to three again.
CONSTANTS
  BaseNodes = 1
  MaxNodes = 3
  Scales = {2, 3}
  Patience = 2
  MaxMishaps = 4
SPECIFICATION Spec
CHECK_DEADLOCK FALSE
INVARIANTS
  FullyFormedIsOneCluster
