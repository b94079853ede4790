\* PlainSpecs: see MCClusterReconcile
CONSTANTS
  Nil = Nil
  Specs <- PlainSpecs
  MaxNodes = 2
  MaxOsds = 1
  MaxEdits = 1
  MaxFaults = 1
SPECIFICATION TimelySpec
CHECK_DEADLOCK FALSE
INVARIANTS
  TypeOK
  JoinedNodesAreMembers
PROPERTIES
  ImplementsFormation
  NothingProvisionedAfterRemoval
  PlainClusterSettles
  DeletionCompletes
