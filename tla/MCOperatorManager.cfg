\* AllSpecs, FirstSpecs, UserOps, OneKind: see MCOperatorManager
CONSTANTS
  Nil = Nil
  Clusters = {"a", "b"}
  Ensured <- OneKind
  Specs <- AllSpecs
  FirstSpec <- FirstSpecs
  MaxOps <- UserOps
  MaxFaults = 1
SPECIFICATION FairSpec
CHECK_DEADLOCK FALSE
INVARIANTS
  TypeOK
  NoPassForTheBuried
  QuietMeansSettled
PROPERTIES
  FinalizerGuardsTheLiving
  ClustersSettle
