\* The sets: see MCNodeProjection
CONSTANTS
  Nil = Nil
  Specs <- OneNode
  Pods <- SomePods
  Facts <- SomeFacts
  Worlds <- Complete
  MaxNodes = 1
  MaxTime = 1
  MaxUpsets = 1
SPECIFICATION Spec
PROPERTIES
  NodesLeaveOnlyWhenUnlisted
