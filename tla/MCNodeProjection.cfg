\* The sets: see MCNodeProjection
CONSTANTS
  Nil = Nil
  Specs <- SomeSpecs
  Pods <- SomePods
  Facts <- SomeFacts
  Worlds <- SomeWorlds
  MaxNodes = 2
  MaxTime = 1
  MaxUpsets = 2
SPECIFICATION FairSpec
INVARIANTS
  TypeOK
  TransitionsObserved
PROPERTIES
  TransitionTimesHonest
  NoIdleWrites
  ProjectionConverges
