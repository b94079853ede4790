CONSTANTS
  BaseNodes = 1
  MaxNodes = 3
  Scales = {3}
  Patience = 2
  MaxMishaps = 3
SPECIFICATION FairSpec
CHECK_DEADLOCK FALSE
INVARIANTS
  TypeOK
  AddOnlyWithTrust
PROPERTIES
  FormationBetweenTeardowns
  RetriesConverge
