CONSTANTS
  Nil = Nil
  Submissions <- MCSubmissions
  StatusLines <- MCStatusLines
SPECIFICATION Spec
CHECK_DEADLOCK FALSE

INVARIANTS
  MonCountIsLargestOddFit
  AcceptedPoolsFitTheOSDs
  PlanRespectsDependencies
  AllDefaultsAccepted
  UsableMeansEveryOSDUp
