SPECIFICATION Spec
INVARIANTS
  ResourcesOutlive
  WaitIsHeard
  LateUseIsBounded
PROPERTIES
  ShutdownCompletes
CHECK_DEADLOCK FALSE
