SPECIFICATION Spec
CONSTANTS
  MaxChunk = 2
  MaxItems = 2
  MaxPid = 3
  Singletons = {s1, s2}
SYMMETRY SingletonSymmetry
CHECK_DEADLOCK FALSE
INVARIANTS
  ImageIsCommitted
  SessionInStep
  LiveIdsNotReissued
  PlanIsUp
