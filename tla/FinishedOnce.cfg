SPECIFICATION Spec
CONSTANTS
  MaxPid = 1
  MaxExec = 2
  Clients = {c1, c2}
SYMMETRY ClientSymmetry
CHECK_DEADLOCK FALSE
INVARIANT FinishedOnce
