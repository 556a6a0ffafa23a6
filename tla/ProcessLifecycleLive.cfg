SPECIFICATION FairSpec
CONSTANTS
  MaxPid = 1
  MaxExec = 2
  Clients = {c1}
CHECK_DEADLOCK FALSE
PROPERTIES
  StopCompletes
  WaitersWake
