SPECIFICATION Spec
CONSTANTS
  MaxPid = 2
  MaxExec = 2
  Clients = {c1, c2}
SYMMETRY ClientSymmetry
CHECK_DEADLOCK FALSE
INVARIANTS
  TypeOK
  AbortNeverSpins
  ScheduledStaysReady
  NoOrphanExecution
PROPERTIES
  StoreBeforeReply
  ReplySettledOnce
  ImplementsContract
