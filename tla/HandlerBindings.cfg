SPECIFICATION Spec
CONSTANTS
  Writer = Writer
  Log = Log
  Report = Report
  Paths = {Log, Report}
  Procs = {Writer}
  HandlersOf <- Declared
  MaxSinks = 3
  MaxContexts = 3
  MaxTasks = 2
  MaxChunks = 2
  NoProc = NoProc
  NoRequest = NoRequest
  NoCheckpoint = NoCheckpoint
CHECK_DEADLOCK FALSE
INVARIANTS
  OwnersCounted
  OpenWhileOwned
  WritesInTurn
