SPECIFICATION FairSpec
CONSTANTS
  a = a
  b = b
  Names = {a, b}
  Standby = {a}
  Tasks = {t, u}
  Timed = {t}
  Fg = fg
  Plan <- OnlyA
  BootTimeout = 2
  DefaultTimeout = 2
  InitialRetry = 1
  MaxRetry = 2
  Hints = {0, 3}
  MaxChunks = 2
  NoName = NoName
  NoFlight = NoFlight
  NoCheckpoint = NoCheckpoint
CHECK_DEADLOCK FALSE
INVARIANTS
  TypeOK
  FlightsAccounted
  OneInitialisation
PROPERTIES
  InitEnds
  RequestsEnd
