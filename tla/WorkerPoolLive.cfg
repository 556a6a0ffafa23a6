SPECIFICATION FairPoolSpec
CONSTANTS
  Pid = {p1, p2, p3, p4}
  Request = {r1, r2}
  Workers = {w1}
  Supervisor = {s1}
  Adopters = {}
  NoSupervisor = NoSupervisor
  Strategies <- PairStrategies
CHECK_DEADLOCK FALSE
PROPERTIES
  TargetRestored
  EveryMemberInTurn
