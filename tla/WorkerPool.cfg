SPECIFICATION PoolSpec
CONSTANTS
  Pid = {p1, p2, p3, p4, p5}
  Request = {r1, r2}
  Workers = {w1}
  Supervisor = {s1, s2}
  Adopters = {s2}
  NoSupervisor = NoSupervisor
  Strategies <- SmallStrategies
SYMMETRY PoolSymmetry
CHECK_DEADLOCK FALSE
INVARIANTS
  MembersAreLive
  TargetKept
  ChildTableExact
  BroadcastCovers
