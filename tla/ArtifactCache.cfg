SPECIFICATION FairSpec
CONSTANTS
  std = std
  prefix = prefix
  run = run
  k1 = k1
  k2 = k2
  Procs = {p1, p2, p3}
  Keys = {k1, k2}
  Paths = {std, prefix, run}
  Semantic = {std, prefix}
  Shared = {std}
  Jobs <- SmallJobs
  NB = 2
  None = None
CHECK_DEADLOCK FALSE
INVARIANTS
  HitIsOwn
  PublishedWhole
  BuildIsNeeded
  FaultsHeal
PROPERTY EveryoneEnds
