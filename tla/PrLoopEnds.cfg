CONSTANTS
  r1 = r1
  r2 = r2
  h1 = h1
  h2 = h2
  Reviewers = {r1}
  Heads = {h1, h2}
  NoHead = NoHead
  Primary = r1
  Policy = "all-reviewers"
  MaxRounds = 2
  MaxReqs = 0
  FirstHead = h1
  Parallel = TRUE
  CiResults = {"passing", "failing", "plumbing"}
  Conflicting = {h1}
  Pushers = {"human", "coder"}
  MaxPushes = 1
  MaxRuns = 2
  WatchBudget = 2
  Failures = {r1}
SPECIFICATION Spec
INVARIANTS
  RoundsWithinBudget
  OnlyARepairRequalifies
PROPERTY EveryRunEnds
CHECK_DEADLOCK FALSE
