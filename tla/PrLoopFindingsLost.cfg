CONSTANTS
  r1 = r1
  r2 = r2
  h1 = h1
  h2 = h2
  Reviewers = {r1, r2}
  Heads = {h1, h2}
  NoHead = NoHead
  Primary = r1
  Policy = "selective-intermediate"
  MaxRounds = 2
  MaxReqs = 0
  FirstHead = h1
  Parallel = TRUE
  CiResults = {"passing"}
  Conflicting = {}
  Pushers = {"coder"}
  MaxPushes = 0
  MaxRuns = 3
  WatchBudget = 2
  Failures = {r1, r2}
SPECIFICATION SafetySpec
INVARIANTS
  CountedFindingsKept
CHECK_DEADLOCK FALSE
