CONSTANTS
  r1 = r1
  r2 = r2
  h1 = h1
  h2 = h2
  Reviewers = {r1, r2}
  Heads = {h1, h2}
  NoHead = NoHead
  Primary = r1
  Policy = "primary-then-panel"
  MaxRounds = 2
  MaxReqs = 1
  FirstHead = h1
  Parallel = TRUE
  CiResults = {"passing"}
  Conflicting = {}
  Pushers = {"human"}
  MaxPushes = 1
  MaxRuns = 2
  WatchBudget = 2
  Failures = {r2}
SPECIFICATION SafetySpec
INVARIANTS
  TypeOK
  MergedHeadIsApproved
  SecondariesWaitForPrimary
  CountedFindingsKept
PROPERTIES
  ImplementsHeadBoundMerge
  CommitSurfacesRequirements
CHECK_DEADLOCK FALSE
