CONSTANTS
  r1 = r1
  r2 = r2
  r3 = r3
  h1 = h1
  h2 = h2
  p1 = p1
  p2 = p2
  a = a
  b = b
  c = c
  NoRun = NoRun
  Runs = {r1, r2, r3}
  Procs = {h1, h2}
  Paths = {p1, p2}
  Host <- MCProcs
  Wants <- MCWants
  MaxCalls = 2
  WorktreeRuns = {r1, r2}
  MaxStale = 1
SPECIFICATION MCSpec
INVARIANTS
  TypeOK
  ClaimsAreExclusive
  AllOrNothing
  NothingLeaks
  UsedStays
  LeftoversAreFound
PROPERTIES
  InterruptEnds
  NobodyIsHeldUp
CHECK_DEADLOCK FALSE
