CONSTANTS
  r1 = r1
  r2 = r2
  r3 = r3
  r4 = r4
  t1 = t1
  t2 = t2
  t3 = t3
  h1 = h1
  h2 = h2
  NoHead = NoHead
  Runs = {r1, r2, r3, r4}
  Workers = {t1, t2, t3}
  Crew <- CommandCrew
  Pool <- CommandPool
  After <- CommandAfter
  Main = {r3, r4}
  Cli = {r3, r4}
  Direct = {r3}
  Resets = {6, 9}
  Limit = 15
  Margin = 1
  MaxWaits = 2
  Slices = 1
  MaxSignals = 1
SPECIFICATION MCSpec
INVARIANTS
  CancelledWaitsStop
  LatchIsFresh
  BudgetHolds
  CutWaitIsAQuotaStop
  FindingsCarried
CHECK_DEADLOCK FALSE
