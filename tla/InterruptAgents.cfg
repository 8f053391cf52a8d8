CONSTANTS
  r1 = r1
  r2 = r2
  r3 = r3
  t1 = t1
  t2 = t2
  t3 = t3
  Runs = {r1}
  Workers = {t1, t2}
  Crew <- OneCrew
  Pool <- OnePool
  After = {}
  Main = {r1}
  Cli = {r1}
  Direct = {}
  Resets = {6, 9}
  Limit = 15
  Margin = 1
  MaxWaits = 2
  Slices = 1
  MaxSignals = 1
SPECIFICATION Spec
INVARIANT AgentsAreKilled
CHECK_DEADLOCK FALSE
