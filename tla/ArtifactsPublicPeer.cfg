CONSTANTS
  r1 = r1
  r2 = r2
  r3 = r3
  d1 = d1
  d2 = d2
  NoDigest = NoDigest
  a1 = a1
  a2 = a2
  NoRunner = NoRunner
  g1 = g1
  g2 = g2
  Groups = {g1, g2}
  Chains <- MCChains
  Retries = 1
  MaxWaits = 2
  MaxPeers = 1
  Reviewers = {r1, r2}
  Actors = {a1, a2}
  MaxAttempts = 2
  MaxFaults = 3
  Runs = {r1, r2, r3}
  Commanded = {r1, r2}
  Digests = {d1, d2}
  MaxGen = 2
  MaxDamage = 1
SPECIFICATION MCSpec
INVARIANT NoTurnBesidePublicPeer
CHECK_DEADLOCK FALSE
