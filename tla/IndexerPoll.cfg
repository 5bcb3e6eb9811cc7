SPECIFICATION FairSpec
CONSTANTS
  f = f
  g = g
  p = p
  q = q
  r = r
  Factories = {f}
  Pools = {p, q, r}
  UserPools = {q}
  BlockContents <- MCTwoPools
  MaxBlock = 3
  HeadLag = 1
  BatchSize = 2
  MaxFills = 0
  MaxLate = 2
  MaxCrashes = 1
  MaxErrors = 1
  MaxWriteErrors = 0
INVARIANTS
  NoGap
  DiscoveryComplete
PROPERTIES
  CaughtUp
