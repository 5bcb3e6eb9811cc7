SPECIFICATION Spec
CONSTANTS
  f = f
  g = g
  p = p
  q = q
  r = r
  Factories = {f}
  Pools = {p, q}
  UserPools = {q}
  BlockContents <- MCBlocks
  MaxBlock = 2
  HeadLag = 0
  BatchSize = 2
  MaxFills = 0
  MaxLate = 0
  MaxCrashes = 1
  MaxErrors = 0
  MaxWriteErrors = 1
INVARIANTS
  DiscoveryComplete
