SPECIFICATION Spec
CONSTANTS
  f = f
  g = g
  p = p
  q = q
  r = r
  Factories = {f, g}
  Pools = {p, q, r}
  UserPools = {p, q}
  BlockContents <- MCSharedBlock
  MaxBlock = 2
  HeadLag = 0
  BatchSize = 1
  MaxFills = 1
  MaxLate = 1
  MaxCrashes = 1
  MaxErrors = 0
  MaxWriteErrors = 1
INVARIANTS
  NoDuplicateRows
  BackfillDone
