SPECIFICATION Spec
CONSTANTS
  m1 = m1
  m2 = m2
  m3 = m3
  alice = alice
  bob = bob
  Messages = {m1, m2, m3}
  Msg <- MCMsg
  Users = {alice, bob}
  Owner0 = alice
  Slots = {0, 1, 2}
  MaxDepth = 3
INVARIANTS
  TransientClean
  ReadsOwnParams
  SpentForOneRun
PROPERTIES
  StartsFunded
  KeepsPromise
