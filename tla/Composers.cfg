SPECIFICATION Spec
CONSTANTS
  o1 = o1
  o2 = o2
  o3 = o3
  m1 = m1
  m2 = m2
  m3 = m3
  s1 = s1
  s2 = s2
  s3 = s3
  c1 = c1
  c2 = c2
  c3 = c3
  p1 = p1
  p2 = p2
  p3 = p3
  g1 = g1
  g2 = g2
  NoPermit = NoPermit
  alice = alice
  bob = bob
  lane1 = lane1
  lane2 = lane2
  NoSend = NoSend
  Users = {alice, bob}
  OFTMessages = {o1, o2, o3}
  OFTMsg <- MCOFTMsg
  CCIPMessages = {m1, m2, m3}
  CCIPMsg <- MCCCIPMsg
  Sends = {s1, s2, s3}
  Send <- MCSend
  Calls = {c1, c2, c3}
  Call <- MCCall
  Wallet0 <- MCWallet0
  Permits = {p1, p2, p3}
  Permit <- MCPermit
  Programs = {g1, g2}
  Purse <- MCPurse
  ProgramAmount <- MCProgramAmount
  Owner0 = alice
  Lanes = {lane1, lane2}
  Enabled0 = TRUE
  MaxSeq = 3
  MaxParams = 2
  Slots = {0, 1, 2}
  MaxDepth = 3
INVARIANTS
  DeliveredWithOneRun
  PendingIsBacked
  FollowUpsSettle
  NoCrossFunding
  NoStaleParams
  DepositsOnlyForRuns
PROPERTIES
  OnlyOpenLanesSettle
  KeepsPromise
