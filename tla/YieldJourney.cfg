SPECIFICATION Spec
CONSTANTS
  Ethereum = "A"  PageSize = 2  MaxPages = 2
  World <- MCWorld  TokenOn <- MCTokenOn  Delegates = {"A"}  Bridges <- MCBridges  Rates <- MCRates
  Horizon = 2  MinGain = 1  Start <- MCStart  Purse <- MCPurse
  Nonces = {0}  MaxFee = 1  Timeout = 2  PollInterval = 1  SignTtl = 1  Max256 = 99  RandomNonce = 99
  MaxPlans = 2  MaxOther = 1  MaxClock = 3
INVARIANTS
  FundsStayWithUser
  Recoverable
  SponsoredBatchRuns
  WaitTellsTheTruth
PROPERTIES
  NoPingPong
  WaitEnds
CHECK_DEADLOCK FALSE
