SPECIFICATION MCSpec
CONSTANTS
  Q96 = 8  MinSqrt = 1  MaxSqrt = 64
  PRECISION = 10  FEE_DENOMINATOR = 100  A_PRECISION = 100  Rounds = 12
  MAX_BPS = 100  MAX_PIPS = 10000  NoHooks = "none"  NoToken = "none"
  Decimals <- MCDecimals
  Scale = 130  InitialStep = 13  ArmijoDen = 10000  TolDen = 100000  InnerTolDen = 10000  MaxOuter = 6  MaxInner = 6
  MaxParallel = 2  MaxSplitInput = 1000
  Graphs <- MCUneven  Tokens <- MCFive  Amounts = {10}  SlippageBps = {10}
  MaxHops = 4  TopN = 2  GasPrices = {0}
  HandGraph <- G5  HandCalls <- MCHandCalls  HandEdges = {1, 2}  HandAmount = 32  MaxHandCalls = 7  MaxOthers = 2  OtherAmounts = {5, 30}
INVARIANTS
  BestRouteIsBest
CHECK_DEADLOCK FALSE
