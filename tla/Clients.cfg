SPECIFICATION MCSpec
CONSTANTS
  c1 = c1
  c2 = c2
  c3 = c3
  c4 = c4
  c5 = c5
  c6 = c6
  ethereum = ethereum
  base = base
  unknown = unknown
  Checks = {c1, c2, c3, c4, c5, c6}
  Chains = {ethereum, base, unknown}
  ChainOf <- MCChainOf
  Configured = {ethereum, base}
  Cancellable = {c1, c2, c5}
  MaxTasks = 5
  RpcRequests = {"r1", "r2"}
  RpcProbes = {"p1"}
  RpcCancellable = {"p1"}
  N = 3
  Adapters = {"a1", "a2"}
  Froms = {0, 2}
  Tos <- MCTos
  ChunkSizes = {0, 1, 2}
  MaxBlock = 3
  MaxLogs = 2
  Owners = {"owner"}
  Salts = {0, 1}
  Fees = {0, 1}
  Protocols = {"aave_v3", "morpho"}
  Transfers = {1, 2}
  MaxFunded = 5
  Batches <- MCBatches
  Aave <- MCAave
  Comet <- MCComet
  Morpho <- MCMorpho
  Lltv = 80
  Wad = 100
  Cursor = 30
  MaxFactor = 115
  VirtualShares = 10
  VirtualAssets = 1
  MaxMoves = 1
  MaxInterest = 2
  FeeScale = 1000
  MAX_BPS = 10000
  ProtocolFeeBps = 6
  Tables <- MCKnown
  OftAddress = "OFT"
  DstOftAddress = "OFT"
  LucidSources = {"eth"}
  LucidToken = "OFT"
  HyperCore = "hyper"
  ForwardFee = 5
  Price <- MCPrice
  Orders <- MCOrders
  Costs = {0, 20, 29}
  Rates = {70, 100}
  Allowance = 4000
  MaxChanges = 1
  Coins = {0, 1, 2, 3, 4}
  Ether = 0
  WrappedEther = 1
  Paths <- MCPaths
  Kinds = {"v2", "v3", "v4"}
  Amounts = {2}
  Limits = {0, 2}
  MaxPrice = 3
  MaxTx = 2
CHECK_DEADLOCK FALSE
INVARIANTS
  FailoverSound
  CacheSound
  SettlesAsQuoted
  FirstIsBest
  SupplyAccounted
  OrderIsWhole
  ListsWhole
  ScansFindAll
PROPERTIES
  Terminates
