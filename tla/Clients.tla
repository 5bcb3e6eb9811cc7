------------------------------ MODULE Clients ------------------------------
(***************************************************************************)
(* Clients that await answers, side by side: the liquidation router's      *)
(* cache, the scan for liquidatable positions, the RPC failover, Lucid's   *)
(* scan for its adapter, an order that is bridged, the deposit addresses   *)
(* and the UniversalRouter, each over variables of its own.                *)
(***************************************************************************)
EXTENDS LiquidationCache

CONSTANTS
  RpcRequests, RpcProbes, RpcCancellable, N,            \* MultiRpc
  Adapters, Froms, Tos, ChunkSizes, MaxBlock, MaxLogs,  \* LucidDiscovery
  Owners, Salts, Fees, Protocols, Transfers, MaxFunded, \* YieldDeposit
  Batches, Aave, Comet, Morpho, Lltv, Wad, Cursor, MaxFactor,
  VirtualShares, VirtualAssets, MaxMoves, MaxInterest,  \* LiquidationScan
  FeeScale, MAX_BPS, ProtocolFeeBps, Tables, OftAddress, DstOftAddress, LucidSources,
  LucidToken, HyperCore, ForwardFee, Price,             \* BridgeClients
  Orders, Costs, Rates, Allowance, MaxChanges,          \* BridgeJourney
  Coins, Ether, WrappedEther, Paths, Kinds, Amounts, Limits, MaxPrice, MaxTx  \* UniversalRouter

ASSUME RpcAssumption ==
  /\ N \in Nat \ {0}
  /\ RpcRequests \cap RpcProbes = {}
  /\ "nobody" \notin RpcRequests \union RpcProbes
ASSUME LucidAssumption ==
  /\ Froms \subseteq Int /\ Tos \subseteq Int /\ ChunkSizes \subseteq Int
  /\ MaxBlock \in Nat /\ MaxLogs \in Nat
ASSUME DepositAssumption == Fees \subseteq Nat /\ Transfers \subseteq Nat

VARIABLES
  index, current, open, call, tried, overtaken,                   \* MultiRpc
  chain, ask, scan, head, cursor, adapter, began,                 \* LucidDiscovery
  held, deployed, position, earned, taken, received, paused,      \* YieldDeposit
  batch, at, reads, sweep, found, sent, stirred,                  \* LiquidationScan
  order, cost, rate, answers, ranked, chosen, phase, legs, feeBase,
  allow, flight, arrived, vm, supplied, moves, moved,             \* BridgeJourney
  bal, delta, todo, acts, tx, dry                                 \* UniversalRouter

Rpc == INSTANCE MultiRpc
  WITH Requests <- RpcRequests, Probes <- RpcProbes, Cancellable <- RpcCancellable

Lucid == INSTANCE LucidDiscovery WITH pc <- scan

Deposit == INSTANCE YieldDeposit

Scan == INSTANCE LiquidationScan WITH check <- reads, pc <- sweep, moved <- stirred

Bridge == INSTANCE BridgeJourney
  WITH Wad <- FeeScale, Known <- Tables, Oft <- OftAddress, DstOft <- DstOftAddress,
       MaxMoves <- MaxChanges, pc <- phase, base <- feeBase, got <- arrived

Router == INSTANCE UniversalRouter
  WITH Tokens <- Coins, Eth <- Ether, Weth <- WrappedEther

\* Prices of the oracles are positive, and a Morpho position with a debt has
\* collateral: Morpho writes a debt off with the last of it.
ASSUME ScanAssumption ==
  /\ Batches \subseteq Seq({"aave_v3", "aave_v4", "compound_v3", "morpho", "unknown"})
  /\ Aave \subseteq [bad : BOOLEAN, debt : Nat, collateral : Nat, enabled : BOOLEAN]
  /\ Comet \subseteq [bad : BOOLEAN, debt : Nat]
  /\ Morpho \subseteq [shares : Nat, collateral : Nat, price : Nat \ {0},
                     assets : Nat, owed : Nat, total : Nat]
  /\ \A p \in Morpho : p.owed >= p.assets /\ (p.shares > 0 => p.collateral > 0)
  /\ Wad \in Nat \ {0} /\ VirtualShares \in Nat \ {0} /\ VirtualAssets \in Nat \ {0}
  /\ Lltv \in Nat /\ Scan!LiquidationIncentiveFactor \in Nat \ {0}

\* Amounts, fees and rates are not negative, a slippage is at most the whole, a
\* plain transfer's caller approves it with any fee, and every client of a fleet
\* is known.  A source swap goes into a CCTP transfer.
BridgeNames ==
  {"across", "stargate", "oft", "cctp", "relay", "gaszip", "mayan", "lucid", "ccip", "eureka"}
ASSUME BridgeAssumption ==
  /\ MAX_BPS \in Nat \ {0} /\ ProtocolFeeBps \in 0 .. MAX_BPS
  /\ FeeScale \in Nat \ {0} /\ ForwardFee \in Nat
  /\ Costs \subseteq Nat /\ Rates \subseteq Nat /\ Allowance \in Nat
  /\ Bridge!NativeAddr \in DOMAIN Price /\ \A t \in DOMAIN Price : Price[t] \in Nat
  /\ \A o \in Orders :
       /\ o.amount \in Nat /\ o.maxFee \in Nat /\ o.buffer \in Nat /\ o.slippage \in 0 .. MAX_BPS
       /\ o.in.addr \in DOMAIN Price /\ o.feeToken \in DOMAIN Price
       /\ o.in.native \in BOOLEAN /\ o.destSwap \in BOOLEAN
       /\ o.kind \in {"plain", "compose", "swap"}
       /\ o.fleet \in Seq(BridgeNames)
       /\ o.kind = "swap" => \E k \in DOMAIN o.fleet : o.fleet[k] = "cctp"
       /\ \A c \in Costs : o.amount + c <= Allowance

\* Paths have two tokens at least, each once, none of them native.
ASSUME RouterAssumption ==
  /\ Coins \subseteq Int /\ {Ether, WrappedEther} \subseteq Coins
  /\ Amounts \subseteq Nat /\ Limits \subseteq Nat /\ MaxPrice \in Nat
  /\ Paths \subseteq {p \in Seq(Coins \ {Ether}) :
                       Len(p) >= 2 /\ \A j, k \in DOMAIN p : p[j] = p[k] => j = k}

-----------------------------------------------------------------------------
\* The cached provider is usable and no other one stays open, and a call that
\* fails has tried every endpoint (MultiRpc).
FailoverSound == Rpc!CurrentUsable /\ Rpc!NothingRetained /\ Rpc!TriesAllUnlessOvertaken

\* Exactly what may be liquidated is found, and can be (LiquidationScan).
LiquidationsLand == Scan!LiquidationsLand

\* A transfer settles for what was quoted (BridgeJourney).
SettlesAsQuoted == Bridge!SettlesAsQuoted

\* The first ranked quote is the best one (BridgeJourney).
FirstIsBest == Bridge!FirstIsBest

\* A scan finds what one look at everything would have found: the positions
\* that may be liquidated, the latest adapter (LiquidationScan, LucidDiscovery).
ScansFindAll == LiquidationsLand /\ Lucid!AdapterIsLatest

\* What is sent to be supplied is supplied for its owner, or still theirs
\* (BridgeJourney's programs, YieldDeposit's addresses).
SupplyAccounted == Bridge!ComposeSettles /\ Deposit!DepositAccounted

\* A transaction costs and pays what was ordered, in full (UniversalRouter).
OrderIsWhole == Router!OrderIsWhole
=============================================================================
