------------------------------ MODULE MCClients ------------------------------
(***************************************************************************)
(* The clients that await answers, in one instance: `which` is the one a   *)
(* behaviour is about, chosen in Init; the others rest, in Init or off.    *)
(* The failover has three endpoints and a probe that runs under a timeout; *)
(* Lucid's windows are of one and of two blocks, from below the first      *)
(* block and above.                                                        *)
(***************************************************************************)
EXTENDS Clients, FiniteSets

CONSTANTS c1, c2, c3, c4, c5, c6, ethereum, base, unknown

\* Four checks on one chain, one on another and one on a chain without a provider.
MCChainOf ==
  [c \in {c1, c2, c3, c4, c5, c6} |->
     CASE c = c5 -> base [] c = c6 -> unknown [] OTHER -> ethereum]

MCTos == {-1, 3}

VARIABLES
  which,
  ranking, list, listing, chunk, page, pools, ranked0, overtakes   \* PoolPages

off == "off"
rpcVars == <<index, current, open, call, tried, overtaken>>
bridgeVars == <<order, cost, rate, answers, ranked, chosen, phase, legs, feeBase, allow, flight,
                arrived, vm, supplied, moves, moved>>
lucidVars == <<chain, ask, scan, head, cursor, adapter, began>>
depositVars == <<held, deployed, position, earned, taken, received, paused>>
liquidationVars == <<tasks, cache, check>>
pagesVars == <<ranking, list, listing, chunk, page, pools, ranked0, overtakes>>
scanVars == <<batch, at, reads, sweep, found, sent, stirred>>
routerVars == <<bal, delta, todo, acts, tx, dry>>

(***************************************************************************)
(* Orders of every kind; every client is in a fleet.                       *)
(***************************************************************************)
Tok(c, a, d) == [chain |-> c, addr |-> a, dec |-> d, native |-> a = "native"]
Usdc == Tok("eth", "USDC", 6)
BaseUsdc == Tok("base", "USDC2", 6)
BigUsdc == Tok("base", "BIG", 18)
OftTok == Tok("eth", "OFT", 6)
BaseOft == Tok("base", "OFT", 6)
Eth == Tok("eth", "native", 18)
BaseEth == Tok("base", "native", 18)
Order(kind, in, out, amount, dst, feeToken, fleet) ==
  [src |-> "eth", dst |-> dst, in |-> in, out |-> out, amount |-> amount, slippage |-> 100,
   feeToken |-> feeToken, maxFee |-> 20, buffer |-> 5000, strict |-> FALSE, fleet |-> fleet,
   kind |-> kind, destSwap |-> kind # "plain"]
MCOrders ==
  {Order("plain", Usdc, BaseUsdc, 2000, "base", "native", <<"across", "cctp", "ccip">>),
   Order("plain", Usdc, BaseUsdc, 2000, "base", "USDC", <<"stargate", "relay", "ccip">>),
   Order("plain", Usdc, BaseUsdc, 15, "base", "LINK", <<"cctp", "ccip", "eureka">>),
   Order("plain", Usdc, BigUsdc, 2000, "base", "native", <<"relay", "mayan", "eureka">>),
   Order("plain", OftTok, BaseOft, 2000, "base", "native", <<"oft", "lucid", "ccip">>),
   Order("plain", Usdc, BaseUsdc, 2000, "hyper", "native", <<"cctp", "stargate">>),
   Order("plain", Eth, BaseEth, 2000, "base", "native", <<"gaszip", "mayan", "across">>),
   Order("plain", Eth, BaseEth, 2000, "zora", "native", <<"gaszip", "mayan", "relay">>),
   [Order("plain", Usdc, BaseUsdc, 2000, "base", "native", <<"across", "stargate">>)
      EXCEPT !.strict = TRUE],
   Order("compose", Usdc, BaseUsdc, 2000, "base", "native", <<"cctp", "ccip">>),
   Order("compose", OftTok, BaseOft, 2000, "base", "LINK", <<"oft", "ccip">>),
   Order("swap", BigUsdc, BaseUsdc, 2000, "base", "native", <<"cctp">>)}
\* The CCIP client pays its fee in the token it sends.
FeeInUsdc == {Order("compose", Usdc, BaseUsdc, 2000, "base", "USDC", <<"ccip">>)}

MCKnown ==
  [t \in {"cctp", "oft", "ccip", "gaszip", "mayan", "wormhole", "stargate", "pools"} |->
     CASE t = "pools" -> {"USDC", "USDC2", "OFT"}
       [] t = "wormhole" -> {"eth", "base"}
       [] OTHER -> {"eth", "base", "zora", "hyper"}]
MCPrice ==
  [t \in {"native", "LINK", "USDC", "USDC2", "OFT", "BIG"} |->
     CASE t = "LINK" -> 0 [] t = "native" -> 2 [] OTHER -> 1]
(***************************************************************************)
(* Five pools of four tokens on pages of two; one cannot be parsed.        *)
(***************************************************************************)
Pool(a, b, v3, whole, liquid) ==
  [t0 |-> a, t1 |-> b, v3 |-> v3, whole |-> whole, liquid |-> liquid]
MCListed ==
  [p \in {"p1", "p2", "p3", "p4", "p5"} |->
     CASE p = "p1" -> Pool("A", "B", FALSE, TRUE, TRUE)
       [] p = "p2" -> Pool("A", "C", TRUE, TRUE, TRUE)
       [] p = "p3" -> Pool("B", "C", FALSE, FALSE, TRUE)
       [] p = "p4" -> Pool("A", "B", TRUE, TRUE, FALSE)
       [] p = "p5" -> Pool("B", "D", FALSE, TRUE, TRUE)]
MCAsks ==
  [kind : {"top"}, tokens : {<<>>}, limit : {0, 2, 3, 5}]
  \union [kind : {"token"}, tokens : {<<"A">>, <<"B">>}, limit : {0, 2, 5}]
  \union [kind : {"tokens"}, limit : {2, 3, 5},
          tokens : {<<>>, <<"A", "A">>, <<"A", "B">>, <<"D", "A", "C">>}]
  \union [kind : {"v2", "v3"}, tokens : {<<>>, <<"A">>}, limit : {1, 5}]
  \union [kind : {"pool"}, tokens : {<<>>}, limit : {1}]
Pages == INSTANCE PoolPages
  WITH Listed <- MCListed, PageSize <- 2, MaxAddresses <- 2, SubgraphCap <- 2,
       Rankings <- {<<"p1", "p2", "p3", "p4", "p5">>, <<"p5", "p3", "p4", "p1", "p2">>},
       Asks <- MCAsks, MaxMoves <- 3,
       ask <- list, pc <- listing, began <- ranked0, moves <- overtakes

(***************************************************************************)
(* Morpho at a scale where its roundings show: debts of one to three units *)
(* and collateral worth less, as much and more.                            *)
(***************************************************************************)
Debtor(shares, collateral, price) ==
  [shares |-> shares, collateral |-> collateral, price |-> price,
   assets |-> 3, owed |-> 3, total |-> 30]
MCBatches == {<<"morpho", "compound_v3">>, <<"unknown", "aave_v3", "compound_v3">>,
              <<"aave_v4", "morpho">>}
MCAave == {a \in [bad : BOOLEAN, debt : {0, 3}, collateral : {0, 2}, enabled : BOOLEAN] :
             a.bad => a.debt > 0}
MCComet == [bad : BOOLEAN, debt : {3}]
MCMorpho == {Debtor(30, 1, 50), Debtor(30, 2, 150), Debtor(30, 3, 80), Debtor(15, 3, 50),
             Debtor(15, 9, 150), Debtor(0, 1, 50)}

(***************************************************************************)
(* Native ETH sorts first; paths of one, two and three hops.               *)
(***************************************************************************)
MCPaths == {<<1, 2>>, <<3, 1>>, <<1, 2, 3>>, <<3, 1, 2, 4>>}

-----------------------------------------------------------------------------
RpcOff == Rpc!Init
BridgeOff == /\ order = off /\ cost = off /\ rate = off /\ answers = off /\ ranked = off
             /\ chosen = off /\ phase = off /\ legs = off /\ feeBase = off /\ allow = off
             /\ flight = off /\ arrived = off /\ vm = 0 /\ supplied = off /\ moves = off
             /\ moved = off
LucidOff == /\ chain = off /\ ask = off /\ scan = off /\ head = off /\ cursor = off
            /\ adapter = off /\ began = off
DepositOff == Deposit!Init
LiquidationOff == Init
PagesOff == /\ ranking = off /\ list = off /\ listing = off /\ chunk = off /\ page = off
            /\ pools = off /\ ranked0 = off /\ overtakes = off
ScanOff == /\ batch = << >> /\ at = << >> /\ reads = << >> /\ sweep = "scan"
           /\ found = << >> /\ sent = << >> /\ stirred = {}
RouterOff == /\ bal = off /\ delta = off /\ todo = << >> /\ acts = << >>
             /\ tx = [pc |-> off] /\ dry = off

MCInit ==
  \/ /\ which = "rpc" /\ Rpc!Init
     /\ RouterOff /\ BridgeOff /\ LucidOff /\ DepositOff
     /\ LiquidationOff /\ PagesOff /\ ScanOff
  \/ /\ which = "bridge" /\ Bridge!Init
     /\ RouterOff /\ RpcOff /\ LucidOff /\ DepositOff
     /\ LiquidationOff /\ PagesOff /\ ScanOff
  \/ /\ which = "lucid" /\ Lucid!Init
     /\ RouterOff /\ RpcOff /\ BridgeOff /\ DepositOff
     /\ LiquidationOff /\ PagesOff /\ ScanOff
  \/ /\ which = "deposit" /\ Deposit!Init
     /\ RouterOff /\ RpcOff /\ BridgeOff /\ LucidOff
     /\ LiquidationOff /\ PagesOff /\ ScanOff
  \/ /\ which = "liquidation" /\ Init
     /\ RouterOff /\ RpcOff /\ BridgeOff /\ LucidOff
     /\ DepositOff /\ PagesOff /\ ScanOff
  \/ /\ which = "pages" /\ Pages!Init
     /\ RouterOff /\ RpcOff /\ BridgeOff /\ LucidOff
     /\ DepositOff /\ LiquidationOff /\ ScanOff
  \/ /\ which = "scan" /\ Scan!Init
     /\ RouterOff /\ RpcOff /\ BridgeOff /\ LucidOff
     /\ DepositOff /\ LiquidationOff /\ PagesOff
  \/ /\ which = "router" /\ Router!Init
     /\ RpcOff /\ BridgeOff /\ LucidOff /\ DepositOff
     /\ LiquidationOff /\ PagesOff /\ ScanOff

MCNext ==
  /\ UNCHANGED which
  /\ \/ /\ which = "rpc" /\ Rpc!Next
        /\ UNCHANGED <<routerVars, bridgeVars, lucidVars, depositVars, liquidationVars,
                      pagesVars, scanVars>>
     \/ /\ which = "bridge" /\ Bridge!Next
        /\ UNCHANGED <<routerVars, rpcVars, lucidVars, depositVars, liquidationVars,
                      pagesVars, scanVars>>
     \/ /\ which = "lucid" /\ Lucid!Next
        /\ UNCHANGED <<routerVars, rpcVars, bridgeVars, depositVars, liquidationVars,
                      pagesVars, scanVars>>
     \/ /\ which = "deposit" /\ Deposit!Next
        /\ UNCHANGED <<routerVars, rpcVars, bridgeVars, lucidVars, liquidationVars,
                      pagesVars, scanVars>>
     \/ /\ which = "liquidation" /\ Next
        /\ UNCHANGED <<routerVars, rpcVars, bridgeVars, lucidVars, depositVars,
                      pagesVars, scanVars>>
     \/ /\ which = "pages" /\ Pages!Next
        /\ UNCHANGED <<routerVars, rpcVars, bridgeVars, lucidVars, depositVars,
                      liquidationVars, scanVars>>
     \/ /\ which = "scan" /\ Scan!Next
        /\ UNCHANGED <<routerVars, rpcVars, bridgeVars, lucidVars, depositVars,
                      liquidationVars, pagesVars>>
     \/ /\ which = "router" /\ Router!Next
        /\ UNCHANGED <<rpcVars, bridgeVars, lucidVars, depositVars, liquidationVars,
                      pagesVars, scanVars>>

mcVars == <<which, rpcVars, bridgeVars, lucidVars, depositVars, liquidationVars, pagesVars,
            scanVars, routerVars>>

\* Every await of an RPC call ends: an endpoint answers or the request times out.
MCSpec ==
  /\ MCInit /\ [][MCNext]_mcVars
  /\ \A c \in Rpc!Calls : WF_rpcVars(which = "rpc" /\ Rpc!Step(c))

-----------------------------------------------------------------------------
\* Every call comes to an end (MultiRpc).
Terminates == which = "rpc" => Rpc!Terminates

\* The transactions of a route succeed in their order (BridgeJourney).
LegsSucceedInOrder == which = "bridge" => Bridge!LegsSucceedInOrder

\* What is listed page by page is what one look at the whole would have
\* listed (PoolPages).
ListsWhole == which = "pages" => Pages!BestAreListed /\ Pages!PoolsOnceInGraph
=============================================================================
