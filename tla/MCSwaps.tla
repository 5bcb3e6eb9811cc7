------------------------------- MODULE MCSwaps -------------------------------
(***************************************************************************)
(* In one instance, the two ways to a route: the pathfinder's routes and   *)
(* programs (RouteTrade), and the Hermes index; and a trader on one of the *)
(* pools.  `which` is what a behaviour is about; the others are off.       *)
(***************************************************************************)
EXTENDS RouteTrade

(***************************************************************************)
(* Four tokens; small pools of every kind; fees of ten per cent.           *)
(***************************************************************************)
MCTokens == {"A", "B", "C", "D"}
MCDecimals == [t \in MCTokens \cup {"E"} |-> IF t = "C" THEN 6 ELSE 18]
V2(g, a, b, pool, ra, rb) == AddBidirectionalPool(g, a, b, pool, ra, rb, 10)
Range3(price, net) == <<[price |-> price, net |-> net]>>
Cl(kind, in, out, pool, price, L, ladder, token0, hooks) ==
  [kind |-> kind, in |-> in, out |-> out, pool |-> pool, fee |-> 10, tick |-> 1, hooks |-> hooks, gas |-> 1,
   p |-> [sqrtPrice |-> price, liquidity |-> L, ladder |-> ladder, token0In |-> token0,
          lpFeePips |-> 0, protocolFeePips |-> 0, hookFeeCalibrated |-> FALSE]]
V3(g, kind, a, b, pool, price, L, ladder, hooks) ==
  AddPool(AddPool(g, Cl(kind, a, b, pool, price, L, ladder, TRUE, hooks)),
          Cl(kind, b, a, pool, price, L, ladder, FALSE, hooks))
Stable(n) == [balances |-> [k \in 1 .. n |-> 60], rates |-> [k \in 1 .. n |-> 10], amp |-> 200,
              fee |-> 1, offpeg |-> 0, ng |-> FALSE, legacy |-> FALSE]
\* Parallel pools and a detour.
G1 == V2(V2(V2(V2(<< >>, "A", "B", "p", 60, 60), "A", "B", "q", 60, 30), "A", "C", "s", 60, 60),
         "C", "B", "t", 60, 60)
\* A pool that two paths end in.
G4 == V2(V2(V2(V2(<< >>, "A", "B", "p", 36, 90), "A", "C", "s", 36, 90), "C", "B", "t", 120, 120),
         "B", "D", "r", 90, 90)
\* One 3-coin pool next to a pair and a V3 range.
G2 == V3(AddCurvePool(V2(<< >>, "A", "B", "p", 60, 60), "curve", <<"A", "B", "C">>, Stable(3)),
         "v3", "B", "C", "w", 8, 120, << >>, NoHooks)
\* Two V4 pools behind the one pool manager, and a V3 ladder.
G3 == V3(V3(V3(V2(<< >>, "A", "B", "p", 60, 60), "v4", "B", "C", "pm", 8, 120, << >>, NoHooks),
            "v4", "B", "C", "pm", 16, 60, << >>, "hook"),
         "v3", "A", "C", "w", 8, 60, <<[price |-> 4, net |-> 30], [price |-> 16, net |-> -30]>>, NoHooks)
\* A second pool between B and C prices them differently.
G5 == V2(V2(V2(V2(V2(V2(<< >>, "A", "C", "s", 60, 60), "C", "B", "t", 60, 120), "A", "E", "p", 60, 60),
            "E", "B", "q", 60, 90), "B", "C", "u", 60, 120), "C", "D", "r", 60, 60)
MCUneven == {G5}
MCFive == MCTokens \cup {"E"}
MCGraphs == {G1, G2, G3, G4}
MCHandCalls == {CallFrom("A"), CallSplit, CallLeg(50), CallMerge}
                 \cup {[op |-> "bridge", token |-> "B"]}
\* A split of one leg.
MCOneLeg == (MCHandCalls \ {CallLeg(50)}) \cup {CallLeg(100)}

VARIABLES
  which,
  weighted, index, changes,          \* Hermes
  tour                               \* [gain, n]: what a trader has of each token more than before

off == "off"
hermesVars == <<weighted, index, changes>>

(***************************************************************************)
(* The curve formulas that no trade of a behaviour reaches, on bounded     *)
(* inputs.                                                                 *)
(***************************************************************************)
StablePools == {[Stable(Len(b)) EXCEPT !.balances = b, !.fee = fee, !.ng = ng] :
                  b \in {<<60, 60, 60>>, <<40, 90>>, <<90, 40, 60>>}, fee \in {0, 1, 10}, ng \in BOOLEAN}

\* The input that get_dx asks for buys the output, up to one unit.
ASSUME DxBuysDy ==
  \A p \in StablePools, dy \in 1 .. 20 :
    LET dx == GetDx(p, 1, 2, dy) IN dx > 0 => GetDy(p, 1, 2, dx) >= dy - 1

\* A deposit of one coin is never withdrawn as more of it.
ASSUME DepositGainsNothing ==
  \A p \in StablePools, x \in 1 .. 30 :
    LET minted == CalcTokenAmount(p, [k \in DOMAIN p.balances |-> IF k = 1 THEN x ELSE 0], 100, TRUE)
    IN CalcWithdrawOneCoin([p EXCEPT !.balances[1] = @ + x], minted, 1, 100 + minted) <= x

(***************************************************************************)
(* A directed ring; and two pairs next to a dear direct edge.              *)
(***************************************************************************)
Ring == [p \in {<<1, 2>>, <<2, 3>>, <<3, 4>>, <<4, 1>>} |-> 1]
Two == [p \in {<<1, 2>>, <<2, 1>>, <<2, 3>>, <<3, 2>>, <<1, 3>>} |-> IF p = <<1, 3>> THEN 4 ELSE 1]
MCCost == [p \in (1 .. 4) \X (1 .. 4) |-> 1]
H == INSTANCE Hermes
  WITH V <- 1 .. 4, Inf <- 1000, None <- 0, StartGraphs <- {Ring, Two}, Weights <- {-2, 3},
       MaxChanges <- 2, K <- 3, TopN <- 1, Oversample <- 1, MaxHops <- 2, Cost <- MCCost,
       g <- weighted

(***************************************************************************)
(* A trader who goes back and forth on one pair or Curve pool, balanced or *)
(* not, with a fee or none, by the client's formulas.                      *)
(***************************************************************************)
Pair(ra, rb, fee) == AddBidirectionalPool(<< >>, "A", "B", "p", ra, rb, fee)
Curve(tokens, balances, rates, amp, fee, ng) ==
  AddCurvePool(<< >>, "curve", tokens,
               [Stable(Len(tokens)) EXCEPT !.balances = balances, !.rates = rates, !.amp = amp,
                                           !.fee = fee, !.ng = ng])
TourPools ==
  {Pair(60, 60, 0), Pair(60, 30, 10),
   Curve(<<"A", "B", "C">>, <<60, 60, 60>>, <<10, 10, 10>>, 200, 1, FALSE),
   Curve(<<"A", "B">>, <<40, 170>>, <<10, 10>>, 1000, 0, TRUE),
   Curve(<<"A", "B">>, <<140, 23>>, <<10, 20>>, 400, 0, FALSE)}
TourAmounts == {1, 5, 30}
MaxTrades == 4

TourInit == live \in TourPools /\ tour = [gain |-> [t \in Tokens |-> 0], n |-> 0]

TradeMore ==
  /\ tour.n < MaxTrades
  /\ \E e \in Range(live), x \in TourAmounts :
       LET t == Trade(live, e, x)
       IN /\ t.out > 0
          /\ live' = t.live
          /\ tour' = [gain |-> [tour.gain EXCEPT ![e.in] = @ - t.used, ![e.out] = @ + t.out],
                      n |-> tour.n + 1]

-----------------------------------------------------------------------------
plans == <<graph, overlay, bal, dag, calls, job, others>>
PlansOff == /\ graph = << >> /\ overlay = off /\ bal = off
            /\ dag = EmptyDag /\ calls = off /\ job = Idle /\ others = 0
HermesOff == weighted = off /\ index = off /\ changes = off

MCInit ==
  \/ which = "routes" /\ Init /\ HermesOff /\ tour = off
  \/ which = "hermes" /\ H!Init /\ PlansOff /\ live = << >> /\ tour = off
  \/ which = "tour" /\ TourInit /\ PlansOff /\ HermesOff

MCNext ==
  /\ UNCHANGED which
  /\ \/ which = "routes" /\ Next /\ UNCHANGED <<hermesVars, tour>>
     \/ which = "hermes" /\ H!Next /\ UNCHANGED <<vars, tour>>
     \/ which = "tour" /\ TradeMore /\ UNCHANGED <<plans, hermesVars>>

MCSpec == MCInit /\ [][MCNext]_<<which, vars, hermesVars, tour>>

-----------------------------------------------------------------------------
\* The index answers for the graph as it is now (Hermes).
IndexIsExact == which = "hermes" => H!IndexIsExact

\* No cheap or short enough path is missed (Hermes).
TopRoutesComplete == which = "hermes" => H!TopRoutesComplete

\* Swapping back and forth on one pair or Curve pool, in any order, never
\* leaves the trader with more of one token and no less of any other
\* (PoolEdge.amount_out, stable_get_dy).
NoFreeLunch ==
  which = "tour" =>
    ~(/\ \A t \in Tokens : tour.gain[t] >= 0
      /\ \E t \in Tokens : tour.gain[t] > 0)
=============================================================================
