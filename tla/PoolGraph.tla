----------------------------- MODULE PoolGraph -----------------------------
(***************************************************************************)
(* pathfinder/graph.py: one edge per direction of a pool, what it pays for *)
(* an input, and the overlay that carries the effect of earlier swaps of   *)
(* one routing call.  An edge is a record                                  *)
(*   kind  "v2", "v3", "v4" or "curve"                                     *)
(*   in, out, pool, fee, tick, hooks   the identity of pool and direction  *)
(*   gas   raw units of the output token that its gas is worth             *)
(*   p     the state of the pool, by kind                                  *)
(* A graph is the sequence of its edges in the order of _adj.  Reporting   *)
(* (spot_price, estimate_price_impact) is left out.                        *)
(***************************************************************************)
EXTENDS TickMath, StableSwap

CONSTANTS
  MAX_BPS,   \* 10_000
  MAX_PIPS,  \* 1_000_000
  NoHooks

\* pool_uid: neither direction nor address alone; all V4 pools share one address.
PoolUid(e) == <<e.pool, e.fee, e.tick, e.hooks>>

\* ReserveOverlay: deltas and prices by pool address; absent is <<0, 0>> and 0.
NoOverlay(addresses) ==
  [v2 |-> [a \in addresses |-> <<0, 0>>], v3 |-> [a \in addresses |-> 0]]

(***************************************************************************)
(* PoolEdge: constant product.                                             *)
(***************************************************************************)
EffectiveReserves(e, overlay) ==
  LET d == overlay.v2[e.pool]
  IN IF e.p.token0In THEN <<e.p.reserveIn + d[1], e.p.reserveOut + d[2]>>
     ELSE <<e.p.reserveIn + d[2], e.p.reserveOut + d[1]>>

CpmmOut(e, x, overlay) ==
  LET r == EffectiveReserves(e, overlay)
      withFee == x * (MAX_BPS - e.fee)
  IN IF r[1] <= 0 \/ r[2] <= 0 THEN 0
     ELSE (withFee * r[2]) \div (r[1] * MAX_BPS + withFee)

\* Mutant: the deltas of a swap against the order of the tokens ignored.
RecordUnoriented(e, overlay, x, y) ==
  IF x <= 0 \/ y <= 0 THEN overlay
  ELSE [overlay EXCEPT !.v2[e.pool] = <<@[1] + x, @[2] - y>>]

RecordCpmm(e, overlay, x, y) ==
  IF x <= 0 \/ y <= 0 THEN overlay
  ELSE [overlay EXCEPT !.v2[e.pool] =
          IF e.p.token0In THEN <<@[1] + x, @[2] - y>> ELSE <<@[1] - y, @[2] + x>>]

(***************************************************************************)
(* V3PoolEdge and V4PoolEdge.                                              *)
(***************************************************************************)
EffectiveFeePips(e) ==
  LET lp == IF e.p.lpFeePips # 0 THEN e.p.lpFeePips ELSE e.fee * (MAX_PIPS \div MAX_BPS)
  IN IF e.p.hookFeeCalibrated THEN e.p.lpFeePips
     ELSE e.p.protocolFeePips + lp - (e.p.protocolFeePips * lp) \div MAX_PIPS

NetAmountIn(e, x) ==
  IF e.kind = "v4" THEN (x * (MAX_PIPS - EffectiveFeePips(e))) \div MAX_PIPS
  ELSE (x * (MAX_BPS - e.fee)) \div MAX_BPS

EffectiveSqrtPrice(e, overlay) ==
  IF overlay.v3[e.pool] = 0 THEN e.p.sqrtPrice ELSE overlay.v3[e.pool]

OutTo(e, sqrtP, new) == IF new = 0 THEN 0 ELSE AmountOutFromDelta(sqrtP, new, e.p.liquidity, e.p.token0In)

OutFrom(e, sqrtP, net) ==
  IF e.p.liquidity = 0 \/ sqrtP = 0 \/ net <= 0 THEN 0
  ELSE IF e.p.ladder # << >>
  THEN WalkV3Swap(sqrtP, e.p.liquidity, e.p.ladder, net, e.p.token0In)
  ELSE OutTo(e, sqrtP, NextSqrtPrice(sqrtP, e.p.liquidity, net, e.p.token0In))

ConcentratedOut(e, x, overlay) == OutFrom(e, EffectiveSqrtPrice(e, overlay), NetAmountIn(e, x))

\* Liquidity is held constant: the ladder is not walked here.
RecordConcentrated(e, overlay, x) ==
  LET sqrtP == EffectiveSqrtPrice(e, overlay)
      net == NetAmountIn(e, x)
      new == NextSqrtPrice(sqrtP, e.p.liquidity, net, e.p.token0In)
  IN IF x <= 0 \/ e.p.liquidity = 0 \/ sqrtP = 0 \/ net <= 0 \/ new = 0 THEN overlay
     ELSE [overlay EXCEPT !.v3[e.pool] = new]

(***************************************************************************)
(* CurveStableEdge: no overlay; a pool that does not converge pays nothing.*)
(***************************************************************************)
Converged(dy) == IF dy = NoConvergence THEN 0 ELSE dy

StableOut(e, x) ==
  IF e.p.state.balances = << >> THEN 0 ELSE Converged(GetDy(e.p.state, e.p.i, e.p.j, x))

-----------------------------------------------------------------------------
AmountOutOver(e, x, overlay) ==
  IF x <= 0 THEN 0
  ELSE CASE e.kind = "v2" -> CpmmOut(e, x, overlay)
         [] e.kind \in {"v3", "v4"} -> ConcentratedOut(e, x, overlay)
         [] e.kind = "curve" -> StableOut(e, x)

AmountOut(e, x) == AmountOutOver(e, x, NoOverlay({e.pool}))

RecordSwap(e, overlay, x, y) ==
  CASE e.kind = "v2" -> RecordCpmm(e, overlay, x, y)
    [] e.kind \in {"v3", "v4"} -> RecordConcentrated(e, overlay, x)
    [] e.kind = "curve" -> RecordCpmm([e EXCEPT !.p = [token0In |-> TRUE]], overlay, x, y)

(***************************************************************************)
(* effective_log_weight: -log of the output per input net of gas.  The     *)
(* ratio itself is kept, as <<numerator, denominator>>; a larger ratio is  *)
(* a smaller weight, and an infinite weight is a ratio of zero.            *)
(***************************************************************************)
RatioOf(x, out, net) == IF x <= 0 \/ out <= 0 \/ net <= 0 THEN <<0, 1>> ELSE <<net, x>>
NetOfGas(x, out, cost) == RatioOf(x, out, out - cost)
EffectiveRatio(e, x, gasPrice) == NetOfGas(x, AmountOut(e, x), e.gas * gasPrice)

Times(a, b) == <<a[1] * b[1], a[2] * b[2]>>
Lighter(a, b) == a[1] * b[2] > b[1] * a[2]
AsLight(a, b) == a[1] * b[2] = b[1] * a[2]

(***************************************************************************)
(* PoolGraph.                                                              *)
(***************************************************************************)
EdgesFrom(graph, token) == SelectSeq(graph, LAMBDA e : e.in = token)

\* add_pool: the edges of a token stay together, in the order they were added.
AddPool(graph, e) ==
  LET heads == {graph[k].in : k \in DOMAIN graph}
      last == CHOOSE k \in DOMAIN graph :
                graph[k].in = e.in /\ \A l \in DOMAIN graph : graph[l].in = e.in => l <= k
  IN IF e.in \in heads
     THEN SubSeq(graph, 1, last) \o <<e>> \o SubSeq(graph, last + 1, Len(graph))
     ELSE Append(graph, e)

\* add_bidirectional_pool: a constant-product pool, both ways.
AddBidirectionalPool(graph, a, b, pool, ra, rb, fee) ==
  LET edge(in, out, rin, rout, token0) ==
        [kind |-> "v2", in |-> in, out |-> out, pool |-> pool, fee |-> fee, tick |-> 0,
         hooks |-> NoHooks, gas |-> 1,
         p |-> [reserveIn |-> rin, reserveOut |-> rout, token0In |-> token0]]
  IN AddPool(AddPool(graph, edge(a, b, ra, rb, TRUE)), edge(b, a, rb, ra, FALSE))

\* add_curve_pool: an edge for every ordered pair of coins.
AddCurvePool(graph, pool, tokens, state) ==
  LET n == Len(tokens)
      pairs == [k \in 1 .. n * n |-> <<((k - 1) \div n) + 1, ((k - 1) % n) + 1>>]
      edge(q) == [kind |-> "curve", in |-> tokens[q[1]], out |-> tokens[q[2]], pool |-> pool,
                  fee |-> (state.fee * MAX_BPS) \div FEE_DENOMINATOR, tick |-> 0,
                  hooks |-> NoHooks, gas |-> 1,
                  p |-> [i |-> q[1], j |-> q[2], state |-> state]]
  IN FoldLeft(LAMBDA g, q : AddPool(g, edge(q)), graph,
              SelectSeq(pairs, LAMBDA q : q[1] # q[2]))
=============================================================================
