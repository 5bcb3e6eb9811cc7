------------------------------ MODULE TickMath ------------------------------
(***************************************************************************)
(* pathfinder/v3_tick_math.py and the single-range formulas of V3PoolEdge: *)
(* prices are fixed-point numbers over Q96, which is a small constant      *)
(* here; a tick ladder is a sequence of [price, net] with rising prices.   *)
(* The table of get_sqrt_ratio_at_tick (20 factors of 128 bits) is left    *)
(* out: ladders are given by their prices.                                 *)
(***************************************************************************)
EXTENDS Integers, SequencesExt

CONSTANTS Q96, MinSqrt, MaxSqrt

CeilDiv(a, b) == (a + b - 1) \div b

\* Both directions of the next price; the floors are the code's.
NextSqrtPrice(sqrtP, L, x, zeroForOne) ==
  IF L <= 0 \/ x <= 0 THEN sqrtP
  ELSE IF zeroForOne THEN (sqrtP * L * Q96) \div (L * Q96 + x * sqrtP)
  ELSE sqrtP + (x * Q96) \div L

\* _amount_in_to_reach: rounded up, the pool's favour.
AmountInToReach(from, to, L, zeroForOne) ==
  IF L <= 0 THEN 0
  ELSE IF zeroForOne
  THEN IF to >= from \/ to <= 0 THEN 0 ELSE CeilDiv(L * Q96 * (from - to), from * to)
  ELSE IF to <= from THEN 0 ELSE CeilDiv(L * (to - from), Q96)

AmountOutFromDelta(from, to, L, zeroForOne) ==
  IF L <= 0 THEN 0
  ELSE IF zeroForOne THEN IF to >= from THEN 0 ELSE (L * (from - to)) \div Q96
  ELSE IF to <= from \/ from <= 0 THEN 0 ELSE (L * Q96 * (to - from)) \div (from * to)

\* compute_swap_step: the price reached, the input used, the output.
StepTo(sqrtP, next, L, used, zeroForOne) ==
  [price |-> next, used |-> used, out |-> AmountOutFromDelta(sqrtP, next, L, zeroForOne)]

StepWithin(sqrtP, target, L, x, maxIn, zeroForOne) ==
  IF x >= maxIn /\ maxIn > 0 THEN StepTo(sqrtP, target, L, maxIn, zeroForOne)
  ELSE StepTo(sqrtP, NextSqrtPrice(sqrtP, L, x, zeroForOne), L, x, zeroForOne)

ComputeSwapStep(sqrtP, target, L, x, zeroForOne) ==
  IF L <= 0 \/ x <= 0 THEN [price |-> sqrtP, used |-> 0, out |-> 0]
  ELSE StepWithin(sqrtP, target, L, x, AmountInToReach(sqrtP, target, L, zeroForOne), zeroForOne)

\* TickLadder.crossings: the initialised ticks ahead of the price, in the
\* order a swap meets them, then the end of the price range.
Crossings(ladder, sqrtP, zeroForOne) ==
  IF zeroForOne
  THEN Append(Reverse(SelectSeq(ladder, LAMBDA t : t.price < sqrtP)),
              [price |-> MinSqrt, net |-> 0])
  ELSE Append(SelectSeq(ladder, LAMBDA t : t.price > sqrtP),
              [price |-> MaxSqrt, net |-> 0])

\* One turn of the loop of walk_v3_swap over the crossings.
Stepped(w, t, s, crossed) ==
  [price |-> s.price, left |-> w.left - s.used, out |-> w.out + s.out,
   L |-> IF s.price # t.price THEN w.L ELSE IF crossed < 0 THEN 0 ELSE crossed,
   stop |-> s.price # t.price]

WalkTurn(w, t, zeroForOne) ==
  IF w.stop \/ w.left <= 0 \/ w.L <= 0 THEN [w EXCEPT !.stop = TRUE]
  ELSE Stepped(w, t, ComputeSwapStep(w.price, t.price, w.L, w.left, zeroForOne),
               IF zeroForOne THEN w.L - t.net ELSE w.L + t.net)

\* walk_v3_swap on an input that has paid its fee.
Walk(sqrtP, L, ladder, net, zeroForOne) ==
  FoldLeft(LAMBDA w, t : WalkTurn(w, t, zeroForOne),
           [price |-> sqrtP, left |-> net, out |-> 0, L |-> L, stop |-> FALSE],
           Crossings(ladder, sqrtP, zeroForOne))

WalkV3Swap(sqrtP, L, ladder, net, zeroForOne) ==
  IF net <= 0 \/ L < 0 THEN 0 ELSE Walk(sqrtP, L, ladder, net, zeroForOne).out
=============================================================================
