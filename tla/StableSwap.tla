----------------------------- MODULE StableSwap -----------------------------
(***************************************************************************)
(* amm/curve_math.py, the StableSwap family and metapools.  A pool is a    *)
(* record of its state: balances, rates (scaled by PRECISION), amp, fee,   *)
(* offpeg, ng (the NG form of D) and legacy (the fee order of the first    *)
(* pools); coins are numbered from 1.  The Newton loops are bounded and    *)
(* give NoConvergence where the code raises CurveConvergenceError.         *)
(***************************************************************************)
EXTENDS Integers, SequencesExt

CONSTANTS
  PRECISION,        \* 10**18 in the code
  FEE_DENOMINATOR,  \* 10**10
  A_PRECISION,      \* 100
  Rounds            \* bound: iterations of a Newton loop, 255

NoConvergence == -1

Total(s) == SumFunction(s)
Distance(a, b) == IF a > b THEN a - b ELSE b - a

\* A Newton loop of a step function: until two values differ by at most one.
NewtonTurn(s, v) == IF s.done THEN s ELSE [v |-> v, done |-> Distance(v, s.v) <= 1]
Settled(s) == IF s.done THEN s.v ELSE NoConvergence
Newton(step, start) ==
  Settled(FoldLeft(LAMBDA s, k : NewtonTurn(s, step[s.v]), [v |-> start, done |-> FALSE],
                   [k \in 1 .. Rounds |-> k]))

\* _xp_mem
Scaled(pool, balances) ==
  [k \in DOMAIN balances |-> (pool.rates[k] * balances[k]) \div PRECISION]

\* D^(n+1) over the product of the balances, and over n^n, with either rounding.
DProduct(pool, xp, D) ==
  IF pool.ng
  THEN FoldLeft(LAMBDA p, x : (p * D) \div x, D, xp) \div (Len(xp) ^ Len(xp))
  ELSE FoldLeft(LAMBDA p, x : (p * D) \div (x * Len(xp)), D, xp)

NextD(Ann, n, S, D, DP) ==
  (((Ann * S) \div A_PRECISION + DP * n) * D)
    \div (((Ann - A_PRECISION) * D) \div A_PRECISION + (n + 1) * DP)

\* stable_get_D
DFrom(pool, xp, S) ==
  IF S = 0 THEN 0
  ELSE Newton([D \in Int |-> NextD(pool.amp * Len(xp), Len(xp), S, D, DProduct(pool, xp, D))], S)
GetD(pool, xp) == DFrom(pool, xp, Total(xp))

\* The balance of coin j on the curve of D, given the other balances:
\* stable_get_y and stable_get_y_D.
YFrom(b, c, D) == Newton([y \in Int |-> (y * y + c) \div (2 * y + b - D)], D)
YOf(Ann, n, others, D) ==
  YFrom(Total(others) + (D * A_PRECISION) \div Ann,
        (FoldLeft(LAMBDA c, x : (c * D) \div (x * n), D, others) * D * A_PRECISION) \div (Ann * n), D)

Without(xp, j) == SubSeq(xp, 1, j - 1) \o SubSeq(xp, j + 1, Len(xp))
With(xp, i, x) == [k \in DOMAIN xp |-> IF k = i THEN x ELSE xp[k]]

GetY(pool, i, j, x, xp, D) == YOf(pool.amp * Len(xp), Len(xp), Without(With(xp, i, x), j), D)
GetYD(pool, i, xp, D) == YOf(pool.amp * Len(xp), Len(xp), Without(xp, i), D)

\* stable_dynamic_fee
DynamicFee(xpi, xpj, fee, multiplier) ==
  IF multiplier <= FEE_DENOMINATOR THEN fee
  ELSE (multiplier * fee)
         \div (((multiplier - FEE_DENOMINATOR) * 4 * xpi * xpj) \div ((xpi + xpj) * (xpi + xpj))
               + FEE_DENOMINATOR)

\* Mutant: no unit kept back for the rounding of y.
NothingKeptBack(xpj, y) == xpj - y

KeptBack(xpj, y) == xpj - y - 1

\* What is paid when the input's balance becomes x and the output's y.
PaidOut(pool, i, j, xp, x, y) ==
  LET dy == KeptBack(xp[j], y)
      unscaled == (dy * PRECISION) \div pool.rates[j]
      fee == IF pool.offpeg = 0 THEN pool.fee
             ELSE DynamicFee((xp[i] + x) \div 2, (xp[j] + y) \div 2, pool.fee, pool.offpeg)
  IN IF y = NoConvergence THEN NoConvergence
     ELSE IF dy < 0 THEN 0
     ELSE IF pool.legacy
     THEN unscaled - (pool.fee * unscaled) \div FEE_DENOMINATOR
     ELSE ((dy - (fee * dy) \div FEE_DENOMINATOR) * PRECISION) \div pool.rates[j]

Exchanged(pool, i, j, xp, x, D) ==
  IF D = NoConvergence THEN NoConvergence
  ELSE PaidOut(pool, i, j, xp, x, GetY(pool, i, j, x, xp, D))

\* stable_get_dy
GetDy(pool, i, j, dx) ==
  LET xp == Scaled(pool, pool.balances)
  IN Exchanged(pool, i, j, xp, xp[i] + (dx * pool.rates[i]) \div PRECISION, GetD(pool, xp))

\* stable_get_dx
GetDx(pool, i, j, dy) ==
  LET xp == Scaled(pool, pool.balances)
      D == GetD(pool, xp)
      fee == IF pool.offpeg = 0 THEN pool.fee
             ELSE DynamicFee(xp[i], xp[j], pool.fee, pool.offpeg)
      gross == (dy * pool.rates[j]) \div PRECISION + 1
      y == xp[j] - (gross * FEE_DENOMINATOR) \div (FEE_DENOMINATOR - fee)
      x == GetY(pool, j, i, y, xp, D)
  IN IF y < 0 \/ x < xp[i] THEN 0 ELSE ((x - xp[i]) * PRECISION) \div pool.rates[i]

\* stable_calc_token_amount: LP tokens for a deposit or a withdrawal.
CalcTokenAmount(pool, amounts, supply, isDeposit) ==
  LET D0 == GetD(pool, Scaled(pool, pool.balances))
      after == [k \in DOMAIN amounts |->
                  IF isDeposit THEN pool.balances[k] + amounts[k]
                  ELSE pool.balances[k] - amounts[k]]
      D1 == GetD(pool, Scaled(pool, after))
  IN ((IF isDeposit THEN D1 - D0 ELSE D0 - D1) * supply) \div D0

\* stable_calc_withdraw_one_coin
CalcWithdrawOneCoin(pool, tokens, i, supply) ==
  LET n == Len(pool.balances)
      xp == Scaled(pool, pool.balances)
      baseFee == (pool.fee * n) \div (4 * (n - 1))
      D0 == GetD(pool, xp)
      D1 == D0 - (tokens * D0) \div supply
      newY == GetYD(pool, i, xp, D1)
      expected(k) == IF k = i THEN (xp[k] * D1) \div D0 - newY
                     ELSE xp[k] - (xp[k] * D1) \div D0
      reduced == [k \in 1 .. n |-> xp[k] - (baseFee * expected(k)) \div FEE_DENOMINATOR]
      dy == reduced[i] - GetYD(pool, i, reduced, D1)
  IN (dy - 1) \div (pool.rates[i] \div PRECISION)
=============================================================================
