--------------------------- MODULE LiquidationScan ---------------------------
(***************************************************************************)
(* lending/liquidation.py, find_liquidatable_positions: every candidate of *)
(* a batch is checked by reads that are answered one at a time, while the  *)
(* positions move, and what is found is liquidated.  The four protocols    *)
(* are external: what their reads answer and what a liquidation call needs.*)
(* The shared Aave V3 client is LiquidationCache's.                        *)
(***************************************************************************)
EXTENDS Integers, Sequences, FiniteSets, SequencesExt, FiniteSetsExt

CONSTANTS
  Batches,           \* the batches: sequences of protocols, or Unknown
  Aave,              \* accounts at Aave: bad (health factor below 1), debt and
                     \* collateral in the candidate's pair, enabled
  Comet,             \* accounts at Compound: bad, debt
  Morpho,            \* accounts at Morpho: shares, collateral, price, and the
                     \* market's assets, owed (assets with the interest until
                     \* now) and total shares
  Lltv, Wad, Cursor, MaxFactor, VirtualShares, VirtualAssets,  \* Morpho's
  MaxMoves, MaxInterest   \* bounds: positions that move, units of interest

Unknown == "unknown"   \* a chain without a configured AsyncWeb3
Everything == -1        \* UINT256_MAX

VARIABLES batch, at,       \* the candidates and their positions
          check,           \* per candidate: what was read, and what came of it
          pc, found,       \* find_liquidatable_positions and its answer: indices
          sent,            \* what became of the transactions
          moved            \* history: positions that moved since the scan began

vars == <<batch, at, check, pc, found, sent, moved>>

Accounts(k) ==
  CASE k = "morpho" -> Morpho [] k = "compound_v3" -> Comet
    [] k = Unknown -> Comet [] OTHER -> Aave
CeilDiv(a, b) == (a + b - 1) \div b
MulDiv(a, b, c) == (a * b) \div c

-----------------------------------------------------------------------------
\* MarketState, MorphoPosition and the helpers of morpho.py.
ToAssetsUp(shares, assets, total) ==
  CeilDiv(shares * (assets + VirtualAssets), total + VirtualShares)
ComputeHealthFactor(collateral, borrowed, price) ==
  [max |-> MulDiv(MulDiv(collateral, price, Wad), Lltv, Wad), borrowed |-> borrowed]
Healthy(factor) == factor.borrowed = 0 \/ factor.max >= factor.borrowed
LiquidationIncentiveFactor ==
  Min({MaxFactor, MulDiv(Wad, Wad, Wad - MulDiv(Cursor, Wad - Lltv, Wad))})

\* Mutant: the debt is always repaid as a whole.
RepayAll(p) == [seized |-> 0, shares |-> p.shares]

MaxLiquidation(p) ==
  LET full == MulDiv(MulDiv(p.borrowed, LiquidationIncentiveFactor, Wad), Wad, p.price)
  IN IF p.price > 0 /\ full > p.collateral
     THEN [seized |-> p.collateral, shares |-> 0]
     ELSE [seized |-> 0, shares |-> p.shares]

\* What is awaited together for a position; the reads of one Aave reserve are
\* taken as one.
Reads(k) ==
  CASE k = "morpho" -> {"position", "market", "price"}
    [] k = "compound_v3" -> {"debt"}
    [] OTHER -> {"debt", "collateral"}
\* Where a check begins: the account is read before its pair.
FirstRead(k) ==
  CASE k = Unknown -> "no_w3" [] k = "morpho" -> "reads" [] OTHER -> "first"

Answer(k, read, p) ==
  CASE read = "position" -> [shares |-> p.shares, collateral |-> p.collateral]
    [] read = "market" -> [assets |-> p.assets, total |-> p.total]
    [] read = "price" -> p.price
    [] read = "account" -> p.bad
    [] read = "debt" -> p.debt
    [] read = "collateral" -> p.collateral > 0 /\ p.enabled

GetPosition(r) ==
  LET borrowed == ToAssetsUp(r["position"].shares, r["market"].assets, r["market"].total)
  IN [shares |-> r["position"].shares, collateral |-> r["position"].collateral,
      price |-> r["price"], borrowed |-> borrowed,
      factor |-> ComputeHealthFactor(r["position"].collateral, borrowed, r["price"])]

\* "exactly one ... positive", or the call is not built.
ResolveAssetsShares(pair) == pair.seized > 0 \/ pair.shares > 0

\* A healthy position, and a ValueError: the pair has no debt or no collateral.
Nothing == [pc |-> "none"]
Opportunity(call) == [pc |-> "found", call |-> call]

CheckMorpho(r) ==
  LET p == GetPosition(r)
      pair == MaxLiquidation(p)
  IN IF Healthy(p.factor) \/ ~ResolveAssetsShares(pair) THEN Nothing ELSE Opportunity(pair)

CheckAaveV3(r) ==
  IF r["debt"] = 0 \/ ~r["collateral"] THEN Nothing ELSE Opportunity([cover |-> Everything])

CheckAaveV4(r) ==
  IF r["debt"] = 0 \/ ~r["collateral"] THEN Nothing ELSE Opportunity([cover |-> r["debt"]])

CheckCompoundV3(r) == Opportunity([absorb |-> TRUE])

Check(k, r) ==
  CASE k = "morpho" -> CheckMorpho(r) [] k = "aave_v3" -> CheckAaveV3(r)
    [] k = "aave_v4" -> CheckAaveV4(r) [] k = "compound_v3" -> CheckCompoundV3(r)

-----------------------------------------------------------------------------
Init ==
  /\ batch \in Batches
  /\ at \in {a \in [DOMAIN batch -> Aave \union Comet \union Morpho] :
               \A i \in DOMAIN batch : a[i] \in Accounts(batch[i])}
  /\ check = [i \in DOMAIN batch |-> [pc |-> FirstRead(batch[i]), got |-> <<>>]]
  /\ pc = "scan" /\ found = <<>> /\ moved = {}
  /\ sent = [i \in DOMAIN batch |-> "no"]

\* `if health_factor >= 1: return None`.
ReadFirst(i) ==
  /\ check[i].pc = "first"
  /\ check' = [check EXCEPT ![i] =
                 IF Answer(batch[i], "account", at[i]) THEN [@ EXCEPT !.pc = "reads"]
                 ELSE Nothing]
  /\ UNCHANGED <<batch, at, pc, found, sent, moved>>

\* One of the reads that were sent together is answered, in any order.
Read(i) ==
  /\ check[i].pc = "reads"
  /\ \E x \in Reads(batch[i]) \ DOMAIN check[i].got :
       LET got == [y \in DOMAIN check[i].got \union {x} |->
                     IF y = x THEN Answer(batch[i], x, at[i]) ELSE check[i].got[y]]
       IN check' = [check EXCEPT ![i] = IF DOMAIN got = Reads(batch[i])
                                        THEN Check(batch[i], got)
                                        ELSE [@ EXCEPT !.got = got]]
  /\ UNCHANGED <<batch, at, pc, found, sent, moved>>

\* The chain is not configured, a read fails, or Aave's client cannot be
\* resolved: only this candidate is dropped.
SafeCheck(i) ==
  /\ check[i].pc \in {"no_w3", "first", "reads"}
  /\ check' = [check EXCEPT ![i] = [pc |-> "failed"]]
  /\ UNCHANGED <<batch, at, pc, found, sent, moved>>

\* The elements of S in the batch's order.
InOrder(S) ==
  {f \in UNION {[1 .. n -> S] : n \in 0 .. Len(batch)} :
     /\ \A j, k \in DOMAIN f : j < k => f[j] < f[k]
     /\ ToSet(f) = S}

FindLiquidatablePositions ==
  /\ pc = "scan" /\ pc' = "send"
  /\ \A i \in DOMAIN batch : check[i].pc \in {"none", "found", "failed"}
  /\ found' \in InOrder({i \in DOMAIN batch : check[i].pc = "found"})
  /\ UNCHANGED <<batch, at, check, sent, moved>>

-----------------------------------------------------------------------------
(***************************************************************************)
(* The protocols.                                                          *)
(***************************************************************************)
AtMorpho(p) ==
  LET borrowed == ToAssetsUp(p.shares, p.owed, p.total)
  IN ~Healthy(ComputeHealthFactor(p.collateral, borrowed, p.price))

\* The collateral that a repayment of these shares seizes.
SeizedFor(p, shares) ==
  LET repaid == MulDiv(shares, p.owed + VirtualAssets, p.total + VirtualShares)
  IN MulDiv(MulDiv(repaid, LiquidationIncentiveFactor, Wad), Wad, p.price)

\* The shares that are repaid for this collateral.
SharesFor(p, seized) ==
  LET quoted == CeilDiv(seized * p.price, Wad)
  IN CeilDiv(CeilDiv(quoted * Wad, LiquidationIncentiveFactor) * (p.total + VirtualShares),
             p.owed + VirtualAssets)

Accepts(k, p, call) ==
  CASE k = "compound_v3" -> p.bad
    [] k \in {"aave_v3", "aave_v4"} ->
         p.bad /\ p.debt > 0 /\ p.collateral > 0 /\ p.enabled /\ call.cover # 0
    [] k = "morpho" ->
         /\ AtMorpho(p)
         /\ call.shares <= p.shares /\ call.seized <= p.collateral
         /\ call.seized > 0 => SharesFor(p, call.seized) <= p.shares
         /\ call.shares > 0 => SeizedFor(p, call.shares) <= p.collateral

\* The liquidator, with the allowance and the balance it takes.
Send(i) ==
  /\ pc = "send" /\ i \in ToSet(found) /\ sent[i] = "no"
  /\ sent' = [sent EXCEPT ![i] =
                IF Accepts(batch[i], at[i], check[i].call) THEN "landed" ELSE "reverted"]
  /\ UNCHANGED <<batch, at, check, pc, found, moved>>

\* Prices, the borrower or another liquidator change a position.
Move(i) ==
  /\ sent[i] = "no" /\ Cardinality(moved \union {i}) <= MaxMoves
  /\ \E p \in Accounts(batch[i]) : p # at[i] /\ at' = [at EXCEPT ![i] = p]
  /\ moved' = moved \union {i}
  /\ UNCHANGED <<batch, check, pc, found, sent>>

\* Interest that no transaction has accrued yet.
Interest(i) ==
  /\ batch[i] = "morpho" /\ at[i].owed < at[i].assets + MaxInterest
  /\ at' = [at EXCEPT ![i].owed = @ + 1]
  /\ UNCHANGED <<batch, check, pc, found, sent, moved>>

Next ==
  \/ \E i \in DOMAIN batch :
       ReadFirst(i) \/ Read(i) \/ SafeCheck(i) \/ Send(i) \/ Move(i) \/ Interest(i)
  \/ FindLiquidatablePositions

Spec == Init /\ [][Next]_vars

-----------------------------------------------------------------------------
Repaid(i) == ToAssetsUp(at[i].shares, at[i].assets, at[i].total)

\* Repaying the whole debt has become too much since interest was last accrued.
TippedByInterest(i) ==
  /\ check[i].call.shares > 0
  /\ at[i].owed > at[i].assets /\ SeizedFor(at[i], at[i].shares) > at[i].collateral

\* All the collateral is worth the whole debt, but for less than one unit of it.
WithinOneUnit(i) ==
  LET quoted == CeilDiv(check[i].call.seized * at[i].price, Wad)
  IN quoted * Wad > (Repaid(i) - 1) * LiquidationIncentiveFactor

OwedAtLastAccrual(i) ==
  CASE batch[i] = "compound_v3" -> at[i].bad
    [] batch[i] = "morpho" -> AtMorpho([at[i] EXCEPT !.owed = at[i].assets])
    [] OTHER -> at[i].bad /\ at[i].debt > 0 /\ at[i].collateral > 0 /\ at[i].enabled

\* Of the positions that stand still, exactly those that may be liquidated are
\* found, whatever the other checks do, and in the batch's order; and their
\* transactions are accepted, but for Morpho positions between bad and good debt.
LiquidationsLand ==
  /\ \A j, k \in DOMAIN found : j < k => found[j] < found[k]
  /\ pc = "send" =>
       \A i \in DOMAIN batch \ moved :
         check[i].pc # "failed" => (i \in ToSet(found) <=> OwedAtLastAccrual(i))
  /\ \A i \in DOMAIN batch \ moved :
       sent[i] = "reverted" =>
         batch[i] = "morpho" /\ (TippedByInterest(i) \/ WithinOneUnit(i))
=============================================================================
