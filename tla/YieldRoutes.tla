----------------------------- MODULE YieldRoutes -----------------------------
(***************************************************************************)
(* The planning half of pydefi.yields: which markets a scan surfaces, which *)
(* positions they hold, which rebalance is best, and the steps of a route.  *)
(* An operation that raises yields Raised; a market, an amount or a step is *)
(* a record; two tokens are the same when chain and address agree.          *)
(***************************************************************************)
EXTENDS Integers, Sequences, FiniteSets

CONSTANTS Ethereum,        \* the only chain with an Aave V4 spoke
          PageSize,        \* _MORPHO_PAGE_SIZE
          MaxPages         \* _MORPHO_MAX_PAGES

ASSUME PagesAssumption == PageSize \in Nat \ {0} /\ MaxPages \in Nat \ {0}

Raised == [ok |-> FALSE]
NoTx == [fn |-> "none"]
NoMarket == [id |-> "none"]
NoBridge == [src |-> "none"]

SameTokenIdentity(a, b) == a.chain = b.chain /\ a.address = b.address

-----------------------------------------------------------------------------
(* Market scan.  A listing is what one protocol publishes about one market;  *)
(* nr is its place in the scan: chain by chain and Morpho's markets last.    *)

AaveMarket(world, c) ==
  {l \in world : /\ l.protocol = "aave_v3" /\ l.chain = c
                 /\ l.active /\ ~l.frozen /\ ~l.paused}

CompoundMarket(world, c) == {l \in world : l.protocol = "compound_v3" /\ l.chain = c}

\* The first reserve of the spoke with the token's address, if it takes supplies.
AaveV4Market(world, c, token) ==
  LET reserves == {l \in world : /\ l.protocol = "aave_v4" /\ l.chain = c
                                 /\ l.token.address = token.address}
  IN  {l \in reserves : /\ c = Ethereum
                        /\ \A r \in reserves : l.nr <= r.nr
                        /\ ~l.paused /\ ~l.frozen}

FetchMorphoPage(page) == {i \in page.items : i.well}

\* The pages of one scan up to the first that is short after filtering, at
\* most MaxPages of them; one failing request discards every page before it.
FetchMorphoMarkets(pages) ==
  LET short(k) == pages[k].ok /\ Cardinality(FetchMorphoPage(pages[k])) < PageSize
      read == {k \in DOMAIN pages : k <= MaxPages /\ \A j \in 1..(k - 1) : ~short(j)}
  IN  IF \E k \in read : ~pages[k].ok THEN {}
      ELSE UNION {FetchMorphoPage(pages[k]) : k \in read}

MorphoMarkets(symbol, chains, pages) ==
  {i \in FetchMorphoMarkets(pages) : i.symbol = symbol /\ i.chain \in chains /\ i.priced}

GetYieldMarkets(world, chains, tokenOn, symbol, pages) ==
  (UNION {AaveMarket(world, c) \cup CompoundMarket(world, c) \cup AaveV4Market(world, c, tokenOn[c])
            : c \in chains})
    \cup MorphoMarkets(symbol, chains, pages)

\* The order of get_yield_markets and of get_positions: both sorts are stable.
Ahead(a, b) == a.apy > b.apy \/ (a.apy = b.apy /\ a.nr < b.nr)
AheadPosition(p, q) ==
  p.balance > q.balance \/ (p.balance = q.balance /\ Ahead(p.market, q.market))

GetPositions(markets, held) ==
  {[market |-> m, balance |-> held[m.id]] : m \in {x \in markets : held[x.id] > 0}}

-----------------------------------------------------------------------------
(* Rebalance decision; rates are in units of 1/Horizon per horizon. *)

RoundHalfEven(n, d) ==
  LET q == n \div d
      r == n % d
  IN  IF 2 * r > d \/ (2 * r = d /\ q % 2 = 1) THEN q + 1 ELSE q

ExpectedApyGain(p, m, horizon) == RoundHalfEven(p.balance * (m.apy - p.market.apy), horizon)

\* Mutant: only the size of the difference is compared.
AnyDifference(positions, markets, horizon, minGain) ==
  {x \in positions \X markets : x[2].chain = x[1].market.chain /\ x[2].id # x[1].market.id}

Rebalances(positions, markets, horizon, minGain) ==
  {x \in positions \X markets :
     /\ x[2].chain = x[1].market.chain
     /\ x[2].id # x[1].market.id
     /\ x[2].apy - x[1].market.apy >= minGain
     /\ ExpectedApyGain(x[1], x[2], horizon) > 0}

\* The first pair, position by position, whose gain no pair exceeds: a set of
\* one, or empty when there is no gain.
BestRebalance(positions, markets, horizon, minGain) ==
  LET gain(x) == ExpectedApyGain(x[1], x[2], horizon)
      before(x, y) == AheadPosition(x[1], y[1]) \/ (x[1] = y[1] /\ Ahead(x[2], y[2]))
      all == Rebalances(positions, markets, horizon, minGain)
  IN  {x \in all : \A y \in all \ {x} : gain(x) > gain(y) \/ (gain(x) = gain(y) /\ before(x, y))}

-----------------------------------------------------------------------------
(* Calls and steps. *)

\* a: an amount, [token, amt].
ApproveTx(token, spender, n) == [fn |-> "approve", token |-> token, spender |-> spender, amt |-> n]
WithdrawTx(m, n) == [fn |-> "withdraw", market |-> m.id, amt |-> n]

\* Every supply names the user, except Compound's plain one: it credits the caller.
SupplyTx(m, n) ==
  [fn |-> "supply", market |-> m.id, amt |-> n,
   credit |-> IF m.protocol = "compound_v3" THEN "sender" ELSE "user"]

\* Mutant: the caller is credited, which is the VM.
PlainAnyway(m, n) == SupplyTx(m, n)

GaslessSupplyTx(m, n) == [SupplyTx(m, n) EXCEPT !.credit = "user"]

Step(kind, chain, tx) == [kind |-> kind, chain |-> chain, tx |-> tx, req |-> NoTx]
Unsigned(kind, chain, req) == [kind |-> kind, chain |-> chain, tx |-> NoTx, req |-> req]

\* view: what the chain answers while the request is built (the account's
\* nonce, its code, whether the delegate has code, Calibur's next sequence
\* number, a free Permit2 nonce and the VM's standing allowance per token and
\* spender).

\* Mutant: the route's own transactions are not counted.
CurrentNonce(view, calls, userTxsBefore) ==
  [fn |-> "batch", calls |-> calls, nonce |-> view.seq,
   authNonce |-> view.nonce, needsAuth |-> view.code = "none"]

SignRequest7702(view, calls, userTxsBefore) ==
  [fn |-> "batch", calls |-> calls, nonce |-> view.seq,
   authNonce |-> view.nonce + userTxsBefore, needsAuth |-> view.code = "none"]

SignRequestPermit2(view, a, spender, call) ==
  LET standing == view.allowance[a.token][spender]
  IN  [fn |-> "permit2", token |-> a.token, amt |-> a.amt, nonce |-> view.free,
       spender |-> spender, call |-> call,
       approve |-> standing < a.amt, reset |-> 0 < standing /\ standing < a.amt]

\* delegation_status: another delegate, or none deployed on the chain.
CannotDelegate(view) == view.code = "foreign" \/ ~view.deployed

\* opts: "plain", "defivm" or "delegate" (which takes precedence over defivm).
SupplySteps(m, a, opts, view, userTxsBefore) ==
  CASE opts = "defivm" /\ m.protocol = "aave_v4" -> Raised
    [] opts = "delegate" /\ CannotDelegate(view) -> Raised
    [] opts = "delegate" /\ ~CannotDelegate(view) ->
         [ok |-> TRUE, steps |->
            <<Unsigned("supply_with_7702", m.chain,
                       SignRequest7702(view, <<ApproveTx(a.token, m.id, a.amt), SupplyTx(m, a.amt)>>,
                                       userTxsBefore))>>]
    [] opts = "defivm" /\ m.protocol # "aave_v4" ->
         [ok |-> TRUE, steps |->
            <<Unsigned("supply_with_permit2", m.chain,
                       SignRequestPermit2(view, a, m.id, GaslessSupplyTx(m, a.amt)))>>]
    [] OTHER ->
         [ok |-> TRUE, steps |-> <<Step("approve", m.chain, ApproveTx(a.token, m.id, a.amt)),
                                   Step("supply", m.chain, SupplyTx(m, a.amt))>>]

\* from: the token the bridge takes here; token: the one it pays out, which
\* has the address asked for and is on the chain the bridge leads to.
BridgeTx(b, a, token) ==
  [fn |-> "bridge", from |-> a.token, amt |-> a.amt,
   token |-> [chain |-> b.dst, address |-> token.address], compose |-> NoTx]
BridgeSteps(b, a, token) ==
  IF ~b.spender THEN Raised
  ELSE [ok |-> TRUE, steps |-> <<Step("approve", b.src, ApproveTx(a.token, "bridge", a.amt)),
                                 Step("bridge", b.src, BridgeTx(b, a, token))>>]

Route(strategy, chain, first, tail, target, pending) ==
  IF ~tail.ok THEN Raised
  ELSE [ok |-> TRUE, strategy |-> strategy, source |-> chain, steps |-> first \o tail.steps,
        target |-> target, pending |-> pending]

-----------------------------------------------------------------------------
(* Strategies. *)

WithdrawThenSupply(a, source, target, b, opts, view) ==
  LET same == source.chain = target.chain
      first == <<Step("withdraw", source.chain, WithdrawTx(source, a.amt))>>
  IN  IF \/ source = NoMarket
         \/ ~SameTokenIdentity(a.token, source.token)
         \/ same /\ ~SameTokenIdentity(a.token, target.token)
         \/ ~same /\ (b = NoBridge \/ b.src # source.chain \/ b.dst # target.chain)
      THEN Raised
      ELSE IF same
      THEN Route("withdraw_then_supply", source.chain, first,
                 SupplySteps(target, a, opts, view, Len(first)), target, NoMarket)
      ELSE Route("withdraw_then_supply", source.chain, first,
                 BridgeSteps(b, a, target.token), target, target)

SupplyThenBridge(a, target, targetChain, opts, view) ==
  IF \/ targetChain = "none" \/ target.chain # a.token.chain
     \/ ~SameTokenIdentity(a.token, target.token)
  THEN Raised
  ELSE Route("supply_then_bridge", a.token.chain, <<>>,
             SupplySteps(target, a, opts, view, 0), target, NoMarket)

\* Mutant: the market's chain is not compared with the bridge's.
AnyDestination(a, target, b) ==
  IF b = NoBridge \/ a.token.chain # b.src THEN Raised
  ELSE Route("bridge_then_supply", b.src, <<>>,
             BridgeSteps(b, a, target.token), target, target)

BridgeThenSupply(a, target, b) ==
  IF b = NoBridge \/ a.token.chain # b.src \/ target.chain # b.dst THEN Raised
  ELSE Route("bridge_then_supply", b.src, <<>>,
             BridgeSteps(b, a, target.token), target, target)

BuildYieldRoute(strategy, a, source, target, b, opts, view) ==
  CASE strategy = "withdraw_then_supply" -> WithdrawThenSupply(a, source, target, b, opts, view)
    [] strategy = "supply_then_bridge" -> SupplyThenBridge(a, target, b.dst, opts, view)
    [] strategy = "bridge_then_supply" -> BridgeThenSupply(a, target, b)
    [] OTHER -> Raised

\* The destination leg of a route whose bridge has settled.
BuildFollowupRoute(route, received, chains, opts, view) ==
  IF \/ route.pending = NoMarket
     \/ ~SameTokenIdentity(received.token, route.pending.token)
     \/ route.pending.chain \notin chains
  THEN Raised
  ELSE Route(route.strategy, route.pending.chain, <<>>,
             SupplySteps(route.pending, received, opts, view, 0), route.pending, NoMarket)

-----------------------------------------------------------------------------
(* One-signature compose: the destination supply is a program in the message. *)

ComposeSupplyProgram(m) ==
  IF m.protocol \notin {"aave_v3", "compound_v3"} THEN Raised
  ELSE [ok |-> TRUE, call |-> [fn |-> "supply", market |-> m.id, credit |-> "user"]]

BuildComposeSupplyRoute(a, target, b, opts, view) ==
  LET program == ComposeSupplyProgram(target)
      tx == [BridgeTx(b, a, target.token) EXCEPT !.compose = program.call]
      calls == <<ApproveTx(a.token, "bridge", a.amt), tx>>
      steps == CASE opts = "delegate" ->
                      <<Unsigned("bridge_with_7702", b.src, SignRequest7702(view, calls, 0))>>
                 [] opts = "defivm" ->
                      <<Unsigned("bridge_with_permit2", b.src,
                                 SignRequestPermit2(view, a, "bridge", tx))>>
                 [] OTHER -> <<Step("approve", b.src, calls[1]), Step("bridge", b.src, tx)>>
  IN  IF \/ a.token.chain # b.src \/ target.chain # b.dst \/ ~b.spender
         \/ ~program.ok \/ ~b.composes
         \/ opts = "delegate" /\ CannotDelegate(view)
         \/ opts = "defivm" /\ b.nativeFee > 0
      THEN Raised
      ELSE Route("compose_supply", b.src, <<>>, [ok |-> TRUE, steps |-> steps], target, NoMarket)

-----------------------------------------------------------------------------
(* Signing: every requested step gets its transaction and one common deadline. *)

SignRoute(route, deadline) ==
  LET sign(s) == IF s.req = NoTx THEN s
                 ELSE [s EXCEPT !.tx = [fn |-> "gasless", req |-> s.req, deadline |-> deadline],
                                !.req = NoTx]
  IN  [route EXCEPT !.steps = [k \in DOMAIN @ |-> sign(@[k])]]

\* build_transactions raises until no step is left unsigned.
Signed(route) == \A k \in DOMAIN route.steps : route.steps[k].tx # NoTx
=============================================================================
