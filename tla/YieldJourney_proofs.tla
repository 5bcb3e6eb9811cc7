-------------------------- MODULE YieldJourney_proofs --------------------------
(***************************************************************************)
(* Proofs about YieldJourney: the user's funds are accounted for whatever   *)
(* step fails, a bridged route can be completed, a sponsored batch is void  *)
(* only if it was overtaken, the wait does not lie, and rebalances climb.   *)
(***************************************************************************)
EXTENDS YieldJourney, Sums_proofs, SequenceTheorems

-----------------------------------------------------------------------------
(* What a route is made of. *)

ApproveCalls == [fn : {"approve"}, token : Tokens, spender : Spenders, amt : Nat]
WithdrawCalls == [fn : {"withdraw"}, market : Ids, amt : Nat]
SupplyCalls == [fn : {"supply"}, market : Ids, amt : Nat, credit : {"user", "sender"}]
Programs == [fn : {"supply"}, market : Ids, credit : {"user"}]

\* What a compose message carries is the token its program supplies.
Usable(x) == x.compose # NoTx => x.token = Listing(x.compose.market).token

BridgeCalls == {c \in [fn : {"bridge"}, from : Tokens, amt : Nat \ {0}, token : Tokens,
                       compose : {NoTx} \cup Programs] : Usable(c)}
Uses == SupplyCalls \cup BridgeCalls
Calls == ApproveCalls \cup WithdrawCalls \cup Uses

Batches == [fn : {"batch"}, calls : ApproveCalls \X Uses, nonce : Nat, authNonce : Nat,
            needsAuth : BOOLEAN]

\* The VM pulls what its program then uses up, and the user is credited.
Exact(r) ==
  /\ r.call.amt = r.amt
  /\ r.call \in SupplyCalls => r.call.credit = "user" /\ Listing(r.call.market).token = r.token
  /\ r.call \in BridgeCalls => r.call.from = r.token
Permits == {r \in [fn : {"permit2"}, token : Tokens, amt : Nat, nonce : Nat, spender : Spenders,
                   call : Uses, approve : BOOLEAN, reset : BOOLEAN] : Exact(r)}

Kinds == {"withdraw", "approve", "supply", "bridge", "supply_with_7702", "supply_with_permit2",
          "bridge_with_7702", "bridge_with_permit2"}
Gasless == [fn : {"gasless"}, req : Batches \cup Permits, deadline : Nat]
Steps == [kind : Kinds, chain : Chains, tx : Calls \cup Gasless, req : {NoTx}]

Carries(tx) ==
  \/ tx \in BridgeCalls
  \/ tx \in Gasless /\ tx.req \in Batches /\ tx.req.calls[2] \in BridgeCalls
  \/ tx \in Gasless /\ tx.req \in Permits /\ tx.req.call \in BridgeCalls

Listed(m) == m.id \in Ids /\ m.token = Listing(m.id).token /\ m.chain = m.token.chain

Transfers == {i \in [token : Tokens, amt : Nat \ {0}, compose : {NoTx} \cup Programs,
                     plan : Nat] : Usable(i)}
FundsSet == [bal : [Parties -> [Tokens -> Nat]], pos : [Parties -> [Ids -> Nat]],
             allow : [Parties -> [Tokens -> [Spenders -> Int]]], transit : SUBSET Transfers]

-----------------------------------------------------------------------------
(* The inductive invariant. *)

TypeOK ==
  /\ funds \in FundsSet /\ IsFiniteSet(funds.transit)
  /\ eoa \in [Chains -> [nonce : Nat, code : {"none", "foreign", "calibur"}, seq : Nat]]
  /\ paused \subseteq Ids /\ rate \in [Ids -> Int]
  /\ at \in Nat /\ clock \in Nat /\ plans \in Nat
  /\ wait \in [pc : {"off", "sleep", "asked", "settled", "timeout", "failed"}, start : Nat,
               min : Nat, deadline : Nat, wake : Nat, balance : Nat, got : Nat]
  /\ seen \in [external : Int, fees : Int, disturbed : BOOLEAN, void : BOOLEAN, landed : BOOLEAN,
               readLanded : BOOLEAN, inflow : BOOLEAN, outflow : BOOLEAN, left : SUBSET Ids]

VmEmpty == /\ \A t \in Tokens : funds.bal["vm"][t] = 0
           /\ \A m \in Ids : funds.pos["vm"][m] = 0

Wealth(f) == Held(f, "user") + Moving(f)
Given == SumFunctionOnSet(Purse, Tokens) + SumFunctionOnSet(Start, Ids)
Conserved == Wealth(funds) + seen.fees = Given + seen.external

\* The steps stay on one chain; only the last one bridges or is sponsored.
Shaped(steps, source) ==
  /\ steps \in Seq(Steps) /\ Len(steps) > 0 /\ source \in Chains
  /\ \A k \in 1..Len(steps) :
       /\ steps[k].chain = source
       /\ Carries(steps[k].tx) \/ steps[k].tx \in Gasless => k = Len(steps)

RouteFits ==
  \/ route = NoRoute
  \/ /\ route.ok = TRUE
     /\ Shaped(route.steps, route.source)
     /\ at \in 1..(Len(route.steps) + 1)
     /\ route.pending = NoMarket \/ Listed(route.pending)

\* A transfer of this plan is under way only if its bridge step has been sent.
NotYetSent ==
  /\ \A i \in funds.transit : i.plan <= plans
  /\ route.ok => \A k \in at..Len(route.steps) :
                   Carries(route.steps[k].tx) => \A i \in funds.transit : i.plan # plans

IsBatch(tx) == tx \in Gasless /\ tx.req \in Batches

\* A batch is the last step and was signed past the steps before it.
BatchCounts ==
  /\ route.ok /\ ~seen.disturbed =>
       \A k \in at..Len(route.steps) :
         IsBatch(route.steps[k].tx) =>
           /\ k = Len(route.steps)
           /\ route.steps[k].tx.req.authNonce = eoa[route.source].nonce + (k - at)
           /\ route.steps[k].tx.req.needsAuth <=> eoa[route.source].code = "none"
           /\ eoa[route.source].code # "foreign"
  /\ seen.void => seen.disturbed

\* The steps of a route that ends on another chain touch no token of that chain.
Outbound(tx, source, pending, least) ==
  \/ tx \in ApproveCalls
  \/ tx \in WithdrawCalls /\ Listing(tx.market).token.chain = source
  \/ /\ tx \in BridgeCalls
     /\ tx.from.chain = source /\ tx.token = pending.token /\ tx.compose = NoTx
     /\ Least(tx.amt) = least

Ends(r) == r.ok /\ r.pending # NoMarket

PendingFits ==
  Ends(route) =>
    LET balance == funds.bal["user"][route.pending.token]
    IN  /\ route.source # route.pending.chain
        /\ \A k \in 1..Len(route.steps) :
             Outbound(route.steps[k].tx, route.source, route.pending, wait.min)
        /\ \A i \in funds.transit :
             i.plan = plans => /\ i.compose = NoTx /\ i.token = route.pending.token
                               /\ Least(i.amt) = wait.min
        /\ wait.min > 0
        /\ ~seen.landed /\ ~seen.inflow => balance <= wait.start
        /\ ~seen.outflow => balance >= wait.start + (IF seen.landed THEN wait.min ELSE 0)

WaitFits ==
  /\ wait.pc # "off" => Ends(route) /\ at > Len(route.steps)
  /\ wait.pc = "asked" =>
       /\ ~seen.landed /\ ~seen.inflow => wait.balance <= wait.start
       /\ ~seen.outflow => wait.balance >= wait.start + (IF seen.readLanded THEN wait.min ELSE 0)
  /\ wait.pc = "settled" => seen.landed \/ seen.inflow
  /\ wait.pc = "timeout" => clock >= wait.deadline /\ (~seen.readLanded \/ seen.outflow)

\* A market the rebalancer left pays less than another one on its chain.
LeftBeaten ==
  \A id \in seen.left :
    \E h \in Markets : h.chain = Listing(id).chain /\ h.apy > rate[id]

IInv == /\ TypeOK /\ VmEmpty /\ Conserved /\ RouteFits /\ NotYetSent /\ BatchCounts
        /\ PendingFits /\ WaitFits /\ LeftBeaten

-----------------------------------------------------------------------------
(* Markets. *)

LEMMA Finite == IsFiniteSet(Ids) /\ IsFiniteSet(Tokens)
<1> DEFINE id == [l \in World |-> l.id]
           token == [l \in World |-> l.token]
<1>1. id \in Surjection(World, Ids) /\ token \in Surjection(World, Tokens)
  BY DEF Ids, Tokens, Surjection
<1> QED
  BY <1>1, FS_Surjection, WorldAssumption

LEMMA ListingOf ==
  ASSUME NEW l \in World
  PROVE  l.id \in Ids /\ l.token \in Tokens /\ l.chain \in Chains /\ Listing(l.id) = l
<1>1. \A m \in World : m.id = l.id => m = l
  BY WorldAssumption
<1>2. Listing(l.id) = l
  BY <1>1 DEF Listing
<1>3. l.token.chain = l.chain
  BY WorldAssumption
<1> QED
  BY <1>2, <1>3 DEF Ids, Tokens, Chains

LEMMA ListingIn ==
  ASSUME NEW id \in Ids
  PROVE  /\ Listing(id) \in World /\ Listing(id).id = id
         /\ Listing(id).token \in Tokens /\ Listing(id).token.chain \in Chains
<1>1. \E l \in World : l.id = id
  BY DEF Ids
<1>2. Listing(id) \in World /\ Listing(id).id = id
  BY <1>1 DEF Listing
<1> QED
  BY <1>2 DEF Tokens, Chains

\* What a scan can find: a listing with today's rate.
LEMMA NowListed ==
  ASSUME NEW m \in Now, rate \in [Ids -> Int]
  PROVE  /\ Listed(m) /\ m.token \in Tokens /\ m.chain \in Chains
         /\ m.apy = rate[m.id] /\ m.apy \in Int
         /\ \A n \in Now : n.id = m.id => n = m
<1> DEFINE today(l) == [l EXCEPT !.paused = l.id \in paused, !.apy = rate[l.id]]
<1>1. \A n \in Now : \E l \in World : n = today(l)
  BY DEF Now
<1>2. \A l \in World : /\ today(l).id = l.id /\ today(l).token = l.token
                       /\ today(l).chain = l.chain /\ today(l).apy = rate[l.id]
  BY WorldAssumption
<1>3. \A l \in World : l.token.chain = l.chain
  BY WorldAssumption
<1>4. PICK l \in World : m = today(l)
  BY <1>1
<1>5. l.id \in Ids /\ l.token \in Tokens /\ l.chain \in Chains /\ Listing(l.id) = l
  BY ListingOf
<1>6. ASSUME NEW n \in Now, n.id = m.id
      PROVE  n = m
  <2>1. PICK k \in World : n = today(k)
    BY <1>1
  <2>2. k.id = l.id
    BY <1>2, <1>4, <1>6, <2>1
  <2>3. k = l
    BY <2>2, WorldAssumption
  <2> QED
    BY <1>4, <2>1, <2>3
<1> HIDE DEF today
<1> QED
  BY <1>2, <1>3, <1>4, <1>5, <1>6 DEF Listed

LEMMA MarketsNow == Markets \subseteq Now
<1>1. \A c : AaveMarket(Now, c) \subseteq Now
  BY DEF AaveMarket
<1>2. \A c : CompoundMarket(Now, c) \subseteq Now
  BY DEF CompoundMarket
<1>3. \A c, t : AaveV4Market(Now, c, t) \subseteq Now
  BY DEF AaveV4Market
<1>4. MorphoMarkets("TOK", Chains, Pages) \subseteq Now
  <2>1. FetchMorphoMarkets(Pages) \subseteq UNION {FetchMorphoPage(Pages[k]) : k \in DOMAIN Pages}
    BY DEF FetchMorphoMarkets
  <2>2. DOMAIN Pages = {1} /\ Pages[1].items \subseteq Now
    BY DEF Pages
  <2>3. \A k \in DOMAIN Pages : FetchMorphoPage(Pages[k]) \subseteq Now
    BY <2>2 DEF FetchMorphoPage
  <2> QED
    BY <2>1, <2>3 DEF MorphoMarkets
<1> QED
  BY <1>1, <1>2, <1>3, <1>4 DEF Markets, GetYieldMarkets

LEMMA MarketListed ==
  ASSUME NEW m \in Markets, rate \in [Ids -> Int]
  PROVE  /\ m \in Now /\ Listed(m) /\ m.token \in Tokens /\ m.chain \in Chains
         /\ m.apy = rate[m.id] /\ m.apy \in Int
         /\ m.id \in Ids /\ m.chain = Listing(m.id).chain
<1>1. m \in Now
  BY MarketsNow
<1>2. Listed(m) /\ m.token \in Tokens /\ m.chain \in Chains /\ m.apy = rate[m.id] /\ m.apy \in Int
  BY <1>1, NowListed
<1>3. Listing(m.id) \in World
  BY <1>2, ListingIn DEF Listed
<1>4. Listing(m.id).token.chain = Listing(m.id).chain
  BY <1>3, WorldAssumption
<1> QED
  BY <1>1, <1>2, <1>4 DEF Listed

LEMMA SameMarket ==
  ASSUME NEW m \in Markets, NEW n \in Markets, rate \in [Ids -> Int], m.id = n.id
  PROVE  m = n
<1>1. m \in Now /\ n \in Now
  BY MarketsNow
<1> QED
  BY <1>1, NowListed

-----------------------------------------------------------------------------
(* Balances. *)

\* b with k more units for p at x.
Plus(b, p, x, k) == [b EXCEPT ![p][x] = @ + k]

LEMMA PlusRow ==
  ASSUME NEW S, IsFiniteSet(S), NEW b \in [Parties -> [S -> Nat]], NEW p \in Parties,
         NEW x \in S, NEW k \in Int, b[p][x] + k >= 0
  PROVE  /\ Plus(b, p, x, k) \in [Parties -> [S -> Nat]]
         /\ \A q \in Parties \ {p} : Plus(b, p, x, k)[q] = b[q]
         /\ Plus(b, p, x, k)[p][x] = b[p][x] + k
         /\ \A y \in S \ {x} : Plus(b, p, x, k)[p][y] = b[p][y]
         /\ SumFunctionOnSet(Plus(b, p, x, k)[p], S) = SumFunctionOnSet(b[p], S) + k
         /\ SumFunctionOnSet(b[p], S) \in Int
<1> DEFINE c == [b[p] EXCEPT ![x] = @ + k]
<1>1. b[p] \in [S -> Nat] /\ b[p][x] \in Nat
  OBVIOUS
<1>2. Plus(b, p, x, k) = [b EXCEPT ![p] = c]
  BY DEF Plus
<1>3. c \in [S -> Nat] /\ c[x] = b[p][x] + k /\ \A y \in S \ {x} : c[y] = b[p][y]
  BY <1>1
<1> HIDE DEF c
<1>4. SumFunctionOnSet(c, S) = SumFunctionOnSet(b[p], S) + c[x] - b[p][x]
  <2> DEFINE d == b[p]
  <2>1. d \in [S -> Int] /\ c \in [S -> Int] /\ S \in SUBSET S /\ \A y \in S \ {x} : c[y] = d[y]
    BY <1>1, <1>3
  <2> HIDE DEF d
  <2>2. SumFunctionOnSet(c, S) = SumFunctionOnSet(d, S) + c[x] - d[x]
    BY <2>1, SumChange
  <2> QED
    BY <2>2 DEF d
<1>5. SumFunctionOnSet(b[p], S) \in Int
  BY <1>1, SumInt
<1>6. /\ [b EXCEPT ![p] = c] \in [Parties -> [S -> Nat]]
      /\ [b EXCEPT ![p] = c][p] = c
      /\ \A q \in Parties \ {p} : [b EXCEPT ![p] = c][q] = b[q]
  BY <1>3
<1> QED
  BY <1>1, <1>2, <1>3, <1>4, <1>5, <1>6

LEMMA MovingInt ==
  ASSUME NEW f \in FundsSet, IsFiniteSet(f.transit)
  PROVE  /\ Moving(f) \in Int
         /\ \A p \in Parties : Held(f, p) \in Int
<1> DEFINE amount == [i \in f.transit |-> i.amt]
<1>1. f.transit \subseteq Transfers
  BY DEF FundsSet
<1>2. amount \in [f.transit -> Int]
  BY <1>1 DEF Transfers
<1>3. SumFunctionOnSet(amount, f.transit) \in Int
  BY <1>2, SumInt
<1>4. ASSUME NEW p \in Parties
      PROVE  Held(f, p) \in Int
  <2>1. f.bal[p] \in [Tokens -> Nat] /\ f.pos[p] \in [Ids -> Nat]
    BY DEF FundsSet
  <2>2. f.bal[p] \in [Tokens -> Int] /\ f.pos[p] \in [Ids -> Int]
    BY <2>1
  <2>3. SumFunctionOnSet(f.bal[p], Tokens) \in Int /\ SumFunctionOnSet(f.pos[p], Ids) \in Int
    BY <2>2, Finite, SumInt
  <2> QED
    BY <2>3 DEF Held
<1> QED
  BY <1>3, <1>4 DEF Moving

LEMMA MovingAdd ==
  ASSUME NEW f \in FundsSet, IsFiniteSet(f.transit), NEW g \in FundsSet,
         NEW i \in Transfers, i \notin f.transit, g.transit = f.transit \cup {i}
  PROVE  IsFiniteSet(g.transit) /\ Moving(g) = Moving(f) + i.amt
<1> DEFINE T == g.transit
           amount == [j \in T |-> j.amt]
           before == [j \in f.transit |-> j.amt]
<1>1. T \subseteq Transfers /\ f.transit \subseteq T /\ i \in T
  BY DEF FundsSet
<1>2. amount \in [T -> Int] /\ amount[i] = i.amt /\ i.amt \in Nat
  BY <1>1 DEF Transfers
<1>3. IsFiniteSet(T)
  BY FS_AddElement
<1>4. SumFunctionOnSet(amount, f.transit \cup {i}) = amount[i] + SumFunctionOnSet(amount, f.transit)
  BY <1>1, <1>2, SumAdd
<1>5. \A j \in f.transit : amount[j] = before[j]
  BY <1>1
<1>6. SumFunctionOnSet(amount, f.transit) = SumFunctionOnSet(before, f.transit)
  BY <1>5, SumSame
<1>7. SumFunctionOnSet(before, f.transit) \in Int
  BY MovingInt DEF Moving
<1>8. Moving(g) = SumFunctionOnSet(amount, T) /\ Moving(f) = SumFunctionOnSet(before, f.transit)
  BY DEF Moving
<1> HIDE DEF amount, before
<1> QED
  BY <1>2, <1>3, <1>4, <1>6, <1>7, <1>8

\* Taking one out is putting it back, backwards.
LEMMA MovingRemove ==
  ASSUME NEW f \in FundsSet, IsFiniteSet(f.transit), NEW g \in FundsSet,
         NEW i \in f.transit, g.transit = f.transit \ {i}
  PROVE  IsFiniteSet(g.transit) /\ Moving(g) = Moving(f) - i.amt /\ i.amt \in Nat
<1>1. i \in Transfers /\ i.amt \in Nat
  BY DEF FundsSet, Transfers
<1>2. IsFiniteSet(g.transit)
  BY FS_RemoveElement
<1>3. i \notin g.transit /\ f.transit = g.transit \cup {i}
  OBVIOUS
<1>4. Moving(f) = Moving(g) + i.amt
  BY <1>1, <1>2, <1>3, MovingAdd
<1>5. Moving(g) \in Int
  BY <1>2, MovingInt
<1> QED
  BY <1>1, <1>2, <1>4, <1>5

LEMMA MovingSame ==
  ASSUME NEW f, NEW g, g.transit = f.transit
  PROVE  Moving(g) = Moving(f)
BY DEF Moving

-----------------------------------------------------------------------------
(* What a call does, exactly. *)

LEMMA ApproveDoes ==
  ASSUME NEW f \in FundsSet, NEW who \in Parties, NEW c \in ApproveCalls, NEW r,
         r = Approve(f, who, c), r.ok
  PROVE  /\ r.funds \in FundsSet
         /\ r.funds.bal = f.bal /\ r.funds.pos = f.pos /\ r.funds.transit = f.transit
<1>1. c.token \in Tokens /\ c.spender \in Spenders /\ c.amt \in Int
  BY DEF ApproveCalls
<1>2. r.funds = [f EXCEPT !.allow[who][c.token][c.spender] = c.amt]
  BY DEF Approve, Failed, Done
<1> DEFINE row == [f.allow[who] EXCEPT ![c.token][c.spender] = c.amt]
<1>3. row \in [Tokens -> [Spenders -> Int]]
  BY <1>1 DEF FundsSet
<1>4. r.funds = [f EXCEPT !.allow = [f.allow EXCEPT ![who] = row]]
  BY <1>2 DEF FundsSet
<1> HIDE DEF row
<1>5. [f.allow EXCEPT ![who] = row] \in [Parties -> [Tokens -> [Spenders -> Int]]]
  BY <1>3 DEF FundsSet
<1> QED
  BY <1>4, <1>5 DEF FundsSet

LEMMA SpentDoes ==
  ASSUME NEW f \in FundsSet, NEW who \in Parties, NEW spender \in Spenders,
         NEW token \in Tokens, NEW n \in Nat, Spends(f, who, spender, token, n), NEW g,
         g = Spent(f, who, spender, token, n)
  PROVE  /\ g \in FundsSet /\ g.pos = f.pos /\ g.transit = f.transit
         /\ g.bal = Plus(f.bal, who, token, -n) /\ f.bal[who][token] >= n
<1> DEFINE old == f.allow[who][token][spender]
           new == IF old = Max256 THEN old ELSE old - n
           row == [f.allow[who] EXCEPT ![token][spender] = new]
           allow == [f.allow EXCEPT ![who] = row]
           bal == Plus(f.bal, who, token, -n)
<1>1. old \in Int /\ new \in Int
  BY DEF FundsSet
<1>2. row \in [Tokens -> [Spenders -> Int]]
  BY <1>1 DEF FundsSet
<1> HIDE DEF row
<1>3. allow \in [Parties -> [Tokens -> [Spenders -> Int]]]
  BY <1>2 DEF FundsSet
<1>4. f.bal \in [Parties -> [Tokens -> Nat]] /\ f.bal[who][token] \in Nat /\ f.bal[who][token] >= n
  BY DEF FundsSet, Spends
<1>5. bal \in [Parties -> [Tokens -> Nat]]
  <2>1. -n \in Int /\ f.bal[who][token] + (-n) >= 0
    BY <1>4
  <2> QED
    BY <1>4, <2>1, PlusRow, Finite
<1>6. g = [f EXCEPT !.bal = bal, !.allow = allow]
  BY <1>4 DEF Spent, FundsSet, Plus, row
<1> HIDE DEF bal, allow
<1>7. g \in FundsSet /\ g.pos = f.pos /\ g.transit = f.transit /\ g.bal = bal
  BY <1>3, <1>5, <1>6 DEF FundsSet
<1> QED
  BY <1>4, <1>7 DEF bal

LEMMA WithdrawDoes ==
  ASSUME NEW f \in FundsSet, NEW c \in WithdrawCalls, NEW r, r = Withdraw(f, c), r.ok
  PROVE  /\ r.funds \in FundsSet /\ r.funds.transit = f.transit
         /\ r.funds.bal = Plus(f.bal, "user", Listing(c.market).token, c.amt)
         /\ r.funds.pos = Plus(f.pos, "user", c.market, -c.amt)
         /\ f.pos["user"][c.market] >= c.amt
<1> DEFINE token == Listing(c.market).token
           bal == Plus(f.bal, "user", token, c.amt)
           pos == Plus(f.pos, "user", c.market, -c.amt)
<1>1. c.market \in Ids /\ c.amt \in Nat /\ "user" \in Parties
  BY DEF WithdrawCalls, Parties
<1>2. token \in Tokens
  BY <1>1, ListingIn
<1>3. /\ f.bal \in [Parties -> [Tokens -> Nat]] /\ f.bal["user"][token] \in Nat
      /\ f.pos \in [Parties -> [Ids -> Nat]] /\ f.pos["user"][c.market] \in Nat
  BY <1>1, <1>2 DEF FundsSet
<1>4. f.pos["user"][c.market] >= c.amt
  BY <1>1, <1>3 DEF Withdraw, Failed
<1> HIDE DEF token
<1>5. bal \in [Parties -> [Tokens -> Nat]]
  BY <1>1, <1>2, <1>3, PlusRow, Finite
<1>6. pos \in [Parties -> [Ids -> Nat]]
  <2>1. -c.amt \in Int /\ f.pos["user"][c.market] + (-c.amt) >= 0
    BY <1>1, <1>3, <1>4
  <2> QED
    BY <1>1, <1>3, <2>1, PlusRow, Finite
<1>7. r.funds = [f EXCEPT !.pos = pos, !.bal = bal]
  BY <1>1, <1>3 DEF Withdraw, Failed, Done, token, Plus, FundsSet
<1> HIDE DEF bal, pos
<1>8. r.funds \in FundsSet /\ r.funds.transit = f.transit /\ r.funds.bal = bal /\ r.funds.pos = pos
  BY <1>5, <1>6, <1>7 DEF FundsSet
<1> QED
  BY <1>4, <1>8 DEF bal, pos, token

LEMMA SupplyDoes ==
  ASSUME NEW f \in FundsSet, NEW who \in Parties, NEW c \in SupplyCalls,
         NEW r, r = Supply(f, who, c), r.ok, NEW to, to = IF c.credit = "user" THEN "user" ELSE who
  PROVE  /\ r.funds \in FundsSet /\ r.funds.transit = f.transit
         /\ r.funds.bal = Plus(f.bal, who, Listing(c.market).token, -c.amt)
         /\ r.funds.pos = Plus(f.pos, to, c.market, c.amt)
         /\ f.bal[who][Listing(c.market).token] >= c.amt
<1> DEFINE token == Listing(c.market).token
           g == Spent(f, who, c.market, token, c.amt)
           pos == Plus(f.pos, to, c.market, c.amt)
<1>1. c.market \in Ids /\ c.amt \in Nat /\ c.market \in Spenders /\ to \in Parties
  BY DEF SupplyCalls, Parties, Spenders
<1>2. token \in Tokens
  BY <1>1, ListingIn
<1>3. Spends(f, who, c.market, token, c.amt)
  BY DEF Supply, Failed
<1>4. r.funds = [g EXCEPT !.pos[to][c.market] = @ + c.amt]
  BY <1>3 DEF Supply, Failed, Done
<1> HIDE DEF token, g
<1>5. /\ g \in FundsSet /\ g.pos = f.pos /\ g.transit = f.transit
      /\ g.bal = Plus(f.bal, who, token, -c.amt) /\ f.bal[who][token] >= c.amt
  BY <1>1, <1>2, <1>3, SpentDoes DEF g
<1>6. f.pos \in [Parties -> [Ids -> Nat]] /\ f.pos[to][c.market] \in Nat
  BY <1>1 DEF FundsSet
<1>7. pos \in [Parties -> [Ids -> Nat]]
  BY <1>1, <1>6, PlusRow, Finite
<1>8. r.funds = [g EXCEPT !.pos = pos]
  BY <1>4, <1>5, <1>6 DEF Plus, FundsSet
<1> HIDE DEF pos
<1>9. /\ r.funds \in FundsSet /\ r.funds.transit = g.transit /\ r.funds.bal = g.bal
      /\ r.funds.pos = pos
  BY <1>5, <1>7, <1>8 DEF FundsSet
<1> QED
  BY <1>5, <1>9 DEF pos, token

TransferOf(c) == [token |-> c.token, amt |-> c.amt, compose |-> c.compose, plan |-> plans]

LEMMA BridgeDoes ==
  ASSUME NEW f \in FundsSet, NEW who \in Parties, NEW c \in BridgeCalls, plans \in Nat,
         NEW r, r = SendBridge(f, who, c), r.ok
  PROVE  /\ r.funds \in FundsSet /\ r.funds.pos = f.pos
         /\ TransferOf(c) \in Transfers /\ r.funds.transit = f.transit \cup {TransferOf(c)}
         /\ r.funds.bal = Plus(f.bal, who, c.from, -c.amt)
         /\ f.bal[who][c.from] >= c.amt
<1> DEFINE g == Spent(f, who, "bridge", c.from, c.amt)
<1>1. c.from \in Tokens /\ c.amt \in Nat /\ "bridge" \in Spenders
  BY DEF BridgeCalls, Spenders
<1>2. Spends(f, who, "bridge", c.from, c.amt)
  BY DEF SendBridge, Failed
<1>3. r.funds = [g EXCEPT !.transit = @ \cup {TransferOf(c)}]
  BY <1>2 DEF SendBridge, Failed, Done, TransferOf
<1> HIDE DEF g
<1>4. /\ g \in FundsSet /\ g.pos = f.pos /\ g.transit = f.transit
      /\ g.bal = Plus(f.bal, who, c.from, -c.amt) /\ f.bal[who][c.from] >= c.amt
  BY <1>1, <1>2, SpentDoes DEF g
<1>5. TransferOf(c) \in Transfers
  BY DEF TransferOf, Transfers, BridgeCalls, Usable
<1> DEFINE i == TransferOf(c)
<1> HIDE DEF i
<1> DEFINE more == g.transit \cup {i}
<1>6. r.funds = [g EXCEPT !.transit = more]
  BY <1>3, <1>4 DEF FundsSet, i
<1>7. more \in SUBSET Transfers
  BY <1>4, <1>5 DEF i, FundsSet
<1> HIDE DEF more
<1>8. /\ r.funds \in FundsSet /\ r.funds.pos = g.pos /\ r.funds.bal = g.bal
      /\ r.funds.transit = more
  BY <1>4, <1>6, <1>7 DEF FundsSet
<1> QED
  BY <1>4, <1>5, <1>8 DEF i, more

-----------------------------------------------------------------------------
(* A call moves units between a balance, a position and the bridge. *)

\* The transfers a call adds.
Sent(c) == IF c \in BridgeCalls THEN {TransferOf(c)} ELSE {}

New(f, c) == c \in BridgeCalls => \A i \in f.transit : i.plan # plans

\* What the four kinds of a call have in common, whoever calls.
Effect(f, g, who, c) ==
  /\ g \in FundsSet /\ IsFiniteSet(g.transit) /\ g.transit = f.transit \cup Sent(c)
  /\ \A p \in Parties \ {who, "user"} : g.bal[p] = f.bal[p] /\ g.pos[p] = f.pos[p]

LEMMA CallKinds ==
  ASSUME NEW c \in Calls
  PROVE  /\ c \in ApproveCalls <=> c.fn = "approve"
         /\ c \in WithdrawCalls <=> c.fn = "withdraw"
         /\ c \in SupplyCalls <=> c.fn = "supply"
         /\ c \in BridgeCalls <=> c.fn = "bridge"
         /\ c.fn \in {"approve", "withdraw", "supply", "bridge"} /\ c.amt \in Nat
<1>1. /\ c \in ApproveCalls => c.fn = "approve" /\ c.amt \in Nat
      /\ c \in WithdrawCalls => c.fn = "withdraw" /\ c.amt \in Nat
      /\ c \in SupplyCalls => c.fn = "supply" /\ c.amt \in Nat
      /\ c \in BridgeCalls => c.fn = "bridge" /\ c.amt \in Nat
  BY DEF ApproveCalls, WithdrawCalls, SupplyCalls, BridgeCalls
<1> QED
  BY <1>1 DEF Calls, Uses

LEMMA BalMoves ==
  ASSUME NEW f \in FundsSet, NEW p \in Parties, NEW x \in Tokens, NEW k \in Int,
         f.bal[p][x] + k >= 0, NEW g, g.bal = Plus(f.bal, p, x, k)
  PROVE  /\ \A q \in Parties \ {p} : g.bal[q] = f.bal[q]
         /\ \A y \in Tokens \ {x} : g.bal[p][y] = f.bal[p][y]
         /\ g.bal[p][x] = f.bal[p][x] + k
         /\ SumFunctionOnSet(g.bal[p], Tokens) = SumFunctionOnSet(f.bal[p], Tokens) + k
<1> DEFINE b == f.bal
<1>1. b \in [Parties -> [Tokens -> Nat]] /\ b[p][x] + k >= 0
  BY DEF FundsSet
<1> HIDE DEF b
<1>2. /\ \A q \in Parties \ {p} : Plus(b, p, x, k)[q] = b[q]
      /\ Plus(b, p, x, k)[p][x] = b[p][x] + k
      /\ \A y \in Tokens \ {x} : Plus(b, p, x, k)[p][y] = b[p][y]
      /\ SumFunctionOnSet(Plus(b, p, x, k)[p], Tokens) = SumFunctionOnSet(b[p], Tokens) + k
  BY <1>1, PlusRow, Finite
<1> QED
  BY <1>2 DEF b

LEMMA PosMoves ==
  ASSUME NEW f \in FundsSet, NEW p \in Parties, NEW x \in Ids, NEW k \in Int,
         f.pos[p][x] + k >= 0, NEW g, g.pos = Plus(f.pos, p, x, k)
  PROVE  /\ \A q \in Parties \ {p} : g.pos[q] = f.pos[q]
         /\ \A y \in Ids \ {x} : g.pos[p][y] = f.pos[p][y]
         /\ g.pos[p][x] = f.pos[p][x] + k
         /\ SumFunctionOnSet(g.pos[p], Ids) = SumFunctionOnSet(f.pos[p], Ids) + k
<1> DEFINE b == f.pos
<1>1. b \in [Parties -> [Ids -> Nat]] /\ b[p][x] + k >= 0
  BY DEF FundsSet
<1> HIDE DEF b
<1>2. /\ \A q \in Parties \ {p} : Plus(b, p, x, k)[q] = b[q]
      /\ Plus(b, p, x, k)[p][x] = b[p][x] + k
      /\ \A y \in Ids \ {x} : Plus(b, p, x, k)[p][y] = b[p][y]
      /\ SumFunctionOnSet(Plus(b, p, x, k)[p], Ids) = SumFunctionOnSet(b[p], Ids) + k
  BY <1>1, PlusRow, Finite
<1> QED
  BY <1>2 DEF b

LEMMA UserCall ==
  ASSUME NEW f \in FundsSet, IsFiniteSet(f.transit), NEW c \in Calls, plans \in Nat, New(f, c),
         NEW r, r = Call(f, "user", c), r.ok
  PROVE  Effect(f, r.funds, "user", c) /\ Wealth(r.funds) = Wealth(f)
<1> DEFINE g == r.funds
<1>0. "user" \in Parties /\ f.bal \in [Parties -> [Tokens -> Nat]] /\ f.pos \in [Parties -> [Ids -> Nat]]
  BY DEF Parties, FundsSet
<1>00. /\ SumFunctionOnSet(f.bal["user"], Tokens) \in Int /\ SumFunctionOnSet(f.pos["user"], Ids) \in Int
       /\ Moving(f) \in Int
  <2>1. f.bal["user"] \in [Tokens -> Int] /\ f.pos["user"] \in [Ids -> Int]
    BY <1>0
  <2> QED
    BY <2>1, Finite, SumInt, MovingInt
<1>1. CASE c \in ApproveCalls
  <2>1. r = Approve(f, "user", c)
    BY <1>1, CallKinds DEF Call
  <2>2. g \in FundsSet /\ g.bal = f.bal /\ g.pos = f.pos /\ g.transit = f.transit
    BY <1>0, <1>1, <2>1, ApproveDoes
  <2>3. Sent(c) = {}
    BY <1>1, CallKinds DEF Sent
  <2>4. Moving(g) = Moving(f)
    BY <2>2, MovingSame
  <2> QED
    BY <2>2, <2>3, <2>4 DEF Effect, Wealth, Held
<1>2. CASE c \in WithdrawCalls
  <2> DEFINE token == Listing(c.market).token
  <2>1. r = Withdraw(f, c)
    BY <1>2, CallKinds DEF Call
  <2>2. /\ g \in FundsSet /\ g.transit = f.transit
        /\ g.bal = Plus(f.bal, "user", token, c.amt) /\ g.pos = Plus(f.pos, "user", c.market, -c.amt)
        /\ f.pos["user"][c.market] >= c.amt
    BY <1>2, <2>1, WithdrawDoes
  <2>3. c.market \in Ids /\ c.amt \in Nat /\ token \in Tokens
    BY <1>2, ListingIn DEF WithdrawCalls
  <2> HIDE DEF token
  <2>4. /\ \A q \in Parties \ {"user"} : g.bal[q] = f.bal[q]
        /\ SumFunctionOnSet(g.bal["user"], Tokens) = SumFunctionOnSet(f.bal["user"], Tokens) + c.amt
    <3>1. c.amt \in Int /\ f.bal["user"][token] + c.amt >= 0
      BY <1>0, <2>3
    <3> QED
      BY <1>0, <2>2, <2>3, <3>1, BalMoves
  <2>5. /\ \A q \in Parties \ {"user"} : g.pos[q] = f.pos[q]
        /\ SumFunctionOnSet(g.pos["user"], Ids) = SumFunctionOnSet(f.pos["user"], Ids) + (-c.amt)
    <3> DEFINE k == -c.amt
    <3>1. k \in Int /\ f.pos["user"][c.market] + k >= 0
      BY <1>0, <2>2, <2>3
    <3>2. k = -c.amt
      OBVIOUS
    <3> HIDE DEF k
    <3> QED
      BY <1>0, <2>2, <2>3, <3>1, <3>2, PosMoves
  <2>6. Sent(c) = {} /\ Moving(g) = Moving(f)
    BY <1>2, <2>2, CallKinds, MovingSame DEF Sent
  <2>7. Effect(f, g, "user", c)
    BY <2>2, <2>4, <2>5, <2>6 DEF Effect
  <2>8. Wealth(g) = Wealth(f)
    BY <1>00, <2>3, <2>4, <2>5, <2>6 DEF Wealth, Held
  <2> QED
    BY <2>7, <2>8
<1>3. CASE c \in SupplyCalls
  <2> DEFINE token == Listing(c.market).token
  <2>1. r = Supply(f, "user", c)
    BY <1>3, CallKinds DEF Call
  <2>2. /\ g \in FundsSet /\ g.transit = f.transit
        /\ g.bal = Plus(f.bal, "user", token, -c.amt) /\ g.pos = Plus(f.pos, "user", c.market, c.amt)
        /\ f.bal["user"][token] >= c.amt
    BY <1>0, <1>3, <2>1, SupplyDoes
  <2>3. c.market \in Ids /\ c.amt \in Nat /\ token \in Tokens
    BY <1>3, ListingIn DEF SupplyCalls
  <2> HIDE DEF token
  <2>4. /\ \A q \in Parties \ {"user"} : g.bal[q] = f.bal[q]
        /\ SumFunctionOnSet(g.bal["user"], Tokens) = SumFunctionOnSet(f.bal["user"], Tokens) + (-c.amt)
    <3> DEFINE k == -c.amt
    <3>1. k \in Int /\ f.bal["user"][token] + k >= 0
      BY <1>0, <2>2, <2>3
    <3>2. k = -c.amt
      OBVIOUS
    <3> HIDE DEF k
    <3> QED
      BY <1>0, <2>2, <2>3, <3>1, <3>2, BalMoves
  <2>5. /\ \A q \in Parties \ {"user"} : g.pos[q] = f.pos[q]
        /\ SumFunctionOnSet(g.pos["user"], Ids) = SumFunctionOnSet(f.pos["user"], Ids) + c.amt
    <3>1. c.amt \in Int /\ f.pos["user"][c.market] + c.amt >= 0
      BY <1>0, <2>3
    <3> QED
      BY <1>0, <2>2, <2>3, <3>1, PosMoves
  <2>6. Sent(c) = {} /\ Moving(g) = Moving(f)
    BY <1>3, <2>2, CallKinds, MovingSame DEF Sent
  <2>7. Effect(f, g, "user", c)
    BY <2>2, <2>4, <2>5, <2>6 DEF Effect
  <2>8. Wealth(g) = Wealth(f)
    BY <1>00, <2>3, <2>4, <2>5, <2>6 DEF Wealth, Held
  <2> QED
    BY <2>7, <2>8
<1>4. CASE c \in BridgeCalls
  <2> DEFINE i == TransferOf(c)
  <2>1. r = SendBridge(f, "user", c)
    BY <1>4, CallKinds DEF Call
  <2>2. /\ g \in FundsSet /\ g.pos = f.pos /\ i \in Transfers /\ g.transit = f.transit \cup {i}
        /\ g.bal = Plus(f.bal, "user", c.from, -c.amt) /\ f.bal["user"][c.from] >= c.amt
    BY <1>0, <1>4, <2>1, BridgeDoes
  <2>3. c.from \in Tokens /\ c.amt \in Nat
    BY <1>4 DEF BridgeCalls
  <2>4. /\ \A q \in Parties \ {"user"} : g.bal[q] = f.bal[q]
        /\ SumFunctionOnSet(g.bal["user"], Tokens) = SumFunctionOnSet(f.bal["user"], Tokens) + (-c.amt)
    <3> DEFINE k == -c.amt
    <3>1. k \in Int /\ f.bal["user"][c.from] + k >= 0
      BY <1>0, <2>2, <2>3
    <3>2. k = -c.amt
      OBVIOUS
    <3> HIDE DEF k
    <3> QED
      BY <1>0, <2>2, <2>3, <3>1, <3>2, BalMoves
  <2>5. i.plan = plans /\ i.amt = c.amt /\ i \notin f.transit
    BY <1>4 DEF New, TransferOf
  <2> HIDE DEF i
  <2>6. IsFiniteSet(g.transit) /\ Moving(g) = Moving(f) + c.amt
    BY <2>2, <2>5, MovingAdd
  <2>7. Sent(c) = {i}
    BY <1>4 DEF Sent, i
  <2>8. Effect(f, g, "user", c)
    BY <2>2, <2>4, <2>6, <2>7 DEF Effect
  <2>9. Wealth(g) = Wealth(f)
    BY <1>00, <2>2, <2>3, <2>4, <2>6 DEF Wealth, Held
  <2> QED
    BY <2>8, <2>9
<1> QED
  BY <1>1, <1>2, <1>3, <1>4 DEF Calls, Uses

LEMMA UserBatch ==
  ASSUME NEW f \in FundsSet, IsFiniteSet(f.transit), NEW calls \in ApproveCalls \X Uses,
         plans \in Nat, New(f, calls[2]), NEW r, r = Batch(f, "user", calls), r.ok
  PROVE  Effect(f, r.funds, "user", calls[2]) /\ Wealth(r.funds) = Wealth(f)
<1> DEFINE a == calls[1]
           c == calls[2]
           first == Call(f, "user", a)
<1>1. a \in ApproveCalls /\ a \in Calls /\ c \in Calls
  BY DEF Calls
<1>2. first.ok /\ r = Call(first.funds, "user", c)
  BY DEF Batch, Then
<1>3. New(f, a) /\ Sent(a) = {}
  BY <1>1, CallKinds DEF New, Sent
<1> HIDE DEF a, c, first
<1>4. Effect(f, first.funds, "user", a) /\ Wealth(first.funds) = Wealth(f)
  BY <1>1, <1>2, <1>3, UserCall DEF first
<1>5. /\ first.funds \in FundsSet /\ IsFiniteSet(first.funds.transit)
      /\ first.funds.transit = f.transit
      /\ \A p \in Parties \ {"user"} : first.funds.bal[p] = f.bal[p] /\ first.funds.pos[p] = f.pos[p]
  BY <1>3, <1>4 DEF Effect
<1>6. New(first.funds, c)
  BY <1>5 DEF New, c
<1>7. Effect(first.funds, r.funds, "user", c) /\ Wealth(r.funds) = Wealth(first.funds)
  BY <1>1, <1>2, <1>5, <1>6, UserCall
<1> QED
  BY <1>4, <1>5, <1>7 DEF Effect, c

Empty(f) == /\ \A t \in Tokens : f.bal["vm"][t] = 0
            /\ \A m \in Ids : f.pos["vm"][m] = 0

\* Approving moves nothing.
LEMMA VmApproves ==
  ASSUME NEW f \in FundsSet, NEW req \in Permits, NEW r,
         r = LET reset == IF req.approve /\ req.reset
                          THEN Call(f, "vm", ApproveTx(req.token, req.spender, 0)) ELSE Done(f)
             IN  IF req.approve
                 THEN Then(reset, "vm", ApproveTx(req.token, req.spender, Max256)) ELSE reset,
         r.ok
  PROVE  /\ r.funds \in FundsSet
         /\ r.funds.bal = f.bal /\ r.funds.pos = f.pos /\ r.funds.transit = f.transit
<1> DEFINE zero == ApproveTx(req.token, req.spender, 0)
           max == ApproveTx(req.token, req.spender, Max256)
           reset == IF req.approve /\ req.reset THEN Call(f, "vm", zero) ELSE Done(f)
<1>1. zero \in ApproveCalls /\ max \in ApproveCalls /\ zero.fn = "approve" /\ max.fn = "approve"
  BY TimesAssumption DEF ApproveTx, ApproveCalls, Permits
<1>2. "vm" \in Parties
  BY DEF Parties
<1>3. r = IF req.approve THEN Then(reset, "vm", max) ELSE reset
  OBVIOUS
<1> HIDE DEF zero, max
<1>4. reset.ok
  BY <1>3 DEF Then
<1>5. /\ reset.funds \in FundsSet
      /\ reset.funds.bal = f.bal /\ reset.funds.pos = f.pos /\ reset.funds.transit = f.transit
  <2>1. CASE req.approve /\ req.reset
    <3>1. reset = Approve(f, "vm", zero)
      BY <1>1, <2>1 DEF Call
    <3> QED
      BY <1>1, <1>2, <1>4, <3>1, ApproveDoes
  <2>2. CASE ~(req.approve /\ req.reset)
    BY <2>2 DEF Done
  <2> QED
    BY <2>1, <2>2
<1> HIDE DEF reset
<1>6. CASE req.approve
  <2>1. r = Approve(reset.funds, "vm", max)
    BY <1>1, <1>3, <1>4, <1>6 DEF Then, Call
  <2> QED
    BY <1>1, <1>2, <1>5, <2>1, ApproveDoes
<1> QED
  BY <1>3, <1>5, <1>6

LEMMA VmRuns ==
  ASSUME NEW f \in FundsSet, IsFiniteSet(f.transit), Empty(f), NEW req \in Permits, plans \in Nat,
         New(f, req.call), NEW r, r = PullThenRun(f, req), r.ok
  PROVE  /\ r.funds \in FundsSet /\ IsFiniteSet(r.funds.transit)
         /\ r.funds.transit = f.transit \cup Sent(req.call)
         /\ Empty(r.funds) /\ Wealth(r.funds) = Wealth(f)
<1> DEFINE g == r.funds
           c == req.call
           taken == Plus(f.bal, "user", req.token, -req.amt)
           pulled == Plus(taken, "vm", req.token, req.amt)
           h == [f EXCEPT !.bal = pulled]
<1>0. "user" \in Parties /\ "vm" \in Parties /\ "user" # "vm" /\ Parties = {"user", "vm"}
  BY DEF Parties
<1>1. /\ req.token \in Tokens /\ req.amt \in Nat /\ c \in Uses /\ c \in Calls /\ Exact(req)
      /\ f.bal \in [Parties -> [Tokens -> Nat]] /\ f.pos \in [Parties -> [Ids -> Nat]]
  BY DEF Permits, Calls, FundsSet
<1>2. f.bal["user"][req.token] >= req.amt /\ f.bal["user"][req.token] \in Nat
  BY <1>0, <1>1 DEF PullThenRun, Failed
<1>3. /\ taken \in [Parties -> [Tokens -> Nat]] /\ taken["vm"] = f.bal["vm"]
      /\ SumFunctionOnSet(taken["user"], Tokens) = SumFunctionOnSet(f.bal["user"], Tokens) + (-req.amt)
      /\ SumFunctionOnSet(f.bal["user"], Tokens) \in Int
  <2> DEFINE k == -req.amt
  <2>1. k \in Int /\ f.bal["user"][req.token] + k >= 0
    BY <1>1, <1>2
  <2> HIDE DEF k
  <2>2. /\ Plus(f.bal, "user", req.token, k) \in [Parties -> [Tokens -> Nat]]
        /\ \A q \in Parties \ {"user"} : Plus(f.bal, "user", req.token, k)[q] = f.bal[q]
        /\ SumFunctionOnSet(Plus(f.bal, "user", req.token, k)["user"], Tokens)
             = SumFunctionOnSet(f.bal["user"], Tokens) + k
        /\ SumFunctionOnSet(f.bal["user"], Tokens) \in Int
    BY <1>0, <1>1, <2>1, PlusRow, Finite, SMTT(30)
  <2>3. taken = Plus(f.bal, "user", req.token, k)
    BY DEF k
  <2> HIDE DEF taken
  <2> QED
    BY <1>0, <2>2, <2>3 DEF k
<1> HIDE DEF taken
<1>4. /\ pulled \in [Parties -> [Tokens -> Nat]] /\ pulled["user"] = taken["user"]
      /\ pulled["vm"][req.token] = req.amt
      /\ \A t \in Tokens \ {req.token} : pulled["vm"][t] = 0
  <2>1. taken["vm"][req.token] = 0 /\ \A t \in Tokens : taken["vm"][t] = 0
    BY <1>1, <1>3 DEF Empty
  <2>2. taken["vm"][req.token] + req.amt >= 0 /\ req.amt \in Int
    BY <1>1, <2>1
  <2>3. /\ pulled \in [Parties -> [Tokens -> Nat]]
        /\ \A q \in Parties \ {"vm"} : pulled[q] = taken[q]
        /\ pulled["vm"][req.token] = taken["vm"][req.token] + req.amt
        /\ \A t \in Tokens \ {req.token} : pulled["vm"][t] = taken["vm"][t]
    BY <1>0, <1>1, <1>3, <2>2, PlusRow, Finite
  <2> QED
    BY <1>0, <1>1, <2>1, <2>3
<1>5. r = SupplyProgram(h, req)
  <2> DEFINE x == [f EXCEPT !.bal["user"][req.token] = @ - req.amt,
                            !.bal["vm"][req.token] = @ + req.amt]
  <2>1. x = h
    <3>1. f.bal["user"][req.token] - req.amt = f.bal["user"][req.token] + (-req.amt)
      BY <1>1, <1>2
    <3> QED
      BY <1>0, <1>1, <3>1 DEF Plus, taken, FundsSet
  <2>2. ~(f.bal["user"][req.token] < req.amt)
    BY <1>1, <1>2
  <2>3. r = SupplyProgram(x, req)
    BY <2>2, Zenon DEF PullThenRun
  <2> HIDE DEF x
  <2> QED
    BY <2>1, <2>3
<1> HIDE DEF pulled
<1>6. h \in FundsSet /\ h.bal = pulled /\ h.pos = f.pos /\ h.transit = f.transit
  BY <1>4 DEF FundsSet
<1> HIDE DEF h
<1>7. PICK a : /\ a = LET reset == IF req.approve /\ req.reset
                                   THEN Call(h, "vm", ApproveTx(req.token, req.spender, 0)) ELSE Done(h)
                      IN  IF req.approve
                          THEN Then(reset, "vm", ApproveTx(req.token, req.spender, Max256)) ELSE reset
               /\ r = Then(a, "vm", c)
  BY <1>5 DEF SupplyProgram
<1>8. a.ok /\ r = Call(a.funds, "vm", c)
  BY <1>7 DEF Then
<1> DEFINE e == a.funds
<1>9. e \in FundsSet /\ e.bal = pulled /\ e.pos = f.pos /\ e.transit = f.transit
  BY <1>6, <1>7, <1>8, VmApproves
<1> HIDE DEF e
<1>10. r = Call(e, "vm", c)
  BY <1>8 DEF e
<1>11. Moving(f) \in Int /\ SumFunctionOnSet(f.pos["user"], Ids) \in Int
  <2>1. f.pos["user"] \in [Ids -> Int]
    BY <1>0, <1>1
  <2> QED
    BY <2>1, Finite, SumInt, MovingInt
<1>12. e.bal["vm"][req.token] = req.amt /\ e.bal["user"] = taken["user"]
       /\ \A t \in Tokens \ {req.token} : e.bal["vm"][t] = 0
  BY <1>4, <1>9
\* Whichever use: the VM pays out exactly what it had pulled.
<1>13. ASSUME g.bal = Plus(e.bal, "vm", req.token, -c.amt)
       PROVE  /\ \A t \in Tokens : g.bal["vm"][t] = 0
              /\ SumFunctionOnSet(g.bal["user"], Tokens)
                   = SumFunctionOnSet(f.bal["user"], Tokens) + (-req.amt)
  <2> DEFINE k == -req.amt
  <2>1. k \in Int /\ e.bal["vm"][req.token] + k = 0
    BY <1>1, <1>12
  <2>2. g.bal = Plus(e.bal, "vm", req.token, k)
    BY <1>1, <1>13 DEF Exact
  <2> HIDE DEF k
  <2>3. /\ \A q \in Parties \ {"vm"} : g.bal[q] = e.bal[q]
        /\ \A t \in Tokens \ {req.token} : g.bal["vm"][t] = e.bal["vm"][t]
        /\ g.bal["vm"][req.token] = e.bal["vm"][req.token] + k
    <3>1. e.bal["vm"][req.token] + k >= 0 /\ k \in Int
      BY <2>1
    <3>2. e \in FundsSet /\ "vm" \in Parties /\ req.token \in Tokens
      BY <1>0, <1>1, <1>9
    <3> QED
      BY <2>2, <3>1, <3>2, BalMoves
  <2>4. g.bal["user"] = taken["user"]
    BY <1>0, <1>12, <2>3
  <2> QED
    BY <1>3, <1>12, <2>1, <2>3, <2>4
<1>14. CASE c \in SupplyCalls
  <2>1. r = Supply(e, "vm", c) /\ c.credit = "user" /\ Listing(c.market).token = req.token
    BY <1>1, <1>10, <1>14, CallKinds DEF Call, Exact
  <2>2. /\ g \in FundsSet /\ g.transit = e.transit
        /\ g.bal = Plus(e.bal, "vm", req.token, -c.amt)
        /\ g.pos = Plus(e.pos, "user", c.market, c.amt)
    BY <1>0, <1>9, <1>14, <2>1, SupplyDoes
  <2>3. c.market \in Ids /\ c.amt = req.amt
    BY <1>1, <1>14 DEF SupplyCalls, Exact
  <2>4. /\ \A q \in Parties \ {"user"} : g.pos[q] = e.pos[q]
        /\ SumFunctionOnSet(g.pos["user"], Ids) = SumFunctionOnSet(e.pos["user"], Ids) + c.amt
    <3>1. c.amt \in Int /\ e.pos["user"][c.market] + c.amt >= 0
      BY <1>0, <1>1, <1>9, <2>3
    <3> QED
      BY <1>0, <1>9, <2>2, <2>3, <3>1, PosMoves
  <2>5. Sent(c) = {} /\ Moving(g) = Moving(f)
    BY <1>1, <1>9, <1>14, <2>2, CallKinds, MovingSame DEF Sent
  <2>6. Empty(g)
    BY <1>0, <1>9, <1>13, <2>2, <2>4 DEF Empty
  <2>7. Wealth(g) = Wealth(f)
    BY <1>1, <1>3, <1>9, <1>11, <1>13, <2>2, <2>3, <2>4, <2>5 DEF Wealth, Held
  <2> QED
    BY <1>9, <2>2, <2>5, <2>6, <2>7
<1>15. CASE c \in BridgeCalls
  <2> DEFINE i == TransferOf(c)
  <2>1. r = SendBridge(e, "vm", c) /\ c.from = req.token /\ c.amt = req.amt
    BY <1>1, <1>10, <1>15, CallKinds DEF Call, Exact
  <2>2. /\ g \in FundsSet /\ g.pos = e.pos /\ i \in Transfers /\ g.transit = e.transit \cup {i}
        /\ g.bal = Plus(e.bal, "vm", req.token, -c.amt)
    BY <1>0, <1>9, <1>15, <2>1, BridgeDoes
  <2>3. i.plan = plans /\ i.amt = req.amt /\ i \notin f.transit
    BY <1>15, <2>1 DEF New, TransferOf
  <2>4. Sent(c) = {i}
    BY <1>15 DEF Sent
  <2> HIDE DEF i
  <2>5. IsFiniteSet(g.transit) /\ Moving(g) = Moving(f) + req.amt
    <3>1. g \in FundsSet /\ i \in Transfers /\ g.transit = f.transit \cup {i}
      BY <1>9, <2>2
    <3>2. i \notin f.transit
      BY <2>3
    <3>3. IsFiniteSet(g.transit) /\ Moving(g) = Moving(f) + i.amt
      BY <3>1, <3>2, MovingAdd
    <3> QED
      BY <2>3, <3>3
  <2>6. Empty(g)
    BY <1>9, <1>13, <2>2 DEF Empty
  <2>7. Wealth(g) = Wealth(f)
    BY <1>1, <1>3, <1>9, <1>11, <1>13, <2>2, <2>5 DEF Wealth, Held
  <2> QED
    BY <1>9, <2>2, <2>4, <2>5, <2>6, <2>7
<1> QED
  BY <1>1, <1>14, <1>15 DEF Uses

-----------------------------------------------------------------------------
(* The routes that planning builds, before they are signed. *)

Ready == [kind : Kinds, chain : Chains, tx : Calls, req : {NoTx}]
Wanted == [kind : Kinds, chain : Chains, tx : {NoTx}, req : Batches \cup Permits]

CarriesRaw(s) ==
  \/ s \in Ready /\ s.tx \in BridgeCalls
  \/ s \in Wanted /\ s.req \in Batches /\ s.req.calls[2] \in BridgeCalls
  \/ s \in Wanted /\ s.req \in Permits /\ s.req.call \in BridgeCalls

ViewOK(view) ==
  /\ view.nonce \in Nat /\ view.seq \in Nat /\ view.free \in Nat
  /\ view.code \in {"none", "foreign", "calibur"}
  /\ view.allowance \in [Tokens -> [Spenders -> Int]]

Amount(a) == a.token \in Tokens /\ a.amt \in Nat \ {0}

\* The last steps of a route, after so many of the user's own.
Ending(q, chain, view, before) ==
  /\ q \in Seq(Ready \cup Wanted) /\ Len(q) > 0 /\ chain \in Chains
  /\ \A k \in 1..Len(q) :
       /\ q[k].chain = chain
       /\ CarriesRaw(q[k]) \/ q[k] \in Wanted => k = Len(q)
       /\ q[k] \in Wanted /\ q[k].req \in Batches =>
            /\ k = Len(q)
            /\ q[k].req.authNonce = view.nonce + before + (k - 1)
            /\ q[k].req.needsAuth <=> view.code = "none"
            /\ view.code # "foreign"

LEMMA TwoSteps ==
  ASSUME NEW x \in Ready, NEW y \in Ready, x.chain = y.chain, x.tx \notin BridgeCalls,
         NEW view, NEW before
  PROVE  Ending(<<x, y>>, x.chain, view, before)
<1>1. <<x, y>> \in Seq(Ready \cup Wanted) /\ Len(<<x, y>>) = 2 /\ x.chain \in Chains
  BY DEF Ready
<1>2. \A k \in 1..2 : k = 1 \/ k = 2
  OBVIOUS
<1>3. x \notin Wanted /\ y \notin Wanted
  <2>1. x.tx.fn # "none" /\ y.tx.fn # "none"
    BY CallKinds DEF Ready
  <2> QED
    BY <2>1 DEF Wanted, NoTx
<1>4. ~CarriesRaw(x)
  BY <1>3 DEF CarriesRaw
<1> QED
  BY <1>1, <1>2, <1>3, <1>4 DEF Ending

LEMMA OneStep ==
  ASSUME NEW x \in Wanted, NEW view, NEW before \in Nat, view.nonce \in Nat,
         x.req \in Batches => /\ x.req.authNonce = view.nonce + before
                              /\ x.req.needsAuth <=> view.code = "none"
                              /\ view.code # "foreign"
  PROVE  Ending(<<x>>, x.chain, view, before)
<1>1. <<x>> \in Seq(Ready \cup Wanted) /\ Len(<<x>>) = 1 /\ x.chain \in Chains
  BY DEF Wanted
<1>2. \A k \in 1..1 : k = 1
  OBVIOUS
<1>3. view.nonce + before + (1 - 1) = view.nonce + before
  OBVIOUS
<1> QED
  BY <1>1, <1>2, <1>3 DEF Ending

LEMMA Prefixed ==
  ASSUME NEW w \in Ready, w.tx \notin BridgeCalls, NEW q, NEW view, view.nonce \in Nat,
         Ending(q, w.chain, view, 1)
  PROVE  /\ Ending(<<w>> \o q, w.chain, view, 0)
         /\ \A k \in 1..Len(<<w>> \o q) :
              (<<w>> \o q)[k] = w \/ \E j \in 1..Len(q) : (<<w>> \o q)[k] = q[j]
<1> DEFINE S == Ready \cup Wanted
           p == <<w>> \o q
<1>1. <<w>> \in Seq(S) /\ q \in Seq(S) /\ Len(<<w>>) = 1 /\ Len(q) \in Nat /\ Len(q) > 0
  BY DEF Ending
<1>2. /\ p \in Seq(S) /\ Len(p) = Len(q) + 1
      /\ \A k \in 1..Len(p) : p[k] = IF k <= 1 THEN <<w>>[k] ELSE q[k - 1]
  BY <1>1, ConcatProperties
<1>3. w \notin Wanted
  <2>1. w.tx.fn # "none"
    BY CallKinds DEF Ready
  <2> QED
    BY <2>1 DEF Wanted, NoTx
<1>4. ~CarriesRaw(w)
  BY <1>3 DEF CarriesRaw
<1>5. \A k \in 1..Len(p) : (k = 1 /\ p[k] = w) \/ (k - 1 \in 1..Len(q) /\ p[k] = q[k - 1])
  BY <1>1, <1>2
<1> HIDE DEF p, S
<1>6. ASSUME NEW k \in 1..Len(p)
      PROVE  /\ p[k].chain = w.chain
             /\ CarriesRaw(p[k]) \/ p[k] \in Wanted => k = Len(p)
             /\ p[k] \in Wanted /\ p[k].req \in Batches =>
                  /\ k = Len(p)
                  /\ p[k].req.authNonce = view.nonce + 0 + (k - 1)
                  /\ p[k].req.needsAuth <=> view.code = "none"
                  /\ view.code # "foreign"
  <2>1. CASE k = 1 /\ p[k] = w
    BY <1>3, <1>4, <2>1
  <2>2. CASE k - 1 \in 1..Len(q) /\ p[k] = q[k - 1]
    <3>1. view.nonce \in Int /\ k \in Int /\ Len(q) \in Nat /\ Len(p) = Len(q) + 1
      BY <1>1, <1>2
    <3>2. view.nonce + 1 + ((k - 1) - 1) = view.nonce + 0 + (k - 1)
      BY <3>1
    <3>3. k - 1 = Len(q) => k = Len(p)
      BY <3>1
    <3> QED
      BY <2>2, <3>2, <3>3 DEF Ending
  <2> QED
    BY <1>5, <2>1, <2>2
<1>7. w.chain \in Chains /\ Len(p) > 0
  BY <1>1, <1>2 DEF Ready
<1>8. Ending(p, w.chain, view, 0)
  BY <1>2, <1>6, <1>7 DEF Ending, S
<1> QED
  BY <1>5, <1>8 DEF p

LEMMA NothingBefore ==
  ASSUME NEW q, NEW chain, NEW view, Ending(q, chain, view, 0)
  PROVE  <<>> \o q = q
BY ConcatEmptySeq DEF Ending

LEMMA SameToken ==
  ASSUME NEW s \in Tokens, NEW t \in Tokens, SameTokenIdentity(s, t)
  PROVE  s = t
<1>1. \A u \in Tokens : u \in [chain : STRING, address : STRING]
  BY WorldAssumption DEF Tokens
<1> QED
  BY <1>1 DEF SameTokenIdentity

LEMMA SupplyTail ==
  ASSUME NEW m, Listed(m), NEW a, Amount(a), a.token = m.token, NEW opts, NEW view, ViewOK(view),
         NEW before \in Nat, NEW r, r = SupplySteps(m, a, opts, view, before), r.ok
  PROVE  /\ Ending(r.steps, m.chain, view, before)
         /\ \A k \in 1..Len(r.steps) : ~CarriesRaw(r.steps[k])
<1> DEFINE approve == ApproveTx(a.token, m.id, a.amt)
           plain == SupplyTx(m, a.amt)
           gasless == GaslessSupplyTx(m, a.amt)
<1>1. m.id \in Ids /\ m.id \in Spenders /\ m.chain \in Chains /\ a.token \in Tokens /\ a.amt \in Nat
  BY ListingIn DEF Listed, Spenders, Amount
<1>2. /\ approve \in ApproveCalls /\ plain \in SupplyCalls
      /\ gasless = [fn |-> "supply", market |-> m.id, amt |-> a.amt, credit |-> "user"]
  BY <1>1 DEF ApproveTx, SupplyTx, GaslessSupplyTx, ApproveCalls, SupplyCalls
<1>3. gasless \in SupplyCalls
  BY <1>1, <1>2 DEF SupplyCalls
<1>4. approve \in Calls /\ plain \in Calls /\ plain \in Uses /\ gasless \in Uses /\ gasless \in Calls
  BY <1>2, <1>3 DEF Calls, Uses
<1>40. approve \notin BridgeCalls /\ plain \notin BridgeCalls /\ gasless \notin BridgeCalls
  BY <1>2, <1>3, <1>4, CallKinds
<1> HIDE DEF approve, plain, gasless
<1>5. CASE opts = "delegate" /\ ~CannotDelegate(view)
  <2> DEFINE req == SignRequest7702(view, <<approve, plain>>, before)
             x == Unsigned("supply_with_7702", m.chain, req)
  <2>1. r.steps = <<x>>
    BY <1>5 DEF SupplySteps, approve, plain
  <2>2. /\ req \in Batches /\ req.authNonce = view.nonce + before
        /\ req.needsAuth <=> view.code = "none"
    <3> DEFINE fresh == (view.code = "none")
    <3>1. req = [fn |-> "batch", calls |-> <<approve, plain>>, nonce |-> view.seq,
                 authNonce |-> view.nonce + before, needsAuth |-> fresh]
      BY DEF SignRequest7702
    <3>2. fresh \in BOOLEAN
      OBVIOUS
    <3>3. <<approve, plain>> \in ApproveCalls \X Uses
      BY <1>2, <1>4
    <3> HIDE DEF fresh, req
    <3>4. /\ req \in Batches /\ req.authNonce = view.nonce + before /\ req.needsAuth = fresh
      BY <3>1, <3>2, <3>3 DEF Batches, ViewOK
    <3> QED
      BY <3>4 DEF fresh
  <2> HIDE DEF req
  <2>3. x \in Wanted /\ x.req = req /\ x.chain = m.chain
    BY <1>1, <2>2 DEF Unsigned, Wanted, Kinds
  <2>4. ~CarriesRaw(x)
    <3>1. req \notin Permits /\ req.calls[2] = plain
      BY <2>2 DEF req, SignRequest7702, Batches, Permits
    <3>2. x \notin Ready
      BY <2>2, <2>3 DEF Ready, NoTx, Batches
    <3> QED
      BY <1>40, <2>3, <3>1, <3>2 DEF CarriesRaw
  <2> HIDE DEF x
  <2>5. Ending(<<x>>, m.chain, view, before)
    BY <1>5, <2>2, <2>3, OneStep DEF ViewOK, CannotDelegate
  <2> QED
    BY <2>1, <2>4, <2>5
<1>6. CASE opts = "defivm" /\ m.protocol # "aave_v4"
  <2> DEFINE req == SignRequestPermit2(view, a, m.id, gasless)
             x == Unsigned("supply_with_permit2", m.chain, req)
  <2>1. r.steps = <<x>>
    BY <1>6 DEF SupplySteps, gasless
  <2>2. req \in Permits /\ req \notin Batches /\ req.call = gasless
    <3>1. /\ req.fn = "permit2" /\ req.call = gasless /\ req.amt = a.amt /\ req.token = a.token
          /\ req \in [fn : {"permit2"}, token : Tokens, amt : Nat, nonce : Nat, spender : Spenders,
                      call : Uses, approve : BOOLEAN, reset : BOOLEAN]
      BY <1>1, <1>4 DEF SignRequestPermit2, ViewOK
    <3>2. gasless \notin BridgeCalls
      BY <1>2, <1>4, CallKinds
    <3>3. Exact(req)
      BY <1>2, <3>1, <3>2 DEF Exact, Listed
    <3> QED
      BY <3>1, <3>3 DEF Permits, Batches
  <2> HIDE DEF req
  <2>3. x \in Wanted /\ x.req = req /\ x.chain = m.chain
    BY <1>1, <2>2 DEF Unsigned, Wanted, Kinds
  <2>4. ~CarriesRaw(x)
    <3>1. x \notin Ready
      BY <2>2, <2>3 DEF Ready, NoTx, Permits
    <3> QED
      BY <1>40, <2>2, <2>3, <3>1 DEF CarriesRaw
  <2> HIDE DEF x
  <2>5. Ending(<<x>>, m.chain, view, before)
    BY <2>2, <2>3, OneStep DEF ViewOK
  <2> QED
    BY <2>1, <2>4, <2>5
<1>7. CASE opts \notin {"delegate", "defivm"}
  <2> DEFINE x == Step("approve", m.chain, approve)
             y == Step("supply", m.chain, plain)
  <2>1. r.steps = <<x, y>>
    BY <1>7 DEF SupplySteps, approve, plain
  <2>2. x \in Ready /\ y \in Ready /\ x.chain = m.chain /\ y.chain = m.chain
        /\ x.tx = approve /\ y.tx = plain
    BY <1>1, <1>4 DEF Step, Ready, Kinds
  <2>3. x \notin Wanted /\ y \notin Wanted
    BY <1>2, <2>2 DEF Wanted, NoTx, ApproveCalls, SupplyCalls
  <2>4. ~CarriesRaw(x) /\ ~CarriesRaw(y)
    BY <1>40, <2>2, <2>3 DEF CarriesRaw
  <2> HIDE DEF x, y
  <2>5. Ending(<<x, y>>, m.chain, view, before)
    BY <1>40, <2>2, TwoSteps
  <2>6. \A k \in 1..Len(<<x, y>>) : <<x, y>>[k] = x \/ <<x, y>>[k] = y
    <3>1. Len(<<x, y>>) = 2 /\ \A k \in 1..2 : k = 1 \/ k = 2
      OBVIOUS
    <3> QED
      BY <3>1
  <2> QED
    BY <2>1, <2>4, <2>5, <2>6
<1>8. opts = "delegate" => ~CannotDelegate(view)
  BY DEF SupplySteps, Raised
<1>9. opts = "defivm" => m.protocol # "aave_v4"
  BY DEF SupplySteps, Raised
<1> QED
  BY <1>5, <1>6, <1>7, <1>8, <1>9

\* A bridge that leads to the token's chain pays out that token.
LEMMA PaysOut ==
  ASSUME NEW token \in Tokens, NEW b, b.dst = token.chain
  PROVE  [chain |-> b.dst, address |-> token.address] = token
<1>1. token \in [chain : STRING, address : STRING]
  BY WorldAssumption DEF Tokens
<1> QED
  BY <1>1

LEMMA BridgeTail ==
  ASSUME NEW b, NEW a, Amount(a), a.token.chain = b.src,
         NEW token \in Tokens, b.dst = token.chain, NEW view,
         NEW before, NEW r, r = BridgeSteps(b, a, token), r.ok
  PROVE  /\ Ending(r.steps, b.src, view, before)
         /\ \A k \in 1..Len(r.steps) :
              /\ r.steps[k] \in Ready
              /\ \A pending : token = pending.token =>
                   Outbound(r.steps[k].tx, b.src, pending, Least(a.amt))
<1> DEFINE approve == ApproveTx(a.token, "bridge", a.amt)
           send == BridgeTx(b, a, token)
           x == Step("approve", b.src, approve)
           y == Step("bridge", b.src, send)
<1>1. r.steps = <<x, y>>
  BY DEF BridgeSteps, Raised
<1>2. b.src \in Chains /\ a.token \in Tokens /\ a.amt \in Nat \ {0} /\ "bridge" \in Spenders
  BY DEF Chains, Amount, Spenders
<1>3. /\ approve \in ApproveCalls /\ send \in BridgeCalls
      /\ send.from = a.token /\ send.token = token /\ send.compose = NoTx /\ send.amt = a.amt
  <2>1. send = [fn |-> "bridge", from |-> a.token, amt |-> a.amt, token |-> token,
                compose |-> NoTx]
    BY PaysOut DEF BridgeTx
  <2> HIDE DEF send
  <2> QED
    BY <1>2, <2>1 DEF ApproveTx, ApproveCalls, BridgeCalls, Usable
<1>4. approve \in Calls /\ send \in Calls
  BY <1>3 DEF Calls, Uses
<1> HIDE DEF approve, send
<1>5. x \in Ready /\ y \in Ready /\ x.chain = b.src /\ y.chain = b.src /\ x.tx = approve /\ y.tx = send
  BY <1>2, <1>4 DEF Step, Ready, Kinds
<1>6. approve \notin BridgeCalls
  BY <1>3, <1>4, CallKinds
<1> HIDE DEF x, y
<1>7. Ending(<<x, y>>, b.src, view, before)
  BY <1>5, <1>6, TwoSteps
<1>8. \A pending : token = pending.token =>
        /\ Outbound(x.tx, b.src, pending, Least(a.amt))
        /\ Outbound(y.tx, b.src, pending, Least(a.amt))
  BY <1>3, <1>5 DEF Outbound
<1>9. \A k \in 1..Len(<<x, y>>) : <<x, y>>[k] = x \/ <<x, y>>[k] = y
  <2>1. Len(<<x, y>>) = 2 /\ \A k \in 1..2 : k = 1 \/ k = 2
    OBVIOUS
  <2> QED
    BY <2>1
<1> QED
  BY <1>1, <1>5, <1>7, <1>8, <1>9

Whole(r) ==
  /\ r.ok = TRUE
  /\ r = [ok |-> r.ok, strategy |-> r.strategy, source |-> r.source, steps |-> r.steps,
          target |-> r.target, pending |-> r.pending]

Planned(r, a, view) ==
  /\ Whole(r)
  /\ Ending(r.steps, r.source, view, 0) /\ r.source = a.token.chain
  /\ r.pending = NoMarket \/ Listed(r.pending)
  /\ r.pending # NoMarket =>
       /\ r.source # r.pending.chain
       /\ \A k \in 1..Len(r.steps) :
            r.steps[k] \in Ready /\ Outbound(r.steps[k].tx, r.source, r.pending, Least(a.amt))

LEMMA RouteWhole ==
  ASSUME NEW strategy, NEW chain, NEW first, NEW tail, NEW target, NEW pending, NEW r,
         r = Route(strategy, chain, first, tail, target, pending), r.ok
  PROVE  Whole(r)
<1> DEFINE steps == first \o tail.steps
<1>1. r = [ok |-> TRUE, strategy |-> strategy, source |-> chain, steps |-> steps,
           target |-> target, pending |-> pending]
  BY DEF Route, Raised
<1> HIDE DEF steps
<1> QED
  BY <1>1 DEF Whole

\* A route with nothing to withdraw first.
LEMMA DirectRoute ==
  ASSUME NEW strategy, NEW chain, NEW tail, NEW target, NEW a, NEW view, NEW r,
         r = Route(strategy, chain, <<>>, tail, target, NoMarket), r.ok,
         tail.ok => Ending(tail.steps, chain, view, 0), chain = a.token.chain
  PROVE  Planned(r, a, view)
<1>1. tail.ok /\ Whole(r)
  BY RouteWhole DEF Route, Raised
<1>2. r.steps = <<>> \o tail.steps /\ r.source = chain /\ r.pending = NoMarket
  BY <1>1 DEF Route
<1>3. r.steps = tail.steps
  BY <1>1, <1>2, NothingBefore
<1> QED
  BY <1>1, <1>2, <1>3 DEF Planned

LEMMA WithdrawPlan ==
  ASSUME NEW a, Amount(a), NEW source, Listed(source), NEW target, Listed(target), NEW b,
         NEW opts, NEW view, ViewOK(view), NEW r,
         r = WithdrawThenSupply(a, source, target, b, opts, view), r.ok
  PROVE  Planned(r, a, view)
<1> DEFINE w == Step("withdraw", source.chain, WithdrawTx(source, a.amt))
           same == source.chain = target.chain
           into == SupplySteps(target, a, opts, view, 1)
           over == BridgeSteps(b, a, target.token)
<1>1. /\ source.token \in Tokens /\ target.token \in Tokens
      /\ source.chain = source.token.chain /\ target.chain = target.token.chain
      /\ source.id \in Ids /\ source.chain \in Chains
      /\ source.token = Listing(source.id).token
  BY ListingIn DEF Listed, Chains
<1>2. /\ SameTokenIdentity(a.token, source.token)
      /\ same => SameTokenIdentity(a.token, target.token)
      /\ ~same => b.src = source.chain /\ b.dst = target.chain
  BY DEF WithdrawThenSupply, Raised
<1>3. a.token = source.token /\ (same => a.token = target.token)
  BY <1>1, <1>2, SameToken DEF Amount
<1>4. w \in Ready /\ w.chain = source.chain /\ w.tx = WithdrawTx(source, a.amt) /\ w.tx \in WithdrawCalls
  <2>1. WithdrawTx(source, a.amt) \in WithdrawCalls
    BY <1>1 DEF WithdrawTx, WithdrawCalls, Amount
  <2>2. WithdrawTx(source, a.amt) \in Calls
    BY <2>1 DEF Calls
  <2> QED
    BY <1>1, <2>1, <2>2 DEF Step, Ready, Kinds
<1>5. w.tx \notin BridgeCalls
  BY <1>4, CallKinds DEF Calls
<1>6. \A pending, least : Outbound(w.tx, source.chain, pending, least)
  <2>1. w.tx.market = source.id
    BY <1>4 DEF WithdrawTx
  <2> QED
    BY <1>1, <1>4, <2>1 DEF Outbound
<1>7. Len(<<w>>) = 1
  OBVIOUS
<1>8. CASE same
  <2>1. r = Route("withdraw_then_supply", source.chain, <<w>>, into, target, NoMarket)
    BY <1>2, <1>7, <1>8 DEF WithdrawThenSupply, Raised
  <2> HIDE DEF w
  <2>2. /\ into.ok /\ r.steps = <<w>> \o into.steps /\ r.source = source.chain
        /\ r.pending = NoMarket
    BY <2>1 DEF Route, Raised
  <2>3. Ending(into.steps, target.chain, view, 1)
    BY <1>3, <1>8, <2>2, SupplyTail
  <2>4. Ending(<<w>> \o into.steps, source.chain, view, 0)
    BY <1>4, <1>5, <1>8, <2>3, Prefixed DEF ViewOK
  <2> QED
    BY <1>1, <1>3, <2>1, <2>2, <2>4, RouteWhole DEF Planned
<1>9. CASE ~same
  <2>1. r = Route("withdraw_then_supply", source.chain, <<w>>, over, target, target)
    BY <1>2, <1>9 DEF WithdrawThenSupply, Raised
  <2> HIDE DEF w
  <2>2. /\ over.ok /\ r.steps = <<w>> \o over.steps /\ r.source = source.chain
        /\ r.pending = target
    BY <2>1 DEF Route, Raised
  <2>3. /\ Ending(over.steps, b.src, view, 1)
        /\ \A k \in 1..Len(over.steps) :
             /\ over.steps[k] \in Ready
             /\ \A pending : target.token = pending.token =>
                  Outbound(over.steps[k].tx, b.src, pending, Least(a.amt))
    <3>1. a.token.chain = b.src /\ b.dst = target.token.chain
      BY <1>1, <1>2, <1>3, <1>9
    <3>2. target.token \in Tokens /\ over.ok
      BY <1>1, <2>2
    <3> QED
      BY <3>1, <3>2, BridgeTail
  <2>4. /\ Ending(<<w>> \o over.steps, source.chain, view, 0)
        /\ \A k \in 1..Len(<<w>> \o over.steps) :
             \/ (<<w>> \o over.steps)[k] = w
             \/ \E j \in 1..Len(over.steps) : (<<w>> \o over.steps)[k] = over.steps[j]
    <3>1. w.chain = b.src /\ view.nonce \in Nat
      BY <1>2, <1>4, <1>9 DEF ViewOK
    <3>2. Ending(over.steps, w.chain, view, 1) /\ w.chain = source.chain
      BY <1>4, <2>3, <3>1
    <3>3. w \in Ready /\ w.tx \notin BridgeCalls
      BY <1>4, <1>5
    <3> HIDE DEF over, same
    <3> QED
      BY <3>1, <3>2, <3>3, Prefixed
  <2>5. \A k \in 1..Len(r.steps) :
          r.steps[k] \in Ready /\ Outbound(r.steps[k].tx, r.source, r.pending, Least(a.amt))
    BY <1>2, <1>4, <1>6, <1>9, <2>2, <2>3, <2>4
  <2>6. Whole(r)
    BY <2>1, RouteWhole
  <2>7. Ending(r.steps, r.source, view, 0) /\ r.source = a.token.chain
    BY <1>1, <1>3, <2>2, <2>4
  <2>8. Listed(r.pending) /\ r.source # r.pending.chain
    BY <1>9, <2>2
  <2> HIDE DEF same, over
  <2> QED
    BY <2>5, <2>6, <2>7, <2>8 DEF Planned
<1> QED
  BY <1>8, <1>9

LEMMA SupplyPlan ==
  ASSUME NEW a, Amount(a), NEW target, Listed(target), NEW targetChain,
         NEW opts, NEW view, ViewOK(view), NEW r,
         r = SupplyThenBridge(a, target, targetChain, opts, view), r.ok
  PROVE  Planned(r, a, view)
<1> DEFINE into == SupplySteps(target, a, opts, view, 0)
<1>1. /\ r = Route("supply_then_bridge", a.token.chain, <<>>, into, target, NoMarket)
      /\ target.chain = a.token.chain /\ SameTokenIdentity(a.token, target.token)
  BY DEF SupplyThenBridge, Raised
<1>2. a.token = target.token
  BY <1>1, ListingIn, SameToken DEF Amount, Listed
<1>3. into.ok => Ending(into.steps, target.chain, view, 0)
  BY <1>2, SupplyTail
<1> HIDE DEF into
<1> QED
  BY <1>1, <1>3, DirectRoute

LEMMA BridgePlan ==
  ASSUME NEW a, Amount(a), NEW target, Listed(target), NEW b \in Bridges \cup {NoBridge},
         NEW view, ViewOK(view), NEW r, r = BridgeThenSupply(a, target, b), r.ok
  PROVE  Planned(r, a, view)
<1> DEFINE over == BridgeSteps(b, a, target.token)
<1>1. /\ r = Route("bridge_then_supply", b.src, <<>>, over, target, target)
      /\ b # NoBridge /\ a.token.chain = b.src /\ target.chain = b.dst
  BY DEF BridgeThenSupply, Raised
<1>2. target.token \in Tokens /\ b.dst = target.token.chain
  BY <1>1, ListingIn DEF Listed
<1>3. /\ over.ok /\ r.steps = <<>> \o over.steps /\ r.source = b.src
      /\ r.pending = target
  BY <1>1 DEF Route, Raised
<1>4. /\ Ending(over.steps, b.src, view, 0)
      /\ \A k \in 1..Len(over.steps) :
           /\ over.steps[k] \in Ready
           /\ \A pending : target.token = pending.token =>
                Outbound(over.steps[k].tx, b.src, pending, Least(a.amt))
  BY <1>1, <1>2, <1>3, BridgeTail
<1> HIDE DEF over
<1>5. r.steps = over.steps
  BY <1>3, <1>4, NothingBefore
<1>6. b.src # b.dst
  BY <1>1, BridgesAssumption
<1> QED
  BY <1>1, <1>3, <1>4, <1>5, <1>6, RouteWhole DEF Planned

LEMMA ComposePlan ==
  ASSUME NEW a, Amount(a), NEW target, Listed(target), NEW b,
         NEW opts, NEW view, ViewOK(view), NEW r,
         r = BuildComposeSupplyRoute(a, target, b, opts, view), r.ok
  PROVE  Planned(r, a, view)
<1> DEFINE program == ComposeSupplyProgram(target)
           tx == [BridgeTx(b, a, target.token) EXCEPT !.compose = program.call]
           approve == ApproveTx(a.token, "bridge", a.amt)
           one == SignRequest7702(view, <<approve, tx>>, 0)
           two == SignRequestPermit2(view, a, "bridge", tx)
           x == Unsigned("bridge_with_7702", b.src, one)
           y == Unsigned("bridge_with_permit2", b.src, two)
           p == Step("approve", b.src, approve)
           q == Step("bridge", b.src, tx)
           steps == CASE opts = "delegate" -> <<x>>
                      [] opts = "defivm" -> <<y>>
                      [] OTHER -> <<p, q>>
           tail == [ok |-> TRUE, steps |-> steps]
<1>1. /\ r = Route("compose_supply", b.src, <<>>, tail, target, NoMarket)
      /\ a.token.chain = b.src /\ target.chain = b.dst /\ program.ok
      /\ ~(opts = "delegate" /\ CannotDelegate(view))
  <2>1. <<approve, tx>>[1] = approve
    OBVIOUS
  <2> QED
    BY <2>1 DEF BuildComposeSupplyRoute, Raised
<1>2. /\ b.src \in Chains /\ a.token \in Tokens /\ a.amt \in Nat \ {0} /\ "bridge" \in Spenders
      /\ target.token \in Tokens /\ target.id \in Ids
      /\ target.token = Listing(target.id).token /\ b.dst = target.token.chain
  BY <1>1, ListingIn DEF Chains, Amount, Spenders, Listed
<1>3. program.call \in Programs /\ program.call.market = target.id
  BY <1>1, <1>2 DEF ComposeSupplyProgram, Raised, Programs
<1>4. tx \in BridgeCalls /\ tx.from = a.token /\ tx.amt = a.amt /\ approve \in ApproveCalls
  <2> DEFINE call == program.call
  <2> HIDE DEF program, call
  <2>1. program.call = call /\ call \in Programs /\ call.market = target.id
    BY <1>3 DEF call
  <2>2. tx = [fn |-> "bridge", from |-> a.token, amt |-> a.amt, token |-> target.token,
              compose |-> call]
    BY <1>2, <2>1, PaysOut DEF BridgeTx
  <2> HIDE DEF tx
  <2> QED
    BY <1>2, <2>1, <2>2 DEF BridgeCalls, Usable, ApproveTx, ApproveCalls
<1> HIDE DEF program, tx, approve
<1>5. approve \in Calls /\ tx \in Calls /\ tx \in Uses /\ approve \notin BridgeCalls
  <2>1. approve \in Calls /\ tx \in Calls /\ tx \in Uses
    BY <1>4 DEF Calls, Uses
  <2> QED
    BY <1>4, <2>1, CallKinds
<1>6. CASE opts = "delegate"
  <2> DEFINE fresh == (view.code = "none")
  <2>1. one = [fn |-> "batch", calls |-> <<approve, tx>>, nonce |-> view.seq,
               authNonce |-> view.nonce + 0, needsAuth |-> fresh]
    BY DEF SignRequest7702
  <2>2. fresh \in BOOLEAN /\ <<approve, tx>> \in ApproveCalls \X Uses
    BY <1>4, <1>5
  <2> HIDE DEF fresh, one
  <2>3. one \in Batches /\ one.authNonce = view.nonce + 0 /\ one.needsAuth = fresh
    BY <2>1, <2>2 DEF Batches, ViewOK
  <2>4. x \in Wanted /\ x.req = one /\ x.chain = b.src
    BY <1>2, <2>3 DEF Unsigned, Wanted, Kinds
  <2> HIDE DEF x
  <2>5. Ending(<<x>>, b.src, view, 0)
    BY <1>1, <1>6, <2>3, <2>4, OneStep DEF ViewOK, fresh, CannotDelegate
  <2>6. tail.steps = <<x>>
    BY <1>6
  <2> HIDE DEF tail
  <2> QED
    BY <1>1, <2>5, <2>6, DirectRoute
<1>7. CASE opts = "defivm"
  <2>1. two \in Permits /\ two \notin Batches
    <3>1. /\ two.fn = "permit2" /\ two.call = tx /\ two.amt = a.amt /\ two.token = a.token
          /\ two \in [fn : {"permit2"}, token : Tokens, amt : Nat, nonce : Nat, spender : Spenders,
                      call : Uses, approve : BOOLEAN, reset : BOOLEAN]
      BY <1>2, <1>5 DEF SignRequestPermit2, ViewOK
    <3>2. tx \notin SupplyCalls
      BY <1>4, <1>5, CallKinds
    <3>3. Exact(two)
      BY <1>4, <3>1, <3>2 DEF Exact
    <3> QED
      BY <3>1, <3>3 DEF Permits, Batches
  <2> HIDE DEF two
  <2>2. y \in Wanted /\ y.req = two /\ y.chain = b.src
    BY <1>2, <2>1 DEF Unsigned, Wanted, Kinds
  <2> HIDE DEF y
  <2>3. Ending(<<y>>, b.src, view, 0)
    BY <2>1, <2>2, OneStep DEF ViewOK
  <2>4. tail.steps = <<y>>
    BY <1>7
  <2> HIDE DEF tail
  <2> QED
    BY <1>1, <2>3, <2>4, DirectRoute
<1>8. CASE opts \notin {"delegate", "defivm"}
  <2>1. p \in Ready /\ q \in Ready /\ p.chain = b.src /\ q.chain = b.src /\ p.tx = approve
    BY <1>2, <1>5 DEF Step, Ready, Kinds
  <2> HIDE DEF p, q
  <2>2. Ending(<<p, q>>, b.src, view, 0)
    BY <1>5, <2>1, TwoSteps
  <2>3. tail.steps = <<p, q>>
    BY <1>8
  <2> HIDE DEF tail
  <2> QED
    BY <1>1, <2>2, <2>3, DirectRoute
<1> QED
  BY <1>6, <1>7, <1>8

LEMMA YieldPlan ==
  ASSUME NEW strategy, NEW a, Amount(a), NEW source, NEW target, Listed(target),
         strategy = "withdraw_then_supply" => Listed(source),
         NEW b \in Bridges \cup {NoBridge}, NEW opts, NEW view, ViewOK(view), NEW r,
         r = BuildYieldRoute(strategy, a, source, target, b, opts, view), r.ok
  PROVE  Planned(r, a, view)
<1>1. strategy \in {"withdraw_then_supply", "supply_then_bridge", "bridge_then_supply"}
  BY DEF BuildYieldRoute, Raised
<1>2. CASE strategy = "withdraw_then_supply"
  BY <1>2, WithdrawPlan DEF BuildYieldRoute
<1>3. CASE strategy = "supply_then_bridge"
  BY <1>3, SupplyPlan DEF BuildYieldRoute
<1>4. CASE strategy = "bridge_then_supply"
  BY <1>4, BridgePlan DEF BuildYieldRoute
<1> QED
  BY <1>1, <1>2, <1>3, <1>4

LEMMA FollowupPlan ==
  ASSUME NEW route0, Listed(route0.pending), NEW received, Amount(received), NEW chains,
         NEW opts, NEW view, ViewOK(view), NEW r,
         r = BuildFollowupRoute(route0, received, chains, opts, view), r.ok
  PROVE  /\ Planned(r, received, view) /\ r.pending = NoMarket
         /\ \A k \in 1..Len(r.steps) : ~CarriesRaw(r.steps[k])
<1> DEFINE m == route0.pending
           into == SupplySteps(m, received, opts, view, 0)
<1>1. /\ r = Route(route0.strategy, m.chain, <<>>, into, m, NoMarket)
      /\ SameTokenIdentity(received.token, m.token)
  BY DEF BuildFollowupRoute, Raised
<1>2. received.token = m.token
  BY <1>1, ListingIn, SameToken DEF Amount, Listed
<1>3. into.ok => /\ Ending(into.steps, m.chain, view, 0)
                 /\ \A k \in 1..Len(into.steps) : ~CarriesRaw(into.steps[k])
  BY <1>2, SupplyTail
<1> HIDE DEF into, m
<1>4. Planned(r, received, view)
  <2>1. m.chain = received.token.chain
    BY <1>2 DEF Listed, m
  <2> QED
    BY <1>1, <1>3, <2>1, DirectRoute
<1>5. into.ok /\ r.steps = <<>> \o into.steps /\ r.pending = NoMarket
  BY <1>1 DEF Route, Raised
<1>6. r.steps = into.steps
  BY <1>3, <1>5, NothingBefore
<1> QED
  BY <1>3, <1>4, <1>5, <1>6

\* A batch counts the steps the route itself sends before it.
Counted(steps, view) ==
  \A k \in 1..Len(steps) :
    IsBatch(steps[k].tx) =>
      /\ k = Len(steps)
      /\ steps[k].tx.req.authNonce = view.nonce + (k - 1)
      /\ steps[k].tx.req.needsAuth <=> view.code = "none"
      /\ view.code # "foreign"

\* A route that ends elsewhere only prepares the bridge.
AllOutbound(r, least) ==
  r.pending # NoMarket =>
    /\ r.source # r.pending.chain
    /\ \A k \in 1..Len(r.steps) : Outbound(r.steps[k].tx, r.source, r.pending, least)

LEMMA SignedSame ==
  ASSUME NEW a, NEW view, NEW r, Planned(r, a, view), NEW d
  PROVE  /\ SignRoute(r, d).ok = TRUE
         /\ SignRoute(r, d).source = r.source
         /\ SignRoute(r, d).pending = r.pending
         /\ SignRoute(r, d).target = r.target
<1> DEFINE sign(x) == IF x.req = NoTx THEN x
                      ELSE [x EXCEPT !.tx = [fn |-> "gasless", req |-> x.req, deadline |-> d],
                                     !.req = NoTx]
           p == [k \in DOMAIN r.steps |-> sign(r.steps[k])]
<1>1. SignRoute(r, d) = [r EXCEPT !.steps = p]
  BY DEF SignRoute
<1> HIDE DEF p
<1>2. r = [ok |-> r.ok, strategy |-> r.strategy, source |-> r.source, steps |-> r.steps,
           target |-> r.target, pending |-> r.pending] /\ r.ok = TRUE
  BY DEF Planned, Whole
<1> QED
  BY <1>1, <1>2

LEMMA PlannedSigned ==
  ASSUME NEW a, Amount(a), NEW view, ViewOK(view), NEW r, Planned(r, a, view), NEW d \in Nat
  PROVE  /\ Shaped(SignRoute(r, d).steps, r.source)
         /\ Counted(SignRoute(r, d).steps, view)
         /\ AllOutbound(SignRoute(r, d), Least(a.amt))
         /\ Len(SignRoute(r, d).steps) = Len(r.steps)
         /\ \A k \in 1..Len(r.steps) : Carries(SignRoute(r, d).steps[k].tx) => CarriesRaw(r.steps[k])
<1> DEFINE S == Ready \cup Wanted
           q == r.steps
           s == SignRoute(r, d)
           sign(x) == IF x.req = NoTx THEN x
                      ELSE [x EXCEPT !.tx = [fn |-> "gasless", req |-> x.req, deadline |-> d],
                                     !.req = NoTx]
           p == [k \in DOMAIN q |-> sign(q[k])]
<1>1. q \in Seq(S) /\ Len(q) > 0 /\ Len(q) \in Nat /\ DOMAIN q = 1..Len(q) /\ r.source \in Chains
  BY DEF Planned, Ending
<1>2. s = [r EXCEPT !.steps = p]
  BY DEF SignRoute
<1>3. s.source = r.source /\ s.pending = r.pending /\ s.steps = p
  <2>1. s.source = r.source /\ s.pending = r.pending
    BY SignedSame
  <2> HIDE DEF p, s
  <2>2. r = [ok |-> r.ok, strategy |-> r.strategy, source |-> r.source, steps |-> r.steps,
             target |-> r.target, pending |-> r.pending] /\ r.ok = TRUE
    BY DEF Planned, Whole
  <2> QED
    BY <1>2, <2>1, <2>2
<1> HIDE DEF s
<1>4. ASSUME NEW x \in Ready
      PROVE  /\ sign(x) = x /\ x \in Steps /\ x \notin Wanted /\ ~IsBatch(x.tx) /\ x.tx \notin Gasless
             /\ (Carries(x.tx) <=> CarriesRaw(x))
  <2>1. x.req = NoTx /\ x.tx \in Calls
    BY DEF Ready
  <2>2. x.tx.fn # "none" /\ x.tx.fn # "gasless"
    BY <2>1, CallKinds
  <2>3. x \notin Wanted /\ x.tx \notin Gasless
    BY <2>2 DEF Wanted, NoTx, Gasless
  <2> QED
    BY <2>1, <2>3 DEF Ready, Steps, Carries, CarriesRaw, IsBatch
<1>5. ASSUME NEW x \in Wanted
      PROVE  /\ sign(x) \in Steps /\ sign(x).chain = x.chain
             /\ sign(x).tx \in Gasless /\ sign(x).tx.req = x.req
             /\ (Carries(sign(x).tx) <=> CarriesRaw(x))
             /\ (IsBatch(sign(x).tx) <=> x.req \in Batches)
  <2> DEFINE g == [fn |-> "gasless", req |-> x.req, deadline |-> d]
  <2>1. x.req \in Batches \cup Permits /\ x.req # NoTx
    <3>1. x.req \in Batches \cup Permits
      BY DEF Wanted
    <3>2. x.req.fn \in {"batch", "permit2"}
      BY <3>1 DEF Batches, Permits
    <3> QED
      BY <3>1, <3>2 DEF NoTx
  <2>2. g \in Gasless /\ g.req = x.req /\ g.fn = "gasless"
    BY <2>1 DEF Gasless
  <2>3. sign(x) = [x EXCEPT !.tx = g, !.req = NoTx]
    BY <2>1
  <2> HIDE DEF g, sign
  <2>4. sign(x) \in Steps /\ sign(x).chain = x.chain /\ sign(x).tx = g
    BY <2>2, <2>3 DEF Wanted, Steps
  <2>5. g \notin BridgeCalls /\ x \notin Ready
    <3>1. g \notin BridgeCalls
      BY <2>2 DEF BridgeCalls
    <3>2. x \in Ready => x \notin Wanted
      BY <1>4
    <3> QED
      BY <3>1, <3>2
  <2> QED
    BY <2>2, <2>4, <2>5 DEF Carries, CarriesRaw, IsBatch
<1>6. /\ p \in Seq(Steps) /\ Len(p) = Len(q)
      /\ \A k \in 1..Len(q) : p[k] = sign(q[k]) /\ q[k] \in S
  <2>1. \A k \in 1..Len(q) : q[k] \in S
    BY <1>1
  <2>2. \A x \in S : sign(x) \in Steps
    <3> HIDE DEF sign
    <3> QED
      BY <1>4, <1>5
  <2> HIDE DEF sign, S
  <2>3. p \in [1..Len(q) -> Steps]
    BY <1>1, <2>1, <2>2
  <2> QED
    BY <1>1, <2>1, <2>3
<1> HIDE DEF p, sign
<1>7. ASSUME NEW k \in 1..Len(p)
      PROVE  /\ p[k].chain = r.source /\ (Carries(p[k].tx) \/ p[k].tx \in Gasless => k = Len(p))
             /\ (Carries(p[k].tx) => CarriesRaw(q[k]))
             /\ IsBatch(p[k].tx) =>
                  /\ k = Len(p)
                  /\ p[k].tx.req.authNonce = view.nonce + (k - 1)
                  /\ p[k].tx.req.needsAuth <=> view.code = "none"
                  /\ view.code # "foreign"
             /\ r.pending # NoMarket => Outbound(p[k].tx, r.source, r.pending, Least(a.amt))
  <2>1. k \in 1..Len(q) /\ p[k] = sign(q[k])
    BY <1>6
  <2>2. /\ q[k].chain = r.source /\ (CarriesRaw(q[k]) \/ q[k] \in Wanted => k = Len(q))
        /\ q[k] \in Wanted /\ q[k].req \in Batches =>
             /\ k = Len(q)
             /\ q[k].req.authNonce = view.nonce + 0 + (k - 1)
             /\ q[k].req.needsAuth <=> view.code = "none"
             /\ view.code # "foreign"
    BY <2>1 DEF Planned, Ending
  <2>3. view.nonce + 0 + (k - 1) = view.nonce + (k - 1)
    BY <2>1, <1>1 DEF ViewOK
  <2>4. r.pending # NoMarket => q[k] \in Ready /\ Outbound(q[k].tx, r.source, r.pending, Least(a.amt))
    BY <2>1 DEF Planned
  <2>5. CASE q[k] \in Ready
    BY <1>4, <1>6, <2>1, <2>2, <2>4, <2>5
  <2>6. CASE q[k] \in Wanted
    <3>1. q[k] \notin Ready
      BY <1>4, <2>6
    <3> QED
      BY <1>5, <1>6, <2>1, <2>2, <2>3, <2>4, <2>6, <3>1
  <2> QED
    BY <1>6, <2>1, <2>5, <2>6
<1>8. Shaped(p, r.source)
  BY <1>1, <1>6, <1>7 DEF Shaped
<1>9. Counted(p, view)
  BY <1>7 DEF Counted
<1>10. AllOutbound(s, Least(a.amt))
  BY <1>3, <1>7 DEF AllOutbound, Planned
<1> QED
  BY <1>3, <1>6, <1>7, <1>8, <1>9, <1>10 DEF s

LEMMA PlannedFrom ==
  ASSUME NEW a, NEW view, NEW r, Planned(r, a, view)
  PROVE  r.source = a.token.chain
BY DEF Planned

-----------------------------------------------------------------------------
(* The initial states, and the steps that only plan or look. *)

LEMMA InitInv == ASSUME Init PROVE IInv
<1>1. funds \in FundsSet /\ funds.transit = {} /\ IsFiniteSet(funds.transit)
  <2>1. funds.transit = {} /\ IsFiniteSet(funds.transit)
    BY FS_EmptySet DEF Init
  <2> QED
    BY <2>1, FundsAssumption DEF Init, FundsSet, Parties
<1>2. TypeOK
  <2>1. eoa \in [Chains -> [nonce : Nat, code : {"none", "foreign", "calibur"}, seq : Nat]]
    BY DEF Init
  <2>2. paused \subseteq Ids /\ rate \in [Ids -> Int] /\ at \in Nat /\ clock \in Nat /\ plans \in Nat
    BY RatesAssumption DEF Init
  <2>3. wait \in [pc : {"off", "sleep", "asked", "settled", "timeout", "failed"}, start : Nat,
                  min : Nat, deadline : Nat, wake : Nat, balance : Nat, got : Nat]
    BY DEF Init, Off
  <2>4. seen \in [external : Int, fees : Int, disturbed : BOOLEAN, void : BOOLEAN, landed : BOOLEAN,
                  readLanded : BOOLEAN, inflow : BOOLEAN, outflow : BOOLEAN, left : SUBSET Ids]
    BY DEF Init, Fresh
  <2> QED
    BY <1>1, <2>1, <2>2, <2>3, <2>4 DEF TypeOK
<1>3. VmEmpty
  BY DEF Init, VmEmpty, Parties
<1>4. Conserved
  <2>1. Moving(funds) = 0
    BY <1>1, SumEmpty DEF Moving
  <2>2. funds.bal["user"] = Purse /\ funds.pos["user"] = Start
    BY FundsAssumption DEF Init, Parties
  <2>3. SumFunctionOnSet(Purse, Tokens) \in Int /\ SumFunctionOnSet(Start, Ids) \in Int
    <3>1. Purse \in [Tokens -> Int] /\ Start \in [Ids -> Int]
      BY FundsAssumption
    <3> QED
      BY <3>1, Finite, SumInt
  <2>4. seen.fees = 0 /\ seen.external = 0
    BY DEF Init, Fresh
  <2> QED
    BY <2>1, <2>2, <2>3, <2>4 DEF Conserved, Wealth, Held, Given
<1>5. route = NoRoute /\ ~route.ok /\ wait.pc = "off" /\ ~seen.void /\ seen.left = {}
  BY DEF Init, NoRoute, Raised, Off, Fresh
<1>6. RouteFits /\ NotYetSent /\ BatchCounts /\ PendingFits /\ WaitFits /\ LeftBeaten
  BY <1>1, <1>5 DEF RouteFits, NotYetSent, BatchCounts, PendingFits, WaitFits, LeftBeaten, Ends
<1> QED
  BY <1>2, <1>3, <1>4, <1>6 DEF IInv

LEMMA SameMarkets ==
  ASSUME UNCHANGED <<rate, paused>>
  PROVE  Markets' = Markets
BY DEF Markets, Now, Pages

LEMMA LeastPositive ==
  ASSUME NEW n \in Nat \ {0}
  PROVE  Least(n) \in Nat /\ Least(n) > 0
BY FundsAssumption DEF Least

LEMMA ViewFits ==
  ASSUME IInv, NEW c \in Chains, NEW n \in Nat
  PROVE  /\ ViewOK(View(c, n))
         /\ View(c, n).nonce = eoa[c].nonce /\ View(c, n).code = eoa[c].code
<1>1. funds.allow["vm"] \in [Tokens -> [Spenders -> Int]]
  BY DEF IInv, TypeOK, FundsSet, Parties
<1>2. eoa[c] \in [nonce : Nat, code : {"none", "foreign", "calibur"}, seq : Nat]
  BY DEF IInv, TypeOK
<1> QED
  BY <1>1, <1>2 DEF View, ViewOK

LEMMA NonceIn ==
  ASSUME NEW n \in PickNonce
  PROVE  n \in Nat
BY FundsAssumption, TimesAssumption DEF PickNonce

LEMMA AdoptKeeps ==
  ASSUME IInv, route = NoRoute, NEW a, Amount(a), NEW n \in Nat, NEW r,
         Planned(r, a, View(a.token.chain, n)), NEW left, left \subseteq Ids,
         \A id \in left : \E h \in Markets : h.chain = Listing(id).chain /\ h.apy > rate[id],
         Adopt(r, a.amt, left), UNCHANGED <<funds, eoa, used, rate, paused, clock, others>>
  PROVE  IInv'
<1> DEFINE view == View(a.token.chain, n)
           d == clock + SignTtl
<1>0. a.token.chain \in Chains /\ a.amt \in Nat \ {0}
  BY DEF Amount, Chains
<1>1. /\ ViewOK(view) /\ view.nonce = eoa[a.token.chain].nonce /\ view.code = eoa[a.token.chain].code
  BY <1>0, ViewFits
<1>2. d \in Nat /\ plans \in Nat /\ clock \in Nat
  BY TimesAssumption DEF IInv, TypeOK
<1>3. route' = SignRoute(r, d) /\ at' = 1 /\ plans' = plans + 1
  BY DEF Adopt
<1> HIDE DEF view, d
<1>4. /\ route'.ok = TRUE /\ route'.source = a.token.chain /\ route'.pending = r.pending
      /\ Shaped(route'.steps, route'.source) /\ Counted(route'.steps, view)
      /\ AllOutbound(route', Least(a.amt))
  <2>1. Planned(r, a, view) /\ ViewOK(view) /\ d \in Nat
    BY <1>1, <1>2 DEF view
  <2>2. r.source = a.token.chain
    BY <2>1, PlannedFrom
  <2> DEFINE s == SignRoute(r, d)
  <2>3. s.ok = TRUE /\ s.source = r.source /\ s.pending = r.pending
    BY <2>1, SignedSame
  <2>4. Shaped(s.steps, r.source) /\ Counted(s.steps, view) /\ AllOutbound(s, Least(a.amt))
    BY <2>1, PlannedSigned
  <2> HIDE DEF s
  <2>5. route' = s
    BY <1>3 DEF s
  <2> QED
    BY <2>2, <2>3, <2>4, <2>5
<1>5. route'.pending = NoMarket \/ Listed(route'.pending)
  BY <1>4 DEF Planned
<1>6. Least(a.amt) \in Nat /\ Least(a.amt) > 0
  BY <1>0, LeastPositive
<1>7. /\ route'.pending = NoMarket => wait' = Off
      /\ route'.pending # NoMarket =>
           wait' = [Off EXCEPT !.start = funds.bal["user"][route'.pending.token],
                               !.min = Least(a.amt)]
  BY <1>4 DEF Adopt
<1>8. /\ route'.pending # NoMarket =>
           /\ route'.pending.token \in Tokens
           /\ funds.bal["user"][route'.pending.token] \in Nat
  <2>1. route'.pending # NoMarket => route'.pending.token \in Tokens
    BY <1>5, ListingIn DEF Listed
  <2> QED
    BY <2>1 DEF IInv, TypeOK, FundsSet, Parties
<1>9. /\ wait'.pc = "off"
      /\ wait' \in [pc : {"off", "sleep", "asked", "settled", "timeout", "failed"}, start : Nat,
                    min : Nat, deadline : Nat, wake : Nat, balance : Nat, got : Nat]
      /\ route'.pending # NoMarket => /\ wait'.start = funds.bal["user"][route'.pending.token]
                                     /\ wait'.min = Least(a.amt)
  <2>1. CASE route'.pending = NoMarket
    BY <1>7, <2>1 DEF Off
  <2>2. CASE route'.pending # NoMarket
    <3> DEFINE x == funds.bal["user"][route'.pending.token]
               y == Least(a.amt)
    <3>1. wait' = [Off EXCEPT !.start = x, !.min = y] /\ x \in Nat /\ y \in Nat
      BY <1>6, <1>7, <1>8, <2>2
    <3> HIDE DEF x, y
    <3> DEFINE w == [pc |-> "off", start |-> x, min |-> y, deadline |-> 0, wake |-> 0,
                     balance |-> 0, got |-> 0]
    <3>2. wait' = w
      BY <3>1 DEF Off
    <3>3. /\ w.pc = "off" /\ w.start = x /\ w.min = y
          /\ w \in [pc : {"off", "sleep", "asked", "settled", "timeout", "failed"}, start : Nat,
                    min : Nat, deadline : Nat, wake : Nat, balance : Nat, got : Nat]
      BY <3>1
    <3> HIDE DEF w
    <3> QED
      BY <3>2, <3>3 DEF x, y
  <2> QED
    BY <2>1, <2>2
<1>10. /\ seen' \in [external : Int, fees : Int, disturbed : BOOLEAN, void : BOOLEAN,
                     landed : BOOLEAN, readLanded : BOOLEAN, inflow : BOOLEAN, outflow : BOOLEAN,
                     left : SUBSET Ids]
       /\ seen'.external = seen.external /\ seen'.fees = seen.fees /\ seen'.left = left
       /\ seen'.disturbed = FALSE /\ seen'.void = FALSE /\ seen'.landed = FALSE
       /\ seen'.inflow = FALSE /\ seen'.outflow = FALSE
  BY DEF Adopt, IInv, TypeOK
<1>11. Len(route'.steps) \in Nat /\ Len(route'.steps) > 0
  BY <1>4 DEF Shaped
<1>12. TypeOK'
  BY <1>2, <1>3, <1>9, <1>10 DEF IInv, TypeOK
<1>13. VmEmpty' /\ Conserved'
  BY <1>10 DEF IInv, VmEmpty, Conserved, Wealth, Held, Moving
<1>14. RouteFits'
  BY <1>3, <1>4, <1>5, <1>11 DEF RouteFits
<1>15. \A i \in funds'.transit : i.plan <= plans /\ i.plan # plans' /\ i.plan <= plans'
  <2>1. \A i \in funds.transit : i.plan <= plans /\ i.plan \in Nat
    BY DEF IInv, NotYetSent, TypeOK, FundsSet, Transfers
  <2> QED
    BY <1>2, <1>3, <2>1
<1>16. NotYetSent'
  BY <1>15 DEF NotYetSent
<1>17. BatchCounts'
  <2>1. eoa' = eoa /\ route'.source = a.token.chain /\ at' = 1
    BY <1>3, <1>4
  <2> QED
    BY <1>1, <1>4, <1>10, <2>1 DEF BatchCounts, Counted
<1>18. PendingFits'
  <2> SUFFICES ASSUME route'.pending # NoMarket
               PROVE  PendingFits'
    BY DEF PendingFits, Ends
  <2>1. wait'.min = Least(a.amt) /\ wait'.start = funds'.bal["user"][route'.pending.token]
    BY <1>9
  <2>2. funds'.bal["user"][route'.pending.token] \in Nat
    BY <1>8
  <2> QED
    BY <1>4, <1>6, <1>10, <1>15, <2>1, <2>2 DEF PendingFits, AllOutbound
<1>19. WaitFits'
  BY <1>9 DEF WaitFits
<1>20. LeftBeaten'
  BY <1>10, SameMarkets DEF LeftBeaten
<1> QED
  BY <1>12, <1>13, <1>14, <1>16, <1>17, <1>18, <1>19, <1>20 DEF IInv

LEMMA PositionHeld ==
  ASSUME TypeOK, NEW p \in GetPositions(Markets, funds.pos["user"])
  PROVE  /\ p.market \in Markets /\ p.balance = funds.pos["user"][p.market.id]
         /\ p.balance \in Nat \ {0}
         /\ Amount([token |-> p.market.token, amt |-> p.balance])
<1> DEFINE held == funds.pos["user"]
<1>1. held \in [Ids -> Nat] /\ rate \in [Ids -> Int]
  BY DEF TypeOK, FundsSet, Parties
<1> HIDE DEF held
<1>2. \E m \in Markets : held[m.id] > 0 /\ p = [market |-> m, balance |-> held[m.id]]
  BY DEF GetPositions, held
<1>3. PICK m \in Markets : held[m.id] > 0 /\ p = [market |-> m, balance |-> held[m.id]]
  BY <1>2
<1>4. m.id \in Ids /\ m.token \in Tokens
  BY <1>1, MarketListed
<1>5. held[m.id] \in Nat \ {0}
  BY <1>1, <1>3, <1>4
<1>6. p.market = m /\ p.balance = held[m.id]
  BY <1>3
<1> QED
  BY <1>4, <1>5, <1>6 DEF Amount, held

LEMMA ChooseKeeps ==
  ASSUME IInv, route = NoRoute, NEW strategy, NEW a, Amount(a), NEW source,
         strategy = "withdraw_then_supply" => Listed(source),
         NEW target \in Markets, NEW b \in Bridges \cup {NoBridge}, NEW opts, NEW n \in PickNonce,
         Choose(strategy, a, source, target, b, opts, n),
         UNCHANGED <<funds, eoa, used, rate, paused, clock, others>>
  PROVE  IInv'
<1> DEFINE c == a.token.chain
           view == View(c, n)
<1>1. PICK r : /\ r = IF strategy = "compose_supply"
                      THEN BuildComposeSupplyRoute(a, target, b, opts, view)
                      ELSE BuildYieldRoute(strategy, a, source, target, b, opts, view)
               /\ r.ok /\ Adopt(r, a.amt, seen.left)
  BY DEF Choose
<1>2. c \in Chains /\ n \in Nat /\ Listed(target)
  <2>1. rate \in [Ids -> Int]
    BY DEF IInv, TypeOK
  <2> QED
    BY <2>1, NonceIn, MarketListed DEF Amount, Chains
<1>3. ViewOK(view)
  BY <1>2, ViewFits
<1> HIDE DEF view
<1>4. Planned(r, a, view)
  <2>1. CASE strategy = "compose_supply"
    BY <1>1, <1>2, <1>3, <2>1, ComposePlan
  <2>2. CASE strategy # "compose_supply"
    BY <1>1, <1>2, <1>3, <2>2, YieldPlan
  <2> QED
    BY <2>1, <2>2
<1>5. seen.left \subseteq Ids
      /\ \A id \in seen.left : \E h \in Markets : h.chain = Listing(id).chain /\ h.apy > rate[id]
  BY DEF IInv, TypeOK, LeftBeaten
<1> QED
  BY <1>1, <1>2, <1>4, <1>5, AdoptKeeps DEF view

LEMMA PlanKeeps == ASSUME IInv, Plan PROVE IInv'
<1>1. route = NoRoute /\ UNCHANGED <<funds, eoa, used, rate, paused, clock, others>>
  BY DEF Plan, Idle
<1>2. PICK opts \in {"plain", "defivm", "delegate"}, b \in Bridges \cup {NoBridge},
           target \in Markets, n \in PickNonce :
       \/ \E p \in GetPositions(Markets, funds.pos["user"]) :
            Choose("withdraw_then_supply", [token |-> p.market.token, amt |-> p.balance],
                   p.market, target, b, opts, n)
       \/ \E t \in {t \in Tokens : funds.bal["user"][t] > 0},
             s \in {"supply_then_bridge", "bridge_then_supply", "compose_supply"} :
            /\ b # NoBridge
            /\ Choose(s, [token |-> t, amt |-> funds.bal["user"][t]], NoMarket, target, b, opts, n)
  BY Zenon DEF Plan
<1>3. ASSUME NEW p \in GetPositions(Markets, funds.pos["user"]),
             Choose("withdraw_then_supply", [token |-> p.market.token, amt |-> p.balance],
                    p.market, target, b, opts, n)
      PROVE  IInv'
  <2> DEFINE a == [token |-> p.market.token, amt |-> p.balance]
  <2>1. Amount(a) /\ Listed(p.market)
    BY PositionHeld, MarketListed DEF IInv, TypeOK
  <2> HIDE DEF a
  <2>2. Choose("withdraw_then_supply", a, p.market, target, b, opts, n)
    BY <1>3 DEF a
  <2> QED
    BY <1>1, <2>1, <2>2, ChooseKeeps
<1>4. ASSUME NEW t \in Tokens, funds.bal["user"][t] > 0,
             NEW s \in {"supply_then_bridge", "bridge_then_supply", "compose_supply"},
             Choose(s, [token |-> t, amt |-> funds.bal["user"][t]], NoMarket, target, b, opts, n)
      PROVE  IInv'
  <2> DEFINE a == [token |-> t, amt |-> funds.bal["user"][t]]
  <2>1. funds.bal["user"][t] \in Nat
    BY DEF IInv, TypeOK, FundsSet, Parties
  <2>2. Amount(a)
    BY <1>4, <2>1 DEF Amount
  <2> HIDE DEF a
  <2>3. Choose(s, a, NoMarket, target, b, opts, n) /\ s # "withdraw_then_supply"
    BY <1>4 DEF a
  <2> QED
    BY <1>1, <2>2, <2>3, ChooseKeeps
<1> QED
  BY <1>2, <1>3, <1>4

\* Rounding keeps the order of what is rounded.
LEMMA RoundingClimbs ==
  ASSUME NEW d \in Nat \ {0}, NEW m \in Int, NEW n \in Int, m <= n
  PROVE  /\ RoundHalfEven(m, d) \in Int /\ RoundHalfEven(n, d) \in Int
         /\ RoundHalfEven(m, d) <= RoundHalfEven(n, d)
<1> DEFINE p == m \div d
           q == n \div d
           r == m % d
           s == n % d
<1>1. /\ p \in Int /\ q \in Int /\ r \in 0..(d - 1) /\ s \in 0..(d - 1)
      /\ m = d * p + r /\ n = d * q + s
  OBVIOUS
<1>2. /\ RoundHalfEven(m, d) = IF 2 * r > d \/ (2 * r = d /\ p % 2 = 1) THEN p + 1 ELSE p
      /\ RoundHalfEven(n, d) = IF 2 * s > d \/ (2 * s = d /\ q % 2 = 1) THEN q + 1 ELSE q
  BY DEF RoundHalfEven
<1> HIDE DEF p, q, r, s
<1>3. p <= q
  <2> SUFFICES ASSUME p >= q + 1 PROVE FALSE
    BY <1>1
  <2>1. d * p >= d * (q + 1) /\ d * (q + 1) = d * q + d
    BY <1>1
  <2>2. d * p \in Int /\ d * q \in Int
    BY <1>1
  <2> QED
    BY <1>1, <2>1, <2>2
<1>4. p = q => r <= s
  <2>1. d * q \in Int
    BY <1>1
  <2> QED
    BY <1>1, <2>1
<1> QED
  BY <1>1, <1>2, <1>3, <1>4

LEMMA RoundingZero ==
  ASSUME NEW d \in Nat \ {0}
  PROVE  RoundHalfEven(0, d) = 0
<1>1. 0 \div d = 0 /\ 0 % d = 0
  OBVIOUS
<1> QED
  BY <1>1 DEF RoundHalfEven

LEMMA GainClimbs ==
  ASSUME NEW p, p.balance \in Nat, p.market.apy \in Int, NEW m, m.apy \in Int,
         NEW h, h.apy \in Int, m.apy <= h.apy
  PROVE  /\ ExpectedApyGain(p, m, Horizon) \in Int /\ ExpectedApyGain(p, h, Horizon) \in Int
         /\ ExpectedApyGain(p, m, Horizon) <= ExpectedApyGain(p, h, Horizon)
<1> DEFINE i == m.apy - p.market.apy
           j == h.apy - p.market.apy
           x == p.balance * i
           y == p.balance * j
<1>1. i \in Int /\ j \in Int /\ i <= j
  OBVIOUS
<1> HIDE DEF i, j
<1>2. x \in Int /\ y \in Int /\ x <= y
  <2>1. \A k \in Nat : k * i <= k * j /\ k * i \in Int /\ k * j \in Int
    <3>1. j - i \in Nat
      BY <1>1
    <3>2. \A k \in Nat, l \in Nat : k * l >= 0
      OBVIOUS
    <3>3. \A k \in Nat : k * j - k * i = k * (j - i) /\ k * j \in Int /\ k * i \in Int
      BY <1>1
    <3> QED
      BY <1>1, <3>1, <3>2, <3>3
  <2> QED
    BY <2>1
<1>3. /\ ExpectedApyGain(p, m, Horizon) = RoundHalfEven(x, Horizon)
      /\ ExpectedApyGain(p, h, Horizon) = RoundHalfEven(y, Horizon)
  BY DEF ExpectedApyGain, i, j
<1> HIDE DEF x, y
<1> QED
  BY <1>2, <1>3, RoundingClimbs, RatesAssumption

\* A gain is worth taking only towards a higher rate.
LEMMA GainsAbove ==
  ASSUME NEW p, p.balance \in Nat, p.market.apy \in Int, NEW m, m.apy \in Int,
         ExpectedApyGain(p, m, Horizon) > 0
  PROVE  m.apy > p.market.apy
<1> SUFFICES ASSUME m.apy <= p.market.apy PROVE FALSE
  OBVIOUS
<1>1. ExpectedApyGain(p, m, Horizon) <= ExpectedApyGain(p, p.market, Horizon)
      /\ ExpectedApyGain(p, m, Horizon) \in Int
  BY GainClimbs
<1>2. ExpectedApyGain(p, p.market, Horizon) = RoundHalfEven(0, Horizon)
  <2>1. p.balance * (p.market.apy - p.market.apy) = 0
    OBVIOUS
  <2> QED
    BY <2>1 DEF ExpectedApyGain
<1>3. RoundHalfEven(0, Horizon) = 0
  BY RoundingZero, RatesAssumption
<1> QED
  BY <1>1, <1>2, <1>3

LEMMA NowNumbered ==
  ASSUME NEW m \in Now
  PROVE  m.nr \in Int
<1>1. PICK l \in World : m = [l EXCEPT !.paused = l.id \in paused, !.apy = rate[l.id]]
  BY DEF Now
<1>2. m.nr = l.nr /\ l.nr \in Nat
  BY <1>1, WorldAssumption
<1> QED
  BY <1>2

\* The pair a rebalance takes, and that nothing on the chain pays more.
LEMMA BestIsTop ==
  ASSUME TypeOK,
         NEW best \in BestRebalance(GetPositions(Markets, funds.pos["user"]), Markets, Horizon, MinGain)
  PROVE  /\ best[1] \in GetPositions(Markets, funds.pos["user"]) /\ best[2] \in Markets
         /\ best[2].chain = best[1].market.chain /\ best[2].id # best[1].market.id
         /\ best[2].apy > best[1].market.apy
         /\ \A h \in Markets : h.chain = best[2].chain => h.apy <= best[2].apy
<1> DEFINE P == GetPositions(Markets, funds.pos["user"])
           all == Rebalances(P, Markets, Horizon, MinGain)
           gain(x) == ExpectedApyGain(x[1], x[2], Horizon)
           p == best[1]
           m == best[2]
<1>1. /\ best \in all
      /\ \A y \in all \ {best} :
           \/ gain(best) > gain(y)
           \/ /\ gain(best) = gain(y)
              /\ AheadPosition(best[1], y[1]) \/ (best[1] = y[1] /\ Ahead(best[2], y[2]))
  BY DEF BestRebalance
<1>2. /\ best \in P \X Markets /\ m.chain = p.market.chain /\ m.id # p.market.id
      /\ m.apy - p.market.apy >= MinGain /\ gain(best) > 0
  BY <1>1 DEF Rebalances
<1>3. p \in P /\ m \in Markets /\ best = <<p, m>>
  BY <1>2
<1>4. rate \in [Ids -> Int]
  BY DEF TypeOK
<1>5. p.market \in Markets /\ p.balance \in Nat /\ p.market.apy \in Int /\ m.apy \in Int
  BY <1>3, <1>4, PositionHeld, MarketListed
<1>6. m.apy > p.market.apy
  BY <1>2, <1>5, GainsAbove
<1>7. ASSUME NEW h \in Markets, h.chain = m.chain, ~(h.apy <= m.apy)
      PROVE  FALSE
  <2> DEFINE y == <<p, h>>
  <2>1. h.apy \in Int /\ m.apy <= h.apy
    BY <1>4, <1>5, <1>7, MarketListed
  <2>2. h.id # p.market.id
    <3>1. h.apy # p.market.apy
      BY <1>5, <1>6, <2>1
    <3> QED
      BY <1>4, <1>5, <3>1, SameMarket
  <2>3. /\ gain(best) \in Int /\ gain(y) \in Int /\ gain(best) <= gain(y)
    BY <1>5, <2>1, GainClimbs
  <2>4. y \in P \X Markets /\ y[1] = p /\ y[2] = h
    BY <1>3
  <2>5. h.apy - p.market.apy >= MinGain
    BY <1>2, <1>5, <1>7, <2>1, RatesAssumption
  <2>6. y \in all
    BY <1>2, <1>7, <2>2, <2>3, <2>4, <2>5 DEF Rebalances
  <2>7. y # best
    BY <1>3, <1>5, <1>7, <2>1
  <2>8. AheadPosition(p, p) \/ Ahead(m, h)
    BY <1>1, <2>3, <2>4, <2>6, <2>7
  <2>9. ~Ahead(m, h)
    BY <1>5, <1>7, <2>1 DEF Ahead
  <2>10. ~AheadPosition(p, p)
    <3>1. p.market.nr \in Int
      BY <1>5, MarketsNow, NowNumbered
    <3> QED
      BY <1>5, <3>1 DEF AheadPosition, Ahead
  <2> QED
    BY <2>8, <2>9, <2>10
<1> QED
  BY <1>2, <1>3, <1>6, <1>7

LEMMA RebalanceKeeps == ASSUME IInv, Rebalance PROVE IInv'
<1>1. route = NoRoute /\ UNCHANGED <<funds, eoa, used, rate, paused, clock, others>>
  BY DEF Rebalance, Idle
<1>2. PICK best, r :
        /\ best \in BestRebalance(GetPositions(Markets, funds.pos["user"]), Markets, Horizon, MinGain)
        /\ LET p == best[1]
               a == [token |-> p.market.token, amt |-> p.balance]
           IN  /\ r = BuildYieldRoute("withdraw_then_supply", a, p.market, best[2], NoBridge, "plain",
                                      View(p.market.chain, RandomNonce))
               /\ r.ok /\ Adopt(r, a.amt, seen.left \cup {p.market.id})
  BY DEF Rebalance
<1> DEFINE p == best[1]
           a == [token |-> p.market.token, amt |-> p.balance]
           left == seen.left \cup {p.market.id}
           view == View(p.market.chain, RandomNonce)
<1>3. TypeOK /\ rate \in [Ids -> Int]
  BY DEF IInv, TypeOK
<1>4. /\ p \in GetPositions(Markets, funds.pos["user"]) /\ best[2] \in Markets
      /\ best[2].chain = p.market.chain /\ best[2].apy > p.market.apy
  <2>1. best \in BestRebalance(GetPositions(Markets, funds.pos["user"]), Markets, Horizon, MinGain)
    BY <1>2
  <2> QED
    BY <1>3, <2>1, BestIsTop
<1>5. Amount(a) /\ p.market \in Markets
  BY <1>3, <1>4, PositionHeld
<1>6. /\ Listed(p.market) /\ Listed(best[2]) /\ p.market.id \in Ids
      /\ p.market.apy = rate[p.market.id] /\ p.market.chain = Listing(p.market.id).chain
      /\ p.market.chain \in Chains
  BY <1>3, <1>4, <1>5, MarketListed
<1>7. a.token.chain = p.market.chain
  BY <1>6 DEF Listed
<1>8. RandomNonce \in Nat
  BY TimesAssumption
<1>9. ViewOK(view)
  BY <1>6, <1>8, ViewFits
<1>10. /\ left \subseteq Ids
       /\ \A id \in left : \E h \in Markets : h.chain = Listing(id).chain /\ h.apy > rate[id]
  <2>1. /\ seen.left \subseteq Ids
        /\ \A id \in seen.left : \E h \in Markets : h.chain = Listing(id).chain /\ h.apy > rate[id]
    BY DEF IInv, TypeOK, LeftBeaten
  <2>2. \E h \in Markets : h.chain = Listing(p.market.id).chain /\ h.apy > rate[p.market.id]
    BY <1>4, <1>6
  <2> QED
    BY <1>6, <2>1, <2>2
<1>11. /\ r = BuildYieldRoute("withdraw_then_supply", a, p.market, best[2], NoBridge, "plain", view)
       /\ r.ok /\ Adopt(r, a.amt, left)
  BY <1>2
<1> HIDE DEF a, view, left, p
<1>12. Planned(r, a, view)
  BY <1>5, <1>6, <1>9, <1>11, YieldPlan
<1>13. view = View(a.token.chain, RandomNonce)
  BY <1>7 DEF view
<1> QED
  BY <1>1, <1>5, <1>8, <1>10, <1>11, <1>12, <1>13, AdoptKeeps

-----------------------------------------------------------------------------
(* Sending a step. *)

\* What a step that took effect may have done.
Progressed(g, tx) ==
  /\ g \in FundsSet /\ IsFiniteSet(g.transit) /\ Empty(g) /\ Wealth(g) = Wealth(funds)
  /\ \A i \in g.transit : i \in funds.transit \/ (Carries(tx) /\ i.plan = plans)
  /\ Ends(route) =>
       /\ g.bal["user"][route.pending.token] = funds.bal["user"][route.pending.token]
       /\ \A i \in g.transit \ funds.transit :
            i.compose = NoTx /\ i.token = route.pending.token /\ Least(i.amt) = wait.min

AccountsOf == [nonce : Nat, code : {"none", "foreign", "calibur"}, seq : Nat]
SeenSet == [external : Int, fees : Int, disturbed : BOOLEAN, void : BOOLEAN, landed : BOOLEAN,
            readLanded : BOOLEAN, inflow : BOOLEAN, outflow : BOOLEAN, left : SUBSET Ids]

LEMMA StepAt ==
  ASSUME IInv, InProgress
  PROVE  /\ route # NoRoute /\ route.ok = TRUE /\ Len(route.steps) \in Nat
         /\ at \in 1..Len(route.steps) /\ at + 1 \in 1..(Len(route.steps) + 1)
         /\ route.steps[at] \in Steps /\ route.steps[at].chain = route.source
         /\ route.source \in Chains /\ Shaped(route.steps, route.source)
<1>1. route # NoRoute
  BY DEF InProgress, NoRoute, Raised
<1>2. route.ok = TRUE /\ Shaped(route.steps, route.source) /\ at \in 1..(Len(route.steps) + 1)
  BY <1>1 DEF IInv, RouteFits
<1>3. route.steps \in Seq(Steps) /\ Len(route.steps) \in Nat /\ route.source \in Chains
  BY <1>2 DEF Shaped
<1>4. at \in 1..Len(route.steps)
  BY <1>2, <1>3 DEF InProgress
<1> QED
  BY <1>1, <1>2, <1>3, <1>4 DEF Shaped

LEMMA AdvanceKeeps ==
  ASSUME IInv, InProgress, NEW end, Advance(end),
         end.ok => Progressed(end.funds, route.steps[at].tx),
         UNCHANGED <<rate, paused, clock, plans, others>>,
         eoa' \in [Chains -> AccountsOf], seen' \in SeenSet,
         /\ seen'.external = seen.external /\ seen'.fees = seen.fees /\ seen'.left = seen.left
         /\ seen'.landed = seen.landed /\ seen'.readLanded = seen.readLanded
         /\ seen'.inflow = seen.inflow /\ seen'.outflow = seen.outflow,
         BatchCounts'
  PROVE  IInv'
<1>0. LeftBeaten'
  BY SameMarkets DEF LeftBeaten, IInv
<1>1. CASE end.ok
  <2>1. funds' = end.funds /\ route' = route /\ at' = at + 1 /\ wait' = wait
    BY <1>1 DEF Advance
  <2>2. Progressed(funds', route.steps[at].tx)
    BY <1>1, <2>1
  <2>3. TypeOK'
    BY <2>1, <2>2 DEF IInv, TypeOK, Progressed, AccountsOf, SeenSet
  <2>4. VmEmpty' /\ Conserved'
    <3>1. Wealth(funds)' = Wealth(funds')
      BY DEF Wealth, Held, Moving
    <3> QED
      BY <2>2, <3>1 DEF IInv, VmEmpty, Conserved, Progressed, Empty
  <2>5. RouteFits'
    BY <2>1, StepAt DEF IInv, RouteFits
  <2>6. NotYetSent'
    <3>1. \A i \in funds'.transit : i.plan <= plans'
      BY <2>2 DEF IInv, NotYetSent, Progressed, TypeOK
    <3>2. ASSUME NEW k \in at'..Len(route'.steps), Carries(route'.steps[k].tx),
                 NEW i \in funds'.transit, i.plan = plans'
          PROVE  FALSE
      <4>1. k \in at..Len(route.steps) /\ at # Len(route.steps) /\ k \in 1..Len(route.steps)
        BY <2>1, StepAt
      <4>2. i \notin funds.transit
        BY <2>1, <3>2, <4>1, StepAt DEF IInv, NotYetSent
      <4>3. Carries(route.steps[at].tx)
        BY <2>2, <4>2 DEF Progressed
      <4> QED
        BY <4>1, <4>3, StepAt DEF Shaped
    <3> QED
      BY <3>1, <3>2 DEF NotYetSent
  <2>7. PendingFits'
    <3> SUFFICES ASSUME Ends(route) PROVE PendingFits'
      BY <2>1 DEF PendingFits, Ends
    <3>1. PendingFits
      BY DEF IInv
    <3>2. funds'.bal["user"][route.pending.token] = funds.bal["user"][route.pending.token]
      BY <2>2 DEF Progressed
    <3>3. \A i \in funds'.transit : i.plan = plans =>
             i.compose = NoTx /\ i.token = route.pending.token /\ Least(i.amt) = wait.min
      BY <2>2, <3>1 DEF Progressed, PendingFits
    <3> QED
      BY <2>1, <3>1, <3>2, <3>3 DEF PendingFits, Least
  <2>8. WaitFits'
    <3>1. wait.pc = "off"
      <4>1. at \in 1..Len(route.steps) /\ Len(route.steps) \in Nat
        BY StepAt
      <4> QED
        BY <4>1 DEF IInv, WaitFits
    <3> QED
      BY <2>1, <3>1 DEF WaitFits
  <2> QED
    BY <1>0, <2>3, <2>4, <2>5, <2>6, <2>7, <2>8 DEF IInv
<1>2. CASE ~end.ok
  <2>1. funds' = funds /\ route' = NoRoute /\ at' = 1 /\ wait' = Off
    BY <1>2 DEF Advance
  <2>2. ~route'.ok /\ wait'.pc = "off"
    BY <2>1 DEF NoRoute, Raised, Off
  <2>3. TypeOK'
    BY <2>1 DEF IInv, TypeOK, AccountsOf, SeenSet, Off
  <2>4. VmEmpty' /\ Conserved'
    BY <2>1 DEF IInv, VmEmpty, Conserved, Wealth, Held, Moving
  <2>5. RouteFits' /\ NotYetSent' /\ PendingFits' /\ WaitFits'
    BY <2>1, <2>2 DEF IInv, RouteFits, NotYetSent, PendingFits, WaitFits, Ends
  <2> QED
    BY <1>0, <2>3, <2>4, <2>5 DEF IInv
<1> QED
  BY <1>1, <1>2

\* A step towards another chain leaves what waits there alone.
LEMMA OutboundLeaves ==
  ASSUME IInv, InProgress, Ends(route), NEW r, r = Call(funds, "user", route.steps[at].tx), r.ok
  PROVE  /\ r.funds.bal["user"][route.pending.token] = funds.bal["user"][route.pending.token]
         /\ \A i \in r.funds.transit \ funds.transit :
              i.compose = NoTx /\ i.token = route.pending.token /\ Least(i.amt) = wait.min
<1> DEFINE c == route.steps[at].tx
           m == route.pending
           token == Listing(c.market).token
<1>1. Outbound(c, route.source, m, wait.min) /\ route.source # m.chain
  BY StepAt DEF IInv, PendingFits
<1>2. Listed(m)
  BY StepAt DEF IInv, RouteFits, Ends
<1>3. m.token \in Tokens /\ m.token.chain # route.source
  BY <1>1, <1>2, ListingIn DEF Listed
<1>4. funds \in FundsSet /\ plans \in Nat /\ "user" \in Parties
  BY DEF IInv, TypeOK, Parties
<1>5. funds.bal \in [Parties -> [Tokens -> Nat]]
  BY <1>4 DEF FundsSet
<1>6. CASE c \in ApproveCalls
  <2>1. c \in Calls
    BY <1>6 DEF Calls
  <2>2. r = Approve(funds, "user", c)
    BY <1>6, <2>1, CallKinds DEF Call
  <2>3. r.funds.bal = funds.bal /\ r.funds.transit = funds.transit
    BY <1>4, <1>6, <2>2, ApproveDoes
  <2> QED
    BY <2>3
<1>7. CASE c \in WithdrawCalls /\ token.chain = route.source
  <2>1. c \in Calls
    BY <1>7 DEF Calls
  <2>2. r = Withdraw(funds, c)
    BY <1>7, <2>1, CallKinds DEF Call
  <2>3. r.funds.bal = Plus(funds.bal, "user", token, c.amt) /\ r.funds.transit = funds.transit
    BY <1>4, <1>7, <2>2, WithdrawDoes
  <2>4. token \in Tokens /\ c.amt \in Nat
    BY <1>7, ListingIn DEF WithdrawCalls
  <2>5. token # m.token
    BY <1>3, <1>7
  <2> HIDE DEF token, m, c
  <2>6. c.amt \in Int /\ funds.bal["user"][token] + c.amt >= 0
    BY <1>4, <1>5, <2>4
  <2>7. r.funds.bal["user"][m.token] = funds.bal["user"][m.token]
    BY <1>3, <1>4, <2>3, <2>4, <2>5, <2>6, BalMoves
  <2> QED
    BY <2>3, <2>7 DEF m
<1>8. CASE /\ c \in BridgeCalls /\ c.from.chain = route.source /\ c.token = m.token
           /\ c.compose = NoTx /\ Least(c.amt) = wait.min
  <2>1. c \in Calls
    BY <1>8 DEF Calls, Uses
  <2>2. r = SendBridge(funds, "user", c)
    BY <1>8, <2>1, CallKinds DEF Call
  <2>3. /\ r.funds.transit = funds.transit \cup {TransferOf(c)}
        /\ r.funds.bal = Plus(funds.bal, "user", c.from, -c.amt) /\ funds.bal["user"][c.from] >= c.amt
    BY <1>4, <1>8, <2>2, BridgeDoes
  <2>4. c.from \in Tokens /\ c.amt \in Nat /\ c.from # m.token
    BY <1>3, <1>8 DEF BridgeCalls
  <2>5. TransferOf(c).compose = NoTx /\ TransferOf(c).token = m.token /\ TransferOf(c).amt = c.amt
    BY <1>8 DEF TransferOf
  <2> DEFINE k == -c.amt
  <2>6. k \in Int /\ funds.bal["user"][c.from] + k >= 0 /\ r.funds.bal = Plus(funds.bal, "user", c.from, k)
    BY <1>4, <1>5, <2>3, <2>4
  <2> HIDE DEF k, m, c
  <2>7. r.funds.bal["user"][m.token] = funds.bal["user"][m.token]
    BY <1>3, <1>4, <2>4, <2>6, BalMoves
  <2>8. \A i \in r.funds.transit \ funds.transit : i = TransferOf(c)
    BY <2>3
  <2> QED
    BY <1>8, <2>5, <2>7, <2>8 DEF m
<1> QED
  BY <1>1, <1>6, <1>7, <1>8 DEF Outbound

LEMMA CallProgresses ==
  ASSUME IInv, InProgress, route.steps[at].tx \in Calls,
         NEW r, r = Call(funds, "user", route.steps[at].tx), r.ok
  PROVE  Progressed(r.funds, route.steps[at].tx)
<1> DEFINE c == route.steps[at].tx
<1>1. funds \in FundsSet /\ IsFiniteSet(funds.transit) /\ plans \in Nat /\ c \in Calls
  BY DEF IInv, TypeOK
<1>2. New(funds, c)
  <2>1. c \in BridgeCalls => Carries(c)
    BY DEF Carries
  <2>2. at \in at..Len(route.steps) /\ route.ok
    <3>1. at \in 1..Len(route.steps) /\ Len(route.steps) \in Nat
      BY StepAt
    <3> QED
      BY <3>1 DEF InProgress
  <2> QED
    BY <2>1, <2>2 DEF IInv, NotYetSent, New
<1> HIDE DEF c
<1>3. r = Call(funds, "user", c)
  BY DEF c
<1>4. Effect(funds, r.funds, "user", c) /\ Wealth(r.funds) = Wealth(funds)
  BY <1>1, <1>2, <1>3, UserCall
<1>5. \A i \in r.funds.transit : i \in funds.transit \/ (Carries(c) /\ i.plan = plans)
  <2>1. \A i \in Sent(c) : Carries(c) /\ i.plan = plans
    BY DEF Sent, TransferOf, Carries
  <2> QED
    BY <1>4, <2>1 DEF Effect
<1>6. Empty(r.funds)
  <2>1. r.funds.bal["vm"] = funds.bal["vm"] /\ r.funds.pos["vm"] = funds.pos["vm"]
    BY <1>4 DEF Effect, Parties
  <2> QED
    BY <2>1 DEF IInv, VmEmpty, Empty
<1>7. Ends(route) =>
       /\ r.funds.bal["user"][route.pending.token] = funds.bal["user"][route.pending.token]
       /\ \A i \in r.funds.transit \ funds.transit :
            i.compose = NoTx /\ i.token = route.pending.token /\ Least(i.amt) = wait.min
  BY <1>3, OutboundLeaves DEF c
<1> QED
  BY <1>4, <1>5, <1>6, <1>7 DEF Progressed, Effect, c

LEMMA BroadcastKeeps == ASSUME IInv, Broadcast PROVE IInv'
<1> DEFINE s == route.steps[at]
           r == Call(funds, "user", s.tx)
<1>1. /\ InProgress /\ s.tx.fn # "gasless" /\ Advance(r)
      /\ eoa' = [eoa EXCEPT ![s.chain].nonce = @ + 1]
      /\ UNCHANGED <<used, rate, paused, clock, plans, others, seen>>
  BY DEF Broadcast
<1>2. s \in Steps /\ s.chain = route.source /\ route.source \in Chains
  BY <1>1, StepAt
<1>3. s.tx \in Calls
  BY <1>1, <1>2 DEF Steps, Gasless
<1>4. r.ok => Progressed(r.funds, s.tx)
  BY <1>1, <1>3, CallProgresses
<1>5. eoa \in [Chains -> AccountsOf] /\ seen \in SeenSet
  BY DEF IInv, TypeOK, AccountsOf, SeenSet
<1>6. /\ eoa' \in [Chains -> AccountsOf]
      /\ eoa'[route.source].nonce = eoa[route.source].nonce + 1
      /\ eoa'[route.source].code = eoa[route.source].code
  BY <1>1, <1>2, <1>5 DEF AccountsOf
<1>7. (route' = route /\ at' = at + 1) \/ route' = NoRoute
  BY <1>1 DEF Advance
<1>8. BatchCounts'
  <2>1. BatchCounts /\ seen' = seen
    BY <1>1 DEF IInv
  <2>2. CASE route' = NoRoute
    BY <2>1, <2>2 DEF BatchCounts, NoRoute, Raised
  <2>3. CASE route' = route /\ at' = at + 1
    <3>1. ASSUME route.ok, ~seen.disturbed, NEW k \in (at + 1)..Len(route.steps),
                 IsBatch(route.steps[k].tx)
          PROVE  /\ k = Len(route.steps)
                 /\ route.steps[k].tx.req.authNonce = eoa'[route.source].nonce + (k - (at + 1))
                 /\ route.steps[k].tx.req.needsAuth <=> eoa'[route.source].code = "none"
                 /\ eoa'[route.source].code # "foreign"
      <4>1. k \in at..Len(route.steps) /\ at \in Nat /\ k \in Nat
        BY <1>1, StepAt
      <4>2. /\ k = Len(route.steps)
            /\ route.steps[k].tx.req.authNonce = eoa[route.source].nonce + (k - at)
            /\ route.steps[k].tx.req.needsAuth <=> eoa[route.source].code = "none"
            /\ eoa[route.source].code # "foreign"
        BY <2>1, <3>1, <4>1 DEF BatchCounts
      <4>3. eoa[route.source].nonce \in Nat
        BY <1>2, <1>5 DEF AccountsOf
      <4>4. eoa[route.source].nonce + (k - at) = eoa'[route.source].nonce + (k - (at + 1))
        BY <1>6, <4>1, <4>3
      <4> QED
        BY <1>6, <4>2, <4>4
    <3> QED
      BY <2>1, <2>3, <3>1 DEF BatchCounts
  <2> QED
    BY <1>7, <2>2, <2>3
<1> HIDE DEF r
<1> QED
  BY <1>1, <1>4, <1>5, <1>6, <1>8, AdvanceKeeps

LEMMA NewAt ==
  ASSUME IInv, InProgress, NEW c, c \in BridgeCalls => Carries(route.steps[at].tx)
  PROVE  New(funds, c)
<1>1. at \in 1..Len(route.steps) /\ Len(route.steps) \in Nat
  BY StepAt
<1>2. at \in at..Len(route.steps) /\ route.ok
  BY <1>1 DEF InProgress
<1> QED
  BY <1>2 DEF IInv, NotYetSent, New

\* A route that ends on another chain is broadcast by the user.
LEMMA GaslessEnds ==
  ASSUME IInv, InProgress, route.steps[at].tx \in Gasless
  PROVE  ~Ends(route) /\ at = Len(route.steps)
<1>1. at \in 1..Len(route.steps) /\ Shaped(route.steps, route.source)
  BY StepAt
<1>2. at = Len(route.steps)
  BY <1>1 DEF Shaped
<1>3. route.steps[at].tx \notin Calls
  <2>1. route.steps[at].tx.fn = "gasless"
    BY DEF Gasless
  <2> QED
    BY <2>1, CallKinds
<1>4. ASSUME Ends(route) PROVE FALSE
  <2>1. Outbound(route.steps[at].tx, route.source, route.pending, wait.min)
    BY <1>1, <1>4 DEF IInv, PendingFits
  <2> QED
    BY <1>3, <2>1 DEF Outbound, Calls, Uses
<1> QED
  BY <1>2, <1>4

LEMMA BatchProgresses ==
  ASSUME IInv, InProgress, IsBatch(route.steps[at].tx),
         NEW r, r = Batch(funds, "user", route.steps[at].tx.req.calls), r.ok
  PROVE  Progressed(r.funds, route.steps[at].tx)
<1> DEFINE tx == route.steps[at].tx
           calls == tx.req.calls
           c == calls[2]
<1>1. funds \in FundsSet /\ IsFiniteSet(funds.transit) /\ plans \in Nat
  BY DEF IInv, TypeOK
<1>2. calls \in ApproveCalls \X Uses
  BY DEF IsBatch, Batches
<1>3. c \in BridgeCalls => Carries(tx)
  BY DEF Carries, IsBatch
<1>4. New(funds, c)
  BY <1>3, NewAt
<1>5. ~Ends(route)
  BY GaslessEnds DEF IsBatch
<1> HIDE DEF calls, tx
<1>6. Effect(funds, r.funds, "user", c) /\ Wealth(r.funds) = Wealth(funds)
  <2>1. r = Batch(funds, "user", calls)
    BY DEF calls, tx
  <2> QED
    BY <1>1, <1>2, <1>4, <2>1, UserBatch
<1>7. \A i \in r.funds.transit : i \in funds.transit \/ (Carries(tx) /\ i.plan = plans)
  <2>1. \A i \in Sent(c) : Carries(tx) /\ i.plan = plans
    BY <1>3 DEF Sent, TransferOf
  <2> QED
    BY <1>6, <2>1 DEF Effect
<1>8. Empty(r.funds)
  <2>1. r.funds.bal["vm"] = funds.bal["vm"] /\ r.funds.pos["vm"] = funds.pos["vm"]
    BY <1>6 DEF Effect, Parties
  <2> QED
    BY <2>1 DEF IInv, VmEmpty, Empty
<1> QED
  BY <1>5, <1>6, <1>7, <1>8 DEF Progressed, Effect, tx

\* On a route that leaves nothing pending, a step may do nothing.
LEMMA NothingMoved ==
  ASSUME IInv, ~Ends(route), NEW tx
  PROVE  Progressed(funds, tx)
<1>1. funds \in FundsSet /\ IsFiniteSet(funds.transit) /\ VmEmpty
  BY DEF IInv, TypeOK
<1>2. Empty(funds)
  BY <1>1 DEF VmEmpty, Empty
<1> QED
  BY <1>1, <1>2 DEF Progressed

LEMMA Sponsor7702Keeps == ASSUME IInv, Sponsor7702 PROVE IInv'
<1> DEFINE s == route.steps[at]
           e == eoa[s.chain]
           applies == Applies(s.tx, e)
           code == IF applies THEN "calibur" ELSE e.code
           nonce == IF applies THEN e.nonce + 1 ELSE e.nonce
           runs == code = "calibur"
           end == IF ~runs THEN Done(funds)
                  ELSE IF ~BatchValid(s.tx, e) THEN Failed
                  ELSE Batch(funds, "user", s.tx.req.calls)
           seq == IF runs /\ end.ok THEN e.seq + 1 ELSE e.seq
<1>1. /\ InProgress /\ s.tx.fn = "gasless" /\ s.tx.req.fn = "batch" /\ Advance(end)
      /\ eoa' = [eoa EXCEPT ![s.chain] = [nonce |-> nonce, code |-> code, seq |-> seq]]
      /\ seen' = [seen EXCEPT !.void = ~runs]
      /\ UNCHANGED <<used, rate, paused, clock, plans, others>>
  BY DEF Sponsor7702
<1>2. s \in Steps /\ s.chain = route.source /\ route.source \in Chains /\ route.ok
      /\ at \in 1..Len(route.steps) /\ Len(route.steps) \in Nat
  BY <1>1, StepAt
<1>3. IsBatch(s.tx)
  <2>1. s.tx \in Gasless
    BY <1>1, <1>2, CallKinds DEF Steps
  <2>2. s.tx.req \in Batches
    BY <1>1, <2>1 DEF Gasless, Permits
  <2> QED
    BY <2>1, <2>2 DEF IsBatch
<1>4. eoa \in [Chains -> AccountsOf] /\ seen \in SeenSet
  BY DEF IInv, TypeOK, AccountsOf, SeenSet
<1>5. e \in AccountsOf
  BY <1>2, <1>4
<1>6. at = Len(route.steps) /\ ~Ends(route)
  BY <1>1, <1>3, GaslessEnds DEF IsBatch
\* Nobody came between: the batch is run.
<1>7. ~runs => seen.disturbed
  <2> SUFFICES ASSUME ~seen.disturbed PROVE runs
    OBVIOUS
  <2>1. /\ s.tx.req.authNonce = e.nonce + (at - at)
        /\ s.tx.req.needsAuth <=> e.code = "none"
        /\ e.code # "foreign"
    <3>1. at \in at..Len(route.steps)
      BY <1>2
    <3> QED
      BY <1>2, <1>3, <3>1 DEF IInv, BatchCounts
  <2>2. e.nonce + (at - at) = e.nonce
    BY <1>2, <1>5 DEF AccountsOf
  <2>3. e.code \in {"none", "calibur"}
    BY <1>5, <2>1 DEF AccountsOf
  <2> QED
    BY <2>1, <2>2, <2>3 DEF Applies
<1>8. end.ok => Progressed(end.funds, s.tx)
  <2> SUFFICES ASSUME end.ok PROVE Progressed(end.funds, s.tx)
    OBVIOUS
  <2>1. CASE ~runs
    <3>1. end.funds = funds
      BY <2>1 DEF Done
    <3>2. Progressed(funds, s.tx)
      BY <1>6, NothingMoved
    <3> HIDE DEF end
    <3> QED
      BY <3>1, <3>2
  <2>2. CASE runs
    <3>1. end = Batch(funds, "user", s.tx.req.calls)
      BY <2>2 DEF Failed
    <3> HIDE DEF end
    <3> QED
      BY <1>1, <1>3, <3>1, BatchProgresses
  <2> QED
    BY <2>1, <2>2
<1>9. eoa' \in [Chains -> AccountsOf]
  <2>1. nonce \in Nat /\ code \in {"none", "foreign", "calibur"} /\ seq \in Nat
    BY <1>5 DEF AccountsOf
  <2> HIDE DEF nonce, code, seq
  <2>2. [nonce |-> nonce, code |-> code, seq |-> seq] \in AccountsOf
    BY <2>1 DEF AccountsOf
  <2> QED
    BY <1>1, <1>2, <1>4, <2>2
<1>10. /\ seen' \in SeenSet /\ seen'.void = (~runs) /\ seen'.disturbed = seen.disturbed
       /\ seen'.external = seen.external /\ seen'.fees = seen.fees /\ seen'.left = seen.left
       /\ seen'.landed = seen.landed /\ seen'.readLanded = seen.readLanded
       /\ seen'.inflow = seen.inflow /\ seen'.outflow = seen.outflow
  <2> DEFINE void == ~runs
  <2>1. void \in BOOLEAN /\ seen' = [seen EXCEPT !.void = void]
    BY <1>1
  <2> HIDE DEF void
  <2>2. /\ seen' \in SeenSet /\ seen'.void = void /\ seen'.disturbed = seen.disturbed
        /\ seen'.external = seen.external /\ seen'.fees = seen.fees /\ seen'.left = seen.left
        /\ seen'.landed = seen.landed /\ seen'.readLanded = seen.readLanded
        /\ seen'.inflow = seen.inflow /\ seen'.outflow = seen.outflow
    BY <1>4, <2>1 DEF SeenSet
  <2> QED
    BY <2>2 DEF void
<1>11. (route' = route /\ at' = at + 1) \/ route' = NoRoute
  BY <1>1 DEF Advance
<1> HIDE DEF end, runs
<1>12. BatchCounts'
  <2>1. seen'.void => seen'.disturbed
    BY <1>7, <1>10
  <2>2. CASE route' = NoRoute
    BY <2>1, <2>2 DEF BatchCounts, NoRoute, Raised
  <2>3. CASE route' = route /\ at' = at + 1
    <3>1. at'..Len(route'.steps) = {}
      BY <1>2, <1>6, <2>3
    <3> QED
      BY <2>1, <3>1 DEF BatchCounts
  <2> QED
    BY <1>11, <2>2, <2>3
<1> QED
  BY <1>1, <1>8, <1>9, <1>10, <1>12, AdvanceKeeps

LEMMA SponsorPermit2Keeps == ASSUME IInv, SponsorPermit2 PROVE IInv'
<1> DEFINE s == route.steps[at]
           end == IF ~PermitValid(s.tx) THEN Failed ELSE PullThenRun(funds, s.tx.req)
<1>1. /\ InProgress /\ s.tx.fn = "gasless" /\ s.tx.req.fn = "permit2" /\ Advance(end)
      /\ UNCHANGED <<eoa, rate, paused, clock, plans, others, seen>>
  BY DEF SponsorPermit2
<1>2. s \in Steps /\ route.ok /\ at \in 1..Len(route.steps) /\ Len(route.steps) \in Nat
  BY <1>1, StepAt
<1>3. s.tx \in Gasless /\ s.tx.req \in Permits
  <2>1. s.tx \in Gasless
    BY <1>1, <1>2, CallKinds DEF Steps
  <2> QED
    BY <1>1, <2>1 DEF Gasless, Batches
<1>4. eoa \in [Chains -> AccountsOf] /\ seen \in SeenSet
  BY DEF IInv, TypeOK, AccountsOf, SeenSet
<1>5. at = Len(route.steps) /\ ~Ends(route)
  BY <1>1, <1>3, GaslessEnds
<1>6. ASSUME end.ok PROVE Progressed(end.funds, s.tx)
  <2> DEFINE req == s.tx.req
             c == req.call
  <2>1. end = PullThenRun(funds, req)
    BY <1>6 DEF Failed
  <2>2. funds \in FundsSet /\ IsFiniteSet(funds.transit) /\ plans \in Nat /\ Empty(funds)
    BY DEF IInv, TypeOK, VmEmpty, Empty
  <2>3. c \in BridgeCalls => Carries(s.tx)
    BY <1>3 DEF Carries
  <2>4. New(funds, c)
    BY <1>1, <2>3, NewAt
  <2> HIDE DEF end, req
  <2>5. /\ end.funds \in FundsSet /\ IsFiniteSet(end.funds.transit)
        /\ end.funds.transit = funds.transit \cup Sent(c)
        /\ Empty(end.funds) /\ Wealth(end.funds) = Wealth(funds)
    <3>1. req \in Permits
      BY <1>3 DEF req
    <3> QED
      BY <1>6, <2>1, <2>2, <2>4, <3>1, VmRuns
  <2>6. \A i \in Sent(c) : Carries(s.tx) /\ i.plan = plans
    BY <2>3 DEF Sent, TransferOf
  <2> QED
    BY <1>5, <2>5, <2>6 DEF Progressed
<1>7. (route' = route /\ at' = at + 1) \/ route' = NoRoute
  BY <1>1 DEF Advance
<1>8. BatchCounts'
  <2>1. seen'.void => seen'.disturbed
    BY <1>1 DEF IInv, BatchCounts
  <2>2. CASE route' = NoRoute
    BY <2>1, <2>2 DEF BatchCounts, NoRoute, Raised
  <2>3. CASE route' = route /\ at' = at + 1
    <3>1. at'..Len(route'.steps) = {}
      BY <1>2, <1>5, <2>3
    <3> QED
      BY <2>1, <3>1 DEF BatchCounts
  <2> QED
    BY <1>7, <2>2, <2>3
<1> HIDE DEF end
<1> QED
  BY <1>1, <1>4, <1>6, <1>8, AdvanceKeeps

-----------------------------------------------------------------------------
(* Deliveries and transfers. *)

\* What a change of the user's own holdings has to respect.
LEMMA HoldingsKeep ==
  ASSUME IInv, NEW k \in Int,
         funds' \in FundsSet, IsFiniteSet(funds'.transit), funds'.transit \subseteq funds.transit,
         Empty(funds'), Wealth(funds') = Wealth(funds) + k,
         UNCHANGED <<eoa, rate, paused, route, at, wait, clock, plans>>,
         seen' \in SeenSet, seen'.external - seen'.fees = seen.external - seen.fees + k,
         seen'.left = seen.left, seen'.void = seen.void, seen'.disturbed = seen.disturbed,
         PendingFits', WaitFits'
  PROVE  IInv'
<1>1. TypeOK'
  BY DEF IInv, TypeOK, SeenSet
<1>2. VmEmpty'
  BY DEF VmEmpty, Empty
<1>3. Conserved'
  <2>1. Wealth(funds)' = Wealth(funds')
    BY DEF Wealth, Held, Moving
  <2>2. Wealth(funds) \in Int
    <3>1. Moving(funds) \in Int /\ Held(funds, "user") \in Int
      BY MovingInt DEF IInv, TypeOK, Parties
    <3> QED
      BY <3>1 DEF Wealth
  <2>3. Given \in Int /\ Given' = Given
    <3>1. Purse \in [Tokens -> Int] /\ Start \in [Ids -> Int]
      BY FundsAssumption
    <3>2. SumFunctionOnSet(Purse, Tokens) \in Int /\ SumFunctionOnSet(Start, Ids) \in Int
      BY <3>1, Finite, SumInt
    <3> QED
      BY <3>2 DEF Given
  <2>4. Wealth(funds) + seen.fees = Given + seen.external
    BY DEF IInv, Conserved
  <2>5. seen.fees \in Int /\ seen.external \in Int /\ seen'.fees \in Int /\ seen'.external \in Int
    BY DEF IInv, TypeOK, SeenSet
  <2>6. Wealth(funds') + seen'.fees = Given + seen'.external
    BY <2>2, <2>3, <2>4, <2>5
  <2> QED
    BY <2>1, <2>3, <2>6 DEF Conserved
<1>4. RouteFits' /\ NotYetSent' /\ BatchCounts'
  BY DEF IInv, RouteFits, NotYetSent, BatchCounts
<1>5. LeftBeaten'
  BY SameMarkets DEF LeftBeaten, IInv
<1> QED
  BY <1>1, <1>2, <1>3, <1>4, <1>5 DEF IInv

\* Units arriving in the wallet, or leaving it.
Wallet(f, T, t, k) == [f EXCEPT !.transit = T, !.bal["user"][t] = @ + k]

LEMMA WalletMoves ==
  ASSUME NEW f \in FundsSet, IsFiniteSet(f.transit), Empty(f), NEW t \in Tokens, NEW k \in Int,
         f.bal["user"][t] + k >= 0, NEW T, T \subseteq f.transit, IsFiniteSet(T)
  PROVE  /\ Wallet(f, T, t, k) \in FundsSet /\ Wallet(f, T, t, k).transit = T /\ Wallet(f, T, t, k).bal = Plus(f.bal, "user", t, k) /\ Empty(Wallet(f, T, t, k))
         /\ Held(Wallet(f, T, t, k), "user") = Held(f, "user") + k
         /\ Wallet(f, T, t, k).bal["user"][t] = f.bal["user"][t] + k
         /\ \A u \in Tokens \ {t} : Wallet(f, T, t, k).bal["user"][u] = f.bal["user"][u]
<1> DEFINE g == Wallet(f, T, t, k)
           bal == Plus(f.bal, "user", t, k)
<1>1. f.bal \in [Parties -> [Tokens -> Nat]] /\ "user" \in Parties /\ "vm" \in Parties /\ "user" # "vm"
  BY DEF FundsSet, Parties
<1>2. bal \in [Parties -> [Tokens -> Nat]]
  BY <1>1, PlusRow, Finite
<1>3. g = [f EXCEPT !.transit = T, !.bal = bal]
  BY <1>1 DEF Wallet, Plus, FundsSet
<1> HIDE DEF bal, g
<1>4. g \in FundsSet /\ g.transit = T /\ g.bal = bal /\ g.pos = f.pos
  BY <1>2, <1>3 DEF FundsSet
<1>5. g.bal = Plus(f.bal, "user", t, k)
  BY <1>4 DEF bal
<1>6. /\ \A q \in Parties \ {"user"} : g.bal[q] = f.bal[q]
      /\ \A u \in Tokens \ {t} : g.bal["user"][u] = f.bal["user"][u]
      /\ g.bal["user"][t] = f.bal["user"][t] + k
      /\ SumFunctionOnSet(g.bal["user"], Tokens) = SumFunctionOnSet(f.bal["user"], Tokens) + k
  BY <1>1, <1>5, BalMoves
<1>7. Empty(g)
  BY <1>1, <1>4, <1>6 DEF Empty
<1>8. SumFunctionOnSet(f.bal["user"], Tokens) \in Int /\ SumFunctionOnSet(f.pos["user"], Ids) \in Int
  <2>1. f.bal["user"] \in [Tokens -> Int] /\ f.pos["user"] \in [Ids -> Int]
    BY <1>1 DEF FundsSet
  <2> QED
    BY <2>1, Finite, SumInt
<1>9. Held(g, "user") = Held(f, "user") + k
  BY <1>4, <1>6, <1>8 DEF Held
<1> QED
  BY <1>4, <1>5, <1>6, <1>7, <1>9 DEF g

\* A transfer to the user or by the user, as one change.
Transferred(t, k) ==
  /\ funds' = [funds EXCEPT !.bal["user"][t] = @ + k] /\ funds.bal["user"][t] + k >= 0
  /\ seen' = [seen EXCEPT !.external = @ + k,
                          !.inflow = (k = 1) \/ @, !.outflow = (k = -1) \/ @]

LEMMA TransferKeeps == ASSUME IInv, Transfer PROVE IInv'
<1>1. PICK t \in Tokens, k \in {1, -1} : Transferred(t, k)
  <2>1. funds.bal \in [Parties -> [Tokens -> Nat]] /\ "user" \in Parties
    BY DEF IInv, TypeOK, FundsSet, Parties
  <2>2. seen.external \in Int /\ seen.inflow \in BOOLEAN /\ seen.outflow \in BOOLEAN
    BY DEF IInv, TypeOK
  <2>3. PICK t \in Tokens :
          \/ /\ funds' = [funds EXCEPT !.bal["user"][t] = @ + 1]
             /\ seen' = [seen EXCEPT !.external = @ + 1, !.inflow = TRUE]
          \/ /\ funds.bal["user"][t] > 0
             /\ funds' = [funds EXCEPT !.bal["user"][t] = @ - 1]
             /\ seen' = [seen EXCEPT !.external = @ - 1, !.outflow = TRUE]
    BY DEF Transfer
  <2>4. funds.bal["user"][t] \in Nat
    BY <2>1
  <2>5. CASE /\ funds' = [funds EXCEPT !.bal["user"][t] = @ + 1]
             /\ seen' = [seen EXCEPT !.external = @ + 1, !.inflow = TRUE]
    <3>1. seen' = [seen EXCEPT !.external = @ + 1,
                               !.inflow = (1 = 1) \/ @, !.outflow = (1 = -1) \/ @]
      <4>1. ((1 = 1) \/ seen.inflow) = TRUE /\ ((1 = -1) \/ seen.outflow) = seen.outflow
        BY <2>2
      <4> QED
        BY <2>5, <4>1 DEF IInv, TypeOK
    <3>2. Transferred(t, 1)
      BY <2>4, <2>5, <3>1 DEF Transferred
    <3> QED
      BY <3>2
  <2>6. CASE /\ funds.bal["user"][t] > 0
             /\ funds' = [funds EXCEPT !.bal["user"][t] = @ - 1]
             /\ seen' = [seen EXCEPT !.external = @ - 1, !.outflow = TRUE]
    <3>1. seen' = [seen EXCEPT !.external = @ + (-1),
                               !.inflow = (-1 = 1) \/ @, !.outflow = (-1 = -1) \/ @]
      <4>1. ((-1 = -1) \/ seen.outflow) = TRUE /\ ((-1 = 1) \/ seen.inflow) = seen.inflow
            /\ seen.external + (-1) = seen.external - 1
        BY <2>2
      <4> QED
        BY <2>6, <4>1 DEF IInv, TypeOK
    <3>2. funds' = [funds EXCEPT !.bal["user"][t] = @ + (-1)]
      <4>1. funds.bal["user"][t] + (-1) = funds.bal["user"][t] - 1
        BY <2>4
      <4> QED
        BY <2>6, <4>1
    <3>3. funds.bal["user"][t] + (-1) >= 0
      BY <2>4, <2>6
    <3>4. Transferred(t, -1)
      BY <3>1, <3>2, <3>3 DEF Transferred
    <3> QED
      BY <3>4
  <2> QED
    BY <2>3, <2>5, <2>6
<1>2. /\ funds \in FundsSet /\ IsFiniteSet(funds.transit) /\ Empty(funds) /\ k \in Int
      /\ seen \in SeenSet
  BY DEF IInv, TypeOK, VmEmpty, Empty, SeenSet
<1>3. UNCHANGED <<eoa, used, rate, paused, route, at, wait, clock, plans>>
  BY DEF Transfer
<1> DEFINE g == funds'
<1>4. g = Wallet(funds, funds.transit, t, k)
  BY <1>1, <1>2 DEF FundsSet, Wallet, Transferred
<1>5. /\ g \in FundsSet /\ g.transit = funds.transit /\ Empty(g)
      /\ Held(g, "user") = Held(funds, "user") + k
      /\ g.bal["user"][t] = funds.bal["user"][t] + k
      /\ \A u \in Tokens \ {t} : g.bal["user"][u] = funds.bal["user"][u]
  <2>1. funds.bal["user"][t] + k >= 0 /\ funds.transit \subseteq funds.transit
    BY <1>1 DEF Transferred
  <2> DEFINE h == Wallet(funds, funds.transit, t, k)
  <2>2. /\ h \in FundsSet /\ h.transit = funds.transit /\ Empty(h)
        /\ Held(h, "user") = Held(funds, "user") + k
        /\ h.bal["user"][t] = funds.bal["user"][t] + k
        /\ \A u \in Tokens \ {t} : h.bal["user"][u] = funds.bal["user"][u]
    BY <1>2, <2>1, WalletMoves
  <2> HIDE DEF h
  <2>3. g = h
    BY <1>4 DEF h
  <2> QED
    BY <2>2, <2>3
<1>6. Wealth(g) = Wealth(funds) + k
  <2>1. Moving(g) = Moving(funds)
    BY <1>5, MovingSame
  <2>2. Moving(funds) \in Int /\ Held(funds, "user") \in Int
    BY <1>2, MovingInt DEF Parties
  <2> HIDE DEF g
  <2> QED
    BY <1>2, <1>5, <2>1, <2>2 DEF Wealth
<1>7. /\ seen' \in SeenSet /\ seen'.external = seen.external + k
      /\ seen'.fees = seen.fees /\ seen'.left = seen.left
      /\ seen'.void = seen.void /\ seen'.disturbed = seen.disturbed
      /\ seen'.landed = seen.landed /\ seen'.readLanded = seen.readLanded
      /\ (k = 1 => seen'.inflow) /\ (k = -1 => seen'.outflow)
      /\ (seen.inflow => seen'.inflow) /\ (seen.outflow => seen'.outflow)
  <2> DEFINE in == (k = 1) \/ seen.inflow
             out == (k = -1) \/ seen.outflow
  <2>1. seen' = [seen EXCEPT !.external = seen.external + k, !.inflow = in, !.outflow = out]
    BY <1>1, <1>2 DEF SeenSet, Transferred
  <2>2. in \in BOOLEAN /\ out \in BOOLEAN /\ seen.external + k \in Int
    BY <1>2 DEF SeenSet
  <2>3. (k = 1 => in) /\ (k = -1 => out) /\ (seen.inflow => in) /\ (seen.outflow => out)
    OBVIOUS
  <2> HIDE DEF in, out
  <2>4. /\ seen' \in SeenSet /\ seen'.external = seen.external + k
        /\ seen'.fees = seen.fees /\ seen'.left = seen.left
        /\ seen'.void = seen.void /\ seen'.disturbed = seen.disturbed
        /\ seen'.landed = seen.landed /\ seen'.readLanded = seen.readLanded
        /\ seen'.inflow = in /\ seen'.outflow = out
    BY <1>2, <2>1, <2>2 DEF SeenSet
  <2> QED
    BY <2>3, <2>4
<1>8. seen'.external - seen'.fees = seen.external - seen.fees + k
  BY <1>2, <1>7 DEF SeenSet
<1>9. PendingFits'
  <2> SUFFICES ASSUME Ends(route) PROVE PendingFits'
    BY <1>3 DEF PendingFits, Ends
  <2> DEFINE u == route.pending.token
  <2>1. PendingFits /\ wait \in [pc : {"off", "sleep", "asked", "settled", "timeout", "failed"}, start : Nat,
                                 min : Nat, deadline : Nat, wake : Nat, balance : Nat, got : Nat]
    BY DEF IInv, TypeOK
  <2>2. u \in Tokens
    BY ListingIn DEF IInv, RouteFits, Ends, NoRoute, Raised, Listed
  <2>3. funds.bal["user"][u] \in Nat
    BY <1>2, <2>2 DEF FundsSet, Parties
  <2>4. \/ g.bal["user"][u] = funds.bal["user"][u]
        \/ k = 1 /\ g.bal["user"][u] = funds.bal["user"][u] + 1
        \/ k = -1 /\ g.bal["user"][u] = funds.bal["user"][u] - 1
    <3>1. k = -1 => funds.bal["user"][u] + k = funds.bal["user"][u] - 1
      BY <2>3
    <3> QED
      BY <1>5, <2>2, <3>1
  <2>5. ~seen'.landed /\ ~seen'.inflow => g.bal["user"][u] <= wait.start
    <3> SUFFICES ASSUME ~seen'.landed, ~seen'.inflow PROVE g.bal["user"][u] <= wait.start
      OBVIOUS
    <3>1. k # 1 /\ ~seen.landed /\ ~seen.inflow
      BY <1>7
    <3>2. funds.bal["user"][u] <= wait.start
      BY <2>1, <3>1 DEF PendingFits
    <3> QED
      BY <2>1, <2>3, <2>4, <3>1, <3>2
  <2>6. ~seen'.outflow => g.bal["user"][u] >= wait.start + (IF seen'.landed THEN wait.min ELSE 0)
    BY <1>7, <2>1, <2>3, <2>4 DEF PendingFits
  <2> QED
    BY <1>3, <1>5, <2>1, <2>5, <2>6 DEF PendingFits, Least
<1>10. WaitFits'
  BY <1>3, <1>7 DEF IInv, WaitFits, Ends
<1> QED
  BY <1>2, <1>3, <1>5, <1>6, <1>7, <1>8, <1>9, <1>10, HoldingsKeep

\* Units arriving in a position.
Position(f, T, m, k) == [f EXCEPT !.transit = T, !.pos["user"][m] = @ + k]

LEMMA PositionMoves ==
  ASSUME NEW f \in FundsSet, IsFiniteSet(f.transit), Empty(f), NEW m \in Ids, NEW k \in Nat,
         NEW T, T \subseteq f.transit, IsFiniteSet(T)
  PROVE  /\ Position(f, T, m, k) \in FundsSet /\ Position(f, T, m, k).transit = T
         /\ Position(f, T, m, k).bal = f.bal /\ Empty(Position(f, T, m, k))
         /\ Held(Position(f, T, m, k), "user") = Held(f, "user") + k
<1> DEFINE g == Position(f, T, m, k)
           pos == Plus(f.pos, "user", m, k)
<1>1. /\ f.pos \in [Parties -> [Ids -> Nat]] /\ f.bal \in [Parties -> [Tokens -> Nat]]
      /\ "user" \in Parties /\ "vm" \in Parties /\ "user" # "vm"
  BY DEF FundsSet, Parties
<1>2. k \in Int /\ f.pos["user"][m] + k >= 0
  BY <1>1
<1>3. pos \in [Parties -> [Ids -> Nat]]
  BY <1>1, <1>2, PlusRow, Finite
<1>4. g = [f EXCEPT !.transit = T, !.pos = pos]
  BY <1>1 DEF Position, Plus, FundsSet
<1> HIDE DEF pos, g
<1>5. g \in FundsSet /\ g.transit = T /\ g.pos = pos /\ g.bal = f.bal
  BY <1>3, <1>4 DEF FundsSet
<1>6. g.pos = Plus(f.pos, "user", m, k)
  BY <1>5 DEF pos
<1>7. /\ \A q \in Parties \ {"user"} : g.pos[q] = f.pos[q]
      /\ SumFunctionOnSet(g.pos["user"], Ids) = SumFunctionOnSet(f.pos["user"], Ids) + k
  BY <1>1, <1>2, <1>6, PosMoves
<1>8. Empty(g)
  BY <1>1, <1>5, <1>7 DEF Empty
<1>9. SumFunctionOnSet(f.bal["user"], Tokens) \in Int /\ SumFunctionOnSet(f.pos["user"], Ids) \in Int
  <2>1. f.bal["user"] \in [Tokens -> Int] /\ f.pos["user"] \in [Ids -> Int]
    BY <1>1
  <2> QED
    BY <2>1, Finite, SumInt
<1>10. Held(g, "user") = Held(f, "user") + k
  BY <1>5, <1>7, <1>9 DEF Held
<1> QED
  BY <1>5, <1>8, <1>10 DEF g

Arrives(i, fee) == IF i.amt > fee THEN i.amt - fee ELSE i.amt

LEMMA LeastArrives ==
  ASSUME NEW i \in Transfers, NEW fee \in 0..MaxFee
  PROVE  /\ Arrives(i, fee) \in Nat /\ Arrives(i, fee) >= Least(i.amt)
         /\ Arrives(i, fee) - i.amt \in Int
BY FundsAssumption DEF Arrives, Least, Transfers

LEMMA DeliverKeeps == ASSUME IInv, Deliver PROVE IInv'
<1>1. PICK i \in funds.transit, fee \in 0..MaxFee :
       LET n == Arrives(i, fee)
           rest == [funds EXCEPT !.transit = @ \ {i}]
       IN  /\ IF i.compose = NoTx
              THEN funds' = [rest EXCEPT !.bal["user"][i.token] = @ + n]
              ELSE /\ i.compose.market \notin paused
                   /\ funds' = [rest EXCEPT !.pos[i.compose.credit][i.compose.market] = @ + n]
           /\ seen' = IF i.compose = NoTx /\ i.plan = plans
                       THEN [seen EXCEPT !.fees = @ + i.amt - n, !.landed = TRUE]
                       ELSE [seen EXCEPT !.fees = @ + i.amt - n, !.inflow = i.compose = NoTx \/ @]
  BY DEF Deliver, Arrives
<1> DEFINE n == Arrives(i, fee)
           T == funds.transit \ {i}
           k == n - i.amt
<1>2. /\ funds \in FundsSet /\ IsFiniteSet(funds.transit) /\ Empty(funds) /\ seen \in SeenSet
      /\ clock \in Nat
  BY DEF IInv, TypeOK, VmEmpty, Empty, SeenSet
<1>3. UNCHANGED <<eoa, used, rate, paused, route, at, wait, clock, plans>>
  BY DEF Deliver
<1>4. i \in Transfers
  BY <1>2 DEF FundsSet
<1>5. /\ i.token \in Tokens /\ i.amt \in Nat /\ n \in Nat /\ k \in Int /\ n >= Least(i.amt)
      /\ i.compose \in {NoTx} \cup Programs
  BY <1>4, LeastArrives DEF Transfers
<1>6. T \subseteq funds.transit /\ IsFiniteSet(T)
  BY <1>2, FS_RemoveElement
<1>7. i.compose # NoTx => i.compose.credit = "user" /\ i.compose.market \in Ids
  BY <1>5 DEF Programs
<1>8. ASSUME NEW g \in FundsSet, g.transit = T, Held(g, "user") = Held(funds, "user") + n
      PROVE  Wealth(g) = Wealth(funds) + k
  <2>1. Moving(g) = Moving(funds) - i.amt
    BY <1>2, <1>8, MovingRemove
  <2>2. Moving(funds) \in Int /\ Held(funds, "user") \in Int
    BY <1>2, MovingInt DEF Parties
  <2> QED
    BY <1>5, <1>8, <2>1, <2>2 DEF Wealth
<1> HIDE DEF n
\* What the history notes.
<1>9. /\ seen' \in SeenSet /\ seen'.external = seen.external /\ seen'.fees = seen.fees + i.amt - n
      /\ seen'.left = seen.left /\ seen'.void = seen.void /\ seen'.disturbed = seen.disturbed
      /\ seen'.outflow = seen.outflow
      /\ i.compose = NoTx /\ i.plan = plans =>
           seen'.landed = TRUE /\ seen'.readLanded = seen.readLanded /\ seen'.inflow = seen.inflow
      /\ ~(i.compose = NoTx /\ i.plan = plans) =>
           seen'.landed = seen.landed /\ seen'.readLanded = seen.readLanded
      /\ i.compose = NoTx /\ i.plan # plans => seen'.inflow = TRUE
      /\ i.compose # NoTx => seen'.inflow = seen.inflow
  <2> DEFINE fees == seen.fees + i.amt - n
             in == i.compose = NoTx \/ seen.inflow
  <2>1. fees \in Int /\ in \in BOOLEAN
    BY <1>2, <1>5 DEF SeenSet
  <2>2. CASE i.compose = NoTx /\ i.plan = plans
    <3>1. seen' = [seen EXCEPT !.fees = fees, !.landed = TRUE]
      BY <1>1, <1>2, <2>2 DEF SeenSet, n
    <3> HIDE DEF fees
    <3>2. /\ seen' \in SeenSet /\ seen'.external = seen.external /\ seen'.fees = fees
          /\ seen'.left = seen.left /\ seen'.void = seen.void /\ seen'.disturbed = seen.disturbed
          /\ seen'.outflow = seen.outflow
          /\ seen'.landed = TRUE /\ seen'.readLanded = seen.readLanded /\ seen'.inflow = seen.inflow
      BY <1>2, <2>1, <3>1 DEF SeenSet
    <3> QED
      BY <2>2, <3>2 DEF fees
  <2>3. CASE ~(i.compose = NoTx /\ i.plan = plans)
    <3>1. seen' = [seen EXCEPT !.fees = fees, !.inflow = in]
      BY <1>1, <1>2, <2>3 DEF SeenSet, n
    <3>2. (i.compose = NoTx => in = TRUE) /\ (i.compose # NoTx => in = seen.inflow)
      BY <1>2 DEF SeenSet
    <3> HIDE DEF fees, in
    <3>3. /\ seen' \in SeenSet /\ seen'.external = seen.external /\ seen'.fees = fees
          /\ seen'.left = seen.left /\ seen'.void = seen.void /\ seen'.disturbed = seen.disturbed
          /\ seen'.outflow = seen.outflow
          /\ seen'.landed = seen.landed /\ seen'.readLanded = seen.readLanded /\ seen'.inflow = in
      BY <1>2, <2>1, <3>1 DEF SeenSet
    <3> QED
      BY <2>3, <3>2, <3>3 DEF fees
  <2> QED
    BY <2>2, <2>3
<1>10. seen'.external - seen'.fees = seen.external - seen.fees + k
  BY <1>2, <1>5, <1>9 DEF SeenSet
<1>11. WaitFits'
  <2>1. wait.pc = "timeout" => clock >= wait.deadline
    BY DEF IInv, WaitFits
  <2> QED
    BY <1>3, <1>9, <2>1 DEF IInv, WaitFits, Ends
<1>12. /\ funds' \in FundsSet /\ funds'.transit = T /\ Empty(funds')
       /\ Held(funds', "user") = Held(funds, "user") + n
       /\ i.compose # NoTx => funds'.bal = funds.bal
       /\ i.compose = NoTx =>
            /\ funds'.bal["user"][i.token] = funds.bal["user"][i.token] + n
            /\ \A u \in Tokens \ {i.token} : funds'.bal["user"][u] = funds.bal["user"][u]
  <2>1. CASE i.compose = NoTx
    <3> DEFINE h == Wallet(funds, T, i.token, n)
    <3>1. funds' = h
      BY <1>1, <1>2, <2>1 DEF Wallet, FundsSet, n
    <3>2. n \in Int /\ funds.bal["user"][i.token] + n >= 0
      BY <1>2, <1>5 DEF FundsSet, Parties
    <3>3. /\ h \in FundsSet /\ h.transit = T /\ Empty(h)
          /\ Held(h, "user") = Held(funds, "user") + n
          /\ h.bal["user"][i.token] = funds.bal["user"][i.token] + n
          /\ \A u \in Tokens \ {i.token} : h.bal["user"][u] = funds.bal["user"][u]
      <4> HIDE DEF T
      <4> QED
        BY <1>2, <1>5, <1>6, <3>2, WalletMoves
    <3> HIDE DEF h
    <3> QED
      BY <2>1, <3>1, <3>3
  <2>2. CASE i.compose # NoTx
    <3> DEFINE m == i.compose.market
               h == Position(funds, T, m, n)
    <3>1. funds' = h
      BY <1>1, <1>2, <1>7, <2>2 DEF Position, FundsSet, n
    <3>2. h \in FundsSet /\ h.transit = T /\ h.bal = funds.bal /\ Empty(h)
          /\ Held(h, "user") = Held(funds, "user") + n
      <4>1. m \in Ids
        BY <1>7, <2>2
      <4> HIDE DEF T, m
      <4> QED
        BY <1>2, <1>5, <1>6, <4>1, PositionMoves
    <3> HIDE DEF h
    <3> QED
      BY <2>2, <3>1, <3>2
  <2> QED
    BY <2>1, <2>2
<1>13. Wealth(funds') = Wealth(funds) + k
  BY <1>8, <1>12
<1>14. PendingFits'
  <2> SUFFICES ASSUME Ends(route) PROVE PendingFits'
    BY <1>3 DEF PendingFits, Ends
  <2> DEFINE u == route.pending.token
             b == funds.bal["user"][u]
             c == funds'.bal["user"][u]
  <2>1. PendingFits /\ wait.start \in Nat /\ wait.min \in Nat
    BY DEF IInv, TypeOK
  <2>2. u \in Tokens
    BY ListingIn DEF IInv, RouteFits, Ends, NoRoute, Raised, Listed
  <2>3. b \in Nat
    BY <1>2, <2>2 DEF FundsSet, Parties
  <2>4. c = b \/ (i.compose = NoTx /\ i.token = u /\ c = b + n)
    BY <1>12, <2>2
  <2>5. i.compose = NoTx /\ i.plan = plans => i.token = u /\ c = b + n /\ n >= wait.min
    BY <1>5, <1>12, <2>1, <2>2 DEF PendingFits
  <2>6. ASSUME ~seen'.landed, ~seen'.inflow PROVE c <= wait.start
    <3>1. i.compose # NoTx /\ ~seen.landed /\ ~seen.inflow
      BY <1>9, <2>6
    <3>2. b <= wait.start
      BY <2>1, <3>1 DEF PendingFits
    <3> QED
      BY <2>4, <3>1, <3>2
  <2>7. ASSUME ~seen'.outflow PROVE c >= wait.start + (IF seen'.landed THEN wait.min ELSE 0)
    <3>1. ~seen.outflow
      BY <1>9, <2>7
    <3>2. b >= wait.start + (IF seen.landed THEN wait.min ELSE 0)
      BY <2>1, <3>1 DEF PendingFits
    <3>3. c >= b
      BY <1>5, <2>3, <2>4
    <3>4. CASE i.compose = NoTx /\ i.plan = plans
      BY <1>5, <1>9, <2>1, <2>3, <2>5, <3>2, <3>4
    <3>5. CASE ~(i.compose = NoTx /\ i.plan = plans)
      <4>1. seen'.landed = seen.landed
        BY <1>9, <3>5
      <4>2. c \in Int
        BY <1>5, <2>3, <2>4
      <4> HIDE DEF b, c
      <4> QED
        BY <2>1, <2>3, <3>2, <3>3, <4>1, <4>2
    <3> QED
      BY <3>4, <3>5
  <2>8. \A j \in funds'.transit : j \in funds.transit
    BY <1>12
  <2> QED
    BY <1>3, <2>1, <2>6, <2>7, <2>8 DEF PendingFits, Least
<1> HIDE DEF k, T
<1> QED
  BY <1>3, <1>5, <1>6, <1>9, <1>10, <1>11, <1>12, <1>13, <1>14, HoldingsKeep

-----------------------------------------------------------------------------
(* Waiting, the destination leg, and everybody else. *)

WaitSet == [pc : {"off", "sleep", "asked", "settled", "timeout", "failed"}, start : Nat,
            min : Nat, deadline : Nat, wake : Nat, balance : Nat, got : Nat]

\* What neither the funds nor the history see.
LEMMA LedgerSame ==
  ASSUME IInv, UNCHANGED <<funds, seen>>
  PROVE  VmEmpty' /\ Conserved' /\ (\A i \in funds'.transit : i.plan <= plans)
BY DEF IInv, VmEmpty, Conserved, Wealth, Held, Moving, NotYetSent

LEMMA FinishKeeps == ASSUME IInv, Finish PROVE IInv'
<1>1. /\ route' = NoRoute /\ at' = 1 /\ route.pending = NoMarket
      /\ UNCHANGED <<funds, eoa, used, rate, paused, wait, clock, plans, others, seen>>
  BY DEF Finish
<1>2. ~route'.ok /\ wait.pc = "off"
  BY <1>1 DEF NoRoute, Raised, IInv, WaitFits, Ends
<1>3. TypeOK'
  BY <1>1 DEF IInv, TypeOK
<1>4. RouteFits' /\ NotYetSent' /\ BatchCounts' /\ PendingFits' /\ WaitFits'
  BY <1>1, <1>2 DEF IInv, RouteFits, NotYetSent, BatchCounts, PendingFits, WaitFits, Ends
<1>5. LeftBeaten'
  BY <1>1, SameMarkets DEF LeftBeaten, IInv
<1> QED
  BY <1>1, <1>3, <1>4, <1>5, LedgerSame DEF IInv

\* The wait moves on, and keeps what it compares with.
LEMMA WaitReads ==
  ASSUME IInv, wait' \in WaitSet, wait'.start = wait.start, wait'.min = wait.min,
         clock' \in Nat, seen' \in SeenSet,
         seen'.external = seen.external, seen'.fees = seen.fees, seen'.left = seen.left,
         seen'.disturbed = seen.disturbed, seen'.void = seen.void, seen'.landed = seen.landed,
         seen'.inflow = seen.inflow, seen'.outflow = seen.outflow,
         UNCHANGED <<funds, eoa, rate, paused, route, at, plans>>, WaitFits'
  PROVE  IInv'
<1>1. TypeOK'
  BY DEF IInv, TypeOK, WaitSet, SeenSet
<1>2. RouteFits' /\ NotYetSent' /\ BatchCounts'
  BY DEF IInv, RouteFits, NotYetSent, BatchCounts
<1>3. PendingFits'
  BY DEF IInv, PendingFits, Ends, Least
<1>4. LeftBeaten'
  BY SameMarkets DEF LeftBeaten, IInv
<1>5. VmEmpty' /\ Conserved'
  BY DEF IInv, VmEmpty, Conserved, Wealth, Held, Moving
<1> QED
  BY <1>1, <1>2, <1>3, <1>4, <1>5 DEF IInv

LEMMA WaitMoves ==
  ASSUME IInv, wait' \in WaitSet, wait'.start = wait.start, wait'.min = wait.min,
         clock' \in Nat,
         UNCHANGED <<funds, eoa, rate, paused, route, at, plans, seen>>, WaitFits'
  PROVE  IInv'
<1>1. seen' \in SeenSet
  BY DEF IInv, TypeOK, SeenSet
<1> QED
  BY <1>1, WaitReads

LEMMA StartWaitKeeps == ASSUME IInv, StartWait PROVE IInv'
<1>1. /\ AllSent /\ wait' = [wait EXCEPT !.pc = "sleep", !.wake = clock, !.deadline = clock + Timeout]
      /\ UNCHANGED <<funds, eoa, used, rate, paused, route, at, clock, plans, others, seen>>
  BY DEF StartWait
<1>2. wait \in WaitSet /\ clock \in Nat /\ clock + Timeout \in Nat
  BY TimesAssumption DEF IInv, TypeOK, WaitSet
<1>3. wait' \in WaitSet /\ wait'.start = wait.start /\ wait'.min = wait.min /\ wait'.pc = "sleep"
  <2> DEFINE deadline == clock + Timeout
  <2>1. deadline \in Nat /\ wait' = [wait EXCEPT !.pc = "sleep", !.wake = clock, !.deadline = deadline]
    BY <1>1, <1>2
  <2> HIDE DEF deadline
  <2> QED
    BY <1>2, <2>1 DEF WaitSet
<1>4. WaitFits'
  BY <1>1, <1>3 DEF WaitFits, AllSent, Ends
<1> QED
  BY <1>1, <1>2, <1>3, <1>4, WaitMoves

\* The token waited for, and what the user holds of it.
LEMMA Waited ==
  ASSUME IInv, wait.pc # "off"
  PROVE  LET balance == funds.bal["user"][route.pending.token]
         IN  /\ Ends(route) /\ at > Len(route.steps) /\ balance \in Nat /\ wait.min > 0
             /\ ~seen.landed /\ ~seen.inflow => balance <= wait.start
             /\ ~seen.outflow => balance >= wait.start + (IF seen.landed THEN wait.min ELSE 0)
<1>1. Ends(route) /\ at > Len(route.steps)
  BY DEF IInv, WaitFits
<1>2. route.pending.token \in Tokens
  BY <1>1, ListingIn DEF IInv, RouteFits, Ends, NoRoute, Raised, Listed
<1>3. funds.bal["user"][route.pending.token] \in Nat
  BY <1>2 DEF IInv, TypeOK, FundsSet, Parties
<1> QED
  BY <1>1, <1>3 DEF IInv, PendingFits

LEMMA ReadBalanceKeeps == ASSUME IInv, ReadBalance PROVE IInv'
<1> DEFINE balance == funds.bal["user"][route.pending.token]
<1>1. /\ wait.pc = "sleep" /\ wait' = [wait EXCEPT !.pc = "asked", !.balance = balance]
      /\ seen' = [seen EXCEPT !.readLanded = seen.landed]
      /\ UNCHANGED <<funds, eoa, used, rate, paused, route, at, clock, plans, others>>
  BY DEF ReadBalance
<1>2. wait \in WaitSet /\ clock \in Nat /\ seen \in SeenSet
  BY DEF IInv, TypeOK, WaitSet, SeenSet
<1>3. /\ Ends(route) /\ at > Len(route.steps) /\ balance \in Nat
      /\ ~seen.landed /\ ~seen.inflow => balance <= wait.start
      /\ ~seen.outflow => balance >= wait.start + (IF seen.landed THEN wait.min ELSE 0)
  BY <1>1, Waited
<1> HIDE DEF balance
<1>4. /\ wait' \in WaitSet /\ wait'.start = wait.start /\ wait'.min = wait.min
      /\ wait'.pc = "asked" /\ wait'.balance = balance
  BY <1>1, <1>2, <1>3 DEF WaitSet
<1>5. /\ seen' \in SeenSet /\ seen'.readLanded = seen.landed
      /\ seen'.external = seen.external /\ seen'.fees = seen.fees /\ seen'.left = seen.left
      /\ seen'.disturbed = seen.disturbed /\ seen'.void = seen.void
      /\ seen'.landed = seen.landed /\ seen'.inflow = seen.inflow /\ seen'.outflow = seen.outflow
  BY <1>1, <1>2 DEF SeenSet
<1>6. WaitFits'
  BY <1>1, <1>3, <1>4, <1>5 DEF WaitFits, Ends
<1> QED
  BY <1>1, <1>2, <1>4, <1>5, <1>6, WaitReads

LEMMA PollKeeps == ASSUME IInv, Poll PROVE IInv'
<1> DEFINE delta == wait.balance - wait.start
           next == clock + PollInterval
           w == Polled(wait.balance)
<1>1. /\ wait.pc = "asked" /\ wait' = [w EXCEPT !.balance = 0]
      /\ UNCHANGED <<funds, eoa, used, rate, paused, route, at, clock, plans, others, seen>>
  BY DEF Poll
<1>2. wait \in WaitSet /\ clock \in Nat /\ next \in Nat
  BY TimesAssumption DEF IInv, TypeOK, WaitSet
<1>3. /\ wait.start \in Nat /\ wait.min \in Nat /\ wait.deadline \in Nat /\ wait.balance \in Nat
      /\ delta \in Int
  BY <1>2 DEF WaitSet
<1>4. Ends(route) /\ at > Len(route.steps) /\ wait.min > 0
  BY <1>1, Waited
<1>5. /\ ~seen.landed /\ ~seen.inflow => wait.balance <= wait.start
      /\ ~seen.outflow => wait.balance >= wait.start + (IF seen.readLanded THEN wait.min ELSE 0)
  BY <1>1 DEF IInv, WaitFits
\* What the turn keeps, and where it leads.
<1>6. ASSUME w \in WaitSet, w.start = wait.start, w.min = wait.min, w.deadline = wait.deadline,
             w.pc \in {"sleep", "settled", "timeout"},
             w.pc = "settled" => seen.landed \/ seen.inflow,
             w.pc = "timeout" => clock >= wait.deadline /\ (~seen.readLanded \/ seen.outflow)
      PROVE  IInv'
  <2> HIDE DEF w
  <2>1. /\ wait' \in WaitSet /\ wait'.start = wait.start /\ wait'.min = wait.min
        /\ wait'.deadline = wait.deadline /\ wait'.pc = w.pc
    BY <1>1, <1>6 DEF WaitSet
  <2>2. WaitFits'
    BY <1>1, <1>4, <1>6, <2>1 DEF WaitFits, Ends
  <2> QED
    BY <1>1, <1>2, <2>1, <2>2, WaitMoves
<1>7. CASE delta >= wait.min
  <2>1. w = [wait EXCEPT !.pc = "settled", !.got = wait.balance]
    BY <1>3, <1>7 DEF Polled
  <2>2. seen.landed \/ seen.inflow
    BY <1>3, <1>4, <1>5, <1>7
  <2> HIDE DEF w
  <2>3. /\ w \in WaitSet /\ w.start = wait.start /\ w.min = wait.min /\ w.deadline = wait.deadline
        /\ w.pc = "settled"
    BY <1>2, <1>3, <2>1 DEF WaitSet
  <2> QED
    BY <1>6, <2>2, <2>3
<1>8. CASE delta < wait.min /\ clock >= wait.deadline
  <2>1. w = [wait EXCEPT !.pc = "timeout"]
    BY <1>3, <1>8 DEF Polled
  <2>2. ~seen.readLanded \/ seen.outflow
    BY <1>3, <1>5, <1>8
  <2> HIDE DEF w
  <2>3. /\ w \in WaitSet /\ w.start = wait.start /\ w.min = wait.min /\ w.deadline = wait.deadline
        /\ w.pc = "timeout"
    BY <1>2, <2>1 DEF WaitSet
  <2> QED
    BY <1>6, <1>8, <2>2, <2>3
<1>9. CASE delta < wait.min /\ ~(clock >= wait.deadline)
  <2> DEFINE wake == IF next < wait.deadline THEN next ELSE wait.deadline
  <2>1. w = [wait EXCEPT !.pc = "sleep", !.wake = wake] /\ wake \in Nat
    BY <1>2, <1>3, <1>9 DEF Polled
  <2> HIDE DEF wake, w
  <2>2. /\ w \in WaitSet /\ w.start = wait.start /\ w.min = wait.min /\ w.deadline = wait.deadline
        /\ w.pc = "sleep"
    BY <1>2, <2>1 DEF WaitSet
  <2> QED
    BY <1>6, <2>2
<1> QED
  BY <1>3, <1>7, <1>8, <1>9

LEMMA CallFailsKeeps == ASSUME IInv, CallFails PROVE IInv'
<1>1. /\ wait.pc = "sleep" /\ wait' = [wait EXCEPT !.pc = "failed"]
      /\ UNCHANGED <<funds, eoa, used, rate, paused, route, at, clock, plans, others, seen>>
  BY DEF CallFails
<1>2. wait \in WaitSet /\ clock \in Nat
  BY DEF IInv, TypeOK, WaitSet
<1>3. wait' \in WaitSet /\ wait'.start = wait.start /\ wait'.min = wait.min /\ wait'.pc = "failed"
  BY <1>1, <1>2 DEF WaitSet
<1>4. Ends(route) /\ at > Len(route.steps)
  BY <1>1, Waited
<1>5. WaitFits'
  BY <1>1, <1>3, <1>4 DEF WaitFits, Ends
<1> QED
  BY <1>1, <1>2, <1>3, <1>5, WaitMoves

LEMMA TickKeeps == ASSUME IInv, Tick PROVE IInv'
<1>1. /\ clock' = clock + 1
      /\ UNCHANGED <<funds, eoa, used, rate, paused, route, at, wait, plans, others, seen>>
  BY DEF Tick
<1>2. wait \in WaitSet /\ clock \in Nat /\ wait.deadline \in Nat
  BY DEF IInv, TypeOK, WaitSet
<1>3. WaitFits'
  BY <1>1, <1>2 DEF IInv, WaitFits, Ends
<1> QED
  BY <1>1, <1>2, <1>3, WaitMoves

LEMMA FollowUpKeeps == ASSUME IInv, FollowUp PROVE IInv'
<1> DEFINE m == route.pending
           token == m.token
           balance == IF wait.pc = "settled" THEN wait.got ELSE funds.bal["user"][token]
           got == balance - wait.start
           a == [token |-> token, amt |-> got]
           d == clock + SignTtl
<1>1. /\ AllSent /\ got > 0 /\ at' = 1 /\ wait' = Off
      /\ seen' = [seen EXCEPT !.disturbed = FALSE, !.void = FALSE, !.landed = FALSE,
                              !.readLanded = FALSE, !.inflow = FALSE,
                              !.outflow = FALSE]
      /\ UNCHANGED <<funds, eoa, used, rate, paused, clock, plans, others>>
  BY DEF FollowUp
<1>2. PICK opts, n, r :
        /\ opts \in {"plain", "defivm", "delegate"} /\ n \in PickNonce
        /\ r = BuildFollowupRoute(route, a, Chains, opts, View(token.chain, n))
        /\ r.ok /\ route' = SignRoute(r, d)
  BY DEF FollowUp
<1>3. Listed(m) /\ route.ok
  BY <1>1 DEF IInv, RouteFits, AllSent, NoRoute, Raised
<1>4. token \in Tokens /\ token.chain \in Chains
  BY <1>3, ListingIn DEF Listed, Chains
<1>5. got \in Int
  <2>1. funds.bal["user"][token] \in Nat /\ wait \in WaitSet
    BY <1>4 DEF IInv, TypeOK, FundsSet, Parties, WaitSet
  <2> QED
    BY <2>1 DEF WaitSet
<1> HIDE DEF got
<1>6. Amount(a) /\ n \in Nat /\ a.token = token
  <2>1. n \in Nat
    BY <1>2, NonceIn
  <2> QED
    BY <1>1, <1>4, <1>5, <2>1 DEF Amount
<1> DEFINE view == View(token.chain, n)
<1>7. ViewOK(view) /\ view.nonce = eoa[token.chain].nonce /\ view.code = eoa[token.chain].code
  BY <1>4, <1>6, ViewFits
<1> HIDE DEF view, a
<1>8. r = BuildFollowupRoute(route, a, Chains, opts, view)
  BY <1>2 DEF view
<1> HIDE DEF m
<1>9. /\ Planned(r, a, view) /\ r.pending = NoMarket
      /\ \A k \in 1..Len(r.steps) : ~CarriesRaw(r.steps[k])
  BY <1>2, <1>3, <1>6, <1>7, <1>8, FollowupPlan DEF m
<1>10. d \in Nat
  BY TimesAssumption DEF IInv, TypeOK
<1>11. r.source = a.token.chain
  BY <1>9, PlannedFrom
<1> HIDE DEF d, token
<1>12. /\ route'.ok = TRUE /\ route'.source = token.chain /\ route'.pending = NoMarket
       /\ Shaped(route'.steps, route'.source) /\ Counted(route'.steps, view)
       /\ \A k \in 1..Len(route'.steps) : ~Carries(route'.steps[k].tx)
  <2> DEFINE s == SignRoute(r, d)
  <2>1. s.ok = TRUE /\ s.source = r.source /\ s.pending = r.pending
    BY <1>9, SignedSame
  <2>2. /\ Shaped(s.steps, r.source) /\ Counted(s.steps, view) /\ Len(s.steps) = Len(r.steps)
        /\ \A k \in 1..Len(r.steps) : Carries(s.steps[k].tx) => CarriesRaw(r.steps[k])
    BY <1>6, <1>7, <1>9, <1>10, PlannedSigned
  <2> HIDE DEF s
  <2>3. route' = s
    BY <1>2 DEF s
  <2> QED
    BY <1>6, <1>9, <1>11, <2>1, <2>2, <2>3
<1>13. Len(route'.steps) \in Nat /\ Len(route'.steps) > 0
  BY <1>12 DEF Shaped
<1>14. /\ seen' \in SeenSet /\ seen'.disturbed = FALSE /\ seen'.void = FALSE
       /\ seen'.external = seen.external /\ seen'.fees = seen.fees /\ seen'.left = seen.left
  BY <1>1 DEF IInv, TypeOK, SeenSet
<1>15. TypeOK'
  BY <1>1, <1>14 DEF IInv, TypeOK, Off, SeenSet
<1>16. VmEmpty' /\ Conserved'
  BY <1>1, <1>14 DEF IInv, VmEmpty, Conserved, Wealth, Held, Moving
<1>17. RouteFits'
  BY <1>1, <1>12, <1>13 DEF RouteFits
<1>18. NotYetSent'
  <2>1. \A k \in at'..Len(route'.steps) : k \in 1..Len(route'.steps)
    BY <1>1, <1>13
  <2> QED
    BY <1>1, <1>12, <2>1 DEF IInv, NotYetSent
<1>19. BatchCounts'
  BY <1>1, <1>7, <1>12, <1>14 DEF BatchCounts, Counted
<1>20. PendingFits' /\ WaitFits'
  BY <1>1, <1>12 DEF PendingFits, WaitFits, Ends, Off
<1>21. LeftBeaten'
  BY <1>1, <1>14, SameMarkets DEF LeftBeaten, IInv
<1> QED
  BY <1>15, <1>16, <1>17, <1>18, <1>19, <1>20, <1>21 DEF IInv

LEMMA OtherTxKeeps == ASSUME IInv, OtherTx PROVE IInv'
<1>1. /\ seen' = [seen EXCEPT !.disturbed = TRUE]
      /\ UNCHANGED <<funds, used, rate, paused, route, at, wait, clock, plans>>
  BY DEF OtherTx
<1>2. eoa \in [Chains -> AccountsOf] /\ seen \in SeenSet
  BY DEF IInv, TypeOK, AccountsOf, SeenSet
<1>3. eoa' \in [Chains -> AccountsOf]
  <2>1. PICK c \in Chains, code \in {"none", "foreign", "keep"} :
          eoa' = [eoa EXCEPT ![c].nonce = @ + 1, ![c].code = IF code = "keep" THEN @ ELSE code]
    BY DEF OtherTx
  <2> DEFINE nonce == eoa[c].nonce + 1
             new == IF code = "keep" THEN eoa[c].code ELSE code
             e == [eoa[c] EXCEPT !.nonce = nonce, !.code = new]
  <2>2. eoa[c] \in AccountsOf
    BY <1>2
  <2>3. nonce \in Nat /\ new \in {"none", "foreign", "calibur"}
    BY <2>2 DEF AccountsOf
  <2>4. eoa' = [eoa EXCEPT ![c] = e]
    BY <1>2, <2>1 DEF AccountsOf
  <2> HIDE DEF nonce, new
  <2>5. e \in AccountsOf
    BY <2>2, <2>3 DEF AccountsOf
  <2> HIDE DEF e
  <2> QED
    BY <1>2, <2>4, <2>5
<1>4. /\ seen' \in SeenSet /\ seen'.disturbed = TRUE
      /\ seen'.external = seen.external /\ seen'.fees = seen.fees /\ seen'.left = seen.left
      /\ seen'.landed = seen.landed /\ seen'.readLanded = seen.readLanded
      /\ seen'.inflow = seen.inflow /\ seen'.outflow = seen.outflow
  BY <1>1, <1>2 DEF SeenSet
<1>5. TypeOK'
  BY <1>1, <1>3, <1>4 DEF IInv, TypeOK, AccountsOf, SeenSet
<1>6. VmEmpty' /\ Conserved'
  BY <1>1, <1>4 DEF IInv, VmEmpty, Conserved, Wealth, Held, Moving
<1>7. RouteFits' /\ NotYetSent' /\ BatchCounts'
  BY <1>1, <1>4 DEF IInv, RouteFits, NotYetSent, BatchCounts
<1>8. PendingFits' /\ WaitFits'
  BY <1>1, <1>4 DEF IInv, PendingFits, WaitFits, Ends, Least
<1>9. LeftBeaten'
  BY <1>1, <1>4, SameMarkets DEF LeftBeaten, IInv
<1> QED
  BY <1>5, <1>6, <1>7, <1>8, <1>9 DEF IInv

\* Rates and pauses concern nothing that is planned or under way.
LEMMA ScanMoves ==
  ASSUME IInv, rate' \in [Ids -> Int], paused' \subseteq Ids, seen' = [seen EXCEPT !.left = {}],
         UNCHANGED <<funds, eoa, used, route, at, wait, clock, plans>>
  PROVE  IInv'
<1>1. seen \in SeenSet
  BY DEF IInv, TypeOK, SeenSet
<1>2. /\ seen' \in SeenSet /\ seen'.disturbed = seen.disturbed /\ seen'.void = seen.void
      /\ seen'.external = seen.external /\ seen'.fees = seen.fees /\ seen'.left = {}
      /\ seen'.landed = seen.landed /\ seen'.readLanded = seen.readLanded
      /\ seen'.inflow = seen.inflow /\ seen'.outflow = seen.outflow
  BY <1>1 DEF SeenSet
<1>3. TypeOK'
  BY <1>2 DEF IInv, TypeOK, SeenSet
<1>4. VmEmpty' /\ Conserved'
  BY <1>2 DEF IInv, VmEmpty, Conserved, Wealth, Held, Moving
<1>5. RouteFits' /\ NotYetSent' /\ BatchCounts'
  BY <1>2 DEF IInv, RouteFits, NotYetSent, BatchCounts
<1>6. PendingFits' /\ WaitFits'
  BY <1>2 DEF IInv, PendingFits, WaitFits, Ends, Least
<1>7. LeftBeaten'
  BY <1>2 DEF LeftBeaten
<1> QED
  BY <1>3, <1>4, <1>5, <1>6, <1>7 DEF IInv

LEMMA TogglePauseKeeps == ASSUME IInv, TogglePause PROVE IInv'
<1>1. /\ seen' = [seen EXCEPT !.left = {}]
      /\ UNCHANGED <<funds, eoa, used, rate, route, at, wait, clock, plans>>
  BY DEF TogglePause
<1>2. paused' \subseteq Ids /\ rate' \in [Ids -> Int]
  BY DEF TogglePause, IInv, TypeOK
<1> QED
  BY <1>1, <1>2, ScanMoves

LEMMA RatesMoveKeeps == ASSUME IInv, RatesMove PROVE IInv'
<1>1. /\ seen' = [seen EXCEPT !.left = {}]
      /\ UNCHANGED <<funds, eoa, used, paused, route, at, wait, clock, plans>>
  BY DEF RatesMove
<1>2. paused' \subseteq Ids /\ rate' \in [Ids -> Int]
  BY RatesAssumption DEF RatesMove, IInv, TypeOK
<1> QED
  BY <1>1, <1>2, ScanMoves

LEMMA OtherProgramKeeps == ASSUME IInv, OtherProgram PROVE IInv'
<1>0. PICK l \in World, n \in {0, 1, Max256} :
        \E s \in {l.id, "bridge"} : funds' = [funds EXCEPT !.allow["vm"][l.token][s] = n]
  BY DEF OtherProgram
<1>1. PICK s \in {l.id, "bridge"} : funds' = [funds EXCEPT !.allow["vm"][l.token][s] = n]
  BY <1>0
<1>2. UNCHANGED <<eoa, used, rate, paused, route, at, wait, clock, plans, seen>>
  BY DEF OtherProgram
<1>3. l.token \in Tokens /\ s \in Spenders /\ n \in Int /\ "vm" \in Parties
  BY ListingOf, TimesAssumption DEF Spenders, Parties
<1>4. funds \in FundsSet /\ IsFiniteSet(funds.transit)
  BY DEF IInv, TypeOK
<1> DEFINE row == [funds.allow["vm"] EXCEPT ![l.token][s] = n]
           allow == [funds.allow EXCEPT !["vm"] = row]
<1>5. row \in [Tokens -> [Spenders -> Int]]
  BY <1>3, <1>4 DEF FundsSet
<1>6. funds' = [funds EXCEPT !.allow = allow]
  BY <1>1, <1>4 DEF FundsSet
<1> HIDE DEF row
<1>7. allow \in [Parties -> [Tokens -> [Spenders -> Int]]]
  BY <1>3, <1>4, <1>5 DEF FundsSet
<1> HIDE DEF allow
<1>8. /\ funds' \in FundsSet
      /\ funds'.bal = funds.bal /\ funds'.pos = funds.pos /\ funds'.transit = funds.transit
  BY <1>4, <1>6, <1>7 DEF FundsSet
<1>9. TypeOK'
  BY <1>2, <1>8 DEF IInv, TypeOK
<1>10. VmEmpty' /\ Conserved'
  BY <1>2, <1>8 DEF IInv, VmEmpty, Conserved, Wealth, Held, Moving
<1>11. RouteFits' /\ NotYetSent' /\ BatchCounts'
  BY <1>2, <1>8 DEF IInv, RouteFits, NotYetSent, BatchCounts
<1>12. PendingFits' /\ WaitFits'
  BY <1>2, <1>8 DEF IInv, PendingFits, WaitFits, Ends, Least
<1>13. LeftBeaten'
  BY <1>2, SameMarkets DEF LeftBeaten, IInv
<1> QED
  BY <1>9, <1>10, <1>11, <1>12, <1>13 DEF IInv

LEMMA StutterKeeps == ASSUME IInv, UNCHANGED vars PROVE IInv'
<1>1. wait \in WaitSet /\ clock \in Nat /\ WaitFits
  BY DEF IInv, TypeOK, WaitSet
<1>2. WaitFits'
  BY <1>1 DEF WaitFits, vars, Ends
<1> QED
  BY <1>1, <1>2, WaitMoves DEF vars

-----------------------------------------------------------------------------

(* The invariant, and what follows from it. *)

\* IInv is inductive: every action of Next keeps it.
LEMMA NextKeeps == ASSUME IInv, [Next]_vars PROVE IInv'
<1>1. CASE UNCHANGED vars
  BY <1>1, StutterKeeps
<1>2. CASE Plan \/ Rebalance \/ FollowUp \/ Finish
  BY <1>2, PlanKeeps, RebalanceKeeps, FollowUpKeeps, FinishKeeps
<1>3. CASE Broadcast \/ Sponsor7702 \/ SponsorPermit2 \/ Deliver
  BY <1>3, BroadcastKeeps, Sponsor7702Keeps, SponsorPermit2Keeps, DeliverKeeps
<1>4. CASE StartWait \/ ReadBalance \/ Poll \/ CallFails \/ Tick
  BY <1>4, StartWaitKeeps, ReadBalanceKeeps, PollKeeps, CallFailsKeeps, TickKeeps
<1>5. CASE OtherTx \/ Transfer \/ TogglePause \/ OtherProgram \/ RatesMove
  BY <1>5, OtherTxKeeps, TransferKeeps, TogglePauseKeeps, OtherProgramKeeps, RatesMoveKeeps
<1> QED
  BY <1>1, <1>2, <1>3, <1>4, <1>5 DEF Next

\* The inductive invariant holds in every reachable state.
THEOREM Consistency == Spec => []IInv
BY InitInv, NextKeeps, PTL DEF Spec

\* Type correctness: no wallet, position or transfer is ever below zero, and a
\* wait, a route in progress and a nonce are always what the code takes them for.
THEOREM TypeCorrect == Spec => []TypeOK
BY Consistency, PTL DEF IInv

\* Every unit the user had, received or was charged is in the wallet, in a
\* position or on its way; the shared VM holds nothing between transactions,
\* whichever step failed, was overtaken or was mined as a no-op.
THEOREM FundsAccounted == Spec => []FundsStayWithUser
<1>1. ASSUME IInv PROVE FundsStayWithUser
  <2>1. IsFiniteSet(Tokens) /\ IsFiniteSet(Ids)
    BY Finite
  <2>2. SumFunctionOnSet(funds.bal["vm"], Tokens) = 0
    BY <1>1, <2>1, SumZero DEF IInv, VmEmpty
  <2>3. SumFunctionOnSet(funds.pos["vm"], Ids) = 0
    BY <1>1, <2>1, SumZero DEF IInv, VmEmpty
  <2>4. Held(funds, "vm") = 0
    BY <2>2, <2>3 DEF Held
  <2> QED
    BY <1>1, <2>4 DEF IInv, Conserved, Wealth, Given, FundsStayWithUser
<1> QED
  BY <1>1, Consistency, PTL

\* Whatever is under way arrives as a token of the scan, a compose transfer as
\* the one its program supplies; while its plan lasts the follow-up can be built.
THEOREM RouteRecoverable == Spec => []Recoverable
<1>1. ASSUME IInv, NEW i \in funds.transit
      PROVE  i.token \in Tokens /\ (i.compose # NoTx => i.token = Listing(i.compose.market).token)
  BY <1>1 DEF IInv, TypeOK, FundsSet, Transfers, Usable
<1>2. ASSUME IInv, NEW i \in funds.transit, route.ok, route.pending # NoMarket, i.plan = plans
      PROVE  /\ i.compose = NoTx
             /\ BuildFollowupRoute(route, [token |-> i.token, amt |-> i.amt], Chains, "plain",
                                   View(i.token.chain, RandomNonce)).ok
  <2> DEFINE m == route.pending
             a == [token |-> i.token, amt |-> i.amt]
             view == View(i.token.chain, RandomNonce)
  <2>1. Listed(m)
    BY <1>2 DEF IInv, RouteFits, NoRoute, Raised
  <2>2. i.compose = NoTx /\ i.token = m.token
    BY <1>2 DEF IInv, PendingFits, Ends
  <2>3. m.chain \in Chains
    BY <2>1, ListingIn DEF Listed
  <2> HIDE DEF view
  <2>4. SupplySteps(m, a, "plain", view, 0).ok = TRUE
    BY DEF SupplySteps
  <2>5. a.token = i.token
    OBVIOUS
  <2> HIDE DEF m, a
  <2>6. Route(route.strategy, m.chain, <<>>, SupplySteps(m, a, "plain", view, 0), m, NoMarket).ok
    BY <2>4 DEF Route
  <2>7. BuildFollowupRoute(route, a, Chains, "plain", view).ok
    BY <1>2, <2>2, <2>3, <2>5, <2>6 DEF BuildFollowupRoute, SameTokenIdentity, m
  <2> QED
    BY <2>2, <2>7 DEF a, view
<1>3. IInv => Recoverable
  BY <1>1, <1>2 DEF Recoverable
<1> QED
  BY <1>3, Consistency, PTL

\* A sponsored batch is mined as a no-op only after another transaction of the
\* account overtook it: the nonces it was signed with count the route's own.
THEOREM BatchRuns == Spec => []SponsoredBatchRuns
<1>1. IInv => SponsoredBatchRuns
  BY DEF IInv, BatchCounts, SponsoredBatchRuns
<1> QED
  BY <1>1, Consistency, PTL

\* The wait settles only on a delivery or another transfer in, and times out
\* only past its deadline and only if nothing had been delivered when it last
\* read the balance, or something was transferred away.
THEOREM WaitHonest == Spec => []WaitTellsTheTruth
<1>1. IInv => WaitTellsTheTruth
  BY DEF IInv, WaitFits, WaitTellsTheTruth
<1> QED
  BY <1>1, Consistency, PTL

LEMMA TargetKept ==
  ASSUME NEW a, NEW source, NEW target, NEW b, NEW opts, NEW view,
         BuildYieldRoute("withdraw_then_supply", a, source, target, b, opts, view).ok
  PROVE  BuildYieldRoute("withdraw_then_supply", a, source, target, b, opts, view).target = target
<1>1. BuildYieldRoute("withdraw_then_supply", a, source, target, b, opts, view)
        = WithdrawThenSupply(a, source, target, b, opts, view)
  BY DEF BuildYieldRoute
<1>2. \A s, c, first, tail, p : Route(s, c, first, tail, target, p).ok
        => Route(s, c, first, tail, target, p).target = target
  BY DEF Route, Raised
<1>3. WithdrawThenSupply(a, source, target, b, opts, view).ok
        => WithdrawThenSupply(a, source, target, b, opts, view).target = target
  BY <1>2 DEF WithdrawThenSupply, Raised
<1> QED
  BY <1>1, <1>3

\* A rebalance goes to a market nothing on its chain outbids; every market
\* left before is outbid.
LEMMA RebalanceClimbs ==
  ASSUME IInv, Rebalance
  PROVE  route'.target.id \notin seen'.left
<1>1. PICK best, r :
        /\ best \in BestRebalance(GetPositions(Markets, funds.pos["user"]), Markets, Horizon, MinGain)
        /\ LET p == best[1]
               a == [token |-> p.market.token, amt |-> p.balance]
           IN  /\ r = BuildYieldRoute("withdraw_then_supply", a, p.market, best[2], NoBridge, "plain",
                                      View(p.market.chain, RandomNonce))
               /\ r.ok /\ Adopt(r, a.amt, seen.left \cup {p.market.id})
  BY DEF Rebalance
<1> DEFINE p == best[1]
           a == [token |-> p.market.token, amt |-> p.balance]
           left == seen.left \cup {p.market.id}
           view == View(p.market.chain, RandomNonce)
<1>2. TypeOK /\ rate \in [Ids -> Int]
  BY DEF IInv, TypeOK
<1>3. /\ p \in GetPositions(Markets, funds.pos["user"]) /\ best[2] \in Markets
      /\ best[2].id # p.market.id
      /\ \A h \in Markets : h.chain = best[2].chain => h.apy <= best[2].apy
  <2>1. best \in BestRebalance(GetPositions(Markets, funds.pos["user"]), Markets, Horizon, MinGain)
    BY <1>1
  <2> QED
    BY <1>2, <2>1, BestIsTop
<1>4. Amount(a) /\ p.market \in Markets
  BY <1>2, <1>3, PositionHeld
<1>5. /\ Listed(p.market) /\ Listed(best[2]) /\ p.market.chain \in Chains
      /\ best[2].apy = rate[best[2].id] /\ best[2].apy \in Int
      /\ best[2].chain = Listing(best[2].id).chain
  BY <1>2, <1>3, <1>4, MarketListed
<1>6. a.token.chain = p.market.chain
  BY <1>5 DEF Listed
<1>7. ViewOK(view)
  BY <1>5, ViewFits, TimesAssumption
<1>8. /\ r = BuildYieldRoute("withdraw_then_supply", a, p.market, best[2], NoBridge, "plain", view)
      /\ r.ok /\ Adopt(r, a.amt, left)
  BY <1>1
<1>9. \A h \in Markets : h.apy \in Int
  BY <1>2, MarketListed
<1>10. best[2].id \notin left
  <2>1. ASSUME best[2].id \in seen.left PROVE FALSE
    <3>1. PICK h \in Markets : h.chain = Listing(best[2].id).chain /\ h.apy > rate[best[2].id]
      BY <2>1 DEF IInv, LeftBeaten
    <3>2. h.apy <= best[2].apy
      BY <1>3, <1>5, <3>1
    <3> QED
      BY <1>5, <1>9, <3>1, <3>2
  <2> QED
    BY <1>3, <2>1
<1> HIDE DEF a, view, left, p
<1>11. Planned(r, a, view)
  BY <1>4, <1>5, <1>7, <1>8, YieldPlan
<1>12. r.target = best[2]
  BY <1>8, TargetKept
<1>13. route' = SignRoute(r, clock + SignTtl) /\ seen'.left = left
  BY <1>8 DEF Adopt, IInv, TypeOK
<1>14. route'.target = best[2]
  BY <1>11, <1>12, <1>13, SignedSame
<1> QED
  BY <1>10, <1>13, <1>14

\* Only a rebalance and a move of the market change what was left.
LEMMA LeftMoves ==
  ASSUME IInv, [Next]_vars, ~Rebalance, seen'.left # seen.left
  PROVE  route' = route
<1>1. seen \in SeenSet
  BY DEF IInv, TypeOK, SeenSet
<1>2. CASE UNCHANGED vars
  BY <1>2 DEF vars
<1>3. ASSUME Plan PROVE seen'.left = seen.left
  <2>1. \A r, n : Adopt(r, n, seen.left) => seen'.left = seen.left
    BY <1>1 DEF Adopt, SeenSet
  <2>2. \A s, a, source, target, b, opts, n :
          Choose(s, a, source, target, b, opts, n) => seen'.left = seen.left
    BY <2>1 DEF Choose
  <2>3. \E s, a, source, target, b, opts, n : Choose(s, a, source, target, b, opts, n)
    BY <1>3 DEF Plan
  <2> QED
    BY <2>2, <2>3
<1>4. CASE Broadcast \/ Sponsor7702 \/ SponsorPermit2
  BY <1>1, <1>4 DEF Broadcast, Sponsor7702, SponsorPermit2, SeenSet
<1>5. CASE Deliver \/ Finish \/ StartWait \/ ReadBalance \/ Poll \/ CallFails \/ Tick
  BY <1>1, <1>5 DEF Deliver, Finish, StartWait, ReadBalance, Poll, CallFails, Tick, SeenSet
<1>6. ASSUME FollowUp PROVE seen'.left = seen.left
  BY <1>1, <1>6 DEF FollowUp, SeenSet
<1>7. CASE OtherTx \/ Transfer \/ TogglePause \/ OtherProgram \/ RatesMove
  BY <1>7 DEF OtherTx, Transfer, TogglePause, OtherProgram, RatesMove
<1> QED
  BY <1>2, <1>3, <1>4, <1>5, <1>6, <1>7 DEF Next

\* While rates and pauses stand still, the rebalancer never moves a position
\* back to a market it took the user out of.
THEOREM RebalancesClimb == Spec => NoPingPong
<1>1. ASSUME IInv, [Next]_vars, route = NoRoute, route'.ok, seen'.left # seen.left
      PROVE  route'.target.id \notin seen'.left
  <2>1. CASE Rebalance
    BY <1>1, <2>1, RebalanceClimbs
  <2>2. CASE ~Rebalance
    <3>1. route' = NoRoute
      BY <1>1, <2>2, LeftMoves
    <3> QED
      BY <1>1, <3>1 DEF NoRoute, Raised
  <2> QED
    BY <2>1, <2>2
<1>2. IInv /\ [Next]_vars =>
        [route = NoRoute /\ route'.ok /\ seen'.left # seen.left
           => route'.target.id \notin seen'.left]_vars
  BY <1>1
<1> QED
  BY <1>2, Consistency, PTL DEF Spec, NoPingPong

=============================================================================
