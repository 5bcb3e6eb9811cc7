---------------------------- MODULE YieldJourney ----------------------------
(***************************************************************************)
(* A user's funds while routes of YieldRoutes are planned, signed, sent     *)
(* step by step, bridged, waited for and completed by a follow-up.  The     *)
(* caller's loop, the sponsor, the chains and the other users are the       *)
(* environment; every other definition is the library's.                    *)
(***************************************************************************)
EXTENDS YieldRoutes, FiniteSetsExt

CONSTANTS World,        \* the listings; what they pay and whether they are paused varies
          TokenOn,        \* chain -> the registry's token
          Bridges, Rates,
          Delegates,      \* the chains Calibur is deployed on
          Horizon, MinGain,
          Start,          \* market id -> units the user has supplied
          Purse,          \* token -> units in the wallet
          Nonces,         \* Permit2 nonces of one scan
          MaxFee,         \* what a bridge may keep of a transfer
          Timeout, PollInterval, SignTtl,
          Max256, RandomNonce,
          MaxPlans, MaxOther, MaxClock   \* bounds

Parties == {"user", "vm"}
Ids == {l.id : l \in World}
Tokens == {l.token : l \in World}
Chains == {t.chain : t \in Tokens}
Spenders == Ids \cup {"bridge"}
Listing(id) == CHOOSE l \in World : l.id = id

\* A market id names one market, on the chain of its token.
ASSUME WorldAssumption ==
  /\ IsFiniteSet(World)
  /\ World \subseteq [id : STRING, protocol : {"aave_v3", "compound_v3", "aave_v4", "morpho"},
                      chain : STRING, token : [chain : STRING, address : STRING], symbol : STRING,
                      active : BOOLEAN, frozen : BOOLEAN, paused : BOOLEAN, apy : Int,
                      well : BOOLEAN, priced : BOOLEAN, nr : Nat]
  /\ \A l, m \in World : l.id = m.id => l = m
  /\ \A l \in World : l.token.chain = l.chain
ASSUME ScanAssumption ==
  \A l, m \in World : /\ l.nr = m.nr => l = m
                      /\ l.protocol # "morpho" /\ m.protocol = "morpho" => l.nr < m.nr
ASSUME RatesAssumption == Rates \subseteq [Ids -> Int] /\ Horizon \in Nat \ {0} /\ MinGain \in Nat
ASSUME BridgesAssumption ==
  \A b \in Bridges : b.src # b.dst /\ b.spender \in BOOLEAN /\ b.composes \in BOOLEAN
                     /\ b.nativeFee \in Nat
ASSUME FundsAssumption ==
  Start \in [Ids -> Nat] /\ Purse \in [Tokens -> Nat] /\ MaxFee \in Nat /\ Nonces \subseteq Nat
ASSUME TimesAssumption ==
  {Timeout, PollInterval, SignTtl, Max256, RandomNonce, MaxPlans, MaxOther, MaxClock} \subseteq Nat

VARIABLES funds,    \* [bal, pos, allow : by party; transit]
          eoa,      \* chain -> the account's nonce, code and Calibur sequence number
          used,     \* Permit2 nonces spent
          rate, paused,
          route, at, \* the plan and its next step
          wait,     \* wait_for_bridge_settlement
          clock, plans, others,
          seen      \* history: what the properties compare with

vars == <<funds, eoa, used, rate, paused, route, at, wait, clock, plans, others, seen>>

NoRoute == Raised
Off == [pc |-> "off", start |-> 0, min |-> 0, deadline |-> 0, wake |-> 0,
        balance |-> 0, got |-> 0]
Fresh == [external |-> 0, fees |-> 0, disturbed |-> FALSE, void |-> FALSE,
          landed |-> FALSE, readLanded |-> FALSE, inflow |-> FALSE, outflow |-> FALSE,
          left |-> {}]

Now == {[l EXCEPT !.paused = l.id \in paused, !.apy = rate[l.id]] : l \in World}
Pages == <<[ok |-> TRUE, items |-> {l \in Now : l.protocol = "morpho"}]>>
Markets == GetYieldMarkets(Now, Chains, TokenOn, "TOK", Pages)

-----------------------------------------------------------------------------
(* What the chains do with a call; who is the account that makes it. *)

Done(f) == [ok |-> TRUE, funds |-> f]
Failed == [ok |-> FALSE]

\* A USDT-like token refuses to change one nonzero allowance into another.
Approve(f, who, c) ==
  IF f.allow[who][c.token][c.spender] # 0 /\ c.amt # 0 THEN Failed
  ELSE Done([f EXCEPT !.allow[who][c.token][c.spender] = c.amt])

Withdraw(f, c) ==
  IF c.market \in paused \/ f.pos["user"][c.market] < c.amt THEN Failed
  ELSE Done([f EXCEPT !.pos["user"][c.market] = @ - c.amt,
                      !.bal["user"][Listing(c.market).token] = @ + c.amt])

Spends(f, who, spender, token, n) == f.bal[who][token] >= n /\ f.allow[who][token][spender] >= n
Spent(f, who, spender, token, n) ==
  [f EXCEPT !.bal[who][token] = @ - n,
            !.allow[who][token][spender] = IF @ = Max256 THEN @ ELSE @ - n]

Supply(f, who, c) ==
  LET token == Listing(c.market).token
      credited == IF c.credit = "user" THEN "user" ELSE who
  IN  IF c.market \in paused \/ ~Spends(f, who, c.market, token, c.amt) THEN Failed
      ELSE Done([Spent(f, who, c.market, token, c.amt) EXCEPT !.pos[credited][c.market] = @ + c.amt])

\* A plan bridges once: its number tells its transfer from the others.
SendBridge(f, who, c) ==
  IF ~Spends(f, who, "bridge", c.from, c.amt) THEN Failed
  ELSE Done([Spent(f, who, "bridge", c.from, c.amt) EXCEPT
               !.transit = @ \cup {[token |-> c.token, amt |-> c.amt, compose |-> c.compose,
                                   plan |-> plans]}])

Call(f, who, c) ==
  CASE c.fn = "approve" -> Approve(f, who, c)
    [] c.fn = "withdraw" -> Withdraw(f, c)
    [] c.fn = "supply" -> Supply(f, who, c)
    [] c.fn = "bridge" -> SendBridge(f, who, c)

Then(r, who, c) == IF r.ok THEN Call(r.funds, who, c) ELSE r

\* All of the calls or none: they are an approval and its use.
Batch(f, who, calls) == Then(Call(f, who, calls[1]), who, calls[2])

\* The compiled VM program: the approve leg only if the allowance was short.
SupplyProgram(f, req) ==
  LET reset == IF req.approve /\ req.reset
               THEN Call(f, "vm", ApproveTx(req.token, req.spender, 0)) ELSE Done(f)
      approved == IF req.approve
                  THEN Then(reset, "vm", ApproveTx(req.token, req.spender, Max256)) ELSE reset
  IN  Then(approved, "vm", req.call)

PullThenRun(f, req) ==
  IF f.bal["user"][req.token] < req.amt THEN Failed
  ELSE SupplyProgram([f EXCEPT !.bal["user"][req.token] = @ - req.amt,
                               !.bal["vm"][req.token] = @ + req.amt], req)

-----------------------------------------------------------------------------

Init ==
  /\ funds = [bal |-> [p \in Parties |-> [t \in Tokens |-> IF p = "user" THEN Purse[t] ELSE 0]],
              pos |-> [p \in Parties |-> [m \in Ids |-> IF p = "user" THEN Start[m] ELSE 0]],
              allow |-> [p \in Parties |-> [t \in Tokens |-> [s \in Spenders |-> 0]]],
              transit |-> {}]
  /\ eoa = [c \in Chains |-> [nonce |-> 0, code |-> "none", seq |-> 0]]
  /\ used = {} /\ paused = {}
  /\ rate \in Rates
  /\ route = NoRoute /\ at = 1 /\ wait = Off
  /\ clock = 0 /\ plans = 0 /\ others = 0 /\ seen = Fresh

Idle == route = NoRoute /\ plans < MaxPlans

View(c, n) == [nonce |-> eoa[c].nonce, code |-> eoa[c].code, seq |-> eoa[c].seq,
               deployed |-> c \in Delegates, free |-> n, allowance |-> funds.allow["vm"]]

\* pick_nonce: any nonce the bitmap shows unused, a random one if none is.
PickNonce == IF Nonces \ used # {} THEN Nonces \ used ELSE {RandomNonce}

\* What is left of a transfer at the least.
Least(amt) == IF amt > MaxFee THEN amt - MaxFee ELSE 1

\* starting_balance is read before the route is broadcast.
Adopt(r, amt, left) ==
  /\ route' = SignRoute(r, clock + SignTtl)
  /\ at' = 1 /\ plans' = plans + 1
  /\ wait' = IF r.pending = NoMarket THEN Off
             ELSE [Off EXCEPT !.start = funds.bal["user"][r.pending.token], !.min = Least(amt)]
  /\ seen' = [seen EXCEPT !.disturbed = FALSE, !.void = FALSE, !.landed = FALSE,
                          !.readLanded = FALSE, !.inflow = FALSE,
                          !.outflow = FALSE, !.left = left]

Choose(strategy, a, source, target, b, opts, n) ==
  LET c == a.token.chain
      r == IF strategy = "compose_supply"
           THEN BuildComposeSupplyRoute(a, target, b, opts, View(c, n))
           ELSE BuildYieldRoute(strategy, a, source, target, b, opts, View(c, n))
  IN  r.ok /\ Adopt(r, a.amt, seen.left)

\* A plan for everything one market or one wallet token holds.
Plan ==
  /\ Idle
  /\ \E opts \in {"plain", "defivm", "delegate"}, b \in Bridges \cup {NoBridge},
        target \in Markets, n \in PickNonce :
       \/ \E p \in GetPositions(Markets, funds.pos["user"]) :
            Choose("withdraw_then_supply", [token |-> p.market.token, amt |-> p.balance],
                   p.market, target, b, opts, n)
       \/ \E t \in {t \in Tokens : funds.bal["user"][t] > 0},
             s \in {"supply_then_bridge", "bridge_then_supply", "compose_supply"} :
            /\ b # NoBridge
            /\ Choose(s, [token |-> t, amt |-> funds.bal["user"][t]], NoMarket, target, b, opts, n)
  /\ UNCHANGED <<funds, eoa, used, rate, paused, clock, others>>

\* rebalance_tick: nothing to do without positions or without a gain.
Rebalance ==
  /\ Idle
  /\ \E best \in BestRebalance(GetPositions(Markets, funds.pos["user"]), Markets, Horizon, MinGain) :
       LET p == best[1]
           a == [token |-> p.market.token, amt |-> p.balance]
           r == BuildYieldRoute("withdraw_then_supply", a, p.market, best[2], NoBridge, "plain",
                                View(p.market.chain, RandomNonce))
       IN  r.ok /\ Adopt(r, a.amt, seen.left \cup {p.market.id})
  /\ UNCHANGED <<funds, eoa, used, rate, paused, clock, others>>

-----------------------------------------------------------------------------
(* Sending the steps in order.  The caller gives a route up when one fails. *)

InProgress == route.ok /\ at <= Len(route.steps)

\* The step either took effect, or left everything as it was.
Advance(end) ==
  /\ funds' = IF end.ok THEN end.funds ELSE funds
  /\ route' = IF end.ok THEN route ELSE NoRoute
  /\ at' = IF end.ok THEN at + 1 ELSE 1
  /\ wait' = IF end.ok THEN wait ELSE Off

Broadcast ==
  /\ InProgress
  /\ LET s == route.steps[at]
     IN  /\ s.tx.fn # "gasless"
         /\ eoa' = [eoa EXCEPT ![s.chain].nonce = @ + 1]
         /\ Advance(Call(funds, "user", s.tx))
  /\ UNCHANGED <<used, rate, paused, clock, plans, others, seen>>

\* What the authorization and the batch signature bind.
Applies(tx, e) == tx.req.needsAuth /\ tx.req.authNonce = e.nonce
BatchValid(tx, e) == tx.req.nonce = e.seq /\ clock <= tx.deadline
PermitValid(tx) == tx.req.nonce \notin used /\ clock <= tx.deadline

\* A type-4 transaction: the authorization is skipped unless its nonce is the
\* account's; without code the call succeeds and does nothing.
Sponsor7702 ==
  /\ InProgress
  /\ LET s == route.steps[at]
         e == eoa[s.chain]
     IN  /\ s.tx.fn = "gasless" /\ s.tx.req.fn = "batch"
         /\ LET applies == Applies(s.tx, e)
                code == IF applies THEN "calibur" ELSE e.code
                nonce == IF applies THEN e.nonce + 1 ELSE e.nonce
                runs == code = "calibur"
                end == IF ~runs THEN Done(funds)
                       ELSE IF ~BatchValid(s.tx, e) THEN Failed
                       ELSE Batch(funds, "user", s.tx.req.calls)
            IN  /\ eoa' = [eoa EXCEPT ![s.chain] =
                              [nonce |-> nonce, code |-> code,
                               seq |-> IF runs /\ end.ok THEN e.seq + 1 ELSE e.seq]]
                /\ seen' = [seen EXCEPT !.void = ~runs]
                /\ Advance(end)
  /\ UNCHANGED <<used, rate, paused, clock, plans, others>>

SponsorPermit2 ==
  /\ InProgress
  /\ LET s == route.steps[at]
     IN  /\ s.tx.fn = "gasless" /\ s.tx.req.fn = "permit2"
         /\ LET end == IF ~PermitValid(s.tx) THEN Failed ELSE PullThenRun(funds, s.tx.req)
            IN  /\ Advance(end)
                /\ used' = IF end.ok THEN used \cup {s.tx.req.nonce} ELSE used
  /\ UNCHANGED <<eoa, rate, paused, clock, plans, others, seen>>

\* A transfer arrives, before or after others, short by at most the fee; a compose message whose
\* program fails is not consumed and may be delivered again.
Deliver ==
  /\ \E i \in funds.transit, fee \in 0..MaxFee :
       LET n == IF i.amt > fee THEN i.amt - fee ELSE i.amt
           rest == [funds EXCEPT !.transit = @ \ {i}]
       IN  /\ IF i.compose = NoTx
              THEN funds' = [rest EXCEPT !.bal["user"][i.token] = @ + n]
              ELSE /\ i.token = Listing(i.compose.market).token
                   /\ i.compose.market \notin paused
                   /\ funds' = [rest EXCEPT !.pos[i.compose.credit][i.compose.market] = @ + n]
           /\ seen' = IF i.compose = NoTx /\ i.plan = plans
                       THEN [seen EXCEPT !.fees = @ + i.amt - n, !.landed = TRUE]
                       ELSE [seen EXCEPT !.fees = @ + i.amt - n, !.inflow = i.compose = NoTx \/ @]
  /\ UNCHANGED <<eoa, used, rate, paused, route, at, wait, clock, plans, others>>

Finish ==
  /\ route.ok /\ at > Len(route.steps) /\ route.pending = NoMarket
  /\ route' = NoRoute /\ at' = 1
  /\ UNCHANGED <<funds, eoa, used, rate, paused, wait, clock, plans, others, seen>>

-----------------------------------------------------------------------------
(* Waiting for the bridge, and the destination leg. *)

AllSent == route.ok /\ at > Len(route.steps) /\ route.pending # NoMarket

StartWait ==
  /\ AllSent /\ wait.pc = "off" /\ clock + Timeout <= MaxClock
  /\ wait' = [wait EXCEPT !.pc = "sleep", !.wake = clock, !.deadline = clock + Timeout]
  /\ UNCHANGED <<funds, eoa, used, rate, paused, route, at, clock, plans, others, seen>>

\* balanceOf is awaited: the node reads the balance at one moment, and the
\* loop goes on with the answer at a later one.
ReadBalance ==
  /\ wait.pc = "sleep" /\ clock >= wait.wake
  /\ wait' = [wait EXCEPT !.pc = "asked", !.balance = funds.bal["user"][route.pending.token]]
  /\ seen' = [seen EXCEPT !.readLanded = seen.landed]
  /\ UNCHANGED <<funds, eoa, used, rate, paused, route, at, clock, plans, others>>

\* Mutants: the deadline is looked at first; the loop forgets it.
DeadlineFirst(balance) ==
  IF clock >= wait.deadline THEN [wait EXCEPT !.pc = "timeout"]
  ELSE IF balance - wait.start >= wait.min
  THEN [wait EXCEPT !.pc = "settled", !.got = balance]
  ELSE [wait EXCEPT !.pc = "sleep", !.wake = clock + PollInterval]
NoDeadline(balance) ==
  IF balance - wait.start >= wait.min
  THEN [wait EXCEPT !.pc = "settled", !.got = balance]
  ELSE [wait EXCEPT !.pc = "sleep", !.wake = clock]

\* The rest of the turn: balance first, deadline second, then sleep, never past it.
Polled(balance) ==
  LET delta == balance - wait.start
  IN  CASE delta >= wait.min -> [wait EXCEPT !.pc = "settled", !.got = balance]
        [] delta < wait.min /\ clock >= wait.deadline -> [wait EXCEPT !.pc = "timeout"]
        [] OTHER -> [wait EXCEPT !.pc = "sleep",
                                 !.wake = IF clock + PollInterval < wait.deadline
                                          THEN clock + PollInterval ELSE wait.deadline]

Poll ==
  /\ wait.pc = "asked"
  /\ wait' = [Polled(wait.balance) EXCEPT !.balance = 0]
  /\ UNCHANGED <<funds, eoa, used, rate, paused, route, at, clock, plans, others, seen>>

\* Nothing catches what the call raises: the wait is over.
CallFails ==
  /\ wait.pc = "sleep" /\ clock >= wait.wake
  /\ wait' = [wait EXCEPT !.pc = "failed"]
  /\ UNCHANGED <<funds, eoa, used, rate, paused, route, at, clock, plans, others, seen>>

Tick ==
  /\ clock < MaxClock
  /\ clock' = clock + 1
  /\ UNCHANGED <<funds, eoa, used, rate, paused, route, at, wait, plans, others, seen>>

\* With what the wait returned, or, once it has raised, with whatever has come.
FollowUp ==
  /\ AllSent /\ wait.pc \in {"settled", "timeout", "failed"}
  /\ LET token == route.pending.token
         balance == IF wait.pc = "settled" THEN wait.got ELSE funds.bal["user"][token]
         got == balance - wait.start
     IN  /\ got > 0
         /\ \E opts \in {"plain", "defivm", "delegate"}, n \in PickNonce :
              LET r == BuildFollowupRoute(route, [token |-> token, amt |-> got], Chains, opts,
                                          View(token.chain, n))
              IN  r.ok /\ route' = SignRoute(r, clock + SignTtl)
  /\ at' = 1 /\ wait' = Off
  /\ seen' = [seen EXCEPT !.disturbed = FALSE, !.void = FALSE, !.landed = FALSE,
                          !.readLanded = FALSE, !.inflow = FALSE, !.outflow = FALSE]
  /\ UNCHANGED <<funds, eoa, used, rate, paused, clock, plans, others>>

-----------------------------------------------------------------------------
(* Everybody else. *)

Other == others < MaxOther /\ others' = others + 1

\* The user sends another transaction, or changes the delegation.
OtherTx ==
  /\ Other
  /\ \E c \in Chains, code \in {"none", "foreign", "keep"} :
       eoa' = [eoa EXCEPT ![c].nonce = @ + 1, ![c].code = IF code = "keep" THEN @ ELSE code]
  /\ seen' = [seen EXCEPT !.disturbed = TRUE]
  /\ UNCHANGED <<funds, used, rate, paused, route, at, wait, clock, plans>>

Transfer ==
  /\ Other
  /\ \E t \in Tokens :
       \/ /\ funds' = [funds EXCEPT !.bal["user"][t] = @ + 1]
          /\ seen' = [seen EXCEPT !.external = @ + 1, !.inflow = TRUE]
       \/ /\ funds.bal["user"][t] > 0
          /\ funds' = [funds EXCEPT !.bal["user"][t] = @ - 1]
          /\ seen' = [seen EXCEPT !.external = @ - 1, !.outflow = TRUE]
  /\ UNCHANGED <<eoa, used, rate, paused, route, at, wait, clock, plans>>

TogglePause ==
  /\ Other
  /\ \E m \in Ids : paused' = IF m \in paused THEN paused \ {m} ELSE paused \cup {m}
  /\ seen' = [seen EXCEPT !.left = {}]
  /\ UNCHANGED <<funds, eoa, used, rate, route, at, wait, clock, plans>>

\* Anybody may run a program on the shared VM and change its allowances.
OtherProgram ==
  /\ Other
  /\ \E l \in World, n \in {0, 1, Max256} :
       \E s \in {l.id, "bridge"} : funds' = [funds EXCEPT !.allow["vm"][l.token][s] = n]
  /\ UNCHANGED <<eoa, used, rate, paused, route, at, wait, clock, plans, seen>>

RatesMove ==
  /\ Other
  /\ rate' \in Rates \ {rate}
  /\ seen' = [seen EXCEPT !.left = {}]
  /\ UNCHANGED <<funds, eoa, used, paused, route, at, wait, clock, plans>>

Next == \/ Plan \/ Rebalance \/ Broadcast \/ Sponsor7702 \/ SponsorPermit2 \/ Deliver \/ Finish
        \/ StartWait \/ ReadBalance \/ Poll \/ CallFails \/ Tick \/ FollowUp
        \/ OtherTx \/ Transfer \/ TogglePause \/ OtherProgram \/ RatesMove

\* A call of the node returns or raises, the event loop runs the waiting task
\* and time passes.
Spec == /\ Init /\ [][Next]_vars
        /\ WF_vars(ReadBalance \/ CallFails) /\ WF_vars(Poll) /\ WF_vars(Tick)

-----------------------------------------------------------------------------
\* Every unit is in the user's wallet, in a position of the user's or on its
\* way to the user, whatever step failed or was overtaken; the shared VM never
\* ends a transaction holding a token or a position (SupplySteps,
\* GaslessSupplyTx, build_supply_program).
Held(f, p) == SumFunctionOnSet(f.bal[p], Tokens) + SumFunctionOnSet(f.pos[p], Ids)
Moving(f) == SumFunctionOnSet([i \in f.transit |-> i.amt], f.transit)
FundsStayWithUser ==
  /\ Held(funds, "vm") = 0
  /\ Held(funds, "user") + Moving(funds) + seen.fees
       = SumFunctionOnSet(Purse, Tokens) + SumFunctionOnSet(Start, Ids) + seen.external

\* A route that ends on another chain strands nothing: whatever is under way
\* arrives as a token of the scan, a compose transfer as the one its program
\* supplies; and while the plan that sent it lasts, the follow-up for it can be
\* built (the chain checks of router.py; tests/test_yields.py, recovery story).
Recoverable ==
  \A i \in funds.transit :
    /\ i.token \in Tokens
    /\ i.compose # NoTx => i.token = Listing(i.compose.market).token
    /\ route.ok /\ route.pending # NoMarket /\ i.plan = plans =>
         /\ i.compose = NoTx
         /\ BuildFollowupRoute(route, [token |-> i.token, amt |-> i.amt], Chains, "plain",
                               View(i.token.chain, RandomNonce)).ok

\* A sponsored batch that is mined as a no-op was overtaken by another
\* transaction of the account: the authorization counts the transactions the
\* route itself sends first (SignRequest7702, WithdrawThenSupply).
SponsoredBatchRuns == seen.void => seen.disturbed

\* Without other transfers the wait reports a settlement only when the bridge
\* delivered, and a timeout only past the deadline and when it had not delivered
\* by the moment of the last read (wait_for_bridge_settlement: balance before
\* deadline, and no turn without a read).
WaitTellsTheTruth ==
  /\ wait.pc = "settled" => seen.landed \/ seen.inflow
  /\ wait.pc = "timeout" => clock >= wait.deadline /\ (~seen.readLanded \/ seen.outflow)

\* While rates and pauses stand still a position is never moved back to a market the
\* rebalancer took the user out of.
NoPingPong ==
  [][route = NoRoute /\ route'.ok /\ seen'.left # seen.left => route'.target.id \notin seen'.left]_vars

\* Every wait ends: with a settlement, a timeout or what the node's call raised.
WaitEnds == wait.pc \in {"sleep", "asked"} ~> wait.pc \notin {"sleep", "asked"}
=============================================================================
