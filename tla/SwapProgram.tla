---------------------------- MODULE SwapProgram ----------------------------
(***************************************************************************)
(* vm/dag.py and vm/swap.py: what the program compiled for a route does    *)
(* when the VM runs it.  A world is                                        *)
(*   live      the graph with the pools' state of the moment               *)
(*   overlay   the effect of the swaps on the quoted graph, as recorded    *)
(*   bal       holder -> token -> amount                                   *)
(*   ok        no call of the program has failed                           *)
(***************************************************************************)
EXTENDS SplitRoute

CONSTANTS MaxSplitInput   \* (2^256 - 1) / MAX_BPS

Parties == {"user", "vm", "payee", "escrow"}
Fail(w) == [w EXCEPT !.ok = FALSE]

Move(bal, from, to, token, n) ==
  [bal EXCEPT ![from][token] = @ - n, ![to][token] = @ + n]

\* _pool_to_swap_protocol knows no Curve pools; V2 fees are below one.
Compilable(e) == e.kind \in {"v2", "v3", "v4"} /\ e.fee \in 0 .. MAX_BPS - 1

(***************************************************************************)
(* The pools.                                                              *)
(***************************************************************************)
At(live, e) == CHOOSE l \in Range(live) : EdgeKey(l) = EdgeKey(e)

\* A constant-product pool after x came in and y went out.
AfterCpmm(live, e, x, y) ==
  [k \in DOMAIN live |->
     IF PoolUid(live[k]) # PoolUid(e) THEN live[k]
     ELSE IF live[k].in = e.in
     THEN [live[k] EXCEPT !.p.reserveIn = @ + x, !.p.reserveOut = @ - y]
     ELSE [live[k] EXCEPT !.p.reserveIn = @ - y, !.p.reserveOut = @ + x]]

AfterConcentrated(live, e, walk) ==
  [k \in DOMAIN live |->
     IF PoolUid(live[k]) # PoolUid(e) THEN live[k]
     ELSE [live[k] EXCEPT !.p.sqrtPrice = walk.price, !.p.liquidity = walk.L]]

AfterStable(live, e, x, y) ==
  [k \in DOMAIN live |->
     IF PoolUid(live[k]) # PoolUid(e) THEN live[k]
     ELSE [live[k] EXCEPT !.p.state.balances[e.p.i] = @ + x, !.p.state.balances[e.p.j] = @ - y]]

\* What a pool takes and gives for x, and the pools after it.
TradeCpmm(live, l, x, y) == [used |-> x, out |-> y, live |-> AfterCpmm(live, l, x, y)]
TradeStable(live, l, x, y) == [used |-> x, out |-> y, live |-> AfterStable(live, l, x, y)]
TradeConcentrated(live, l, x, walk) ==
  [used |-> x - walk.left, out |-> walk.out, live |-> AfterConcentrated(live, l, walk)]

TradeOn(live, l, x) ==
  CASE l.kind = "v2" -> TradeCpmm(live, l, x, CpmmOut(l, x, NoOverlay({l.pool})))
    [] l.kind \in {"v3", "v4"} ->
         TradeConcentrated(live, l, x, Walk(l.p.sqrtPrice, l.p.liquidity, l.p.ladder,
                                            NetAmountIn(l, x), l.p.token0In))
    [] l.kind = "curve" -> TradeStable(live, l, x, StableOut(l, x))

Trade(live, e, x) == TradeOn(live, At(live, e), x)

(***************************************************************************)
(* The instructions.  A pair pays no empty output, a V3 pool takes no      *)
(* empty input; a V3 or V4 pool is paid what it asks for in its callback.  *)
(***************************************************************************)
Swapped(w, e, x, to, t) ==
  IF x <= 0 \/ (e.kind = "v2" /\ t.out = 0) \/ w.bal["vm"][e.in] < t.used THEN [w |-> Fail(w), out |-> 0]
  ELSE [w |-> [w EXCEPT !.live = t.live,
                        !.overlay = RecordSwap(e, @, x, t.out),
                        !.bal["vm"][e.in] = @ - t.used,
                        !.bal[to] = [@ EXCEPT ![e.out] = @ + t.out]],
        out |-> t.out]

RunSwap(w, e, x, to) == Swapped(w, e, x, to, Trade(w.live, e, x))

\* approve_then_send_transfer; the amount is passed on unchanged.
RunBridge(w, a, x) ==
  IF w.bal["vm"][a.denom] < x \/ x <= 0 THEN [w |-> Fail(w), out |-> x]
  ELSE [w |-> [w EXCEPT !.bal = Move(@, "vm", "escrow", a.denom, x)], out |-> x]

\* Only the last action of a branch pays the recipient of the branch.
RECURSIVE RunActions(_, _, _, _)

Summed(s, one) == [w |-> one.w, out |-> s.out + one.out]

RunSplit(r, legs, to) ==
  IF r.out > MaxSplitInput /\ Len(legs) > 1 THEN [w |-> Fail(r.w), out |-> 0]
  ELSE FoldLeft(LAMBDA s, l : Summed(s, RunActions(s.w, l.actions,
                  IF Len(legs) = 1 THEN r.out ELSE (r.out * l.bps) \div MAX_BPS, to)),
                [w |-> r.w, out |-> 0], legs)

RunAction(r, a, to) ==
  IF ~r.w.ok THEN r
  ELSE CASE a.kind = "swap" -> RunSwap(r.w, a.edge, r.out, to)
         [] a.kind = "split" -> RunSplit(r, a.legs, to)
         [] a.kind = "bridge" -> RunBridge(r.w, a, r.out)

RunActions(w, actions, x, to) ==
  FoldLeft(LAMBDA r, k : RunAction(r, actions[k], IF k = Len(actions) THEN to ELSE "vm"),
           [w |-> w, out |-> x], [k \in DOMAIN actions |-> k])

\* Mutant: no check at the end.
Unchecked(r, minOut) == r

\* The last check reads the program's amount.
Checked(r, minOut) == IF r.w.ok /\ r.out < minOut THEN [r EXCEPT !.w = Fail(@)] ELSE r

\* build_execution_program_for_dag
RunProgram(w, actions, x, to, minOut) == Checked(RunActions(w, actions, x, to), minOut)

RECURSIVE CompilableActions(_)
CompilableActions(actions) ==
  \A k \in DOMAIN actions :
    CASE actions[k].kind = "swap" -> Compilable(actions[k].edge)
      [] actions[k].kind = "split" ->
           \A l \in DOMAIN actions[k].legs : CompilableActions(actions[k].legs[l].actions)
      [] actions[k].kind = "bridge" -> TRUE

(***************************************************************************)
(* Router.simulate, on the quoted graph; a bridge passes the amount on.    *)
(***************************************************************************)
RECURSIVE Simulate(_, _)
Simulate(actions, x) ==
  FoldLeft(LAMBDA n, a :
             CASE a.kind = "swap" -> AmountOut(a.edge, n)
               [] a.kind = "split" ->
                    Total([k \in DOMAIN a.legs |->
                             Simulate(a.legs[k].actions, (n * a.legs[k].bps) \div MAX_BPS)])
               [] a.kind = "bridge" -> n,
           x, actions)

\* quote_dag: the view-only program.  A V3 quoter and a pair's reserves answer
\* for every hop as if it came first; V4 hops are refused, an eth_call without
\* an answer counts as nothing.
RECURSIVE Quotable(_)
Quotable(actions) ==
  \A k \in DOMAIN actions :
    CASE actions[k].kind = "swap" -> Compilable(actions[k].edge) /\ actions[k].edge.kind # "v4"
      [] actions[k].kind = "split" ->
           \A l \in DOMAIN actions[k].legs : Quotable(actions[k].legs[l].actions)
      [] actions[k].kind = "bridge" -> TRUE

RECURSIVE QuoteDag(_, _, _)
QuoteDag(live, actions, x) ==
  LET legs(n, ls) == Total([k \in DOMAIN ls |->
                              QuoteDag(live, ls[k].actions, (n * ls[k].bps) \div MAX_BPS)])
  IN FoldLeft(LAMBDA n, a :
                CASE a.kind = "swap" -> Trade(live, a.edge, n).out
                  [] a.kind = "split" -> IF Len(a.legs) = 1 THEN QuoteDag(live, a.legs[1].actions, n)
                                         ELSE IF n > MaxSplitInput THEN 0 ELSE legs(n, a.legs)
                  [] a.kind = "bridge" -> n,
              x, actions)

ApplySlippage(x, bps) == (x * (MAX_BPS - bps)) \div MAX_BPS
=============================================================================
