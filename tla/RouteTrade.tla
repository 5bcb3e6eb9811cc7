----------------------------- MODULE RouteTrade -----------------------------
(***************************************************************************)
(* A trader's route from quote to settlement: a graph of pool snapshots, a *)
(* plan by the Router or by hand, the calls of the builder, the compiled   *)
(* program in one transaction, and other traders on the same pools.        *)
(***************************************************************************)
EXTENDS SwapProgram

CONSTANTS
  Graphs,              \* the snapshots a trader may start from
  Tokens, Amounts, SlippageBps,
  MaxHops, TopN, GasPrices,
  HandGraph, HandCalls, HandEdges, HandAmount,   \* what a caller builds by hand, and on what
  MaxHandCalls, MaxOthers, OtherAmounts   \* bounds

VARIABLES graph,    \* the router's PoolGraph
          live,     \* the same pools on the chain
          overlay,  \* what the trader's own swaps did to the snapshot
          bal,
          dag, calls,
          job,      \* [pc, planned, amount, quote, min, paid, fresh]
          others    \* trades of others

vars == <<graph, live, overlay, bal, dag, calls, job, others>>

Pools(g) == {g[k].pool : k \in DOMAIN g}
Idle == [pc |-> "idle", planned |-> FALSE, src |-> NoToken, dst |-> NoToken, amount |-> 0,
         quote |-> 0, min |-> 0, got |-> 0, raised |-> FALSE, fresh |-> TRUE]

Init ==
  /\ graph \in Graphs /\ live = graph
  /\ overlay = NoOverlay(Pools(graph))
  /\ bal = [p \in Parties |-> [t \in Tokens |-> 0]]
  /\ dag = EmptyDag /\ calls = << >>
  /\ job = Idle /\ others = 0

-----------------------------------------------------------------------------
(* Planning.  The route's builder calls are made one by one. *)

Plans(src, dst, x) ==
  {PathCalls(src, FindBestRoute(graph, src, dst, x, MaxHops, g).path) : g \in GasPrices}
  \cup {PathCalls(src, c.path) : c \in Range(FindAllRoutes(graph, src, dst, x, MaxHops, TopN))}
  \cup {OptimalSplitCalls(graph, src, x, TopRoutesHopDp(graph, src, dst, x, n, MaxHops)) : n \in 1 .. TopN}

Plan ==
  /\ job.pc = "idle"
  /\ \E src \in Tokens, dst \in Tokens, x \in Amounts :
       \E plan \in Plans(src, dst, x) :
         /\ src # dst /\ Len(plan) > 1
         /\ calls' = plan
         /\ job' = [Idle EXCEPT !.pc = "build", !.planned = TRUE, !.src = src, !.dst = dst,
                                !.amount = x]
  /\ dag' = EmptyDag
  /\ UNCHANGED <<graph, live, overlay, bal, others>>

\* A caller uses the builder directly.
PlanByHand ==
  /\ job.pc = "idle" /\ graph = HandGraph
  /\ job' = [Idle EXCEPT !.pc = "hand", !.amount = HandAmount]
  /\ dag' = EmptyDag /\ calls' = << >>
  /\ UNCHANGED <<graph, live, overlay, bal, others>>

Apply(d, c) ==
  CASE c.op = "from" -> FromToken(d, c.token)
    [] c.op = "swap" -> Swap(d, c.token, c.edge)
    [] c.op = "bridge" -> Bridge(d, c.token, NoToken)
    [] c.op = "split" -> Split(d)
    [] c.op = "leg" -> Leg(d, c.bps)
    [] c.op = "merge" -> Merge(d)

Build ==
  /\ job.pc = "build" /\ calls # << >>
  /\ LET r == Apply(dag, Head(calls)) IN
     /\ dag' = r.dag
     /\ job' = [job EXCEPT !.raised = ~r.ok]
  /\ calls' = Tail(calls)
  /\ UNCHANGED <<graph, live, overlay, bal, others>>

\* calls keeps the history, so that its length bounds the hand-made routes.
BuildByHand ==
  /\ job.pc = "hand" /\ Len(calls) < MaxHandCalls
  /\ \E c \in HandCalls \cup {CallSwap(graph[k]) : k \in HandEdges} :
       LET r == Apply(dag, c) IN
       /\ r.dag # dag
       /\ dag' = r.dag /\ calls' = Append(calls, c)
       /\ job' = [job EXCEPT !.raised = ~r.ok]
  /\ UNCHANGED <<graph, live, overlay, bal, others>>

-----------------------------------------------------------------------------
(* Compiling and settling: the input is pulled into the VM, the program    *)
(* runs, or nothing happened.                                              *)

Ready == (job.pc = "build" /\ calls = << >>) \/ job.pc = "hand"

Quotes ==
  (IF Freezable(dag) THEN {Simulate(dag.actions, job.amount)} ELSE {})
  \cup (IF Quotable(dag.actions) THEN {QuoteDag(live, dag.actions, job.amount)} ELSE {})

\* Compiling takes the actions as they are: a split that is still open is left
\* out.  simulate() refuses it.
Compile ==
  /\ Ready /\ dag.actions # << >> /\ CompilableActions(dag.actions)
  /\ \E quote \in Quotes : \E min \in {0} \cup {ApplySlippage(quote, s) : s \in SlippageBps} :
       job' = [job EXCEPT !.pc = "sent", !.quote = quote, !.min = min]
  /\ calls' = << >>
  /\ UNCHANGED <<graph, live, overlay, bal, dag, others>>

Execute ==
  /\ job.pc = "sent"
  /\ LET pulled == [bal EXCEPT !["user"][dag.tokenIn] = @ - job.amount,
                              !["vm"][dag.tokenIn] = @ + job.amount]
         r == RunProgram([live |-> live, overlay |-> overlay, bal |-> pulled, ok |-> TRUE],
                         dag.actions, job.amount, "payee", job.min)
     IN IF r.w.ok
        THEN /\ live' = r.w.live /\ overlay' = r.w.overlay /\ bal' = r.w.bal
             /\ job' = [job EXCEPT !.pc = "done", !.got = r.out]
        ELSE /\ job' = [job EXCEPT !.pc = "reverted"]
             /\ UNCHANGED <<live, overlay, bal>>
  /\ UNCHANGED <<graph, dag, calls, others>>

-----------------------------------------------------------------------------
\* Another trader swaps on a pool.  Building reads no pool, so it need not be
\* interleaved with trades.
OtherTrade ==
  /\ job.pc = "sent" /\ others < MaxOthers
  /\ \E e \in Range(live), x \in OtherAmounts :
       LET t == Trade(live, e, x) IN t.out > 0 /\ live' = t.live
  /\ others' = others + 1
  /\ job' = [job EXCEPT !.fresh = FALSE]
  /\ UNCHANGED <<graph, overlay, bal, dag, calls>>

Next == Plan \/ PlanByHand \/ Build \/ BuildByHand \/ Compile \/ Execute \/ OtherTrade

Spec == Init /\ [][Next]_vars

-----------------------------------------------------------------------------
Planned == job.planned /\ ~job.raised

\* A planned route that nobody else traded against pays what simulate() and
\* quote_dag() said, on pools that every swap moves: no pool of it is used
\* twice (merge_and_expand, Router.simulate, quote_dag).
ExecutesAsQuoted ==
  job.pc = "done" /\ job.planned /\ job.fresh =>
    job.got >= job.quote /\ bal["payee"][job.dst] = job.got

\* Whoever trades in between and whatever the route is made of, a program that
\* does not revert has handed at least min_final_out to the payee and to the
\* bridges' escrow (build_execution_program_for_dag).
ReceivesMin ==
  job.pc = "done" =>
    MapThenSumSet(LAMBDA t : bal["payee"][t] + bal["escrow"][t], Tokens) >= job.min

InTick(e) == e.kind \in {"v3", "v4"} => At(live, e).p.liquidity = e.p.liquidity
PricedAsAdvanced(e) == \A x \in Amounts : AmountOutOver(e, x, overlay) = AmountOut(At(live, e), x)

RECURSIVE EdgesOf(_)
EdgesOf(actions) ==
  UNION {CASE actions[k].kind = "swap" -> {actions[k].edge}
           [] actions[k].kind = "split" ->
                UNION {EdgesOf(actions[k].legs[l].actions) : l \in DOMAIN actions[k].legs}
           [] actions[k].kind = "bridge" -> {} : k \in DOMAIN actions}

\* The route also swaps on another pool at the address of e: a V4 pool's neighbour.
NeighbourUsed(e) == \E o \in EdgesOf(dag.actions) : o.pool = e.pool /\ PoolUid(o) # PoolUid(e)

\* While no swap has left the tick it started in, the overlay of the caller's
\* own swaps prices every edge, from either side of its pool, as a graph with
\* the advanced reserves would, unless the route swaps on another V4 pool
\* (ReserveOverlay, "liquidity assumed constant within the active tick").
OverlayFaithful ==
  job.fresh =>
    \A e \in Range(graph) :
      e.kind # "curve" /\ InTick(e) /\ ~NeighbourUsed(e) => PricedAsAdvanced(e)

RECURSIVE Balanced(_)
Balanced(actions) ==
  \A k \in DOMAIN actions : actions[k].kind = "split" =>
    LET legs == actions[k].legs IN
    /\ Total([l \in DOMAIN legs |-> legs[l].bps]) = MAX_BPS
    /\ \A l \in DOMAIN legs :
         /\ legs[l].actions # << >> /\ Last(legs[l].actions).out = actions[k].out
         /\ Balanced(legs[l].actions)

\* The calls of the Router never raise, and every route, also one that was
\* put together by hand and survived raises, divides inputs completely
\* (RouteDAG.merge, _distribute_int).
BuilderSound == (job.planned => ~job.raised) /\ Balanced(dag.actions)

(***************************************************************************)
(* What the documentation says and the code does not do.                   *)
(***************************************************************************)
RECURSIVE EndsInBridge(_)
EndsInBridge(a) ==
  \/ a.kind = "bridge"
  \/ a.kind = "split" /\ \E l \in DOMAIN a.legs : EndsInBridge(Last(a.legs[l].actions))

\* RouteDAG.bridge: "Must be the last action on its branch".
BridgeEndsBranch ==
  \A k \in DOMAIN dag.actions : k < Len(dag.actions) => ~EndsInBridge(dag.actions[k])

RECURSIVE SimplePaths(_, _, _)
SimplePaths(c, dst, hops) ==
  {c} \cup (IF hops = 0 \/ c.token = dst THEN {}
           ELSE UNION {SimplePaths(n, dst, hops - 1) : n \in Range(Onward(graph, c, 0))})

\* Router: "the multi-hop route that maximises the output amount".
BestRouteIsBest ==
  \A src \in Tokens, dst \in Tokens, x \in Amounts : src # dst =>
    \A c \in SimplePaths(Start(src, x), dst, MaxHops) :
      c.token = dst => c.amount <= FindBestRoute(graph, src, dst, x, MaxHops, 0).amount
=============================================================================
