----------------------------- MODULE SplitRoute -----------------------------
(***************************************************************************)
(* pathfinder/multipath.py, pathfinder/asgm.py and Router.find_optimal_    *)
(* split: an input divided over pool-disjoint paths, and inside a path     *)
(* over the parallel pools of a hop.  A path is a sequence of bundles of   *)
(* edges.  Weights are whole multiples of 1/Scale where the code has       *)
(* floats, and inputs are at most 1/_MARGINAL_EPS, so that a marginal is   *)
(* the output of one more unit.                                            *)
(***************************************************************************)
EXTENDS RouteSearch, RouteDAG

CONSTANTS
  Scale, InitialStep,     \* one, and 0.1, in weights
  ArmijoDen,              \* 10_000: 1/_ARMIJO_ALPHA
  TolDen, InnerTolDen,    \* 100_000 and 10_000: the outer and the inner relative tolerance
  MaxOuter, MaxInner,     \* bounds: 200 and 50 iterations
  MaxParallel             \* max_parallel_per_hop

\* Mutant: what the floors leave is not divided.
FloorsOnly(total, ws) ==
  [k \in DOMAIN ws |-> IF total <= 0 \/ Total(ws) <= 0 THEN 0 ELSE (total * ws[k]) \div Total(ws)]

\* _distribute_int: floors, and what is left to the largest remainders.
DistributeInt(total, ws) ==
  LET s == Total(ws)
      floor(k) == (total * ws[k]) \div s
      rest(k) == (total * ws[k]) % s
      leftover == total - Total([k \in DOMAIN ws |-> floor(k)])
      ahead(k) == Cardinality({j \in DOMAIN ws : rest(j) > rest(k) \/ (rest(j) = rest(k) /\ j < k)})
  IN IF total <= 0 \/ s <= 0 THEN [k \in DOMAIN ws |-> 0]
     ELSE [k \in DOMAIN ws |-> floor(k) + IF ahead(k) < leftover THEN 1 ELSE 0]

(***************************************************************************)
(* merge_and_expand.                                                       *)
(***************************************************************************)
TokenSeq(path) == <<path[1].in>> \o [k \in DOMAIN path |-> path[k].out]
Uids(bundle) == {PoolUid(bundle[k]) : k \in DOMAIN bundle}

\* Mutant: pools may serve two paths.
AlwaysFree(e, bundle, claimed) == PoolUid(e) \notin Uids(bundle)

\* A pool serves one path, and one edge of a bundle.
Free(e, bundle, claimed) == PoolUid(e) \notin claimed \cup Uids(bundle)

\* Edge i of every path of one token sequence, then parallel pools of the graph.
Bundle(paths, i, claimed, graph) ==
  LET add(b, e) == IF Free(e, b, claimed) THEN Append(b, e) ELSE b
      merged == FoldLeft(LAMBDA b, p : add(b, p[i]), << >>, paths)
      widen(b, e) == IF e.out = merged[1].out /\ (b = merged \/ Len(b) < MaxParallel)
                     THEN add(b, e) ELSE b
  IN IF merged = << >> THEN merged
     ELSE FoldLeft(widen, merged, EdgesFrom(graph, merged[1].in))

MergeAndExpand(routes, graph) ==
  LET seqs == FoldLeft(LAMBDA s, p : IF Contains(s, TokenSeq(p)) THEN s ELSE Append(s, TokenSeq(p)),
                       << >>, routes)
      group(q) == SelectSeq(routes, LAMBDA p : TokenSeq(p) = q)
      bundles(q, claimed) == [i \in 1 .. Len(q) - 1 |-> Bundle(group(q), i, claimed, graph)]
      one(s, q) == LET b == bundles(q, s.claimed) IN
                   IF \E i \in DOMAIN b : b[i] = << >> THEN s
                   ELSE [paths |-> Append(s.paths, b),
                         claimed |-> s.claimed \cup UNION {Uids(b[i]) : i \in DOMAIN b}]
  IN FoldLeft(one, [paths |-> << >>, claimed |-> {}], seqs).paths

(***************************************************************************)
(* asgm.py: weight is moved from the path (or pool) with the least to the  *)
(* one with the most marginal output while that gains enough.              *)
(***************************************************************************)
BundleOut(bundle, x, ws) ==
  LET alloc == DistributeInt(x, ws)
  IN Total([k \in DOMAIN bundle |-> AmountOut(bundle[k], alloc[k])])

PathOut(path, x, w) ==
  FoldLeft(LAMBDA cur, k : BundleOut(path[k], cur, w.hops[k]), x, [k \in DOMAIN path |-> k])

First(S) == CHOOSE k \in S : \A j \in S : k <= j
ArgMax(m, S) == First({k \in S : \A j \in S : m[j] <= m[k]})
ArgMin(m, S) == First({k \in S : \A j \in S : m[k] <= m[j]})

Halvings(delta) == SelectSeq([k \in 1 .. 12 |-> delta \div 2 ^ (k - 1)], LAMBDA d : d > 0)
Gains(new, old, delta, gap) == (new - old) * Scale * ArmijoDen >= delta * gap

\* The first of the halved steps that gains enough, or 0.
LineSearch(gains) ==
  FoldLeft(LAMBDA r, k : IF r = 0 /\ gains[k] THEN k ELSE r, 0, [k \in DOMAIN gains |-> k])

\* The found of the tried weights, or the end of the loop.
Adopt(s, tries, found) ==
  IF found > 0 THEN [s EXCEPT !.ws = tries[found]] ELSE [s EXCEPT !.done = TRUE]

Moved(ws, plus, minus, d) == [ws EXCEPT ![plus] = @ + d, ![minus] = @ - d]

Marginal(e, x) == AmountOut(e, x + 1) - AmountOut(e, x)

Magnitude(x) == IF x < 0 THEN -x ELSE x

\* One iteration of _simplex_ascent, g being the marginals of the pools.
SimplexMove(bundle, x, s, g) ==
  LET ws == s.ws
      positive == {k \in DOMAIN ws : ws[k] > 0}
      plus == ArgMax(g, DOMAIN ws)
      minus == ArgMin(g, positive)
      gap == g[plus] - g[minus]
      steps == Halvings(IF ws[minus] < InitialStep THEN ws[minus] ELSE InitialStep)
      tries == [k \in DOMAIN steps |-> Moved(ws, plus, minus, steps[k])]
  IN IF \/ s.done \/ positive = {} \/ plus = minus \/ gap <= 0
        \/ gap * InnerTolDen < Magnitude(g[plus]) + Magnitude(g[minus])
     THEN [s EXCEPT !.done = TRUE]
     ELSE Adopt(s, tries, LineSearch([k \in DOMAIN steps |->
            Gains(BundleOut(bundle, x, tries[k]), BundleOut(bundle, x, ws), steps[k], gap)]))

SimplexTurn(bundle, x, s) ==
  SimplexMove(bundle, x, s,
              [k \in DOMAIN s.ws |-> Marginal(bundle[k], (s.ws[k] * x) \div Scale)])

SimplexAscent(bundle, x, ws) ==
  IF Len(bundle) = 1 THEN <<Scale>>
  ELSE FoldLeft(LAMBDA s, k : SimplexTurn(bundle, x, s), [ws |-> ws, done |-> FALSE],
                [k \in 1 .. MaxInner |-> k]).ws

\* _optimize_intra_hops_inplace
HopDone(bundle, s, k, ws) ==
  [cur |-> BundleOut(bundle, s.cur, ws), hops |-> [s.hops EXCEPT ![k] = ws]]

OptimizeHops(path, w, x) ==
  [w EXCEPT !.hops =
     FoldLeft(LAMBDA s, k : IF s.cur <= 0 THEN s
                            ELSE HopDone(path[k], s, k, SimplexAscent(path[k], s.cur, s.hops[k])),
              [cur |-> x, hops |-> @], [k \in DOMAIN path |-> k]).hops]

PathInputs(weights, x) == DistributeInt(x, [k \in DOMAIN weights |-> weights[k].path])

TotalOutput(paths, weights, x) ==
  LET inputs == PathInputs(weights, x)
  IN Total([k \in DOMAIN paths |-> PathOut(paths[k], inputs[k], weights[k])])

PathMarginal(path, w, x) ==
  LET x0 == (w.path * x) \div Scale IN PathOut(path, x0 + 1, w) - PathOut(path, x0, w)

\* Weight d moved between two paths, whose hops are optimized again.
Rebalanced(paths, x, plus, minus, moved) ==
  LET inputs == PathInputs(moved, x)
  IN [k \in DOMAIN moved |->
        IF k \in {plus, minus} /\ (k = plus \/ moved[k].path > 0)
        THEN OptimizeHops(paths[k], moved[k], inputs[k]) ELSE moved[k]]

OuterSearch(paths, x, s, gap, steps, tries, old) ==
  Adopt(s, tries, LineSearch([k \in DOMAIN steps |->
    Gains(TotalOutput(paths, tries[k], x), old, steps[k], x * gap)]))

\* One iteration of the loop of asgm_optimize, m being the marginals of the paths.
OuterMove(paths, x, s, positive, m) ==
  LET ws == s.ws
      plus == ArgMax(m, positive)
      minus == ArgMin(m, positive)
      gap == m[plus] - m[minus]
      sum == FoldLeft(LAMBDA a, k : a + m[k], 0, SetToSeq(positive))
      steps == Halvings(IF ws[minus].path < InitialStep THEN ws[minus].path ELSE InitialStep)
  IN IF s.done \/ plus = minus \/ (sum > 0 /\ gap * Cardinality(positive) * TolDen < sum)
     THEN [s EXCEPT !.done = TRUE]
     ELSE OuterSearch(paths, x, s, gap, steps,
                      [k \in DOMAIN steps |->
                         Rebalanced(paths, x, plus, minus,
                                    [ws EXCEPT ![plus].path = @ + steps[k], ![minus].path = @ - steps[k]])],
                      TotalOutput(paths, ws, x))

OuterTurn(paths, x, s) ==
  LET positive == {k \in DOMAIN s.ws : s.ws[k].path > 0}
  IN OuterMove(paths, x, s, positive, [k \in positive |-> PathMarginal(paths[k], s.ws[k], x)])

Uniform(paths) ==
  [k \in DOMAIN paths |->
     [path |-> Scale \div Len(paths),
      hops |-> [i \in DOMAIN paths[k] |-> [j \in DOMAIN paths[k][i] |-> Scale \div Len(paths[k][i])]]]]

AsgmFrom(paths, x, start) ==
  IF Len(paths) = 1 THEN start
  ELSE FoldLeft(LAMBDA s, k : OuterTurn(paths, x, s), [ws |-> start, done |-> FALSE],
                [k \in 1 .. MaxOuter |-> k]).ws

AsgmOptimize(paths, x) ==
  LET uniform == Uniform(paths)
      inputs == PathInputs(uniform, x)
  IN AsgmFrom(paths, x, [k \in DOMAIN paths |-> OptimizeHops(paths[k], uniform[k], inputs[k])])

(***************************************************************************)
(* find_optimal_split, as the builder calls it makes.                      *)
(***************************************************************************)
CallFrom(token) == [op |-> "from", token |-> token]
CallSwap(e) == [op |-> "swap", token |-> e.out, edge |-> e]
CallLeg(bps) == [op |-> "leg", bps |-> bps]
CallSplit == [op |-> "split"]
CallMerge == [op |-> "merge"]

\* _edges_to_dag
PathCalls(src, path) == <<CallFrom(src)>> \o [k \in DOMAIN path |-> CallSwap(path[k])]

\* _emit_path_to_dag: a split per bundle of several used pools.
BundleCalls(bundle, ws) ==
  LET bps == DistributeInt(MAX_BPS, ws)
      used == SelectSeq([k \in DOMAIN bundle |-> <<bundle[k], bps[k]>>], LAMBDA u : u[2] > 0)
  IN IF Len(bundle) = 1 THEN <<CallSwap(bundle[1])>>
     ELSE IF Len(used) = 1 THEN <<CallSwap(used[1][1])>>
     ELSE <<CallSplit>>
            \o FlattenSeq([k \in DOMAIN used |-> <<CallLeg(used[k][2]), CallSwap(used[k][1])>>])
            \o <<CallMerge>>

EmitPath(path, hops) == FlattenSeq([k \in DOMAIN path |-> BundleCalls(path[k], hops[k])])

\* edge_index: by pool and direction, the last edge of the graph.
EdgeKey(e) == <<e.pool, e.in, e.out, e.fee, e.tick, e.hooks>>
Indexed(graph, e) == Last(SelectSeq(graph, LAMBDA g : EdgeKey(g) = EdgeKey(e)))

\* The calls for the paths that get some of the input.
SplitCalls(src, active) ==
  LET bps == DistributeInt(MAX_BPS, [k \in DOMAIN active |-> active[k].w.path])
      leg(k) == IF bps[k] = 0 THEN << >>
                ELSE <<CallLeg(bps[k])>> \o EmitPath(active[k].p, active[k].w.hops)
  IN IF Len(active) = 1 THEN <<CallFrom(src)>> \o EmitPath(active[1].p, active[1].w.hops)
     ELSE <<CallFrom(src), CallSplit>> \o FlattenSeq([k \in DOMAIN active |-> leg(k)]) \o <<CallMerge>>

\* If none does, the first path.
Active(paths, ws) ==
  LET used == SelectSeq([k \in DOMAIN paths |-> [p |-> paths[k], w |-> ws[k]]],
                        LAMBDA u : u.w.path > 0)
  IN IF used = << >> THEN <<[p |-> paths[1], w |-> ws[1]]>> ELSE used

SplitOver(src, x, paths) == SplitCalls(src, Active(paths, AsgmOptimize(paths, x)))

\* No calls when there is no route.
OptimalSplitCalls(graph, src, x, routes) ==
  IF routes = << >> THEN << >>
  ELSE SplitOver(src, x, MergeAndExpand([k \in DOMAIN routes |->
                   [i \in DOMAIN routes[k].path |-> Indexed(graph, routes[k].path[i])]], graph))
=============================================================================
