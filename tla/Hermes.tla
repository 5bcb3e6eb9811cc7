------------------------------- MODULE Hermes -------------------------------
(***************************************************************************)
(* pathfinder/hermes.py: an index of all-pairs distances over the token    *)
(* graph, kept while weights and edges change.  The vertices are put in an *)
(* elimination order; every vertex keeps, to its neighbours in the chordal *)
(* completion, the length of the best way through later vertices (dpc) and *)
(* the vertex that way runs through (witness).  A weight is the -log of a  *)
(* rate, here an integer; networkx and its order are external.             *)
(***************************************************************************)
EXTENDS Integers, FiniteSets, SequencesExt

CONSTANTS
  V,                    \* tokens
  Inf, None,            \* no way; no witness
  StartGraphs,          \* <<u, v>> -> weight, on the pairs with an edge
  Weights, MaxChanges,  \* bounds: what weights become, how often
  K,                    \* paths asked of top_k_paths
  TopN, Oversample, MaxHops, Cost   \* _find_top_routes_hermes; Cost[e] is what a swap on e loses

VARIABLES g,        \* the networkx graph: edges and weights
          index,    \* [order, chords, adj, dpc, witness]
          changes

vars == <<g, index, changes>>

Pairs == {p \in V \X V : p[1] # p[2]}
Nodes(graph) == UNION {{p[1], p[2]} : p \in DOMAIN graph}
Plus(a, b) == IF a = Inf \/ b = Inf THEN Inf ELSE a + b
Put(f, x, v) == [y \in DOMAIN f \cup {x} |-> IF y = x THEN v ELSE f[y]]

(***************************************************************************)
(* Building.                                                               *)
(***************************************************************************)
Orders(S) == SetToSeqs(S)
Position(order, v) == CHOOSE k \in DOMAIN order : order[k] = v

\* treewidth_min_fill_in, _chordal_completion_and_peo: eliminating from the
\* last vertex on, the earlier neighbours of each become a clique.
Chords(graph, order) ==
  LET pos(v) == Position(order, v)
      eliminate(E, k) ==
        LET earlier == {u \in V : <<u, order[k]>> \in E /\ pos(u) < k}
        IN E \cup {p \in earlier \X earlier : p[1] # p[2]}
  IN FoldRight(LAMBDA k, E : eliminate(E, k), [k \in DOMAIN order |-> k],
               {p \in Pairs : p \in DOMAIN graph \/ <<p[2], p[1]>> \in DOMAIN graph})

\* _build_adj_weights: without self-loops.
Adjacent(graph) ==
  [p \in {q \in DOMAIN graph : q[1] # q[2]} |-> graph[p]]

Earlier(order, chords, k) ==
  {u \in V : <<u, order[k]>> \in chords /\ Position(order, u) < k}

\* Mutant: the table of before is where the sweep starts.
FromOldTable(adj, old) ==
  [p \in Pairs |-> IF p \in DOMAIN adj /\ adj[p] < old[p] THEN adj[p] ELSE old[p]]

FromAdjacent(adj, old) == [p \in Pairs |-> IF p \in DOMAIN adj THEN adj[p] ELSE Inf]

\* _enforce_dpc
EnforceDPC(adj, chords, order, old) ==
  LET through(t, k) ==
        LET early == Earlier(order, chords, k)
            via(p) == Plus(t.dpc[<<p[1], order[k]>>], t.dpc[<<order[k], p[2]>>])
            better == {p \in Pairs : p[1] \in early /\ p[2] \in early /\ via(p) < t.dpc[p]}
        IN [dpc |-> [p \in Pairs |-> IF p \in better THEN via(p) ELSE t.dpc[p]],
            witness |-> [p \in Pairs |-> IF p \in better THEN order[k] ELSE t.witness[p]]]
  IN FoldRight(LAMBDA k, t : through(t, k), [k \in DOMAIN order |-> k],
               [dpc |-> FromAdjacent(adj, old), witness |-> [p \in Pairs |-> None]])

NoTable == [p \in Pairs |-> Inf]

\* The order is networkx's choice.
Index(graph, order) ==
  LET chords == Chords(graph, order)
      t == EnforceDPC(Adjacent(graph), chords, order, NoTable)
  IN [order |-> order, chords |-> chords, adj |-> Adjacent(graph), dpc |-> t.dpc, witness |-> t.witness]

Recomputed(ix) ==
  LET t == EnforceDPC(ix.adj, ix.chords, ix.order, ix.dpc)
  IN [ix EXCEPT !.dpc = t.dpc, !.witness = t.witness]

(***************************************************************************)
(* Operations.                                                             *)
(***************************************************************************)
Init ==
  /\ g \in StartGraphs
  /\ index \in {Index(g, o) : o \in Orders(Nodes(g))}
  /\ changes = 0

Changed(n) == changes + n <= MaxChanges /\ changes' = changes + n

\* An edge that others put into the graph is not registered: the graph takes
\* the weight before update_weight raises.
UpdateWeight ==
  /\ Changed(1)
  /\ \E e \in DOMAIN g, w \in Weights :
       /\ g' = [g EXCEPT ![e] = w]
       /\ index' = IF e \in DOMAIN index.adj THEN Recomputed([index EXCEPT !.adj[e] = w]) ELSE index

\* update_weights skips what it does not know.
UpdateWeights ==
  /\ Changed(2)
  /\ \E e \in DOMAIN g, f \in DOMAIN g, w \in Weights, x \in Weights :
       /\ e # f
       /\ g' = [g EXCEPT ![e] = w, ![f] = x]
       /\ index' = Recomputed([index EXCEPT !.adj =
                     [p \in DOMAIN @ |-> IF p = e THEN w ELSE IF p = f THEN x ELSE @[p]]])

\* add_edge, in place on a chord; a self-loop is dropped.
AddEdge ==
  /\ Changed(1)
  /\ \E e \in Pairs, w \in Weights :
       /\ g' = Put(g, e, w)
       /\ IF e \in index.chords THEN index' = Recomputed([index EXCEPT !.adj = Put(@, e, w)])
          ELSE \E o \in Orders(Nodes(g')) : index' = Index(g', o)

\* The graph is shared: its owner may add an edge of its own.  Nobody asks for
\* its weight before add_edge or update_weight give it one.
AddUnregistered ==
  /\ Changed(1)
  /\ \E u \in Nodes(g), v \in Nodes(g) : <<u, v>> \notin DOMAIN g /\ g' = Put(g, <<u, v>>, 0)
  /\ UNCHANGED index

Next == UpdateWeight \/ UpdateWeights \/ AddEdge \/ AddUnregistered

Spec == Init /\ [][Next]_vars

(***************************************************************************)
(* Queries.                                                                *)
(***************************************************************************)
\* _query_sssp_with_parents: down the order from the source, then up it.
Sweep(ix, s, k, later) ==
  LET v == ix.order[k]
      ahead == {u \in V : <<v, u>> \in ix.chords
                          /\ IF later THEN Position(ix.order, u) > k ELSE Position(ix.order, u) < k}
      better == {u \in ahead : Plus(s.dist[v], ix.dpc[<<v, u>>]) < s.dist[u]}
  IN [dist |-> [u \in V |-> IF u \in better THEN s.dist[v] + ix.dpc[<<v, u>>] ELSE s.dist[u]],
      parent |-> [u \in V |-> IF u \in better THEN v ELSE s.parent[u]]]

Query(ix, source) ==
  LET n == Len(ix.order)
      start == [dist |-> [v \in V |-> IF v = source THEN 0 ELSE Inf], parent |-> [v \in V |-> None]]
      upTo == [k \in 1 .. Position(ix.order, source) |-> k]
      down == FoldRight(LAMBDA k, s : Sweep(ix, s, k, FALSE), upTo, start)
  IN FoldLeft(LAMBDA s, k : Sweep(ix, s, k, TRUE), down, [k \in 1 .. n |-> k])

\* _expand_chordal_edge: [ok, out, seen].
RECURSIVE Expand(_, _, _, _)
Expand(ix, graph, p, s) ==
  LET w == ix.witness[p]
      first == Expand(ix, graph, <<p[1], w>>, [s EXCEPT !.seen = @ \cup {p}])
  IN IF p \in s.seen THEN [s EXCEPT !.ok = FALSE]
     ELSE IF w = None
     THEN [ok |-> p \in DOMAIN graph, out |-> Append(s.out, p[2]), seen |-> s.seen \cup {p}]
     ELSE IF ~first.ok THEN first ELSE Expand(ix, graph, <<w, p[2]>>, first)

\* The parents back to the source, or << >> when they do not lead there.
RECURSIVE Chain(_, _, _)
Chain(parent, source, chain) ==
  LET p == parent[Head(chain)]
  IN IF Head(chain) = source THEN chain
     ELSE IF p = None \/ Contains(chain, p) THEN << >>
     ELSE Chain(parent, source, <<p>> \o chain)

RECURSIVE SimplePaths(_, _, _, _)
SimplePaths(graph, path, target, avoid) ==
  IF Last(path) = target THEN {path}
  ELSE UNION {SimplePaths(graph, Append(path, v), target, avoid) :
                v \in {u \in V : <<Last(path), u>> \in DOMAIN graph \ avoid /\ ~Contains(path, u)}}

PathCost(graph, path) ==
  FoldLeft(LAMBDA c, k : c + graph[<<path[k], path[k + 1]>>], 0, [k \in 1 .. Len(path) - 1 |-> k])

ReachedFrom(graph, s) ==
  FoldSet(LAMBDA k, R : R \cup {v \in V : \E u \in R : <<u, v>> \in DOMAIN graph}, {s}, V)

CycleCosts(graph, v) ==
  {PathCost(graph, p) + graph[<<Last(p), v>>] :
     p \in UNION {SimplePaths(graph, <<v>>, u, {}) : u \in {w \in V : <<w, v>> \in DOMAIN graph}}}
OnNegativeCycle(graph, v) == \E c \in CycleCosts(graph, v) : c < 0

Unbounded(graph, s) == \E v \in ReachedFrom(graph, s) : OnNegativeCycle(graph, v)

\* bellman_ford_path, and the fewest hops where that is unbounded; NoPath.
NoPath == << >>
Cheapest(graph, paths) == CHOOSE p \in paths : \A q \in paths : PathCost(graph, p) <= PathCost(graph, q)
Shortest(paths) == CHOOSE p \in paths : \A q \in paths : Len(p) <= Len(q)

PathOf(graph, root, target, avoid) ==
  LET sub == [e \in DOMAIN graph \ avoid |-> graph[e]]
      paths == SimplePaths(sub, root, target, {})
  IN IF paths = {} THEN NoPath
     ELSE IF Unbounded(sub, Last(root)) THEN Shortest(paths) ELSE Cheapest(sub, paths)

ShortestPath(ix, graph, source, target) ==
  LET q == Query(ix, source)
      chain == Chain(q.parent, source, <<target>>)
      expanded == FoldLeft(LAMBDA s, k : IF ~s.ok THEN s
                             ELSE Expand(ix, graph, <<chain[k], chain[k + 1]>>, [s EXCEPT !.seen = {}]),
                           [ok |-> TRUE, out |-> <<source>>, seen |-> {}],
                           [k \in 1 .. Len(chain) - 1 |-> k])
  IN IF {source, target} \subseteq Range(ix.order)
     THEN IF source = target THEN <<source>>
          ELSE IF q.dist[target] # Inf /\ chain # << >> /\ expanded.ok THEN expanded.out
          ELSE PathOf(graph, <<source>>, target, {})
     ELSE NoPath

(***************************************************************************)
(* top_k_paths: Yen's deviations.                                          *)
(***************************************************************************)
Deviations(graph, confirmed, target) ==
  LET prev == Last(confirmed)
      at(i) == LET root == SubSeq(prev, 1, i)
                   taken == {<<p[i], p[i + 1]>> :
                               p \in {q \in Range(confirmed) : Len(q) > i /\ SubSeq(q, 1, i) = root}}
                   passed == {e \in DOMAIN graph : \E k \in 1 .. i - 1 : root[k] \in {e[1], e[2]}}
                   spur == PathOf(graph, <<prev[i]>>, target, taken \cup passed)
               IN IF spur = NoPath THEN NoPath ELSE Front(root) \o spur
  IN SelectSeq([i \in 1 .. Len(prev) - 1 |-> at(i)], LAMBDA p : p # NoPath)

Offer(s, p) == IF Contains(s.candidates, p) \/ Contains(s.confirmed, p) THEN s
               ELSE [s EXCEPT !.candidates = Append(@, p)]

\* The first of the cheapest candidates is confirmed.
Confirm(graph, t) ==
  LET c == t.candidates
      best == CHOOSE j \in DOMAIN c :
                /\ \A l \in DOMAIN c : PathCost(graph, c[j]) <= PathCost(graph, c[l])
                /\ \A l \in 1 .. j - 1 : PathCost(graph, c[j]) < PathCost(graph, c[l])
  IN IF t.done \/ c = << >> THEN [t EXCEPT !.done = TRUE]
     ELSE [t EXCEPT !.confirmed = Append(@, c[best]), !.candidates = Remove(@, c[best])]

Deviated(graph, target, k, first) ==
  IF k <= 0 \/ Len(first) < 2 THEN << >>
  ELSE FoldLeft(LAMBDA s, n : Confirm(graph, FoldLeft(Offer, s, Deviations(graph, s.confirmed, target))),
                [confirmed |-> <<first>>, candidates |-> << >>, done |-> FALSE],
                [n \in 1 .. k - 1 |-> n]).confirmed

TopKPaths(ix, graph, source, target, k) ==
  Deviated(graph, target, k, ShortestPath(ix, graph, source, target))

\* singular_vertices
Singular(ix, graph) ==
  LET seeds == UNION {{p[1], p[2]} : p \in {q \in ix.chords :
                        /\ ix.dpc[q] # Inf /\ ix.dpc[<<q[2], q[1]>>] # Inf
                        /\ ix.dpc[q] + ix.dpc[<<q[2], q[1]>>] < 0}}
               \cup {v \in V : <<v, v>> \in DOMAIN graph /\ graph[<<v, v>>] < 0}
      scc(v) == {u \in ReachedFrom(graph, v) : v \in ReachedFrom(graph, u)}
  IN UNION {scc(v) : v \in seeds}

(***************************************************************************)
(* Router._find_top_routes_hermes: more paths are sampled, twice as many   *)
(* each time, until enough are short enough.                               *)
(***************************************************************************)
ShortEnough(paths) == SelectSeq(paths, LAMBDA p : Len(p) - 1 <= MaxHops)

\* Mutant: the first sample has to do.
AnyEnough(all, fit, k) == TRUE

Enough(all, fit, k) == Len(fit) >= TopN \/ Len(all) < k \/ k >= TopN * Oversample * 8

RECURSIVE Sampled(_, _, _, _, _)
Judged(ix, graph, src, dst, k, all) ==
  IF Enough(all, ShortEnough(all), k) THEN ShortEnough(all) ELSE Sampled(ix, graph, src, dst, k * 2)

Sampled(ix, graph, src, dst, k) ==
  Judged(ix, graph, src, dst, k, TopKPaths(ix, graph, src, dst, k))

\* A route pays what is left of the amount; the key of its first step.
Left(path, x) == x - FoldLeft(LAMBDA c, k : c + Cost[<<path[k], path[k + 1]>>], 0,
                              [k \in 1 .. Len(path) - 1 |-> k])
FirstPair(path) == <<path[1], path[2]>>

Ranked(paying, x) ==
  LET rank(k) == Cardinality({j \in DOMAIN paying : \/ Left(paying[j], x) > Left(paying[k], x)
                                                   \/ /\ Left(paying[j], x) = Left(paying[k], x)
                                                      /\ j < k})
  IN [r \in DOMAIN paying |-> paying[CHOOSE k \in DOMAIN paying : rank(k) = r - 1]]

Cut(paths) == SubSeq(paths, 1, IF Len(paths) < TopN THEN Len(paths) ELSE TopN)

TopRoutesHermes(ix, graph, src, dst, x) ==
  Cut(FoldLeft(LAMBDA d, p : IF \E q \in Range(d) : FirstPair(q) = FirstPair(p) THEN d ELSE Append(d, p),
               << >>, Ranked(SelectSeq(Sampled(ix, graph, src, dst, TopN * Oversample),
                                       LAMBDA p : IsInjective(p) /\ Left(p, x) > 0), x)))

-----------------------------------------------------------------------------
Registered == [e \in DOMAIN index.adj |-> g[e]]
Bounded(graph) == \A v \in V : ~OnNegativeCycle(graph, v)
NoFreeCycle(graph) == \A v \in V : \A c \in CycleCosts(graph, v) : c > 0

\* Reference: the length of the shortest simple path.
Distance(graph, s, t) ==
  LET paths == SimplePaths(graph, <<s>>, t, {})
  IN IF s = t THEN 0 ELSE IF paths = {} THEN Inf ELSE PathCost(graph, Cheapest(graph, paths))

\* After any history of updates the index answers every query with the
\* distances of the registered graph as it is now, whatever the elimination
\* order, as long as no cycle is negative (query, update_weight, add_edge).
QueryIsExact(graph, s) ==
  LET dist == Query(index, s).dist
  IN \A t \in V : dist[t] = Distance(graph, s, t)

\* The shortcuts of the index expand into edges of the graph, along a path of
\* the distance's length: the fallback is never needed without a negative
\* cycle (shortest_path, _expand_chordal_edge).
PathIsShortest(graph, s) ==
  \A t \in Range(index.order) :
    LET p == ShortestPath(index, graph, s, t)
    IN Distance(graph, s, t) = IF p = NoPath THEN Inf ELSE PathCost(graph, p)

\* Arbitrage is found where it is, and only there: the tokens of the strongly
\* connected components with a negative cycle (singular_vertices).
AllRegistered == \A e \in DOMAIN g : e[1] = e[2] \/ e \in DOMAIN index.adj
SingularExact ==
  AllRegistered =>
    LET reach == [v \in V |-> ReachedFrom(g, v)]
        losing == {v \in V : OnNegativeCycle(g, v)}
    IN Singular(index, g) = {v \in V : \E u \in losing : u \in reach[v] /\ v \in reach[u]}

\* What is asked of the index is answered for the graph as it is now.
IndexIsExact ==
  /\ LET r == Registered
     IN Bounded(r) => \A s \in Range(index.order) : QueryIsExact(r, s) /\ PathIsShortest(r, s)
  /\ SingularExact

\* top_k_paths gives the k cheapest simple paths, cheapest first.  A cycle of
\* weight zero may enter the first path, which the router then drops.
TopKAreCheapest(graph, all, top) ==
  /\ Range(top) \subseteq all /\ IsInjective(top)
  /\ Len(top) = IF Cardinality(all) < K THEN Cardinality(all) ELSE K
  /\ \A k \in DOMAIN top : \A q \in all \ {top[j] : j \in 1 .. k} :
        PathCost(graph, top[k]) <= PathCost(graph, q)

\* A route within the hop limit is found where there is one, however many
\* longer paths are cheaper (_find_top_routes_hermes).
ShortRouteFound(all, found) ==
  /\ (\E p \in all : Len(p) - 1 <= MaxHops) <=> found # << >>
  /\ \A p \in Range(found) : Len(p) - 1 <= MaxHops

\* Yen's deviations and the sampling around them miss no path that counts.
TopRoutesComplete ==
  LET r == Registered
  IN AllRegistered /\ NoFreeCycle(r) => \A s \in Range(index.order), t \in Range(index.order) :
       LET all == SimplePaths(r, <<s>>, t, {})
       IN s # t => /\ TopKAreCheapest(r, all, TopKPaths(index, r, s, t, K))
                   /\ ShortRouteFound(all, TopRoutesHermes(index, r, s, t, Inf))
=============================================================================
