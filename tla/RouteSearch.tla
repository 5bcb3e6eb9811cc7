---------------------------- MODULE RouteSearch ----------------------------
(***************************************************************************)
(* pathfinder/router.py: the searches over a PoolGraph.  A path is a       *)
(* sequence of edges; a candidate is [token, amount, weight, path].  The   *)
(* table best of the code is kept as a sequence of layers, one per hop     *)
(* count, each in the order in which its keys were inserted.               *)
(***************************************************************************)
EXTENDS PoolGraph, FiniteSets

Start(src, amount) == [token |-> src, amount |-> amount, weight |-> <<1, 1>>, path |-> << >>]

Visited(c) == {c.path[k].in : k \in DOMAIN c.path} \cup {c.token}

Follow(c, e, gasPrice) ==
  [token |-> e.out, amount |-> AmountOut(e, c.amount), path |-> Append(c.path, e),
   weight |-> IF gasPrice = 0 THEN c.weight
              ELSE Times(c.weight, EffectiveRatio(e, c.amount, gasPrice))]

\* The onward candidates of c: simple in tokens, with an output.
Onward(graph, c, gasPrice) ==
  SelectSeq([k \in DOMAIN EdgesFrom(graph, c.token) |->
               Follow(c, EdgesFrom(graph, c.token)[k], gasPrice)],
            LAMBDA n : n.token \notin Visited(c) /\ n.amount > 0)

\* Strictly better only: of equals the first stays.
Beats(a, b) == \/ Lighter(a.weight, b.weight)
               \/ AsLight(a.weight, b.weight) /\ a.amount > b.amount

Keep(layer, c) ==
  IF \E k \in DOMAIN layer : layer[k].token = c.token
  THEN [k \in DOMAIN layer |->
          IF layer[k].token = c.token /\ Beats(c, layer[k]) THEN c ELSE layer[k]]
  ELSE Append(layer, c)

NextLayer(graph, layer, gasPrice) ==
  FoldLeft(LAMBDA l, c : FoldLeft(Keep, l, Onward(graph, c, gasPrice)), << >>, layer)

Layers(graph, src, amount, maxHops, gasPrice) ==
  FoldLeft(LAMBDA ls, h : Append(ls, NextLayer(graph, Last(ls), gasPrice)),
           <<<<Start(src, amount)>>>>, [h \in 1 .. maxHops |-> h])

NoRoute == [token |-> "none", amount |-> 0, weight |-> <<0, 1>>, path |-> << >>]

Lightest(ends) ==
  IF ends = << >> THEN NoRoute
  ELSE FoldLeft(LAMBDA best, c : IF Beats(c, best) THEN c ELSE best, Head(ends), Tail(ends))

\* find_best_route, with a gas price or (zero) without.
FindBestRoute(graph, src, dst, amount, maxHops, gasPrice) ==
  IF src = dst \/ amount <= 0 THEN NoRoute
  ELSE Lightest(SelectSeq(FlattenSeq(Tail(Layers(graph, src, amount, maxHops, gasPrice))),
                          LAMBDA c : c.token = dst))

(***************************************************************************)
(* find_all_routes: depth first.  best_at cuts a visit that arrives at a   *)
(* token and depth with no more than an earlier visit had; a stack of      *)
(* pending candidates stands for the recursion.                            *)
(***************************************************************************)
RECURSIVE Dfs(_, _, _, _, _)
Dfs(graph, dst, maxHops, pending, s) ==
  IF pending = << >> THEN s.found
  ELSE LET c == Head(pending)
           depth == Len(c.path)
           key == <<c.token, depth>>
           seen == {b \in s.bestAt : b[1] = key}
           mark == [s EXCEPT !.bestAt = (@ \ seen) \cup {<<key, c.amount>>}]
       IN IF \E b \in seen : c.amount <= b[2] THEN Dfs(graph, dst, maxHops, Tail(pending), s)
          ELSE IF c.token = dst
          THEN Dfs(graph, dst, maxHops, Tail(pending), [mark EXCEPT !.found = Append(@, c)])
          ELSE IF depth >= maxHops THEN Dfs(graph, dst, maxHops, Tail(pending), mark)
          ELSE Dfs(graph, dst, maxHops, Onward(graph, c, 0) \o Tail(pending), mark)

\* list.sort(reverse=True) on the amounts: stable, equals keep their order.
Richest(cs) ==
  LET before(i, j) == cs[i].amount > cs[j].amount \/ (cs[i].amount = cs[j].amount /\ i <= j)
      rank(i) == Cardinality({j \in DOMAIN cs : before(j, i)})
  IN [r \in DOMAIN cs |-> cs[CHOOSE i \in DOMAIN cs : rank(i) = r]]

Take(s, n) == SubSeq(s, 1, IF Len(s) < n THEN Len(s) ELSE n)

FindAllRoutes(graph, src, dst, amount, maxHops, topK) ==
  Take(Richest(Dfs(graph, dst, maxHops, <<Start(src, amount)>>, [found |-> << >>, bestAt |-> {}])),
       topK)

(***************************************************************************)
(* _find_top_routes_hop_dp: the best topN candidates of every token and    *)
(* hop count, then one route per first pool.                               *)
(***************************************************************************)
AddTo(layer, c) ==
  IF \E k \in DOMAIN layer : layer[k].token = c.token
  THEN [k \in DOMAIN layer |-> IF layer[k].token = c.token
                              THEN [layer[k] EXCEPT !.cands = Append(@, c)] ELSE layer[k]]
  ELSE Append(layer, [token |-> c.token, cands |-> <<c>>])

\* The lists that the expansion of one token reached are cut after it.
GrownBy(layer, new, topN) ==
  LET grown == FoldLeft(AddTo, layer, new)
      reached == {new[k].token : k \in DOMAIN new}
  IN [k \in DOMAIN grown |-> IF grown[k].token \in reached
                            THEN [grown[k] EXCEPT !.cands = Take(Richest(@), topN)] ELSE grown[k]]

ExpandToken(graph, layer, s, topN) ==
  GrownBy(layer, FlattenSeq([k \in DOMAIN s.cands |-> Onward(graph, s.cands[k], 0)]), topN)

NextBeam(graph, layer, topN) ==
  FoldLeft(LAMBDA l, s : ExpandToken(graph, l, s, topN), << >>, layer)

FirstPool(c) == PoolUid(c.path[1])

Diverse(cs, n) ==
  Take(FoldLeft(LAMBDA kept, c :
                  IF \E k \in DOMAIN kept : FirstPool(kept[k]) = FirstPool(c) THEN kept
                  ELSE Append(kept, c), << >>, cs), n)

CandidatesAt(dst, beams) ==
  LET ends == SelectSeq(FlattenSeq(beams), LAMBDA s : s.token = dst)
  IN FlattenSeq([k \in DOMAIN ends |-> ends[k].cands])

TopRoutesHopDp(graph, src, dst, amount, topN, maxHops) ==
  LET first == <<[token |-> src, cands |-> <<Start(src, amount)>>]>>
      beams == FoldLeft(LAMBDA ls, h : Append(ls, NextBeam(graph, Last(ls), topN)),
                        <<first>>, [h \in 1 .. maxHops |-> h])
  IN IF src = dst THEN << >>
     ELSE Diverse(Richest(CandidatesAt(dst, Tail(beams))), topN)
=============================================================================
