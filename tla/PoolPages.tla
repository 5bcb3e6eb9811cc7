----------------------------- MODULE PoolPages -----------------------------
(***************************************************************************)
(* pool_data/: the providers that list the pools of a chain.  The lists    *)
(* are ranked by liquidity; GeckoTerminal serves them page by page, one    *)
(* request each, while pools overtake one another; a subgraph answers in   *)
(* one query.  What they list becomes the edges of a PoolGraph.            *)
(***************************************************************************)
EXTENDS Naturals, Sequences, FiniteSets, SequencesExt, FiniteSetsExt

CONSTANTS
  Listed,            \* pool -> t0, t1, v3, whole (its entry has what is
                     \* needed to parse it), liquid
  Rankings,          \* orders of the pools by liquidity
  PageSize,          \* _PAGE_SIZE
  MaxAddresses,      \* _MAX_ADDRESSES_PER_REQUEST
  SubgraphCap,       \* entities a subgraph returns at most
  Asks,              \* the calls: kind, tokens, limit
  MaxMoves           \* bound: pools overtaking one another during a call

VARIABLES ranking,   \* the pools by descending liquidity
          ask,       \* the call's arguments
          pc, chunk, page, pools,
          began, moves  \* history: the ranking when the call began, and how
                        \* often a pool has overtaken another since

vars == <<ranking, ask, pc, chunk, page, pools, began, moves>>

Pools == DOMAIN Listed
Tokens(p) == {Listed[p].t0, Listed[p].t1}
First(seq, n) == SubSeq(seq, 1, Min({n, Len(seq)}))

Init ==
  /\ ranking \in Rankings
  /\ ask \in Asks
  /\ pc = "get" /\ chunk = 1 /\ page = 1 /\ pools = <<>>
  /\ began = ranking /\ moves = 0

\* Between two requests a pool overtakes the one before it.
Overtake ==
  /\ pc = "get" /\ moves < MaxMoves /\ moves' = moves + 1
  /\ \E i \in 1 .. Len(ranking) - 1 :
       ranking' = [j \in DOMAIN ranking |->
                     CASE j = i -> ranking[i + 1] [] j = i + 1 -> ranking[i]
                       [] OTHER -> ranking[j]]
  /\ UNCHANGED <<ask, pc, chunk, page, pools, began>>

-----------------------------------------------------------------------------
\* The addresses, each once, in the order they were given first.
Unique(seq) ==
  FoldLeft(LAMBDA acc, x : IF x \in ToSet(acc) THEN acc ELSE Append(acc, x), <<>>, seq)

Chunks ==
  LET u == Unique(ask.tokens)
  IN [i \in 1 .. (Len(u) + MaxAddresses - 1) \div MaxAddresses |->
        SubSeq(u, (i - 1) * MaxAddresses + 1, Min({i * MaxAddresses, Len(u)}))]

\* The list that a request is a page of.  A pool of two queried tokens is
\* listed once for each.
Listing(rank, tokens) ==
  CASE ask.kind = "top" -> rank
    [] ask.kind = "token" -> SelectSeq(rank, LAMBDA p : ask.tokens[1] \in Tokens(p))
    [] OTHER -> FlattenSeq([i \in DOMAIN rank |->
                  [n \in 1 .. Cardinality(Tokens(rank[i]) \cap ToSet(tokens)) |-> rank[i]]])

Items(tokens) ==
  LET all == Listing(ranking, tokens)
  IN SubSeq(all, (page - 1) * PageSize + 1, Min({page * PageSize, Len(all)}))

ParsePool(p) ==
  [addr |-> p, t0 |-> Listed[p].t0, t1 |-> Listed[p].t1, ticks |-> FALSE]

Addresses(seq) == {seq[i].addr : i \in DOMAIN seq}

\* Mutants: a pool is appended whether or not it is there already; the page
\* after a full one is the next but one.
Unseen(acc, p) == TRUE
SkipPage(n) == n + 2

New(acc, p) == ask.kind = "tokens" => p \notin Addresses(acc)

\* One page: what cannot be parsed is skipped, what exceeds the limit is left.
Collect(items) ==
  FoldLeft(LAMBDA acc, p :
             IF Len(acc) < ask.limit /\ Listed[p].whole /\ New(acc, p)
             THEN Append(acc, ParsePool(p)) ELSE acc,
           pools, items)

NextPage(n) == n + 1

\* The pages end at an empty or a short one, or at the limit.
Ends(items) == Len(items) < PageSize \/ Len(pools') >= ask.limit

\* There is a request to make before the call returns.
Requests ==
  /\ Len(pools) < ask.limit
  /\ ask.kind = "tokens" => chunk <= Len(Chunks)

TopPools ==
  /\ ask.kind = "top" /\ pc = "get"
  /\ IF ~Requests THEN pc' = "done" /\ UNCHANGED <<page, pools>>
     ELSE LET items == Items(<<>>)
          IN /\ pools' = Collect(items)
             /\ IF Ends(items) THEN pc' = "done" /\ UNCHANGED page
                ELSE page' = NextPage(page) /\ UNCHANGED pc
  /\ UNCHANGED <<ranking, ask, chunk, began, moves>>

PoolsForToken ==
  /\ ask.kind = "token" /\ pc = "get"
  /\ IF ~Requests THEN pc' = "done" /\ UNCHANGED <<page, pools>>
     ELSE LET items == Items(<<>>)
          IN /\ pools' = Collect(items)
             /\ IF Ends(items) THEN pc' = "done" /\ UNCHANGED page
                ELSE page' = NextPage(page) /\ UNCHANGED pc
  /\ UNCHANGED <<ranking, ask, chunk, began, moves>>

\* The addresses are asked for in chunks, each with pages of its own.
PoolsForTokens ==
  /\ ask.kind = "tokens" /\ pc = "get"
  /\ IF ~Requests THEN pc' = "done" /\ UNCHANGED <<chunk, page, pools>>
     ELSE LET items == Items(Chunks[chunk])
          IN /\ pools' = Collect(items)
             /\ IF Ends(items) THEN chunk' = chunk + 1 /\ page' = 1
                ELSE page' = NextPage(page) /\ UNCHANGED chunk
             /\ UNCHANGED pc
  /\ UNCHANGED <<ranking, ask, began, moves>>

GetPool ==
  /\ ask.kind = "pool" /\ pc = "get"
  /\ \E p \in Pools : IF Listed[p].whole
                      THEN pc' = "done" /\ pools' = <<ParsePool(p)>>
                      ELSE pc' = "error" /\ UNCHANGED pools
  /\ UNCHANGED <<ranking, ask, chunk, page, began, moves>>

\* Any request may fail; the pages before it are lost with the exception.
Get ==
  /\ pc = "get" /\ Requests /\ pc' = "error"
  /\ UNCHANGED <<ranking, ask, chunk, page, pools, began, moves>>

-----------------------------------------------------------------------------
(***************************************************************************)
(* The subgraphs of Uniswap V2 and V3.                                     *)
(***************************************************************************)
ParsePair(p) == ParsePool(p)
ParseV3(p) == [ParsePool(p) EXCEPT !.ticks = Listed[p].liquid]

Entities(version, tokens) ==
  First(SelectSeq(ranking, LAMBDA p : /\ Listed[p].v3 = version
                                      /\ ToSet(tokens) \subseteq Tokens(p)),
        Min({ask.limit, SubgraphCap}))
Whole(items) == SelectSeq(items, LAMBDA p : Listed[p].whole)

QueryV2 ==
  /\ ask.kind = "v2" /\ pc = "get" /\ pc' = "done"
  /\ LET items == Whole(Entities(FALSE, ask.tokens))
     IN pools' = [i \in DOMAIN items |-> ParsePair(items[i])]
  /\ UNCHANGED <<ranking, ask, chunk, page, began, moves>>

QueryV3 ==
  /\ ask.kind = "v3" /\ pc = "get" /\ pc' = "done"
  /\ LET items == Whole(Entities(TRUE, ask.tokens))
     IN pools' = [i \in DOMAIN items |-> ParseV3(items[i])]
  /\ UNCHANGED <<ranking, ask, chunk, page, began, moves>>

Next == \/ Overtake \/ TopPools \/ PoolsForToken \/ PoolsForTokens \/ GetPool \/ Get
        \/ QueryV2 \/ QueryV3

Spec == Init /\ [][Next]_vars

-----------------------------------------------------------------------------
(***************************************************************************)
(* The graph that the listed pools make: both directions of each.          *)
(***************************************************************************)
ToPoolEdges(d) ==
  <<[pool |-> d.addr, in |-> d.t0, out |-> d.t1, ticks |-> d.ticks],
    [pool |-> d.addr, in |-> d.t1, out |-> d.t0, ticks |-> d.ticks]>>

BuildGraph(seq) == FlattenSeq([i \in DOMAIN seq |-> ToPoolEdges(seq[i])])

-----------------------------------------------------------------------------
Asked == CASE ask.kind \in {"top", "pool"} -> Pools
           [] ask.kind = "tokens" -> {p \in Pools : Tokens(p) \cap ToSet(ask.tokens) # {}}
           [] OTHER -> {p \in Pools : ToSet(ask.tokens) \subseteq Tokens(p)}
Best == First(SelectSeq(began, LAMBDA p : p \in Asked /\ Listed[p].whole), ask.limit)

\* What a call lists are pools it was asked for, as many as the limit allows.
\* While the ranking stands still they are the best ones in their order, or,
\* of several chunks, all there are if they fit.  Each pool that overtakes
\* another during the call costs at most one of them.
BestAreListed ==
  pc = "done" =>
    /\ Len(pools) <= ask.limit \/ ask.kind = "pool"
    /\ Addresses(pools) \subseteq Asked
    /\ ask.kind \in {"top", "token"} \/ (ask.kind = "tokens" /\ Len(Chunks) = 1) =>
         /\ moves = 0 => [i \in DOMAIN pools |-> pools[i].addr] = Best
         /\ Cardinality(ToSet(Best) \ Addresses(pools)) <= moves
    /\ ask.kind = "tokens" /\ moves = 0 =>
         \/ Len(pools) = ask.limit
         \/ Addresses(pools) = {p \in Asked : Listed[p].whole}

\* A pool stands in the graph once in each direction: a second pair of edges
\* would count its liquidity twice.
PoolsOnceInGraph ==
  pc = "done" /\ (ask.kind = "tokens" \/ moves = 0) =>
    LET graph == BuildGraph(pools)
    IN \A i, j \in DOMAIN graph :
         graph[i].pool = graph[j].pool /\ graph[i].in = graph[j].in => i = j
=============================================================================
