--------------------------- MODULE MCPoolIndexer ---------------------------
(***************************************************************************)
(* Blocks for PoolIndexer: a pool p whose creation by the factory f and    *)
(* first log share a block, and a pool q that is as old as the chain.      *)
(***************************************************************************)
EXTENDS PoolIndexer

CONSTANTS f, g, p, q, r

LOCAL Event(a) == [from |-> a, new |-> {}]
LOCAL Creation(a, c) == [from |-> a, new |-> {c}]

MCBlocks == {<<Creation(f, p), Event(p)>>, <<Event(q), Event(p)>>, <<Event(q)>>}

\* As MCBlocks, with a second pool created, in another block than the first.
MCTwoPools == {<<Event(q), Creation(f, p)>>, <<Creation(f, r), Event(r), Event(p)>>, <<Event(q)>>}

\* A block in which both factories create a pool, after two logs of another
\* pool, of which the second has the first one flushed; and one of that pool's.
MCSharedBlock ==
  {<<Event(q), Event(q), Creation(f, p), Creation(g, r)>>, <<Event(p)>>}
=============================================================================
