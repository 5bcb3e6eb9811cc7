--------------------------- MODULE LucidDiscovery ---------------------------
(***************************************************************************)
(* bridge/lucid.py, discover_adapter: the controller's TransferRelayed     *)
(* events are read backwards in windows of chunk_size blocks, one request  *)
(* at a time, while the chain goes on growing.                             *)
(***************************************************************************)
EXTENDS Integers, Sequences

CONSTANTS Adapters,
          Froms, Tos,        \* block arguments; Latest among Tos
          ChunkSizes,
          MaxBlock, MaxLogs  \* bounds: length of the chain, events of a block

Latest == -1

VARIABLES chain,   \* block -> the adapters of its events, in order
          ask,     \* the call's arguments
          pc, head, cursor, adapter,
          began    \* history: the chain's length when the call began

vars == <<chain, ask, pc, head, cursor, adapter, began>>

Nobody == "nobody"
Contents == UNION {[1 .. n -> Adapters] : n \in 0 .. MaxLogs}
AtLeast(a, b) == IF a > b THEN a ELSE b

Init ==
  /\ chain = <<>>
  /\ ask \in [from : Froms, to : Tos, chunk : ChunkSizes]
  /\ pc = "new" /\ head = 0 /\ cursor = 0 /\ adapter = Nobody /\ began = 0

Mine ==
  /\ Len(chain) < MaxBlock
  /\ \E logs \in Contents : chain' = Append(chain, logs)
  /\ UNCHANGED <<ask, pc, head, cursor, adapter, began>>

Begin ==
  /\ pc = "new"
  /\ head' = IF ask.to = Latest THEN Len(chain) ELSE ask.to
  /\ cursor' = head'
  /\ pc' = IF ask.chunk < 1 THEN "error" ELSE "scan"
  /\ began' = Len(chain)
  /\ UNCHANGED <<chain, ask, adapter>>

\* Mutant: the next window leaves out a block.
WindowGap(lo) == lo - 2

NextCursor(lo) == lo - 1

\* The blocks lo .. hi with events.
Logged(lo, hi) == {k \in DOMAIN chain : lo <= k /\ k <= hi /\ chain[k] # << >>}

Last(k) == chain[k][Len(chain[k])]

\* One eth_getLogs.
Window ==
  /\ pc = "scan"
  /\ LET lo == AtLeast(ask.from, cursor - ask.chunk + 1)
         logged == Logged(lo, cursor)
     IN IF cursor < ask.from THEN pc' = "error" /\ UNCHANGED <<cursor, adapter>>
        ELSE IF logged # {}
        THEN /\ pc' = "found" /\ cursor' = cursor
             /\ \E k \in logged : (\A j \in logged : j <= k) /\ adapter' = Last(k)
        ELSE IF lo = ask.from
        THEN pc' = "error" /\ UNCHANGED <<cursor, adapter>>
        ELSE cursor' = NextCursor(lo) /\ UNCHANGED <<pc, adapter>>
  /\ UNCHANGED <<chain, ask, head, began>>

Next == Mine \/ Begin \/ Window

Spec == Init /\ [][Next]_vars

-----------------------------------------------------------------------------
InRange == {k \in DOMAIN chain : k >= ask.from /\ k <= head}
Relayed(blocks) == {k \in blocks : chain[k] # << >>}

\* "Picks the most recent match" (lucid.py): the adapter is that of the last
\* event of a block for which no later block of the range, mined before the
\* call, has an event; and the call fails only if the range had none.
AdapterIsLatest ==
  LET known == Relayed({k \in InRange : k <= began}) IN
  /\ pc = "found" =>
       \E k \in Relayed(InRange) :
         /\ \A j \in known : j <= k
         /\ adapter = Last(k)
  /\ pc = "error" /\ ask.chunk >= 1 => known = {}
=============================================================================
