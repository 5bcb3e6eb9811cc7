---------------------------- MODULE PoolIndexer ----------------------------
(***************************************************************************)
(* indexer/indexer.py: the PoolIndexer copies the Sync and Swap logs of    *)
(* the pools it knows into a database, and registers the pools that the    *)
(* factories it knows create.                                              *)
(*                                                                         *)
(* Two asyncio tasks of one process work on it: "poll", the run() loop,    *)
(* and "fill", a call of backfill().  They interleave only where the code  *)
(* awaits; a program counter in Sync stands between two steps of one       *)
(* uninterrupted stretch, where only a crash of the process can fall.      *)
(*                                                                         *)
(* The database is a file that survives a crash; the chain never reorgs.   *)
(* Every pool is taken to have token addresses of its own.                 *)
(***************************************************************************)
EXTENDS Naturals, Sequences, FiniteSetsExt

CONSTANTS
  Factories, Pools,   \* contract addresses
  UserPools,          \* the pools that the user registers
  BlockContents,      \* the logs a block can hold, in order
  MaxBlock,           \* bound: blocks mined
  HeadLag,            \* how far behind a node's answer to block_number can be
  BatchSize,          \* backfill's batch_size
  MaxFills,           \* bound: calls of backfill
  MaxLate,            \* bound: registrations while a task is running
  MaxCrashes,         \* bound: crashes and restarts of the process
  MaxErrors,          \* bound: RPC calls that raise
  MaxWriteErrors      \* bound: commits that the database refuses by itself

Addresses == Factories \union Pools

ASSUME AddressAssumption == Factories \cap Pools = {}
ASSUME UserAssumption == UserPools \subseteq Pools
ASSUME BoundsAssumption ==
  /\ {MaxBlock, HeadLag, MaxFills, MaxLate, MaxCrashes, MaxErrors, MaxWriteErrors} \subseteq Nat
  /\ BatchSize \in Nat \ {0}

\* A factory's log creates one pool, which no other log of the block creates.
ASSUME ContentsAssumption ==
  /\ BlockContents \subseteq Seq([from : Addresses, new : SUBSET Pools])
  /\ \A c \in BlockContents : \A i, j \in DOMAIN c :
       /\ c[i].from \in Factories => \E pool \in Pools : c[i].new = {pool}
       /\ c[i].from \in Pools => c[i].new = {}
       /\ c[i].new \cap c[j].new # {} => i = j

VARIABLES
  chain,   \* the blocks mined so far; a log is a creation if `new` is not empty
  db,      \* tables: pools, factories, rows (copies of each log), ckpt
           \* (0: no row for that address)
  mem,     \* the process's pools, factories and token metadata cache
  task,    \* the program counter and locals of the two tasks
  since,   \* history: the first block that an address's checkpoint accounts for
  faults   \* how many of each bounded event happened

vars == <<chain, db, mem, task, since, faults>>

Events == (1 .. MaxBlock) \X UNION {DOMAIN c : c \in BlockContents}

\* A log is known by its block and its index there, and logs are handled in
\* this order, in which eth_getLogs lists them.
Log(e) == chain[e[1]][e[2]]
Before(d, e) == d[1] < e[1] \/ (d[1] = e[1] /\ d[2] < e[2])

\* The logs mined so far in the blocks a .. b.
LogsIn(a, b) ==
  {e \in Events : /\ a <= e[1] /\ e[1] <= b
                  /\ e[1] <= Len(chain) /\ e[2] \in DOMAIN chain[e[1]]}

Tracked == mem.pools \union mem.factories
Sync == {"loop", "ckpt", "final"}

Resting == [pc |-> "idle"]
Uninterrupted == \A t \in DOMAIN task : task[t].pc \notin Sync
MayRun(t) == \A u \in DOMAIN task \ {t} : task[u].pc \notin Sync

\* A session that is suspended after it flushed an INSERT holds SQLite's
\* write lock.
Unlocked(t) == \A u \in DOMAIN task \ {t} : task[u].pc = "meta" => ~task[u].held

Init ==
  /\ chain = << >>
  /\ db = [pools |-> {}, factories |-> {}, rows |-> [e \in Events |-> 0],
           ckpt |-> [a \in Addresses |-> 0]]
  /\ mem = [pools |-> {}, factories |-> {}, meta |-> {}]
  /\ task = [t \in {"poll", "fill"} |-> Resting]
  /\ since = [a \in Addresses |-> 0]
  /\ faults = [crash |-> 0, rpc |-> 0, write |-> 0, fill |-> 0, late |-> 0]

-----------------------------------------------------------------------------
(* The chain and the user. *)

\* A pool is created once, and emits nothing before it is created.
Created(c) == UNION {c[i].new : i \in DOMAIN c}
CreatedBefore == UNION {Created(chain[b]) : b \in DOMAIN chain}
Creatable == UNION {Created(c) : c \in BlockContents}
Fits(c) ==
  /\ Created(c) \cap CreatedBefore = {}
  /\ \A i \in DOMAIN c : c[i].from \in Creatable =>
       c[i].from \in CreatedBefore \union Created(SubSeq(c, 1, i - 1))

Mine(c) ==
  /\ Len(chain) < MaxBlock
  /\ Fits(c)
  /\ chain' = Append(chain, c)
  /\ UNCHANGED <<db, mem, task, since, faults>>

AllRest == \A t \in DOMAIN task : task[t].pc = "idle"

\* A registration is one stretch of code without an await.
MayRegister ==
  /\ Uninterrupted
  /\ \A t \in DOMAIN task : task[t].pc = "meta" => ~task[t].held
  /\ faults.late < MaxLate \/ AllRest
  /\ faults' = [faults EXCEPT !.late = IF AllRest THEN @ ELSE @ + 1]

\* add_v2_pool and add_v3_pool insert the row.  (They update it if it exists,
\* which changes nothing that is modelled: db.pools is a subset of mem.pools.)
AddPool(p) ==
  /\ MayRegister /\ p \notin db.pools
  /\ db' = [db EXCEPT !.pools = @ \union {p}]
  /\ mem' = [mem EXCEPT !.pools = @ \union {p}]
  /\ UNCHANGED <<chain, task, since>>

AddFactory(f) ==
  /\ MayRegister /\ f \notin db.factories
  /\ db' = [db EXCEPT !.factories = @ \union {f}]
  /\ mem' = [mem EXCEPT !.factories = @ \union {f}]
  /\ UNCHANGED <<chain, task, since>>

\* The process dies and is started again: __init__ reloads the registrations.
Crash ==
  /\ faults.crash < MaxCrashes
  /\ faults' = [faults EXCEPT !.crash = @ + 1]
  /\ mem' = [pools |-> db.pools, factories |-> db.factories, meta |-> {}]
  /\ task' = [t \in DOMAIN task |-> Resting]
  /\ UNCHANGED <<chain, db, since>>

-----------------------------------------------------------------------------
(* The start of a poll and of a backfill. *)

\* The locals of a task that waits for eth_getLogs: this call's range, and
\* the task's own, its first and last block, what was tracked when it began,
\* and the pool it is about, if any; `filter` is the address list, for every
\* address if empty.  Of the answer, `logs`, the loop has still to handle
\* `todo`.
Request(from, end, to, start, known, only, filter) ==
  [pc |-> "logs", from |-> from, end |-> end, to |-> to, start |-> start,
   known |-> known, only |-> only, filter |-> filter, logs |-> {}, todo |-> {},
   want |-> {}, pend |-> {}, added |-> {}, held |-> FALSE]

\* Mutant: the block after the checkpoint is taken to be indexed.
FirstSkipsOne(addrs, head) ==
  Min({head} \union {db.ckpt[a] + 2 : a \in {x \in addrs : db.ckpt[x] > 0}})

\* The earliest un-indexed block: an address without a checkpoint counts
\* from the head.
FirstUnindexed(addrs, head) ==
  Min({head} \union {db.ckpt[a] + 1 : a \in {x \in addrs : db.ckpt[x] > 0}})

\* _poll_once up to the call of get_logs.
PollHead ==
  /\ task["poll"].pc = "idle" /\ MayRun("poll")
  /\ Tracked # {}
  /\ \E head \in 1 .. Len(chain) :
       /\ head + HeadLag >= Len(chain)
       /\ LET from == FirstUnindexed(Tracked, head)
          IN task' = [task EXCEPT !["poll"] =
                        Request(from, head, head, from, Tracked, {}, {})]
  /\ UNCHANGED <<chain, db, mem, since, faults>>

\* One batch of backfill's range.
Batch(from, to, start, known, only) ==
  Request(from, Min({from + BatchSize - 1, to}), to, start, known, only,
          IF only = {} THEN Tracked ELSE only)

\* backfill(from, to), of one registered pool (`only`) or of all addresses.
StartFill(from, to, only) ==
  /\ task["fill"].pc = "idle" /\ Uninterrupted
  /\ faults.fill < MaxFills
  /\ only \subseteq mem.pools
  /\ from <= to /\ to <= Len(chain)
  /\ task' = [task EXCEPT !["fill"] = Batch(from, to, from, Tracked, only)]
  /\ faults' = [faults EXCEPT !.fill = @ + 1]
  /\ UNCHANGED <<chain, db, mem, since>>

-----------------------------------------------------------------------------
(* _process_logs. *)

HasEvents(logs) == \E e \in logs : Log(e).new = {}

\* The pools that registered factories created by some of the logs.
CreatedBy(logs) == UNION {Log(e).new : e \in {d \in logs : Log(d).from \in mem.factories}}

\* Where _process_logs goes when the block timestamps are there: `want` are
\* the new pools whose tokens are not cached and are asked for.
AfterBlocks(locals) ==
  LET uncached == CreatedBy(locals.logs) \ mem.meta
  IN [locals EXCEPT !.want = uncached,
                    !.pc = IF uncached # {} THEN "prefetch" ELSE "loop"]

\* eth_getLogs answers; get_block is awaited only for Sync and Swap logs.
GotLogs(t) ==
  /\ task[t].pc = "logs" /\ MayRun(t)
  /\ LET filter == task[t].filter
         logs == {e \in LogsIn(task[t].from, task[t].end) :
                    filter = {} \/ Log(e).from \in filter}
         locals == [task[t] EXCEPT !.logs = logs, !.todo = logs]
     IN task' = [task EXCEPT ![t] =
                   IF logs = {} THEN [locals EXCEPT !.pc = "ckpt"]
                   ELSE IF HasEvents(logs) THEN [locals EXCEPT !.pc = "blocks"]
                   ELSE AfterBlocks(locals)]
  /\ UNCHANGED <<chain, db, mem, since, faults>>

GotBlocks(t) ==
  /\ task[t].pc = "blocks" /\ MayRun(t)
  /\ task' = [task EXCEPT ![t] = AfterBlocks(@)]
  /\ UNCHANGED <<chain, db, mem, since, faults>>

\* _prefetch_token_meta returns.
Prefetched(t) ==
  /\ task[t].pc = "prefetch" /\ MayRun(t)
  /\ mem' = [mem EXCEPT !.meta = @ \union task[t].want]
  /\ task' = [task EXCEPT ![t].pc = "loop"]
  /\ UNCHANGED <<chain, db, since, faults>>

\* The metadata of one pool's tokens arrives while a session is open.
GotMeta(t) ==
  /\ task[t].pc = "meta" /\ MayRun(t)
  /\ \E e \in task[t].todo :
       /\ \A d \in task[t].todo : ~Before(d, e)
       /\ mem' = [mem EXCEPT !.meta = @ \union Log(e).new]
  /\ task' = [task EXCEPT ![t].pc = "loop"]
  /\ UNCHANGED <<chain, db, since, faults>>

\* The loop over the logs, from where task t is.  The pools it knows when it
\* comes to log e, by the logs before e that it handled on its way:
KnownAt(t, e) ==
  mem.pools \union CreatedBy({d \in task[t].todo : Before(d, e)})

\* A new pool whose tokens are not cached makes it wait.
WaitsFor(t) ==
  {e \in task[t].todo : /\ Log(e).from \in mem.factories
                        /\ ~(Log(e).new \subseteq KnownAt(t, e) \union mem.meta)}
HandledBy(t) ==
  LET waits == WaitsFor(t)
  IN {e \in task[t].todo : \A d \in waits : Before(e, d)}

\* Mutant: a log is inserted whether or not its row is there.
InsertedAgain(e) == TRUE

\* Mutant: rows are told apart by log_index alone.
MissingIndex(e) == \A b \in 1 .. MaxBlock : db.rows[<<b, e[2]>>] = 0

\* _handle_v2_sync and _handle_v3_swap insert what the table does not have.
Missing(e) == db.rows[e] = 0

Ours(t, e) == Log(e).new = {} /\ Log(e).from \in KnownAt(t, e)
PendingOf(t, done) == task[t].pend \union {e \in done : Ours(t, e) /\ Missing(e)}

\* Mutant: a new pool is known to the process only.
KeptInMemory(pools) == {}

\* _handle_pair_created and _handle_pool_created insert the pool.
Inserted(pools) == pools \ db.pools

AddedOf(t, done) == task[t].added \union Inserted(CreatedBy(done) \ mem.pools)

\* Looking for a row makes the session flush what it has to insert.
Looks(t, e) ==
  \/ Ours(t, e)
  \/ Log(e).from \in mem.factories /\ ~(Log(e).new \subseteq KnownAt(t, e))
Inserts(t, e) ==
  \/ Ours(t, e) /\ Missing(e)
  \/ Log(e).from \in mem.factories /\ Inserted(Log(e).new \ KnownAt(t, e)) # {}
Flushes(t, done) ==
  \E e \in done :
    /\ \/ task[t].pend \union task[t].added # {}
       \/ \E d \in done : Before(d, e) /\ Inserts(t, d)
    /\ Looks(t, e)

\* The loop as far as it goes without awaiting.
Walk(t) ==
  LET done == HandledBy(t)
  IN [done |-> done, stuck |-> WaitsFor(t) # {},
      pools |-> mem.pools \union CreatedBy(done),
      pend |-> PendingOf(t, done), added |-> AddedOf(t, done),
      held |-> task[t].held \/ Flushes(t, done)]

Writes(s) == s.pend \union s.added # {}

Suspend(t) ==
  /\ task[t].pc = "loop"
  /\ \E s \in {Walk(t)} :
       /\ s.stuck
       /\ s.held => Unlocked(t)
       /\ task' = [task EXCEPT ![t].pc = "meta", ![t].todo = @ \ s.done,
                               ![t].pend = s.pend, ![t].added = s.added,
                               ![t].held = s.held]
       /\ mem' = [mem EXCEPT !.pools = s.pools]
  /\ UNCHANGED <<chain, db, since, faults>>

\* The loop ends and the batch's transaction is committed.
Commit(t) ==
  /\ task[t].pc = "loop"
  /\ \E s \in {Walk(t)} :
       /\ ~s.stuck
       /\ Writes(s) => Unlocked(t)
       /\ s.added \cap db.pools = {}
       /\ db' = [db EXCEPT !.pools = @ \union s.added,
                           !.rows = [e \in Events |-> IF e \in s.pend THEN @[e] + 1
                                                      ELSE @[e]]]
       /\ mem' = [mem EXCEPT !.pools = s.pools]
       /\ task' = [task EXCEPT ![t].pc = "ckpt", ![t].added = s.added]
  /\ UNCHANGED <<chain, since, faults>>

Rest(t) == task' = [task EXCEPT ![t] = Resting]

\* An exception: run() logs it and polls again, backfill() passes it on.
Fail(t) == Rest(t)

\* The transaction is refused: the database is locked by the other session, a
\* pool was inserted meanwhile, or the disk fails.  What the loop registered
\* until then stays in the process's memory.
CommitFails(t) ==
  /\ task[t].pc = "loop"
  /\ LET s == Walk(t)
         Conflict == s.added \cap db.pools # {}
         Kept(P) == mem' = [mem EXCEPT !.pools = P]
     IN \/ /\ ~Unlocked(t) /\ (IF s.stuck THEN s.held ELSE Writes(s))
           /\ \E P \in SUBSET s.pools : mem.pools \subseteq P /\ Kept(P)
           /\ UNCHANGED faults
        \/ ~s.stuck /\ Conflict /\ Kept(s.pools) /\ UNCHANGED faults
        \/ /\ ~s.stuck /\ Writes(s) /\ ~Conflict
           /\ faults.write < MaxWriteErrors
           /\ faults' = [faults EXCEPT !.write = @ + 1]
           /\ Kept(s.pools)
  /\ Fail(t)
  /\ UNCHANGED <<chain, db, since>>

\* block_number, get_logs or get_block raises.
RpcFails(t) ==
  /\ task[t].pc \in {"logs", "blocks"} /\ MayRun(t)
  /\ faults.rpc < MaxErrors
  /\ faults' = [faults EXCEPT !.rpc = @ + 1]
  /\ Fail(t)
  /\ UNCHANGED <<chain, db, mem, since>>

-----------------------------------------------------------------------------
(* Checkpoints. *)

\* _set_last_indexed_blocks.  An address that gets its first checkpoint is
\* accounted for from the task's first block on if it was registered when
\* the task began or discovered by it, else only after its last.
SetCheckpoints(t, addrs, b) ==
  /\ Unlocked(t)
  /\ db' = [db EXCEPT !.ckpt = [a \in Addresses |-> IF a \in addrs THEN b ELSE @[a]]]
  /\ since' = [a \in Addresses |->
                 IF a \notin addrs \/ since[a] > 0 THEN since[a]
                 ELSE IF a \in task[t].known \union task[t].added THEN task[t].start
                 ELSE b + 1]

\* Mutant: the addresses that emitted a log.
PollSaw == {Log(e).from : e \in task["poll"].logs}

\* Every tracked address, those discovered a moment ago included.
PollCovers == Tracked

\* The end of _poll_once.
PollCheckpoint ==
  /\ task["poll"].pc = "ckpt"
  /\ SetCheckpoints("poll", PollCovers, task["poll"].end)
  /\ Rest("poll")
  /\ UNCHANGED <<chain, mem, faults>>

\* The end of a batch of backfill, and the next request.
FillCheckpoint ==
  LET fill == task["fill"]
      seen == {Log(e).from : e \in fill.logs}
  IN /\ fill.pc = "ckpt"
     /\ SetCheckpoints("fill", seen, fill.end)
     /\ task' = [task EXCEPT !["fill"] =
                   IF fill.end = fill.to THEN [fill EXCEPT !.pc = "final"]
                   ELSE Batch(fill.end + 1, fill.to, fill.start, fill.known, fill.only)]
     /\ UNCHANGED <<chain, mem, faults>>

\* backfill advances the checkpoints of all it covered, and returns.
FinishFill ==
  LET fill == task["fill"]
  IN /\ fill.pc = "final"
     /\ SetCheckpoints("fill", IF fill.only = {} THEN Tracked ELSE fill.only, fill.to)
     /\ Rest("fill")
     /\ UNCHANGED <<chain, mem, faults>>

\* The checkpoints cannot be written while the other session holds the lock.
CheckpointFails(t) ==
  /\ task[t].pc \in {"ckpt", "final"} /\ ~Unlocked(t)
  /\ Fail(t)
  /\ UNCHANGED <<chain, db, mem, since, faults>>

-----------------------------------------------------------------------------
Proceed(t) ==
  \/ GotLogs(t) \/ GotBlocks(t) \/ Prefetched(t) \/ GotMeta(t)
  \/ Suspend(t) \/ Commit(t)

PollStep == PollHead \/ Proceed("poll") \/ PollCheckpoint

Next ==
  \/ \E c \in BlockContents : Mine(c)
  \/ \E p \in UserPools : AddPool(p)
  \/ \E f \in Factories : AddFactory(f)
  \/ PollHead \/ PollCheckpoint
  \/ \E from, to \in 1 .. MaxBlock, only \in {{}} \union {{p} : p \in UserPools} :
       StartFill(from, to, only)
  \/ FillCheckpoint \/ FinishFill
  \/ \E t \in DOMAIN task :
       Proceed(t) \/ CommitFails(t) \/ RpcFails(t) \/ CheckpointFails(t)
  \/ Crash

Spec == Init /\ [][Next]_vars

\* run() polls for ever, and each of its calls is answered.
FairSpec == Spec /\ WF_vars(PollStep)

-----------------------------------------------------------------------------
\* The tables hold registered addresses and mined logs, and a suspended
\* session always has a log left to handle.
TypeOK ==
  /\ db.pools \subseteq mem.pools /\ mem.pools \subseteq Pools
  /\ db.factories = mem.factories
  /\ \A e \in Events : db.rows[e] > 0 => e \in LogsIn(1, MaxBlock)
  /\ \A a \in Addresses : db.ckpt[a] <= Len(chain) /\ (db.ckpt[a] > 0 <=> since[a] > 0)
  /\ \A t \in DOMAIN task : task[t].pc = "meta" =>
       \E e \in task[t].todo : Log(e).from \in mem.factories

\* The logs of pool p in the blocks a .. b.
LogsBy(p, a, b) == {e \in LogsIn(a, b) : Log(e).from = p}
Stored(S) == \A e \in S : db.rows[e] > 0

\* With live polling alone, a pool's checkpoint never passes over one of its
\* logs, whatever crashes, failed calls and registrations fall in between.
NoGap == \A p \in Pools : since[p] > 0 => Stored(LogsBy(p, since[p], db.ckpt[p]))

\* The pools created by f in the blocks that its checkpoint accounts for.
CreatedUnder(f) ==
  UNION {Log(e).new : e \in IF since[f] = 0 THEN {} ELSE LogsBy(f, since[f], db.ckpt[f])}

\* A pool that a registered factory created is registered for good before the
\* factory's checkpoint passes its creation, and none of its logs up to there
\* is missing (class PoolIndexer: "will automatically discover and register
\* new pools as they are created on-chain").
DiscoveryComplete ==
  \A f \in Factories : \A p \in CreatedUnder(f) :
    p \in db.pools /\ Stored(LogsBy(p, 1, db.ckpt[f]))

\* However poll and backfill overlap, fail and are retried, each log has at
\* most one row ("Existing rows are silently skipped"), as long as the user
\* registers nothing while they run: only then a session can be suspended
\* between its look at the table and its commit.
NoDuplicateRows == faults.late = 0 => \A e \in Events : db.rows[e] <= 1

\* When backfill has gone through its range, every log that its registered
\* pools emitted there is stored, whatever polling and the user did meanwhile.
FillAsked ==
  IF task["fill"].only = {} THEN task["fill"].known ELSE task["fill"].only
BackfillComplete ==
  task["fill"].pc = "final" =>
    \A p \in FillAsked \cap Pools :
      Stored(LogsBy(p, task["fill"].start, task["fill"].to))

\* And every pool that its factories created there is registered for good,
\* be it by backfill or by the poll that ran into the same creation, if no
\* transaction was refused.
BackfillDiscovers ==
  task["fill"].pc = "final" /\ faults.late = 0 /\ faults.write = 0 =>
    \A e \in LogsIn(task["fill"].start, task["fill"].to) :
      Log(e).from \in FillAsked => Log(e).new \subseteq db.pools

\* A backfill that says it is done is.
BackfillDone == BackfillComplete /\ BackfillDiscovers

\* Polling catches up with what the node lets it see of the chain, also after
\* crashes and failed calls, and stays there.
CaughtUp == <>[](\A a \in Tracked : db.ckpt[a] + HeadLag >= Len(chain))
=============================================================================
