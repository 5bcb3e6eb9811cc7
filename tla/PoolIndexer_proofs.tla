------------------------- MODULE PoolIndexer_proofs -------------------------
(***************************************************************************)
(* PoolIndexer, proved for any number of blocks, pools, factories, calls   *)
(* of backfill, registrations, crashes and errors.                         *)
(*                                                                         *)
(* The inductive invariant says what a task knows at each program counter  *)
(* (Sound), which stays true while the chain grows and the other task      *)
(* writes; what more holds while the user registers nothing in between     *)
(* (Settled), and while only the poll writes (Polling).                    *)
(***************************************************************************)
EXTENDS PoolIndexer, Sums_proofs, TLAPS

Tasks == {"poll", "fill"}
PCs == {"logs", "blocks", "prefetch", "loop", "meta", "ckpt", "final"}
Locals ==
  [pc : PCs, from : Nat, end : Nat, to : Nat, start : Nat,
   known : SUBSET Addresses, only : SUBSET Pools, filter : SUBSET Addresses,
   logs : SUBSET Events, todo : SUBSET Events, want : SUBSET Pools,
   pend : SUBSET Events, added : SUBSET Pools, held : BOOLEAN]

\* The types of the variables (the locals are typed where they are Sound).
Typed ==
  /\ chain \in Seq(BlockContents) /\ Len(chain) <= MaxBlock
  /\ db \in [pools : SUBSET Pools, factories : SUBSET Factories,
             rows : [Events -> Nat], ckpt : [Addresses -> Nat]]
  /\ mem \in [pools : SUBSET Pools, factories : SUBSET Factories, meta : SUBSET Pools]
  /\ DOMAIN task = Tasks
  /\ since \in [Addresses -> Nat]
  /\ faults \in [crash : Nat, rpc : Nat, write : Nat, fill : Nat, late : Nat]

Mined == LogsIn(1, Len(chain))

\* A pool emits after it was created, and is created by one log.
Chained ==
  /\ \A e \in Mined : Log(e).from \in Creatable =>
       \E c \in Mined : Log(e).from \in Log(c).new /\ Before(c, e)
  /\ \A c, d \in Mined : Log(c).new \cap Log(d).new # {} => c = d

\* The addresses that a task must account for, and the answer to its request.
Asked(l) == IF l.only = {} THEN l.known ELSE l.only
Answer(l) == {e \in LogsIn(l.from, l.end) : l.filter = {} \/ Log(e).from \in l.filter}

\* Log e is in the tables, or will be when the session of l commits.
Kept(e) == (Log(e).new = {} => db.rows[e] > 0) /\ Log(e).new \subseteq mem.pools
Seen(l, e) == (Log(e).new = {} => e \in l.pend \/ db.rows[e] > 0) /\ Log(e).new \subseteq mem.pools

\* What a running task knows: its range, the order in which it handles the
\* answer, and that of all it has gone through nothing is lost.
Sound(l) ==
  /\ l \in Locals
  /\ 1 <= l.start /\ l.start <= l.from /\ l.from <= l.end /\ l.end <= l.to /\ l.to <= Len(chain)
  /\ l.known \subseteq Tracked /\ l.only \subseteq mem.pools /\ l.added \subseteq mem.pools
  /\ l.filter # {} => Asked(l) \subseteq l.filter
  /\ l.pc \in {"logs", "blocks", "prefetch"} => l.pend = {} /\ l.added = {}
  /\ l.pc \in {"blocks", "prefetch"} => l.todo = l.logs
  /\ l.pc # "logs" => l.logs = Answer(l)
  /\ l.pend \subseteq l.logs
  /\ l.todo \subseteq l.logs /\ \A d \in l.logs \ l.todo, e \in l.todo : Before(d, e)
  /\ \A e \in LogsIn(l.start, l.from - 1) : Log(e).from \in Asked(l) => Kept(e)
  /\ l.pc \in {"loop", "meta"} =>
       \A e \in l.logs \ l.todo : Log(e).from \in Asked(l) \union l.added => Seen(l, e)
  /\ l.pc \in {"ckpt", "final"} =>
       \A e \in l.logs : Log(e).from \in Asked(l) \union l.added => Kept(e)
  /\ l.pc = "final" => l.end = l.to

\* A loop that starts with all the metadata it needs never waits.
Steady(l) ==
  /\ l.pc # "meta"
  /\ l.pc = "prefetch" => CreatedBy(l.logs) \subseteq mem.meta \union l.want
  /\ l.pc = "loop" => CreatedBy(l.logs) \subseteq mem.meta /\ l.pend = {} /\ l.added = {}

\* So it is as long as no registration falls between two steps of a task.
Settled ==
  faults.late = 0 =>
    /\ \A e \in Events : db.rows[e] <= 1
    /\ faults.write = 0 => mem.pools \subseteq db.pools
    /\ \A t \in Tasks : Steady(task[t])

\* No backfill was called, the database refused nothing by itself, and the
\* user registers none of the pools that a factory creates.
PollsAlone == faults.fill = 0 /\ faults.write = 0 /\ UserPools \cap Creatable = {}

\* Then a poll asks for every address, from a block that is not behind any
\* checkpoint's next one, and what is known beyond what it knew when it began
\* it has discovered itself, or the user has registered.
Alone(l) ==
  /\ l.only = {} /\ l.filter = {} /\ l.start = l.from /\ l.end = l.to
  /\ l.added \subseteq Creatable
  /\ l.pc \in {"loop", "meta"} => l.added \cap db.pools = {}
  /\ mem.pools \subseteq l.known \union l.added \union UserPools
  /\ \A a \in Addresses : since[a] > 0 => a \in l.known /\ l.from <= db.ckpt[a] + 1

\* The pools that are known to the process and not yet in the table.
Uncommitted(l) == IF l.pc \in {"loop", "meta"} THEN l.added ELSE {}

Polling ==
  PollsAlone =>
    /\ task["fill"].pc = "idle"
    /\ \A a \in Addresses : since[a] > 0 => a \in db.pools \union db.factories
    /\ mem.pools \subseteq db.pools \union Uncommitted(task["poll"])
    /\ task["poll"].pc # "idle" => Alone(task["poll"])
    /\ NoGap /\ DiscoveryComplete

\* The inductive invariant.
IInv ==
  /\ Typed /\ Chained
  /\ TypeOK
  /\ \A t \in Tasks : task[t] = Resting \/ Sound(task[t])
  /\ Settled /\ Polling

-----------------------------------------------------------------------------
(* Minima, the chain and its logs. *)

\* A non-empty set of naturals has the minimum that Min chooses.
LEMMA LeastNat ==
  ASSUME NEW S \in SUBSET Nat, S # {}
  PROVE  Min(S) \in S /\ \A x \in S : Min(S) <= x
<1>1. PICK m \in S : m \in Nat
  OBVIOUS
<1> DEFINE D == 0 .. m
           X == {0 .. x : x \in {y \in S : y <= m}}
<1>2. X \subseteq SUBSET D /\ X # {}
  BY <1>1
<1>3. IsFiniteSet(D)
  BY <1>1, FS_Interval
<1>4. PICK T \in X : \A U \in X : U \subseteq T => U = T
  <2> HIDE DEF D, X
  <2> QED
    BY <1>2, <1>3, MinimalSubset
<1>5. PICK x \in S : T = 0 .. x /\ x <= m
  BY <1>4
<1>6. ASSUME NEW y \in S, y < x PROVE FALSE
  <2>1. x \in Nat /\ y \in Nat /\ y <= m
    BY <1>1, <1>5, <1>6
  <2>2. 0 .. y \in X /\ 0 .. y \subseteq 0 .. x
    BY <1>6, <2>1
  <2>3. x \in 0 .. x /\ x \notin 0 .. y
    BY <1>6, <2>1
  <2> QED
    BY <1>4, <1>5, <2>2, <2>3
<1>7. \A y \in S : x <= y
  BY <1>6
<1> QED
  BY <1>7 DEF Min

\* What is known of a mined log.
LEMMA LogAt ==
  ASSUME Typed, NEW a \in Nat, NEW b \in Nat, NEW e \in LogsIn(a, b), a > 0
  PROVE  /\ e \in Events /\ e \in Mined
         /\ e[1] \in 1 .. Len(chain) /\ e[2] \in Nat
         /\ chain[e[1]] \in BlockContents /\ e[2] \in DOMAIN chain[e[1]]
         /\ Log(e).from \in Addresses /\ Log(e).new \in SUBSET Pools
         /\ Log(e).from \in Pools => Log(e).new = {}
         /\ Log(e).from \in Factories => Log(e).new # {}
<1>1. /\ e \in Events /\ a <= e[1] /\ e[1] <= b /\ e[1] <= Len(chain) /\ e[2] \in DOMAIN chain[e[1]]
  BY DEF LogsIn
<1>2. Len(chain) \in Nat /\ e[1] \in Nat
  BY <1>1, BoundsAssumption DEF Typed, Events
<1>3. e[1] \in 1 .. Len(chain)
  BY <1>1, <1>2
<1>4. chain[e[1]] \in BlockContents
  BY <1>3 DEF Typed
<1> DEFINE c == chain[e[1]]
<1> HIDE DEF c
<1>5. c \in BlockContents /\ e[2] \in DOMAIN c /\ Log(e) = c[e[2]]
  BY <1>1, <1>4 DEF c, Log
<1>7. e[2] \in Nat /\ c[e[2]] \in [from : Addresses, new : SUBSET Pools]
  <2> DEFINE R == [from : Addresses, new : SUBSET Pools]
  <2>1. c \in Seq(R)
    BY <1>5, ContentsAssumption
  <2> HIDE DEF R
  <2>2. DOMAIN c = 1 .. Len(c) /\ Len(c) \in Nat /\ \A i \in 1 .. Len(c) : c[i] \in R
    BY <2>1
  <2>3. e[2] \in Nat /\ c[e[2]] \in R
    BY <1>5, <2>2
  <2> QED
    BY <2>3 DEF R
<1>9. /\ Log(e).from \in Pools => Log(e).new = {}
      /\ Log(e).from \in Factories => Log(e).new # {}
  BY <1>5, ContentsAssumption
<1>8. e \in Mined
  BY <1>1, <1>3 DEF Mined, LogsIn
<1> QED
  BY <1>1, <1>3, <1>4, <1>5, <1>7, <1>8, <1>9

\* A log is in a range of blocks if its block is.
LEMMA MinedIn ==
  ASSUME NEW a \in Nat, NEW b \in Nat, NEW e \in LogsIn(a, b), Typed
  PROVE  \A c \in Nat, d \in Nat : c <= e[1] /\ e[1] <= d <=> e \in LogsIn(c, d)
BY DEF LogsIn

\* Before orders the mined logs totally.
LEMMA BeforeOrder ==
  ASSUME NEW d \in Mined, NEW e \in Mined, NEW f \in Mined, Typed
  PROVE  /\ ~Before(e, e)
         /\ Before(d, e) \/ Before(e, d) \/ d = e
         /\ Before(d, e) => ~Before(e, d)
         /\ Before(d, e) /\ Before(e, f) => Before(d, f)
         /\ Before(d, e) => d[1] <= e[1]
<1>1. /\ d[1] \in Nat /\ d[2] \in Nat /\ e[1] \in Nat /\ e[2] \in Nat /\ f[1] \in Nat /\ f[2] \in Nat
  <2>1. Len(chain) \in Nat /\ 1 \in Nat /\ 1 > 0
    BY DEF Typed
  <2>2. ASSUME NEW x \in Mined PROVE x[1] \in Nat /\ x[2] \in Nat
    <3>1. x[1] \in 1 .. Len(chain) /\ x[2] \in Nat
      BY <2>1, LogAt DEF Mined
    <3> QED
      BY <2>1, <3>1
  <2> QED
    BY <2>2
<1>2. d = <<d[1], d[2]>> /\ e = <<e[1], e[2]>>
  BY DEF Mined, LogsIn, Events
<1> QED
  BY <1>1, <1>2 DEF Before

-----------------------------------------------------------------------------
(* What every step but a crash leaves in place. *)

ChainGrows ==
  /\ Len(chain) <= Len(chain')
  /\ \A a \in Nat, b \in Nat : b <= Len(chain) => LogsIn(a, b)' = LogsIn(a, b)
  /\ \A e \in Mined : Log(e)' = Log(e)

Grows ==
  /\ ChainGrows
  /\ mem.pools \subseteq mem'.pools /\ mem.factories \subseteq mem'.factories
  /\ db.pools \subseteq db'.pools
  /\ \A e \in Events : db.rows[e] > 0 => db'.rows[e] > 0

\* Whoever mines nothing leaves the logs as they are, and so does a new
\* block for those below it.
LEMMA SameChain ==
  ASSUME Typed, UNCHANGED chain
  PROVE  ChainGrows
BY DEF ChainGrows, LogsIn, Log, Typed

LEMMA MineGrows ==
  ASSUME Typed, NEW c \in BlockContents, Mine(c)
  PROVE  ChainGrows
<1>1. /\ chain \in Seq(BlockContents) /\ chain' = Append(chain, c) /\ Len(chain) \in Nat
  BY DEF Typed, Mine
<1>2. Len(chain') = Len(chain) + 1 /\ \A i \in 1 .. Len(chain) : chain'[i] = chain[i]
  BY <1>1
<1>3. ASSUME NEW a \in Nat, NEW b \in Nat, b <= Len(chain)
      PROVE  LogsIn(a, b)' = LogsIn(a, b)
  <2>1. \A e \in Events : e[1] \in Nat \ {0}
    BY BoundsAssumption DEF Events
  <2>2. ASSUME NEW e \in Events, e[1] <= b
        PROVE  e[1] \in 1 .. Len(chain) /\ chain'[e[1]] = chain[e[1]] /\ e[1] <= Len(chain')
    BY <1>1, <1>2, <1>3, <2>1, <2>2
  <2> QED
    BY <2>2, <1>1 DEF LogsIn
<1>4. ASSUME NEW e \in Mined PROVE Log(e)' = Log(e)
  <2>1. e[1] \in 1 .. Len(chain)
    BY LogAt, <1>1 DEF Mined
  <2> QED
    BY <1>2, <2>1 DEF Log
<1> QED
  BY <1>1, <1>2, <1>3, <1>4 DEF ChainGrows

\* What a task knows of its locals and of the logs it asked for.
LEMMA SoundFields ==
  ASSUME NEW l, Sound(l)
  PROVE  /\ l.pc \in PCs /\ l.pc # "idle"
         /\ l.from \in Nat /\ l.end \in Nat /\ l.to \in Nat /\ l.start \in Nat
         /\ l.known \in SUBSET Addresses /\ l.only \in SUBSET Pools /\ l.filter \in SUBSET Addresses
         /\ l.logs \in SUBSET Events /\ l.todo \in SUBSET Events /\ l.want \in SUBSET Pools
         /\ l.pend \in SUBSET Events /\ l.added \in SUBSET Pools /\ l.held \in BOOLEAN
BY DEF Sound, Locals, PCs

LEMMA TypedFields ==
  ASSUME Typed
  PROVE  /\ Len(chain) \in Nat
         /\ db.pools \in SUBSET Pools /\ db.factories \in SUBSET Factories
         /\ db.rows \in [Events -> Nat] /\ db.ckpt \in [Addresses -> Nat]
         /\ mem.pools \in SUBSET Pools /\ mem.factories \in SUBSET Factories
         /\ mem.meta \in SUBSET Pools
BY DEF Typed

LEMMA LogsMined ==
  ASSUME Typed, NEW l, Sound(l), l.pc # "logs"
  PROVE  /\ l.logs \subseteq LogsIn(l.from, l.end) /\ l.logs \subseteq Mined
         /\ \A e \in l.logs :
              /\ e \in Events
              /\ Log(e).from \in Addresses /\ Log(e).new \in SUBSET Pools
              /\ Log(e).from \in Pools => Log(e).new = {}
              /\ Log(e).from \in Factories => Log(e).new # {}
<1>1. l.logs \subseteq LogsIn(l.from, l.end)
  BY DEF Sound, Answer
<1>2. l.from \in Nat /\ l.end \in Nat /\ l.from > 0
  BY SoundFields DEF Sound
<1> QED
  BY <1>1, <1>2, LogAt

\* A pool that a mined log created can be created, and emits only later.
LEMMA Birth ==
  ASSUME Typed, Chained, NEW c \in Mined, NEW e \in Mined, Log(e).from \in Log(c).new
  PROVE  Before(c, e)
<1>1. chain[c[1]] \in BlockContents /\ c[2] \in DOMAIN chain[c[1]]
  <2>1. Len(chain) \in Nat /\ 1 \in Nat /\ 1 > 0
    BY TypedFields
  <2> QED
    BY <2>1, LogAt DEF Mined
<1>2. Log(e).from \in Creatable
  BY <1>1 DEF Creatable, Created, Log
<1> QED
  BY <1>2 DEF Chained

\* What the loop over the logs does until it awaits or ends.
LEMMA WalkIs ==
  ASSUME Typed, NEW t \in Tasks, NEW l, l = task[t], Sound(l), l.pc = "loop",
         NEW s, s = Walk(t)
  PROVE  /\ s.done = HandledBy(t) /\ s.done \subseteq l.todo
         /\ s.stuck <=> WaitsFor(t) # {}
         /\ ~s.stuck => s.done = l.todo
         /\ s.pools = mem.pools \union CreatedBy(s.done)
         /\ s.pools \in SUBSET Pools /\ mem.pools \subseteq s.pools
         /\ s.pend = l.pend \union {e \in s.done : Ours(t, e) /\ db.rows[e] = 0}
         /\ s.pend \in SUBSET Events /\ l.pend \subseteq s.pend
         /\ s.added = l.added \union ((CreatedBy(s.done) \ mem.pools) \ db.pools)
         /\ s.added \in SUBSET Pools /\ s.added \subseteq s.pools
         /\ s.held \in BOOLEAN
<1>1. /\ s.done = HandledBy(t) /\ s.stuck = (WaitsFor(t) # {})
      /\ s.pools = mem.pools \union CreatedBy(HandledBy(t))
      /\ s.pend = PendingOf(t, HandledBy(t)) /\ s.added = AddedOf(t, HandledBy(t))
      /\ s.held = (l.held \/ Flushes(t, HandledBy(t)))
  BY DEF Walk
<1>2. s.done \subseteq l.todo /\ (WaitsFor(t) = {} => s.done = l.todo)
  BY <1>1 DEF HandledBy
<1>3. CreatedBy(s.done) \in SUBSET Pools
  <2>1. \A e \in s.done : Log(e).new \in SUBSET Pools
    BY <1>2, LogsMined DEF Sound
  <2> QED
    BY <2>1 DEF CreatedBy
<1>4. /\ s.pend = l.pend \union {e \in s.done : Ours(t, e) /\ db.rows[e] = 0}
      /\ s.added = l.added \union ((CreatedBy(s.done) \ mem.pools) \ db.pools)
  BY <1>1 DEF PendingOf, AddedOf, Inserted, Missing
<1>5. s.pend \in SUBSET Events /\ l.pend \subseteq s.pend
  BY <1>2, <1>4, SoundFields
<1>6. /\ s.pools \in SUBSET Pools /\ mem.pools \subseteq s.pools
      /\ s.added \in SUBSET Pools /\ s.added \subseteq s.pools
  <2>1. l.added \subseteq mem.pools
    BY DEF Sound
  <2> QED
    BY <1>1, <1>3, <1>4, <2>1, TypedFields
<1>7. s.held \in BOOLEAN
  BY <1>1, SoundFields
<1> QED
  BY <1>1, <1>2, <1>4, <1>5, <1>6, <1>7

\* Every log that the loop has gone past was seen to, if its address was asked
\* for or the address is a pool that the loop itself inserted.
LEMMA WalkSees ==
  ASSUME Typed, Chained, NEW t \in Tasks, NEW l, l = task[t], Sound(l), l.pc = "loop",
         NEW s, s = Walk(t),
         NEW e \in (l.logs \ l.todo) \union s.done,
         Log(e).from \in Asked(l) \union s.added
  PROVE  /\ Log(e).new = {} => e \in s.pend \/ db.rows[e] > 0
         /\ Log(e).new \subseteq s.pools
<1>1. /\ s.done \subseteq l.todo /\ l.todo \subseteq l.logs
      /\ s.pools = mem.pools \union CreatedBy(s.done)
      /\ s.pend = l.pend \union {d \in s.done : Ours(t, d) /\ db.rows[d] = 0}
      /\ s.added = l.added \union ((CreatedBy(s.done) \ mem.pools) \ db.pools)
  BY WalkIs DEF Sound
<1>2. /\ l.logs \subseteq Mined /\ e \in Events
      /\ Log(e).from \in Addresses
      /\ Log(e).from \in Pools => Log(e).new = {}
      /\ Log(e).from \in Factories => Log(e).new # {}
  BY <1>1, LogsMined
<1>3. ASSUME Log(e).from \in s.added \ l.added
      PROVE  \E c \in s.done : /\ Log(c).from \in mem.factories
                               /\ Log(e).from \in Log(c).new /\ Before(c, e)
  <2>1. PICK c \in s.done : Log(c).from \in mem.factories /\ Log(e).from \in Log(c).new
    BY <1>1, <1>3 DEF CreatedBy
  <2>2. c \in Mined /\ e \in Mined
    BY <1>1, <1>2
  <2> QED
    BY <2>1, <2>2, Birth
<1>4. CASE e \in l.logs \ l.todo
  <2>1. Log(e).from \notin s.added \ l.added
    <3> SUFFICES ASSUME Log(e).from \in s.added \ l.added PROVE FALSE
      OBVIOUS
    <3>1. PICK c \in s.done : Before(c, e)
      BY <1>3
    <3>2. Before(e, c) /\ c \in Mined /\ e \in Mined
      BY <1>1, <1>2, <1>4 DEF Sound
    <3> QED
      BY <3>1, <3>2, BeforeOrder
  <2>2. Seen(l, e)
    BY <1>4, <2>1 DEF Sound
  <2> QED
    BY <1>1, <2>2 DEF Seen
<1>5. CASE e \in s.done
  <2>1. CASE Log(e).new = {}
    <3>1. Log(e).from \in Pools
      BY <1>2, <2>1 DEF Addresses
    <3>2. Log(e).from \in KnownAt(t, e)
      <4>1. CASE Log(e).from \in Asked(l)
        <5>1. Log(e).from \in Tracked \/ Log(e).from \in mem.pools
          BY <4>1 DEF Sound, Asked
        <5>2. Log(e).from \notin mem.factories
          BY <3>1, TypedFields, AddressAssumption
        <5> QED
          BY <5>1, <5>2 DEF Tracked, KnownAt
      <4>2. CASE Log(e).from \in l.added
        BY <4>2 DEF Sound, KnownAt
      <4>3. CASE Log(e).from \in s.added \ l.added
        <5>1. PICK c \in s.done : /\ Log(c).from \in mem.factories
                                  /\ Log(e).from \in Log(c).new /\ Before(c, e)
          BY <1>3, <4>3
        <5>2. c \in task[t].todo
          BY <1>1
        <5> QED
          BY <5>1, <5>2 DEF KnownAt, CreatedBy
      <4> QED
        BY <4>1, <4>2, <4>3
    <3>3. Ours(t, e)
      BY <2>1, <3>2 DEF Ours
    <3>4. db.rows[e] \in Nat
      BY <1>2, TypedFields
    <3> QED
      BY <1>1, <1>5, <2>1, <3>3, <3>4
  <2>2. CASE Log(e).new # {}
    <3>1. Log(e).from \in Factories
      BY <1>2, <2>2 DEF Addresses
    <3>2. Log(e).from \notin s.added /\ Log(e).from \notin l.only /\ Log(e).from \notin mem.pools
      <4>1. s.added \in SUBSET Pools /\ l.only \in SUBSET Pools /\ mem.pools \in SUBSET Pools
        BY WalkIs, SoundFields, TypedFields
      <4> QED
        BY <3>1, <4>1, AddressAssumption
    <3>3. Log(e).from \in mem.factories
      BY <3>2 DEF Sound, Asked, Tracked
    <3> QED
      BY <1>1, <1>5, <2>2, <3>3 DEF CreatedBy
  <2> QED
    BY <2>1, <2>2
<1> QED
  BY <1>4, <1>5

-----------------------------------------------------------------------------
(* What a task knows stays true while others take their steps. *)

TasksSound == \A t \in Tasks : task[t] = Resting \/ Sound(task[t])

\* Everything but a crash only adds to the chain, to what is registered and
\* to the rows.
LEMMA RunningIsSound ==
  ASSUME TasksSound, NEW t \in Tasks, task[t].pc # "idle"
  PROVE  Sound(task[t])
BY DEF TasksSound, Resting

LEMMA NextGrows ==
  ASSUME Typed, TasksSound, [Next]_vars, ~Crash
  PROVE  Grows
<1> USE DEF Grows
<1>1. CASE UNCHANGED vars
  BY <1>1, SameChain DEF vars
<1>2. CASE \E c \in BlockContents : Mine(c)
  BY <1>2, MineGrows DEF Mine
<1>3. CASE \E p \in UserPools : AddPool(p)
  <2>1. PICK p \in UserPools : AddPool(p)
    BY <1>3
  <2>2. mem'.pools = mem.pools \union {p} /\ mem'.factories = mem.factories
    BY <2>1 DEF AddPool, Typed
  <2>3. db'.pools = db.pools \union {p} /\ db'.rows = db.rows
    BY <2>1 DEF AddPool, Typed
  <2> QED
    BY <2>1, <2>2, <2>3, SameChain DEF AddPool
<1>4. CASE \E f \in Factories : AddFactory(f)
  <2>1. PICK f \in Factories : AddFactory(f)
    BY <1>4
  <2>2. mem'.pools = mem.pools /\ mem'.factories = mem.factories \union {f}
    BY <2>1 DEF AddFactory, Typed
  <2>3. db'.pools = db.pools /\ db'.rows = db.rows
    BY <2>1 DEF AddFactory, Typed
  <2> QED
    BY <2>1, <2>2, <2>3, SameChain DEF AddFactory
<1>5. CASE PollHead
  BY <1>5, SameChain DEF PollHead
<1>6. CASE PollCheckpoint \/ FillCheckpoint \/ FinishFill
  <2>1. db'.pools = db.pools /\ db'.rows = db.rows /\ UNCHANGED <<chain, mem>>
    BY <1>6 DEF PollCheckpoint, FillCheckpoint, FinishFill, SetCheckpoints, Typed
  <2> QED
    BY <2>1, SameChain
<1>7. CASE \E from, to \in 1 .. MaxBlock, only \in {{}} \union {{p} : p \in UserPools} :
             StartFill(from, to, only)
  BY <1>7, SameChain DEF StartFill
<1>8. ASSUME NEW t \in Tasks,
             \/ GotLogs(t) \/ GotBlocks(t) \/ Prefetched(t) \/ GotMeta(t)
             \/ RpcFails(t) \/ CheckpointFails(t)
      PROVE  Grows
  <2>1. UNCHANGED <<chain, db>>
    BY <1>8 DEF GotLogs, GotBlocks, Prefetched, GotMeta, RpcFails, CheckpointFails
  <2>2. mem'.pools = mem.pools /\ mem'.factories = mem.factories
    BY <1>8 DEF GotLogs, GotBlocks, Prefetched, GotMeta, RpcFails, CheckpointFails, Typed
  <2> QED
    BY <2>1, <2>2, SameChain
<1>9. ASSUME NEW t \in Tasks, Suspend(t) \/ Commit(t) \/ CommitFails(t)
      PROVE  Grows
  <2>1. task[t].pc = "loop" /\ UNCHANGED chain
    BY <1>9 DEF Suspend, Commit, CommitFails
  <2>2. PICK s : s = Walk(t)
    OBVIOUS
  <2>3. mem.pools \subseteq s.pools /\ s.pend \in SUBSET Events
    BY <2>1, <2>2, RunningIsSound, WalkIs
  <2>4. mem.pools \subseteq mem'.pools /\ mem'.factories = mem.factories
    <3>1. CASE Suspend(t)
      BY <2>2, <2>3, <3>1 DEF Suspend, Typed
    <3>2. CASE Commit(t)
      BY <2>2, <2>3, <3>2 DEF Commit, Typed
    <3>3. CASE CommitFails(t)
      BY <2>2, <2>3, <3>3 DEF CommitFails, Typed
    <3> QED
      BY <1>9, <3>1, <3>2, <3>3
  <2>5. db.pools \subseteq db'.pools /\ \A e \in Events : db.rows[e] > 0 => db'.rows[e] > 0
    <3>1. CASE UNCHANGED db
      BY <3>1
    <3>2. CASE Commit(t)
      <4>1. /\ db'.pools = db.pools \union s.added
            /\ db'.rows = [e \in Events |-> IF e \in s.pend THEN db.rows[e] + 1 ELSE db.rows[e]]
        BY <2>2, <3>2 DEF Commit, Typed
      <4>2. \A e \in Events : db.rows[e] \in Nat
        BY TypedFields
      <4> QED
        BY <4>1, <4>2
    <3> QED
      BY <1>9, <3>1, <3>2 DEF Suspend, CommitFails
  <2> QED
    BY <2>1, <2>4, <2>5, SameChain
<1> QED
  BY <1>1, <1>2, <1>3, <1>4, <1>5, <1>6, <1>7, <1>8, <1>9 DEF Next, Proceed, Typed

\* What is sound stays so while things are only added.
LEMMA SoundStays ==
  ASSUME Typed, Grows, NEW l, Sound(l)
  PROVE  Sound(l)'
<1>1. /\ l \in Locals
      /\ 1 <= l.start /\ l.start <= l.from /\ l.from <= l.end /\ l.end <= l.to
      /\ l.to <= Len(chain)
  BY DEF Sound
<1>2. /\ l.from \in Nat /\ l.end \in Nat /\ l.to \in Nat /\ l.start \in Nat
      /\ l.from - 1 \in Nat /\ Len(chain) \in Nat /\ Len(chain') \in Nat
  BY <1>1, SoundFields, TypedFields DEF Grows, ChainGrows
<1>3. /\ l.end <= Len(chain) /\ l.from - 1 <= Len(chain) /\ l.to <= Len(chain')
  BY <1>1, <1>2 DEF Grows, ChainGrows
<1>4. LogsIn(l.from, l.end)' = LogsIn(l.from, l.end)
  BY <1>2, <1>3 DEF Grows, ChainGrows
<1>5. LogsIn(l.start, l.from - 1)' = LogsIn(l.start, l.from - 1)
  BY <1>2, <1>3 DEF Grows, ChainGrows
<1>6. /\ LogsIn(l.from, l.end) \subseteq Mined
      /\ LogsIn(l.start, l.from - 1) \subseteq Mined
  BY <1>1, <1>2, LogAt
<1>7. \A e \in Mined : e \in Events /\ Log(e)' = Log(e)
  BY DEF Grows, ChainGrows, Mined, LogsIn
<1>8. Answer(l)' = Answer(l)
  BY <1>4, <1>6, <1>7 DEF Answer
<1>9. \A e \in Mined : (Kept(e) => Kept(e)') /\ (Seen(l, e) => Seen(l, e)')
  BY <1>7 DEF Kept, Seen, Grows
<1>10. l.known \subseteq Tracked' /\ l.only \subseteq mem'.pools /\ l.added \subseteq mem'.pools
  BY DEF Sound, Grows, Tracked
<1>11. l.pc # "logs" => l.logs = Answer(l)' /\ l.logs \subseteq Mined
  BY <1>6, <1>8 DEF Sound, Answer
<1>12. \A d \in l.logs \ l.todo, e \in l.todo : Before(d, e)'
  BY DEF Before, Sound
<1>13. \A e \in LogsIn(l.start, l.from - 1)' : Log(e)'.from \in Asked(l) => Kept(e)'
  BY <1>5, <1>6, <1>7, <1>9 DEF Sound
<1>14. l.pc \in {"loop", "meta"} =>
         \A e \in l.logs \ l.todo : Log(e)'.from \in Asked(l) \union l.added => Seen(l, e)'
  BY <1>7, <1>9, <1>11 DEF Sound
<1>15. l.pc \in {"ckpt", "final"} =>
         \A e \in l.logs : Log(e)'.from \in Asked(l) \union l.added => Kept(e)'
  BY <1>7, <1>9, <1>11 DEF Sound
<1>16. Asked(l)' = Asked(l)
  BY DEF Asked
<1>17. /\ l.filter # {} => Asked(l) \subseteq l.filter
       /\ l.pc \in {"logs", "blocks", "prefetch"} => l.pend = {} /\ l.added = {}
       /\ l.pc \in {"blocks", "prefetch"} => l.todo = l.logs
       /\ l.todo \subseteq l.logs /\ (l.pc = "final" => l.end = l.to)
  BY DEF Sound
<1> QED
  BY <1>1, <1>3, <1>10, <1>11, <1>12, <1>13, <1>14, <1>15, <1>16, <1>17 DEF Sound

-----------------------------------------------------------------------------
(* Each step of a task leaves it with sound locals. *)

\* A request that starts where nothing is lost before it is sound.
LEMMA RequestSound ==
  ASSUME Typed, NEW from \in Nat, NEW end \in Nat, NEW to \in Nat, NEW start \in Nat,
         NEW known \in SUBSET Tracked, NEW only \in SUBSET mem.pools,
         NEW filter \in SUBSET Addresses,
         1 <= start, start <= from, from <= end, end <= to, to <= Len(chain),
         NEW k, k = Request(from, end, to, start, known, only, filter),
         filter # {} => Asked(k) \subseteq filter,
         \A e \in LogsIn(start, from - 1) : Log(e).from \in Asked(k) => Kept(e)
  PROVE  Sound(k)
<1>1. /\ k.pc = "logs" /\ k.from = from /\ k.end = end /\ k.to = to /\ k.start = start
      /\ k.known = known /\ k.only = only /\ k.filter = filter
      /\ k.logs = {} /\ k.todo = {} /\ k.want = {} /\ k.pend = {} /\ k.added = {}
      /\ k.held = FALSE
  BY DEF Request
<1>2. k \in Locals
  <2>1. known \in SUBSET Addresses /\ only \in SUBSET Pools
    BY TypedFields DEF Tracked, Addresses
  <2>2. "logs" \in PCs
    BY DEF PCs
  <2> QED
    BY <2>1, <2>2 DEF Request, Locals
<1> QED
  BY <1>1, <1>2 DEF Sound

LEMMA TrackedIn ==
  ASSUME Typed
  PROVE  Tracked \in SUBSET Addresses /\ mem.pools \subseteq Tracked
BY TypedFields DEF Tracked, Addresses

\* A poll starts no later than the block after any checkpoint, and covers the
\* head that it was told.
LEMMA PollHeadAsks ==
  ASSUME Typed, PollHead
  PROVE  \E from \in Nat, head \in Nat :
           /\ 1 <= from /\ from <= head /\ head <= Len(chain)
           /\ \A a \in Tracked : db.ckpt[a] > 0 => from <= db.ckpt[a] + 1
           /\ task' = [task EXCEPT !["poll"] = Request(from, head, head, from, Tracked, {}, {})]
<1>1. PICK head \in 1 .. Len(chain) :
        LET from == FirstUnindexed(Tracked, head)
        IN task' = [task EXCEPT !["poll"] = Request(from, head, head, from, Tracked, {}, {})]
  BY DEF PollHead
<1> DEFINE from == FirstUnindexed(Tracked, head)
           S == {head} \union {db.ckpt[a] + 1 : a \in {x \in Tracked : db.ckpt[x] > 0}}
<1>2. head \in Nat /\ 1 <= head /\ head <= Len(chain)
  BY TypedFields
<1>3. \A a \in Tracked : db.ckpt[a] \in Nat
  BY TypedFields, TrackedIn
<1>4. S \in SUBSET Nat /\ S # {} /\ \A x \in S : 1 <= x
  BY <1>2, <1>3
<1>5. from \in S /\ \A x \in S : from <= x
  <2>1. from = Min(S)
    BY DEF FirstUnindexed
  <2> HIDE DEF S, from
  <2> QED
    BY <1>4, <2>1, LeastNat
<1>6. task' = [task EXCEPT !["poll"] = Request(from, head, head, from, Tracked, {}, {})]
  BY <1>1
<1> HIDE DEF from
<1>7. from \in Nat /\ 1 <= from /\ from <= head
  BY <1>4, <1>5
<1>8. \A a \in Tracked : db.ckpt[a] > 0 => from <= db.ckpt[a] + 1
  BY <1>5
<1> QED
  BY <1>2, <1>6, <1>7, <1>8

LEMMA PollHeadSound ==
  ASSUME Typed, PollHead, NEW k, k = task'["poll"]
  PROVE  Sound(k)
<1>1. PICK from \in Nat, head \in Nat :
        /\ 1 <= from /\ from <= head /\ head <= Len(chain)
        /\ task' = [task EXCEPT !["poll"] = Request(from, head, head, from, Tracked, {}, {})]
  BY PollHeadAsks
<1>2. k = Request(from, head, head, from, Tracked, {}, {})
  BY <1>1 DEF Typed, Tasks
<1>3. LogsIn(from, from - 1) = {}
  <2>1. \A e \in Events : e[1] \in Nat
    BY BoundsAssumption DEF Events
  <2> QED
    BY <2>1 DEF LogsIn
<1> QED
  BY <1>1, <1>2, <1>3, RequestSound

\* The end of a batch.
LEMMA LesserOfTwo ==
  ASSUME NEW x \in Nat, NEW y \in Nat
  PROVE  /\ Min({x, y}) \in Nat /\ Min({x, y}) <= x /\ Min({x, y}) <= y
         /\ Min({x, y}) = x \/ Min({x, y}) = y
<1>1. {x, y} \in SUBSET Nat /\ {x, y} # {}
  OBVIOUS
<1> QED
  BY <1>1, LeastNat

\* One batch of a backfill asks for the addresses that the backfill is about.
LEMMA BatchSound ==
  ASSUME Typed, NEW from \in Nat, NEW to \in Nat, NEW start \in Nat,
         1 <= start, start <= from, from <= to, to <= Len(chain),
         NEW only \in SUBSET mem.pools, NEW known \in SUBSET Tracked,
         NEW k, k = Batch(from, to, start, known, only),
         \A e \in LogsIn(start, from - 1) :
           Log(e).from \in (IF only = {} THEN known ELSE only) => Kept(e)
  PROVE  Sound(k)
<1> DEFINE filter == IF only = {} THEN Tracked ELSE only
           end    == Min({from + BatchSize - 1, to})
<1>1. from + BatchSize - 1 \in Nat /\ from <= from + BatchSize - 1
  BY BoundsAssumption
<1>2. end \in Nat /\ end <= to /\ from <= end
  BY <1>1, LesserOfTwo
<1>3. filter \in SUBSET Addresses
  BY TrackedIn
<1>4. k = Request(from, end, to, start, known, only, filter)
  BY DEF Batch
<1>5. k.only = only /\ k.known = known
  BY <1>4 DEF Request
<1>6. Asked(k) = (IF only = {} THEN known ELSE only)
  BY <1>5 DEF Asked
<1>7. Asked(k) \subseteq filter
  BY <1>6
<1>8. \A e \in LogsIn(start, from - 1) : Log(e).from \in Asked(k) => Kept(e)
  BY <1>6
<1> HIDE DEF filter, end
<1> QED
  BY <1>2, <1>3, <1>4, <1>7, <1>8, RequestSound

LEMMA StartFillSound ==
  ASSUME Typed, NEW from \in 1 .. MaxBlock, NEW to \in 1 .. MaxBlock,
         NEW only, StartFill(from, to, only), NEW k, k = task'["fill"]
  PROVE  Sound(k)
<1>1. /\ from \in Nat /\ to \in Nat /\ 1 <= from /\ from <= from /\ from <= to
      /\ to <= Len(chain) /\ only \in SUBSET mem.pools /\ Tracked \in SUBSET Tracked
  BY TypedFields, BoundsAssumption DEF StartFill
<1>2. k = Batch(from, to, from, Tracked, only)
  BY DEF StartFill, Typed, Tasks
<1>3. LogsIn(from, from - 1) = {}
  <2>1. \A e \in Events : e[1] \in Nat
    BY BoundsAssumption DEF Events
  <2> QED
    BY <1>1, <2>1 DEF LogsIn
<1>4. \A e \in LogsIn(from, from - 1) :
        Log(e).from \in (IF only = {} THEN Tracked ELSE only) => Kept(e)
  BY <1>3
<1> QED
  BY <1>1, <1>2, <1>4, BatchSound

SameScope(k, l) ==
  /\ k.from = l.from /\ k.end = l.end /\ k.to = l.to /\ k.start = l.start
  /\ k.known = l.known /\ k.only = l.only /\ k.filter = l.filter

\* What the answers of the node make of a sound task.
LEMMA CreatedIn ==
  ASSUME Typed, NEW S \in SUBSET Mined
  PROVE  CreatedBy(S) \in SUBSET Pools
<1>1. Len(chain) \in Nat /\ 1 \in Nat /\ 1 > 0
  BY TypedFields
<1>2. \A e \in S : Log(e).new \in SUBSET Pools
  BY <1>1, LogAt DEF Mined
<1> QED
  BY <1>2 DEF CreatedBy

LEMMA AnswerMined ==
  ASSUME Typed, NEW l, Sound(l)
  PROVE  Answer(l) \in SUBSET Mined /\ Answer(l) \in SUBSET Events
<1>1. l.from \in Nat /\ l.end \in Nat /\ l.from > 0
  BY SoundFields DEF Sound
<1> QED
  BY <1>1, LogAt DEF Answer

\* The block timestamps are there.
LEMMA AfterBlocksGives ==
  ASSUME Typed, NEW l \in Locals, l.logs \in SUBSET Mined, NEW k, k = AfterBlocks(l)
  PROVE  /\ k \in Locals /\ SameScope(k, l)
         /\ k.logs = l.logs /\ k.todo = l.todo /\ k.pend = l.pend /\ k.added = l.added
         /\ k.pc \in {"prefetch", "loop"}
         /\ CreatedBy(l.logs) \subseteq mem.meta \union k.want
         /\ k.pc = "loop" => CreatedBy(l.logs) \subseteq mem.meta
<1> DEFINE want == CreatedBy(l.logs) \ mem.meta
           pc   == IF want # {} THEN "prefetch" ELSE "loop"
<1>1. want \in SUBSET Pools
  BY CreatedIn
<1>2. pc \in PCs /\ pc \in {"prefetch", "loop"} /\ (pc = "loop" => want = {})
  BY DEF PCs
<1>3. k = [l EXCEPT !.want = want, !.pc = pc]
  BY DEF AfterBlocks
<1>4. CreatedBy(l.logs) \subseteq mem.meta \union want
  OBVIOUS
<1> HIDE DEF want, pc
<1>5. k \in Locals /\ k.want = want /\ k.pc = pc
  BY <1>1, <1>2, <1>3 DEF Locals
<1>6. /\ SameScope(k, l) /\ k.logs = l.logs /\ k.todo = l.todo
      /\ k.pend = l.pend /\ k.added = l.added
  BY <1>3 DEF SameScope, Locals
<1> QED
  BY <1>2, <1>4, <1>5, <1>6

LEMMA GotLogsGives ==
  ASSUME Typed, NEW t \in Tasks, NEW l, l = task[t], Sound(l), GotLogs(t),
         NEW k, k = task'[t]
  PROVE  /\ k \in Locals /\ SameScope(k, l)
         /\ k.logs = Answer(l) /\ k.todo = k.logs /\ k.pend = {} /\ k.added = {}
         /\ k.pc \in {"ckpt", "blocks", "prefetch", "loop"}
         /\ k.pc = "ckpt" => k.logs = {}
         /\ k.pc = "prefetch" => CreatedBy(k.logs) \subseteq mem.meta \union k.want
         /\ k.pc = "loop" => CreatedBy(k.logs) \subseteq mem.meta
<1>1. l.pc = "logs" /\ l \in Locals /\ l.pend = {} /\ l.added = {}
  BY DEF GotLogs, Sound
<1> DEFINE logs == Answer(l)
<1>2. logs \in SUBSET Events /\ logs \in SUBSET Mined
  BY AnswerMined
<1>3. PICK m : /\ m = [l EXCEPT !.logs = logs, !.todo = logs]
               /\ task' = [task EXCEPT ![t] =
                    IF logs = {} THEN [m EXCEPT !.pc = "ckpt"]
                    ELSE IF HasEvents(logs) THEN [m EXCEPT !.pc = "blocks"]
                    ELSE AfterBlocks(m)]
  BY DEF GotLogs, Answer
<1>4. k = IF logs = {} THEN [m EXCEPT !.pc = "ckpt"]
          ELSE IF HasEvents(logs) THEN [m EXCEPT !.pc = "blocks"]
          ELSE AfterBlocks(m)
  BY <1>3 DEF Typed
<1> HIDE DEF logs
<1>5. /\ m \in Locals /\ SameScope(m, l) /\ m.logs = logs /\ m.todo = logs
      /\ m.pend = {} /\ m.added = {}
  BY <1>1, <1>2, <1>3 DEF SameScope, Locals
<1>6. ASSUME NEW pc \in {"ckpt", "blocks"}, k = [m EXCEPT !.pc = pc]
      PROVE  /\ k \in Locals /\ SameScope(k, l) /\ k.logs = logs /\ k.todo = logs
             /\ k.pend = {} /\ k.added = {} /\ k.pc = pc
  <2>1. pc \in PCs
    BY DEF PCs
  <2> QED
    BY <1>5, <1>6, <2>1 DEF SameScope, Locals
<1>7. CASE logs = {}
  BY <1>4, <1>6, <1>7 DEF logs
<1>8. CASE logs # {} /\ HasEvents(logs)
  BY <1>4, <1>6, <1>8 DEF logs
<1>9. CASE logs # {} /\ ~HasEvents(logs)
  <2>1. k = AfterBlocks(m) /\ m.logs \in SUBSET Mined
    BY <1>2, <1>4, <1>5, <1>9
  <2>2. /\ k \in Locals /\ SameScope(k, m)
        /\ k.logs = logs /\ k.todo = logs /\ k.pend = {} /\ k.added = {}
        /\ k.pc \in {"prefetch", "loop"}
        /\ CreatedBy(logs) \subseteq mem.meta \union k.want
        /\ k.pc = "loop" => CreatedBy(logs) \subseteq mem.meta
    BY <1>5, <2>1, AfterBlocksGives
  <2>3. SameScope(k, l)
    BY <1>5, <2>2 DEF SameScope
  <2> QED
    BY <2>2, <2>3 DEF logs
<1> QED
  BY <1>7, <1>8, <1>9

\* Locals that have the scope of sound ones, and the logs of their answer.
LEMMA ScopeKept ==
  ASSUME NEW l, Sound(l), NEW k \in Locals, SameScope(k, l)
  PROVE  /\ 1 <= k.start /\ k.start <= k.from /\ k.from <= k.end /\ k.end <= k.to
         /\ k.to <= Len(chain)
         /\ k.known \subseteq Tracked /\ k.only \subseteq mem.pools
         /\ k.filter # {} => Asked(k) \subseteq k.filter
         /\ Answer(k) = Answer(l) /\ Asked(k) = Asked(l)
         /\ \A e \in LogsIn(k.start, k.from - 1) : Log(e).from \in Asked(k) => Kept(e)
BY DEF SameScope, Sound, Asked, Answer

LEMMA GotLogsSound ==
  ASSUME Typed, NEW t \in Tasks, NEW l, l = task[t], Sound(l), GotLogs(t),
         NEW k, k = task'[t]
  PROVE  Sound(k)
<1>1. /\ k \in Locals /\ SameScope(k, l)
      /\ k.logs = Answer(l) /\ k.todo = k.logs /\ k.pend = {} /\ k.added = {}
      /\ k.pc \in {"ckpt", "blocks", "prefetch", "loop"}
      /\ k.pc = "ckpt" => k.logs = {}
  BY GotLogsGives
<1> QED
  BY <1>1, ScopeKept DEF Sound

LEMMA GotBlocksGives ==
  ASSUME Typed, NEW t \in Tasks, NEW l, l = task[t], Sound(l), GotBlocks(t),
         NEW k, k = task'[t]
  PROVE  /\ k \in Locals /\ SameScope(k, l)
         /\ k.logs = l.logs /\ k.todo = k.logs /\ k.pend = {} /\ k.added = {}
         /\ k.pc \in {"prefetch", "loop"}
         /\ CreatedBy(k.logs) \subseteq mem.meta \union k.want
         /\ k.pc = "loop" => CreatedBy(k.logs) \subseteq mem.meta
<1>1. /\ l \in Locals /\ l.pc = "blocks" /\ l.todo = l.logs /\ l.pend = {} /\ l.added = {}
      /\ l.logs = Answer(l)
  BY DEF GotBlocks, Sound
<1>2. l.logs \in SUBSET Mined
  BY <1>1, AnswerMined
<1>3. k = AfterBlocks(l)
  BY DEF GotBlocks, Typed
<1> QED
  BY <1>1, <1>2, <1>3, AfterBlocksGives

LEMMA GotBlocksSound ==
  ASSUME Typed, NEW t \in Tasks, NEW l, l = task[t], Sound(l), GotBlocks(t),
         NEW k, k = task'[t]
  PROVE  Sound(k)
<1>1. /\ k \in Locals /\ SameScope(k, l)
      /\ k.logs = l.logs /\ k.todo = k.logs /\ k.pend = {} /\ k.added = {}
      /\ k.pc \in {"prefetch", "loop"}
  BY GotBlocksGives
<1>2. l.logs = Answer(l)
  BY DEF GotBlocks, Sound
<1> QED
  BY <1>1, <1>2, ScopeKept DEF Sound

\* Token metadata arrives, before the loop or in it.
LEMMA GotTokensGives ==
  ASSUME Typed, NEW t \in Tasks, NEW l, l = task[t], Sound(l),
         Prefetched(t) \/ GotMeta(t), NEW k, k = task'[t]
  PROVE  /\ l.pc \in {"prefetch", "meta"} /\ k = [l EXCEPT !.pc = "loop"]
         /\ k \in Locals /\ SameScope(k, l) /\ k.pc = "loop"
         /\ k.logs = l.logs /\ k.todo = l.todo /\ k.pend = l.pend /\ k.added = l.added
<1>1. k = [l EXCEPT !.pc = "loop"] /\ l.pc \in {"prefetch", "meta"}
  BY DEF Prefetched, GotMeta, Typed
<1>2. l \in Locals /\ "loop" \in PCs
  BY DEF Sound, PCs
<1> QED
  BY <1>1, <1>2 DEF SameScope, Locals

LEMMA GotTokensSound ==
  ASSUME Typed, NEW t \in Tasks, NEW l, l = task[t], Sound(l),
         Prefetched(t) \/ GotMeta(t), NEW k, k = task'[t]
  PROVE  Sound(k)
<1>1. /\ l.pc \in {"prefetch", "meta"}
      /\ k \in Locals /\ SameScope(k, l) /\ k.pc = "loop"
      /\ k.logs = l.logs /\ k.todo = l.todo /\ k.pend = l.pend /\ k.added = l.added
  BY GotTokensGives
<1>2. /\ l.logs = Answer(l) /\ l.todo \subseteq l.logs /\ l.added \subseteq mem.pools
      /\ \A d \in l.logs \ l.todo, e \in l.todo : Before(d, e)
  BY <1>1 DEF Sound
<1>3. \A e \in l.logs \ l.todo : Log(e).from \in Asked(l) \union l.added => Seen(l, e)
  <2>1. CASE l.pc = "prefetch"
    BY <2>1 DEF Sound
  <2>2. CASE l.pc = "meta"
    BY <2>2 DEF Sound
  <2> QED
    BY <1>1, <2>1, <2>2
<1>4. \A e \in k.logs \ k.todo : Log(e).from \in Asked(k) \union k.added => Seen(k, e)
  BY <1>1, <1>3, ScopeKept DEF Seen
<1> QED
  BY <1>1, <1>2, <1>4, ScopeKept DEF Sound

\* The same across a step that only adds.
LEMMA ScopeKeptNext ==
  ASSUME NEW l, Sound(l)', NEW k \in Locals, SameScope(k, l)
  PROVE  /\ 1 <= k.start /\ k.start <= k.from /\ k.from <= k.end /\ k.end <= k.to
         /\ k.to <= Len(chain')
         /\ k.known \subseteq Tracked' /\ k.only \subseteq mem'.pools
         /\ k.filter # {} => Asked(k)' \subseteq k.filter
         /\ Answer(k)' = Answer(l)'
         /\ \A e \in LogsIn(k.start, k.from - 1)' : Log(e)'.from \in Asked(k)' => Kept(e)'
BY DEF SameScope, Sound, Asked, Answer

\* A loop that must wait.
LEMMA SuspendGives ==
  ASSUME Typed, NEW t \in Tasks, NEW l, l = task[t], Sound(l), Suspend(t),
         NEW s, s = Walk(t), NEW k, k = task'[t]
  PROVE  /\ l.pc = "loop" /\ s.stuck
         /\ k \in Locals /\ SameScope(k, l) /\ k.pc = "meta" /\ k.logs = l.logs
         /\ k.todo = l.todo \ s.done /\ k.pend = s.pend /\ k.added = s.added
         /\ mem' = [mem EXCEPT !.pools = s.pools] /\ mem'.pools = s.pools
         /\ UNCHANGED <<chain, db, since, faults>>
<1>1. /\ l.pc = "loop" /\ s.stuck
      /\ k = [l EXCEPT !.pc = "meta", !.todo = l.todo \ s.done, !.pend = s.pend,
                       !.added = s.added, !.held = s.held]
      /\ mem' = [mem EXCEPT !.pools = s.pools]
      /\ UNCHANGED <<chain, db, since, faults>>
  BY DEF Suspend, Typed
<1>2. s.pend \in SUBSET Events /\ s.added \in SUBSET Pools /\ s.held \in BOOLEAN
  BY <1>1, WalkIs
<1>3. l \in Locals /\ "meta" \in PCs /\ l.todo \ s.done \in SUBSET Events
  BY SoundFields DEF Sound, PCs
<1>4. mem'.pools = s.pools
  BY <1>1 DEF Typed
<1> DEFINE todo  == l.todo \ s.done
           pend  == s.pend
           added == s.added
           held  == s.held
<1>5. /\ todo \in SUBSET Events /\ pend \in SUBSET Events /\ added \in SUBSET Pools
      /\ held \in BOOLEAN
      /\ k = [l EXCEPT !.pc = "meta", !.todo = todo, !.pend = pend, !.added = added,
                       !.held = held]
  BY <1>1, <1>2, <1>3
<1>6. /\ k \in Locals /\ SameScope(k, l) /\ k.pc = "meta" /\ k.logs = l.logs
      /\ k.todo = l.todo \ s.done /\ k.pend = s.pend /\ k.added = s.added
  <2> HIDE DEF todo, pend, added, held
  <2>1. k \in Locals
    BY <1>3, <1>5, ZenonT(30) DEF Locals
  <2>2. /\ k.pc = "meta" /\ k.logs = l.logs
        /\ k.todo = todo /\ k.pend = pend /\ k.added = added
    BY <1>3, <1>5, ZenonT(30) DEF Locals
  <2>3. SameScope(k, l)
    BY <1>3, <1>5 DEF SameScope, Locals
  <2> QED
    BY <2>1, <2>2, <2>3 DEF todo, pend, added
<1> QED
  BY <1>1, <1>4, <1>6

LEMMA SuspendSound ==
  ASSUME Typed, Chained, Grows, NEW t \in Tasks, NEW l, l = task[t], Sound(l), Suspend(t),
         NEW k, k = task'[t]
  PROVE  Sound(k)'
<1>1. PICK s : s = Walk(t)
  OBVIOUS
<1>2. /\ l.pc = "loop" /\ s.stuck
      /\ k \in Locals /\ SameScope(k, l) /\ k.pc = "meta" /\ k.logs = l.logs
      /\ k.todo = l.todo \ s.done /\ k.pend = s.pend /\ k.added = s.added
      /\ mem'.pools = s.pools /\ UNCHANGED <<chain, db>>
  BY <1>1, SuspendGives
<1>3. Sound(l)'
  BY SoundStays
<1>4. /\ s.done = HandledBy(t) /\ s.done \subseteq l.todo /\ s.added \subseteq s.pools
      /\ s.pend \subseteq l.pend \union s.done
  BY <1>1, <1>2, WalkIs
<1>5. \A e : Log(e)' = Log(e)
  BY <1>2 DEF Log
<1>6. ASSUME NEW e \in k.logs \ k.todo, Log(e)'.from \in Asked(k)' \union k.added
      PROVE  Seen(k, e)'
  <2>1. e \in (l.logs \ l.todo) \union s.done
    BY <1>2
  <2>2. Log(e).from \in Asked(l) \union s.added
    BY <1>2, <1>5, <1>6 DEF Asked, SameScope
  <2>3. /\ Log(e).new = {} => e \in s.pend \/ db.rows[e] > 0
        /\ Log(e).new \subseteq s.pools
    BY <1>1, <1>2, <2>1, <2>2, WalkSees
  <2> QED
    BY <1>2, <1>5, <2>3 DEF Seen
<1>7. ASSUME NEW d \in k.logs \ k.todo, NEW e \in k.todo PROVE Before(d, e)
  <2>1. e \in l.todo /\ e \notin s.done /\ l.todo \subseteq l.logs /\ l.logs \subseteq Mined
    BY <1>2, LogsMined DEF Sound
  <2>2. CASE d \in l.logs \ l.todo
    BY <2>1, <2>2 DEF Sound
  <2>3. CASE d \in s.done
    <3>1. PICK w \in WaitsFor(t) : ~Before(e, w)
      BY <1>4, <2>1 DEF HandledBy
    <3>2. Before(d, w) /\ w \in l.todo /\ d \in l.todo
      BY <1>4, <2>3, <3>1 DEF HandledBy, WaitsFor
    <3>3. d \in Mined /\ w \in Mined /\ e \in Mined
      BY <2>1, <3>2
    <3> QED
      BY <3>1, <3>2, <3>3, BeforeOrder
  <2> QED
    BY <1>2, <2>2, <2>3
<1>8. \A d \in k.logs \ k.todo, e \in k.todo : Before(d, e)'
  BY <1>7 DEF Before
<1>9. k.logs = Answer(k)' /\ k.todo \subseteq k.logs /\ k.pend \subseteq k.logs
  <2>1. l.logs = Answer(l)' /\ l.todo \subseteq l.logs /\ l.pend \subseteq l.logs
    BY <1>2, <1>3 DEF Sound
  <2> QED
    BY <1>2, <1>3, <1>4, <2>1, ScopeKeptNext
<1>10. k.added \subseteq mem'.pools
  BY <1>2, <1>4
<1>11. /\ 1 <= k.start /\ k.start <= k.from /\ k.from <= k.end /\ k.end <= k.to
       /\ k.to <= Len(chain')
       /\ k.known \subseteq Tracked' /\ k.only \subseteq mem'.pools
       /\ k.filter # {} => Asked(k)' \subseteq k.filter
       /\ \A e \in LogsIn(k.start, k.from - 1)' : Log(e)'.from \in Asked(k)' => Kept(e)'
  BY <1>2, <1>3, ScopeKeptNext
<1> QED
  BY <1>2, <1>6, <1>8, <1>9, <1>10, <1>11, Zenon DEF Sound

\* A loop that commits: its task, the tables, and all that it has seen kept.
LEMMA CommitScope ==
  ASSUME Typed, NEW t \in Tasks, Sound(task[t]), Commit(t), NEW s, s = Walk(t)
  PROVE  /\ task'[t] \in Locals /\ SameScope(task'[t], task[t]) /\ task'[t].pc = "ckpt"
         /\ task'[t].logs = task[t].logs /\ task'[t].todo = task[t].todo
         /\ task'[t].pend = task[t].pend /\ task'[t].added = s.added
<1>1. task[t].pc = "loop" /\ task'[t] = [task[t] EXCEPT !.pc = "ckpt", !.added = s.added]
  BY DEF Commit, Typed
<1>2. task[t] \in Locals /\ "ckpt" \in PCs
  BY DEF Sound, PCs
<1>3. s.added \in SUBSET Pools
  BY <1>1, WalkIs
<1> QED
  BY <1>1, <1>2, <1>3 DEF Locals, SameScope

LEMMA CommitGives ==
  ASSUME Typed, NEW t \in Tasks, Commit(t), NEW s, s = Walk(t)
  PROVE  /\ task[t].pc = "loop" /\ ~s.stuck /\ s.added \cap db.pools = {}
         /\ mem' = [mem EXCEPT !.pools = s.pools] /\ mem'.pools = s.pools
         /\ db'.pools = db.pools \union s.added /\ db'.factories = db.factories
         /\ db'.rows = [e \in Events |-> IF e \in s.pend THEN db.rows[e] + 1 ELSE db.rows[e]]
         /\ db'.ckpt = db.ckpt /\ UNCHANGED <<chain, since, faults>>
<1>1. /\ task[t].pc = "loop" /\ ~s.stuck /\ s.added \cap db.pools = {}
      /\ mem' = [mem EXCEPT !.pools = s.pools] /\ UNCHANGED <<chain, since, faults>>
  BY DEF Commit
<1>2. mem'.pools = s.pools
  BY <1>1 DEF Typed
<1> DEFINE pools == db.pools \union s.added
           rows  == [e \in Events |-> IF e \in s.pend THEN db.rows[e] + 1 ELSE db.rows[e]]
<1>3. db' = [db EXCEPT !.pools = pools, !.rows = rows]
  BY DEF Commit
<1> HIDE DEF pools, rows
<1>4. /\ db'.pools = pools /\ db'.rows = rows /\ db'.factories = db.factories
      /\ db'.ckpt = db.ckpt
  BY <1>3 DEF Typed
<1> QED
  BY <1>1, <1>2, <1>4 DEF pools, rows

LEMMA CommitSound ==
  ASSUME Typed, Chained, Grows, NEW t \in Tasks, NEW l, l = task[t], Sound(l), Commit(t),
         NEW k, k = task'[t]
  PROVE  Sound(k)'
<1>1. PICK s : s = Walk(t)
  OBVIOUS
<1>2. /\ l.pc = "loop" /\ ~s.stuck
      /\ k \in Locals /\ SameScope(k, l) /\ k.pc = "ckpt" /\ k.logs = l.logs
      /\ k.todo = l.todo /\ k.pend = l.pend /\ k.added = s.added
      /\ mem'.pools = s.pools /\ UNCHANGED chain
      /\ db'.rows = [e \in Events |-> IF e \in s.pend THEN db.rows[e] + 1 ELSE db.rows[e]]
  BY <1>1, CommitScope, CommitGives
<1>3. Sound(l)'
  BY SoundStays
<1>4. s.done = l.todo /\ s.added \subseteq s.pools
  BY <1>1, <1>2, WalkIs
<1>5. \A e : Log(e)' = Log(e)
  BY <1>2 DEF Log
<1>6. ASSUME NEW e \in k.logs, Log(e)'.from \in Asked(k)' \union k.added
      PROVE  Kept(e)'
  <2>1. e \in (l.logs \ l.todo) \union s.done
    BY <1>2, <1>4
  <2>2. Log(e).from \in Asked(l) \union s.added
    BY <1>2, <1>5, <1>6 DEF Asked, SameScope
  <2>3. /\ Log(e).new = {} => e \in s.pend \/ db.rows[e] > 0
        /\ Log(e).new \subseteq s.pools
    BY <1>1, <1>2, <2>1, <2>2, WalkSees
  <2>4. e \in Events /\ db.rows[e] \in Nat
    BY <1>2, SoundFields, TypedFields
  <2>5. e \in s.pend \/ db.rows[e] > 0 => db'.rows[e] > 0
    BY <1>2, <2>4
  <2> QED
    BY <1>2, <1>5, <2>3, <2>5 DEF Kept
<1>7. k.logs = Answer(k)' /\ k.todo \subseteq k.logs /\ k.pend \subseteq k.logs
  <2>1. l.logs = Answer(l)' /\ l.todo \subseteq l.logs /\ l.pend \subseteq l.logs
    BY <1>2, <1>3 DEF Sound
  <2> QED
    BY <1>2, <1>3, <2>1, ScopeKeptNext
<1>8. \A d \in k.logs \ k.todo, e \in k.todo : Before(d, e)'
  BY <1>2, <1>3 DEF Sound
<1>9. k.added \subseteq mem'.pools
  BY <1>2, <1>4
<1>10. /\ 1 <= k.start /\ k.start <= k.from /\ k.from <= k.end /\ k.end <= k.to
       /\ k.to <= Len(chain')
       /\ k.known \subseteq Tracked' /\ k.only \subseteq mem'.pools
       /\ k.filter # {} => Asked(k)' \subseteq k.filter
       /\ \A e \in LogsIn(k.start, k.from - 1)' : Log(e)'.from \in Asked(k)' => Kept(e)'
  BY <1>2, <1>3, ScopeKeptNext
<1> QED
  BY <1>2, <1>6, <1>7, <1>8, <1>9, <1>10, Zenon DEF Sound

\* What is stored when the logs of a batch are committed: all that the task
\* asked for, from its first block to the batch's last.
LEMMA CommittedUpTo ==
  ASSUME Typed, NEW l, Sound(l), l.pc \in {"ckpt", "final"},
         NEW e \in LogsIn(l.start, l.end), Log(e).from \in Asked(l)
  PROVE  Kept(e)
<1>1. /\ l.start \in Nat /\ l.from \in Nat /\ l.end \in Nat /\ l.start > 0
      /\ l.from <= l.end /\ l.start <= l.from /\ l.from - 1 \in Nat
  BY SoundFields DEF Sound
<1>2. e[1] \in Nat /\ l.start <= e[1] /\ e[1] <= l.end
  <2>1. e[1] \in 1 .. Len(chain) /\ Len(chain) \in Nat
    BY <1>1, LogAt, TypedFields
  <2> QED
    BY <2>1 DEF LogsIn
<1>3. CASE e[1] < l.from
  <2>1. e[1] <= l.from - 1
    BY <1>1, <1>2, <1>3
  <2>2. e \in LogsIn(l.start, l.from - 1)
    BY <1>1, <1>2, <2>1, MinedIn
  <2> QED
    BY <2>2 DEF Sound
<1>4. CASE l.from <= e[1]
  <2>1. e \in LogsIn(l.from, l.end)
    BY <1>1, <1>2, <1>4, MinedIn
  <2>2. e \in l.logs
    BY <2>1 DEF Sound, Answer
  <2> QED
    BY <2>2 DEF Sound
<1> QED
  BY <1>1, <1>2, <1>3, <1>4

\* The next batch of a backfill, and its end.
LEMMA FillCheckpointSound ==
  ASSUME Typed, NEW l, l = task["fill"], Sound(l), FillCheckpoint, NEW k, k = task'["fill"]
  PROVE  Sound(k)
<1>1. /\ l.pc = "ckpt" /\ l \in Locals /\ "final" \in PCs
      /\ k = IF l.end = l.to THEN [l EXCEPT !.pc = "final"]
             ELSE Batch(l.end + 1, l.to, l.start, l.known, l.only)
  BY DEF FillCheckpoint, Typed, Tasks, Sound, PCs
<1>2. CASE l.end = l.to
  <2>1. /\ k \in Locals /\ SameScope(k, l) /\ k.pc = "final" /\ k.logs = l.logs
        /\ k.todo = l.todo /\ k.pend = l.pend /\ k.added = l.added
    BY <1>1, <1>2 DEF Locals, SameScope
  <2>2. Answer(k) = Answer(l) /\ Asked(k) = Asked(l)
    BY <2>1, ScopeKept
  <2>3. /\ k.logs = Answer(k) /\ k.added \subseteq mem.pools /\ k.todo \subseteq k.logs
        /\ k.pend \subseteq k.logs
        /\ \A d \in k.logs \ k.todo, e \in k.todo : Before(d, e)
        /\ \A e \in k.logs : Log(e).from \in Asked(k) \union k.added => Kept(e)
        /\ k.end = k.to
    BY <1>1, <1>2, <2>1, <2>2 DEF Sound, SameScope
  <2>4. /\ 1 <= k.start /\ k.start <= k.from /\ k.from <= k.end /\ k.end <= k.to
        /\ k.to <= Len(chain)
        /\ k.known \subseteq Tracked /\ k.only \subseteq mem.pools
        /\ k.filter # {} => Asked(k) \subseteq k.filter
        /\ \A e \in LogsIn(k.start, k.from - 1) : Log(e).from \in Asked(k) => Kept(e)
    BY <2>1, ScopeKept
  <2> QED
    BY <2>1, <2>3, <2>4, Zenon DEF Sound
<1>3. CASE l.end # l.to
  <2>1. /\ l.end \in Nat /\ l.to \in Nat /\ l.start \in Nat /\ l.from \in Nat
        /\ 1 <= l.start /\ l.start <= l.from /\ l.from <= l.end /\ l.end <= l.to
        /\ l.to <= Len(chain) /\ l.only \in SUBSET mem.pools /\ l.known \in SUBSET Tracked
    BY SoundFields DEF Sound
  <2>2. /\ l.end + 1 \in Nat /\ l.start <= l.end + 1 /\ l.end + 1 <= l.to
        /\ (l.end + 1) - 1 = l.end
    <3>1. \A a, b, c, d \in Nat : a <= b /\ b <= c /\ c <= d /\ c # d =>
            c + 1 \in Nat /\ a <= c + 1 /\ c + 1 <= d /\ (c + 1) - 1 = c
      OBVIOUS
    <3> QED
      BY <1>3, <2>1, <3>1
  <2>3. \A e \in LogsIn(l.start, (l.end + 1) - 1) :
          Log(e).from \in (IF l.only = {} THEN l.known ELSE l.only) => Kept(e)
    BY <1>1, <2>2, CommittedUpTo DEF Asked
  <2> DEFINE from == l.end + 1
  <2>4. k = Batch(from, l.to, l.start, l.known, l.only)
    BY <1>1, <1>3
  <2> HIDE DEF from
  <2>5. /\ from \in Nat /\ l.start <= from /\ from <= l.to
        /\ \A e \in LogsIn(l.start, from - 1) :
             Log(e).from \in (IF l.only = {} THEN l.known ELSE l.only) => Kept(e)
    BY <2>2, <2>3 DEF from
  <2> QED
    BY <2>1, <2>4, <2>5, BatchSound
<1> QED
  BY <1>2, <1>3

\* A step is of one task; the other one stays sound.
LEMMA TasksStay ==
  ASSUME Typed, TasksSound, Grows, NEW t \in Tasks,
         \A u \in Tasks \ {t} : task'[u] = task[u],
         \A k : k = task'[t] => k = Resting \/ Sound(k)'
  PROVE  TasksSound'
<1>1. ASSUME NEW u \in Tasks, u # t
      PROVE  (task[u] = Resting \/ Sound(task[u]))'
  <2>1. PICK l : l = task[u]
    OBVIOUS
  <2>2. l = Resting \/ Sound(l)'
    BY <2>1, SoundStays DEF TasksSound
  <2>3. task'[u] = l
    BY <1>1, <2>1
  <2> QED
    BY <2>2, <2>3
<1>2. (task[t] = Resting \/ Sound(task[t]))'
  <2>1. PICK k : k = task'[t]
    OBVIOUS
  <2>2. k = Resting \/ Sound(k)'
    BY <2>1
  <2> QED
    BY <2>1, <2>2
<1> QED
  BY <1>1, <1>2 DEF TasksSound

\* The task that a step is of, if it is of one, and the others.
LEMMA OthersStay ==
  ASSUME Typed, NEW t \in Tasks,
         \/ GotLogs(t) \/ GotBlocks(t) \/ Prefetched(t) \/ GotMeta(t) \/ Suspend(t) \/ Commit(t)
         \/ CommitFails(t) \/ RpcFails(t) \/ CheckpointFails(t)
  PROVE  /\ \A u \in Tasks \ {t} : task'[u] = task[u]
         /\ DOMAIN task' = Tasks
         /\ CommitFails(t) \/ RpcFails(t) \/ CheckpointFails(t) => task'[t] = Resting
         /\ task[t].pc # "idle"
         /\ UNCHANGED chain
<1>1. ASSUME NEW k, task' = [task EXCEPT ![t] = k]
      PROVE  DOMAIN task' = Tasks /\ task'[t] = k /\ \A u \in Tasks \ {t} : task'[u] = task[u]
  BY <1>1 DEF Typed
<1>2. CommitFails(t) \/ RpcFails(t) \/ CheckpointFails(t) => task'[t] = Resting
  BY <1>1 DEF CommitFails, RpcFails, CheckpointFails, Fail, Rest
<1>3. CASE GotLogs(t)
  BY <1>1, <1>2, <1>3 DEF GotLogs
<1>4. CASE GotBlocks(t)
  BY <1>1, <1>2, <1>4 DEF GotBlocks
<1>5. CASE Prefetched(t) \/ GotMeta(t)
  <2>1. task[t].pc # "idle" /\ UNCHANGED chain /\ task' = [task EXCEPT ![t].pc = "loop"]
    BY <1>5 DEF Prefetched, GotMeta
  <2> QED
    BY <1>1, <1>2, <1>5, <2>1
<1>6. CASE Suspend(t)
  <2>1. task[t].pc = "loop" /\ UNCHANGED chain
    BY <1>6 DEF Suspend
  <2>2. \E k : task' = [task EXCEPT ![t] = k]
    BY <1>6 DEF Suspend
  <2> QED
    BY <1>1, <1>2, <1>6, <2>1, <2>2
<1>7. CASE Commit(t)
  <2>1. task[t].pc = "loop" /\ UNCHANGED chain
    BY <1>7 DEF Commit
  <2>2. \E k : task' = [task EXCEPT ![t] = k]
    BY <1>7 DEF Commit
  <2> QED
    BY <1>1, <1>2, <1>7, <2>1, <2>2
<1>8. CASE CommitFails(t)
  BY <1>1, <1>2, <1>8 DEF CommitFails, Fail, Rest
<1>9. CASE RpcFails(t) \/ CheckpointFails(t)
  BY <1>1, <1>2, <1>9 DEF RpcFails, CheckpointFails, Fail, Rest
<1> QED
  BY <1>3, <1>4, <1>5, <1>6, <1>7, <1>8, <1>9

\* Every step leaves both tasks sound.
LEMMA TasksSoundNext ==
  ASSUME Typed, Chained, TasksSound, [Next]_vars
  PROVE  TasksSound'
<1>1. CASE Crash
  BY <1>1 DEF Crash, TasksSound, Typed
<1>2. CASE ~Crash
  <2>1. Grows
    BY <1>2, NextGrows
  <2>2. CASE UNCHANGED task
    <3>1. \A k : k = task'["poll"] => k = Resting \/ Sound(k)'
      BY <2>1, <2>2, SoundStays DEF TasksSound, Tasks
    <3> QED
      BY <2>1, <2>2, <3>1, TasksStay DEF Tasks
  <2>3. CASE PollHead
    <3>1. \A u \in Tasks \ {"poll"} : task'[u] = task[u]
      BY <2>3 DEF PollHead, Typed
    <3>2. \A k : k = task'["poll"] => Sound(k)'
      BY <2>1, <2>3, PollHeadSound, SoundStays
    <3> QED
      BY <2>1, <3>1, <3>2, TasksStay DEF Tasks
  <2>4. CASE PollCheckpoint
    <3>1. \A u \in Tasks \ {"poll"} : task'[u] = task[u]
      BY <2>4 DEF PollCheckpoint, Rest, Typed
    <3>2. task'["poll"] = Resting
      BY <2>4 DEF PollCheckpoint, Rest, Typed, Tasks
    <3> QED
      BY <2>1, <3>1, <3>2, TasksStay DEF Tasks
  <2>5. CASE \E from, to \in 1 .. MaxBlock, only \in {{}} \union {{p} : p \in UserPools} :
               StartFill(from, to, only)
    <3>1. PICK from, to \in 1 .. MaxBlock, only \in {{}} \union {{p} : p \in UserPools} :
            StartFill(from, to, only)
      BY <2>5
    <3>2. \A u \in Tasks \ {"fill"} : task'[u] = task[u]
      BY <3>1 DEF StartFill, Typed
    <3>3. \A k : k = task'["fill"] => Sound(k)'
      BY <2>1, <3>1, StartFillSound, SoundStays
    <3> QED
      BY <2>1, <3>2, <3>3, TasksStay DEF Tasks
  <2>6. CASE FillCheckpoint
    <3>1. \A u \in Tasks \ {"fill"} : task'[u] = task[u]
      BY <2>6 DEF FillCheckpoint, Typed
    <3>2. Sound(task["fill"])
      BY <2>6, RunningIsSound DEF FillCheckpoint, Tasks
    <3>3. \A k : k = task'["fill"] => Sound(k)'
      BY <2>1, <2>6, <3>2, FillCheckpointSound, SoundStays
    <3> QED
      BY <2>1, <3>1, <3>3, TasksStay DEF Tasks
  <2>7. CASE FinishFill
    <3>1. \A u \in Tasks \ {"fill"} : task'[u] = task[u]
      BY <2>7 DEF FinishFill, Rest, Typed
    <3>2. task'["fill"] = Resting
      BY <2>7 DEF FinishFill, Rest, Typed, Tasks
    <3> QED
      BY <2>1, <3>1, <3>2, TasksStay DEF Tasks
  <2>8. ASSUME NEW t \in Tasks,
               \/ GotLogs(t) \/ GotBlocks(t) \/ Prefetched(t) \/ GotMeta(t) \/ Suspend(t)
               \/ Commit(t) \/ CommitFails(t) \/ RpcFails(t) \/ CheckpointFails(t)
        PROVE  TasksSound'
    <3>1. \A u \in Tasks \ {t} : task'[u] = task[u]
      BY <2>8, OthersStay
    <3>2. Sound(task[t])
      BY <2>8, OthersStay, RunningIsSound
    <3>3. ASSUME NEW k, k = task'[t] PROVE k = Resting \/ Sound(k)'
      <4>1. CASE GotLogs(t)
        BY <2>1, <3>2, <3>3, <4>1, GotLogsSound, SoundStays
      <4>2. CASE GotBlocks(t)
        BY <2>1, <3>2, <3>3, <4>2, GotBlocksSound, SoundStays
      <4>3. CASE Prefetched(t) \/ GotMeta(t)
        BY <2>1, <3>2, <3>3, <4>3, GotTokensSound, SoundStays
      <4>4. CASE Suspend(t)
        BY <2>1, <3>2, <3>3, <4>4, SuspendSound
      <4>5. CASE Commit(t)
        BY <2>1, <3>2, <3>3, <4>5, CommitSound
      <4>6. CASE CommitFails(t) \/ RpcFails(t) \/ CheckpointFails(t)
        BY <3>3, <4>6, OthersStay
      <4> QED
        BY <2>8, <4>1, <4>2, <4>3, <4>4, <4>5, <4>6
    <3> QED
      BY <2>1, <3>1, <3>3, TasksStay
  <2> QED
    BY <1>2, <2>2, <2>3, <2>4, <2>5, <2>6, <2>7, <2>8
    DEF Next, Proceed, Mine, AddPool, AddFactory, Typed, vars
<1> QED
  BY <1>1, <1>2

-----------------------------------------------------------------------------
(* Types, and the order of the logs on the chain. *)

DbSet == [pools : SUBSET Pools, factories : SUBSET Factories,
          rows : [Events -> Nat], ckpt : [Addresses -> Nat]]
MemSet == [pools : SUBSET Pools, factories : SUBSET Factories, meta : SUBSET Pools]
FaultSet == [crash : Nat, rpc : Nat, write : Nat, fill : Nat, late : Nat]

\* What writing checkpoints does.
LEMMA CheckpointsGive ==
  ASSUME Typed, NEW t \in Tasks, Sound(task[t]), NEW addrs, NEW b \in Nat,
         SetCheckpoints(t, addrs, b)
  PROVE  /\ db' \in DbSet /\ since' \in [Addresses -> Nat]
         /\ db'.pools = db.pools /\ db'.factories = db.factories /\ db'.rows = db.rows
         /\ \A a \in Addresses :
              /\ db'.ckpt[a] = IF a \in addrs THEN b ELSE db.ckpt[a]
              /\ since'[a] = IF a \notin addrs \/ since[a] > 0 THEN since[a]
                             ELSE IF a \in task[t].known \union task[t].added
                                  THEN task[t].start ELSE b + 1
<1> DEFINE ckpt == [a \in Addresses |-> IF a \in addrs THEN b ELSE db.ckpt[a]]
<1>1. ckpt \in [Addresses -> Nat]
  BY TypedFields
<1>2. db' = [db EXCEPT !.ckpt = ckpt]
  BY DEF SetCheckpoints
<1>3. since' = [a \in Addresses |->
                  IF a \notin addrs \/ since[a] > 0 THEN since[a]
                  ELSE IF a \in task[t].known \union task[t].added THEN task[t].start
                  ELSE b + 1]
  BY DEF SetCheckpoints
<1>4. since' \in [Addresses -> Nat]
  <2>1. task[t].start \in Nat /\ b + 1 \in Nat /\ since \in [Addresses -> Nat]
    BY SoundFields DEF Typed
  <2> QED
    BY <1>3, <2>1
<1>5. \A a \in Addresses : ckpt[a] = IF a \in addrs THEN b ELSE db.ckpt[a]
  OBVIOUS
<1> HIDE DEF ckpt
<1>6. /\ db' \in DbSet /\ db'.pools = db.pools /\ db'.factories = db.factories
      /\ db'.rows = db.rows /\ db'.ckpt = ckpt
  BY <1>1, <1>2 DEF Typed, DbSet
<1> QED
  BY <1>3, <1>4, <1>5, <1>6

\* The checkpoints that a step writes.
Checkpoints(t, addrs, b) ==
  /\ SetCheckpoints(t, addrs, b) /\ Sound(task[t])
  /\ b \in Nat /\ 1 <= b /\ b <= Len(chain)
  /\ task[t].pc \in {"ckpt", "final"}
  /\ UNCHANGED <<chain, mem, faults>> /\ DOMAIN task' = Tasks

\* Three actions write checkpoints.
LEMMA CheckpointSteps ==
  ASSUME Typed, TasksSound, PollCheckpoint \/ FillCheckpoint \/ FinishFill
  PROVE  \E t \in Tasks : \E addrs, b : Checkpoints(t, addrs, b)
<1>1. ASSUME NEW t \in Tasks, Sound(task[t])
      PROVE  /\ task[t].end \in Nat /\ 1 <= task[t].end /\ task[t].end <= Len(chain)
             /\ task[t].to \in Nat /\ 1 <= task[t].to /\ task[t].to <= Len(chain)
  <2>1. /\ task[t].end \in Nat /\ task[t].to \in Nat /\ task[t].from \in Nat
        /\ task[t].start \in Nat /\ Len(chain) \in Nat
    BY <1>1, SoundFields, TypedFields
  <2>2. /\ 1 <= task[t].start /\ task[t].start <= task[t].from /\ task[t].from <= task[t].end
        /\ task[t].end <= task[t].to /\ task[t].to <= Len(chain)
    BY <1>1 DEF Sound
  <2> QED
    BY <2>1, <2>2
<1>2. "poll" \in Tasks /\ "fill" \in Tasks
  BY DEF Tasks
<1>3. ASSUME NEW t \in Tasks, NEW addrs, NEW b, b = task[t].end \/ b = task[t].to,
             SetCheckpoints(t, addrs, b), Sound(task[t]), task[t].pc \in {"ckpt", "final"},
             UNCHANGED <<chain, mem, faults>>, DOMAIN task' = Tasks
      PROVE  Checkpoints(t, addrs, b)
  <2>1. b \in Nat /\ 1 <= b /\ b <= Len(chain)
    BY <1>1, <1>3
  <2> QED
    BY <1>3, <2>1 DEF Checkpoints
<1>4. CASE PollCheckpoint
  <2>1. task["poll"].pc = "ckpt" /\ SetCheckpoints("poll", PollCovers, task["poll"].end)
        /\ UNCHANGED <<chain, mem, faults>>
    BY <1>4 DEF PollCheckpoint
  <2>2. Sound(task["poll"])
    BY <1>2, <2>1, RunningIsSound
  <2>3. DOMAIN task' = Tasks
    BY <1>4 DEF PollCheckpoint, Rest, Typed
  <2> QED
    BY <1>2, <1>3, <2>1, <2>2, <2>3
<1>5. CASE FillCheckpoint
  <2>1. PICK seen : /\ task["fill"].pc = "ckpt" /\ SetCheckpoints("fill", seen, task["fill"].end)
                    /\ UNCHANGED <<chain, mem, faults>>
    BY <1>5 DEF FillCheckpoint
  <2>2. Sound(task["fill"])
    BY <1>2, <2>1, RunningIsSound
  <2>3. DOMAIN task' = Tasks
    BY <1>5 DEF FillCheckpoint, Typed
  <2> QED
    BY <1>2, <1>3, <2>1, <2>2, <2>3
<1>6. CASE FinishFill
  <2>1. PICK addrs : /\ task["fill"].pc = "final" /\ SetCheckpoints("fill", addrs, task["fill"].to)
                     /\ UNCHANGED <<chain, mem, faults>>
    BY <1>6 DEF FinishFill
  <2>2. Sound(task["fill"])
    BY <1>2, <2>1, RunningIsSound
  <2>3. DOMAIN task' = Tasks
    BY <1>6 DEF FinishFill, Rest, Typed
  <2> QED
    BY <1>2, <1>3, <2>1, <2>2, <2>3
<1> QED
  BY <1>4, <1>5, <1>6

\* A commit writes what the tables can hold.
LEMMA CommitTypes ==
  ASSUME Typed, TasksSound, NEW t \in Tasks, Commit(t)
  PROVE  db' \in DbSet /\ mem' \in MemSet
<1>1. PICK s : s = Walk(t)
  OBVIOUS
<1>2. Sound(task[t]) /\ task[t].pc = "loop"
  BY RunningIsSound DEF Commit
<1>3. s.pools \in SUBSET Pools /\ s.added \in SUBSET Pools
  BY <1>1, <1>2, WalkIs
<1>4. mem' = [mem EXCEPT !.pools = s.pools]
  BY <1>1 DEF Commit
<1> DEFINE pools == db.pools \union s.added
           rows  == [e \in Events |-> IF e \in s.pend THEN db.rows[e] + 1 ELSE db.rows[e]]
<1>5. pools \in SUBSET Pools /\ rows \in [Events -> Nat]
  BY <1>3, TypedFields
<1>6. db' = [db EXCEPT !.pools = pools, !.rows = rows]
  BY <1>1 DEF Commit
<1> HIDE DEF pools, rows
<1>7. db' \in DbSet
  BY <1>5, <1>6 DEF Typed, DbSet
<1>8. mem' \in MemSet
  BY <1>3, <1>4 DEF Typed, MemSet
<1> QED
  BY <1>7, <1>8

\* Every step keeps the types.
LEMMA TypedNext ==
  ASSUME Typed, TasksSound, [Next]_vars
  PROVE  Typed'
<1>1. /\ chain \in Seq(BlockContents) /\ Len(chain) <= MaxBlock /\ Len(chain) \in Nat
      /\ db \in DbSet /\ mem \in MemSet /\ DOMAIN task = Tasks
      /\ since \in [Addresses -> Nat] /\ faults \in FaultSet
  BY DEF Typed, DbSet, MemSet, FaultSet
<1>2. SUFFICES /\ chain' \in Seq(BlockContents) /\ Len(chain') <= MaxBlock
               /\ db' \in DbSet /\ mem' \in MemSet /\ DOMAIN task' = Tasks
               /\ since' \in [Addresses -> Nat] /\ faults' \in FaultSet
  BY DEF Typed, DbSet, MemSet, FaultSet
<1>3. CASE UNCHANGED vars
  BY <1>1, <1>3 DEF vars
<1>4. CASE \E c \in BlockContents : Mine(c)
  <2>1. PICK c \in BlockContents : Mine(c)
    BY <1>4
  <2>2. /\ chain' = Append(chain, c) /\ Len(chain) < MaxBlock
        /\ UNCHANGED <<db, mem, task, since, faults>>
    BY <2>1 DEF Mine
  <2>3. chain' \in Seq(BlockContents) /\ Len(chain') = Len(chain) + 1
    BY <1>1, <2>2
  <2>4. Len(chain') <= MaxBlock
    BY <1>1, <2>2, <2>3, BoundsAssumption
  <2> QED
    BY <1>1, <2>2, <2>3, <2>4
<1>5. faults' \in FaultSet
  <2>1. MayRegister => \E n \in Nat : faults' = [faults EXCEPT !.late = n]
    <3>1. faults.late \in Nat /\ faults.late + 1 \in Nat
      BY <1>1 DEF FaultSet
    <3>2. MayRegister => \/ faults' = [faults EXCEPT !.late = faults.late]
                         \/ faults' = [faults EXCEPT !.late = faults.late + 1]
      BY DEF MayRegister
    <3> QED
      BY <3>1, <3>2
  <2>2. \/ UNCHANGED faults
        \/ \E n \in Nat : faults' = [faults EXCEPT !.late = n]
        \/ faults' = [faults EXCEPT !.crash = @ + 1]
        \/ faults' = [faults EXCEPT !.fill = @ + 1]
        \/ faults' = [faults EXCEPT !.rpc = @ + 1]
        \/ faults' = [faults EXCEPT !.write = @ + 1]
    <3>1. CASE \E p \in UserPools : AddPool(p)
      BY <3>1, <2>1 DEF AddPool
    <3>2. CASE \E f \in Factories : AddFactory(f)
      BY <3>2, <2>1 DEF AddFactory
    <3>3. CASE Crash
      BY <3>3 DEF Crash
    <3>4. CASE \E from, to \in 1 .. MaxBlock, only \in {{}} \union {{p} : p \in UserPools} :
                 StartFill(from, to, only)
      BY <3>4 DEF StartFill
    <3>5. CASE \E t \in DOMAIN task : CommitFails(t)
      BY <3>5 DEF CommitFails
    <3>6. CASE \E t \in DOMAIN task : RpcFails(t)
      BY <3>6 DEF RpcFails
    <3> QED
      BY <1>3, <1>4, <3>1, <3>2, <3>3, <3>4, <3>5, <3>6
      DEF Next, Proceed, Mine, PollHead, PollCheckpoint, FillCheckpoint, FinishFill, GotLogs,
          GotBlocks, Prefetched, GotMeta, Suspend, Commit, CheckpointFails, vars
  <2> QED
    BY <1>1, <2>2 DEF FaultSet
<1>6. CASE \E p \in UserPools : AddPool(p)
  <2>1. PICK p \in UserPools : AddPool(p)
    BY <1>6
  <2>2. p \in Pools
    BY UserAssumption
  <2> QED
    BY <1>1, <1>5, <2>1, <2>2 DEF AddPool, DbSet, MemSet
<1>7. CASE \E f \in Factories : AddFactory(f)
  <2>1. PICK f \in Factories : AddFactory(f)
    BY <1>7
  <2> QED
    BY <1>1, <1>5, <2>1 DEF AddFactory, DbSet, MemSet
<1>8. CASE PollHead
  BY <1>1, <1>5, <1>8 DEF PollHead
<1>9. CASE PollCheckpoint \/ FillCheckpoint \/ FinishFill
  <2>1. PICK t, addrs, b : t \in Tasks /\ Checkpoints(t, addrs, b)
    BY <1>9, CheckpointSteps
  <2>2. db' \in DbSet /\ since' \in [Addresses -> Nat]
    BY <2>1, CheckpointsGive DEF Checkpoints
  <2> QED
    BY <1>1, <2>1, <2>2 DEF Checkpoints
<1>10. CASE \E from, to \in 1 .. MaxBlock, only \in {{}} \union {{p} : p \in UserPools} :
              StartFill(from, to, only)
  BY <1>1, <1>5, <1>10 DEF StartFill
<1>11. ASSUME NEW t \in Tasks,
              \/ GotLogs(t) \/ GotBlocks(t) \/ Prefetched(t) \/ GotMeta(t) \/ Suspend(t)
              \/ Commit(t) \/ CommitFails(t) \/ RpcFails(t) \/ CheckpointFails(t)
       PROVE  /\ chain' \in Seq(BlockContents) /\ Len(chain') <= MaxBlock
              /\ db' \in DbSet /\ mem' \in MemSet /\ DOMAIN task' = Tasks
              /\ since' \in [Addresses -> Nat] /\ faults' \in FaultSet
  <2>1. DOMAIN task' = Tasks /\ Sound(task[t]) /\ UNCHANGED chain
    BY <1>11, OthersStay, RunningIsSound
  <2>2. UNCHANGED since
    BY <1>11 DEF GotLogs, GotBlocks, Prefetched, GotMeta, Suspend, Commit, CommitFails,
                 RpcFails, CheckpointFails
  <2>3. CASE Commit(t)
    BY <1>1, <1>5, <2>1, <2>2, <2>3, CommitTypes
  <2>4. CASE GotLogs(t) \/ GotBlocks(t) \/ RpcFails(t) \/ CheckpointFails(t)
    BY <1>1, <1>5, <2>1, <2>2, <2>4 DEF GotLogs, GotBlocks, RpcFails, CheckpointFails
  <2>5. CASE Prefetched(t)
    <3>1. task[t].want \in SUBSET Pools
      BY <2>1, SoundFields
    <3> QED
      BY <1>1, <1>5, <2>1, <2>2, <2>5, <3>1 DEF Prefetched, MemSet
  <2>6. CASE GotMeta(t)
    <3>1. task[t].pc = "meta" /\ task[t].todo \subseteq Mined
      BY <2>1, <2>6, LogsMined DEF GotMeta, Sound
    <3>2. PICK e \in task[t].todo : mem' = [mem EXCEPT !.meta = @ \union Log(e).new]
      BY <2>6 DEF GotMeta
    <3>3. Log(e).new \in SUBSET Pools
      BY <1>1, <3>1, LogAt DEF Mined
    <3> QED
      BY <1>1, <1>5, <2>1, <2>2, <2>6, <3>2, <3>3 DEF GotMeta, MemSet
  <2>7. CASE Suspend(t) \/ CommitFails(t)
    <3>1. PICK s : s = Walk(t)
      OBVIOUS
    <3>2. task[t].pc = "loop" /\ UNCHANGED db
      BY <2>7 DEF Suspend, CommitFails
    <3>3. s.pools \in SUBSET Pools
      BY <2>1, <3>1, <3>2, WalkIs
    <3>4. \E P \in SUBSET Pools : mem' = [mem EXCEPT !.pools = P]
      BY <2>7, <3>1, <3>3 DEF Suspend, CommitFails
    <3> QED
      BY <1>1, <1>5, <2>1, <2>2, <3>2, <3>4 DEF MemSet
  <2> QED
    BY <1>11, <2>3, <2>4, <2>5, <2>6, <2>7
<1>12. CASE Crash
  BY <1>1, <1>5, <1>12 DEF Crash, DbSet, MemSet
<1> QED
  BY <1>1, <1>3, <1>4, <1>6, <1>7, <1>8, <1>9, <1>10, <1>11, <1>12 DEF Next, Proceed

\* What a mined block adds to the logs.
LEMMA MineAdds ==
  ASSUME Typed, NEW c \in BlockContents, Mine(c), NEW n, n = Len(chain) + 1
  PROVE  /\ n \in Nat /\ DOMAIN c \subseteq Nat
         /\ Mined' = Mined \union {<<n, i>> : i \in DOMAIN c}
         /\ \A i \in DOMAIN c : Log(<<n, i>>)' = c[i]
         /\ \A e \in Mined : Log(e)' = Log(e) /\ e[1] < n
<1>1. /\ chain \in Seq(BlockContents) /\ Len(chain) \in Nat /\ chain' = Append(chain, c)
      /\ Len(chain) < MaxBlock /\ MaxBlock \in Nat
  BY BoundsAssumption DEF Typed, Mine
<1>2. n \in 1 .. MaxBlock /\ Len(chain') = n /\ chain'[n] = c
      /\ \A i \in 1 .. Len(chain) : chain'[i] = chain[i]
  BY <1>1
<1>3. c \in Seq([from : Addresses, new : SUBSET Pools])
  BY ContentsAssumption
<1>4. DOMAIN c \subseteq Nat
  BY <1>3
<1>5. \A e \in Mined : Log(e)' = Log(e) /\ e[1] < n
  <2>1. \A e \in Mined : e[1] \in 1 .. Len(chain)
    BY <1>1, LogAt DEF Mined
  <2> QED
    BY <1>1, <1>2, <2>1 DEF Log
<1>6. ASSUME NEW e \in Mined' PROVE e \in Mined \/ \E i \in DOMAIN c : e = <<n, i>>
  <2>1. e \in Events /\ 1 <= e[1] /\ e[1] <= n /\ e[2] \in DOMAIN chain'[e[1]] /\ e = <<e[1], e[2]>>
        /\ e[1] \in Nat
    BY <1>2, <1>6 DEF Mined, LogsIn, Events
  <2>2. CASE e[1] = n
    BY <1>2, <2>1, <2>2
  <2>3. CASE e[1] # n
    <3>1. e[1] <= Len(chain) /\ e[1] \in 1 .. Len(chain)
      BY <1>1, <2>1, <2>3
    <3> QED
      BY <1>2, <2>1, <3>1 DEF Mined, LogsIn
  <2> QED
    BY <2>2, <2>3
<1>7. ASSUME NEW i \in DOMAIN c PROVE <<n, i>> \in Mined'
  <2>1. <<n, i>> \in Events
    BY <1>2 DEF Events
  <2> QED
    BY <1>2, <2>1 DEF Mined, LogsIn
<1>8. Mined \subseteq Mined'
  <2>1. Mined' = LogsIn(1, n)'
    BY <1>2 DEF Mined
  <2>2. ASSUME NEW e \in Mined PROVE e \in LogsIn(1, n)'
    <3>1. /\ e \in Events /\ 1 <= e[1] /\ e[1] <= Len(chain) /\ e[2] \in DOMAIN chain[e[1]]
          /\ e[1] \in 1 .. Len(chain)
      BY <1>1, LogAt DEF Mined, LogsIn
    <3> QED
      BY <1>1, <1>2, <3>1 DEF LogsIn
  <2> QED
    BY <2>1, <2>2
<1>9. Mined' = Mined \union {<<n, i>> : i \in DOMAIN c}
  BY <1>6, <1>7, <1>8
<1>10. \A i \in DOMAIN c : Log(<<n, i>>)' = c[i]
  BY <1>2 DEF Log
<1> QED
  BY <1>2, <1>4, <1>5, <1>9, <1>10

\* A block that fits creates new pools and has logs only of created ones.
LEMMA ChainedMine ==
  ASSUME Typed, Chained, NEW c \in BlockContents, Mine(c)
  PROVE  Chained'
<1>1. PICK n : n = Len(chain) + 1
  OBVIOUS
<1>2. /\ n \in Nat /\ DOMAIN c \subseteq Nat
      /\ Mined' = Mined \union {<<n, i>> : i \in DOMAIN c}
      /\ \A i \in DOMAIN c : Log(<<n, i>>)' = c[i]
      /\ \A e \in Mined : Log(e)' = Log(e) /\ e[1] < n
  BY <1>1, MineAdds
<1>3. \A e \in Mined : e[1] \in Nat
  BY TypedFields, LogAt DEF Mined
<1>4. c \in Seq([from : Addresses, new : SUBSET Pools])
  BY ContentsAssumption
<1>5. \A i, j \in DOMAIN c : c[i].new \cap c[j].new # {} => i = j
  BY ContentsAssumption
<1>6. /\ Created(c) \cap CreatedBefore = {}
      /\ \A i \in DOMAIN c : c[i].from \in Creatable =>
           c[i].from \in CreatedBefore \union Created(SubSeq(c, 1, i - 1))
  BY DEF Mine, Fits
<1>7. \A p : p \in CreatedBefore <=> \E e \in Mined : p \in Log(e).new
  <2>1. ASSUME NEW p, p \in CreatedBefore PROVE \E e \in Mined : p \in Log(e).new
    <3>1. PICK b \in DOMAIN chain : p \in Created(chain[b])
      BY <2>1 DEF CreatedBefore
    <3>2. PICK i \in DOMAIN chain[b] : p \in chain[b][i].new
      BY <3>1 DEF Created
    <3>3. b \in 1 .. Len(chain) /\ b \in 1 .. MaxBlock /\ chain[b] \in BlockContents
      BY BoundsAssumption, <3>1 DEF Typed
    <3>4. <<b, i>> \in Mined
      BY <3>2, <3>3 DEF Mined, LogsIn, Events
    <3> QED
      BY <3>2, <3>4 DEF Log
  <2>2. ASSUME NEW e \in Mined, NEW p \in Log(e).new PROVE p \in CreatedBefore
    <3>1. e[1] \in 1 .. Len(chain) /\ e[2] \in DOMAIN chain[e[1]]
      BY TypedFields, LogAt DEF Mined
    <3>2. e[1] \in DOMAIN chain
      BY <3>1 DEF Typed
    <3> QED
      BY <2>2, <3>1, <3>2 DEF CreatedBefore, Created, Log
  <2> QED
    BY <2>1, <2>2
<1>8. ASSUME NEW e \in Mined', Log(e)'.from \in Creatable
      PROVE  \E d \in Mined' : Log(e)'.from \in Log(d)'.new /\ Before(d, e)
  <2>1. CASE e \in Mined
    BY <1>2, <1>8, <2>1 DEF Chained
  <2>2. CASE \E i \in DOMAIN c : e = <<n, i>>
    <3>1. PICK i \in DOMAIN c : e = <<n, i>>
      BY <2>2
    <3>2. c[i].from \in CreatedBefore \union Created(SubSeq(c, 1, i - 1))
      BY <1>2, <1>6, <1>8, <3>1
    <3>3. CASE c[i].from \in CreatedBefore
      <4>1. PICK d \in Mined : c[i].from \in Log(d).new
        BY <1>7, <3>3
      <4> QED
        BY <1>2, <3>1, <4>1 DEF Before
    <3>4. CASE c[i].from \in Created(SubSeq(c, 1, i - 1))
      <4>1. i \in Nat /\ i <= Len(c) /\ 1 <= i
        BY <1>4
      <4>2. DOMAIN SubSeq(c, 1, i - 1) = 1 .. i - 1
            /\ \A j \in 1 .. i - 1 : SubSeq(c, 1, i - 1)[j] = c[j] /\ j \in DOMAIN c
        BY <1>4, <4>1
      <4>3. PICK j \in 1 .. i - 1 : c[i].from \in c[j].new
        BY <3>4, <4>2 DEF Created
      <4>4. j < i /\ j \in DOMAIN c
        BY <4>1, <4>2, <4>3
      <4>5. <<n, j>> \in Mined' /\ Log(<<n, j>>)' = c[j] /\ Log(e)' = c[i]
        BY <1>2, <3>1, <4>4
      <4>6. Before(<<n, j>>, e)
        BY <3>1, <4>4 DEF Before
      <4> QED
        BY <4>3, <4>5, <4>6
    <3> QED
      BY <3>2, <3>3, <3>4
  <2> QED
    BY <1>2, <2>1, <2>2
<1>9. ASSUME NEW d \in Mined', NEW e \in Mined', Log(d)'.new \cap Log(e)'.new # {}
      PROVE  d = e
  <2>1. ASSUME NEW x \in Mined, NEW i \in DOMAIN c PROVE Log(x)'.new \cap c[i].new = {}
    BY <1>2, <1>6, <1>7, <2>1 DEF Created
  <2>2. CASE d \in Mined /\ e \in Mined
    BY <1>2, <1>9, <2>2 DEF Chained
  <2>3. CASE d \notin Mined /\ e \notin Mined
    BY <1>2, <1>5, <1>9, <2>3
  <2> QED
    BY <1>2, <1>9, <2>1, <2>2, <2>3
<1> QED
  BY <1>8, <1>9 DEF Chained

\* Only a new block changes the chain.
LEMMA ChainStays ==
  ASSUME Typed, [Next]_vars, ~\E c \in BlockContents : Mine(c)
  PROVE  UNCHANGED chain
<1>1. ASSUME NEW t \in Tasks, Proceed(t) \/ CommitFails(t) \/ RpcFails(t) \/ CheckpointFails(t)
      PROVE  UNCHANGED chain
  BY <1>1, OthersStay DEF Proceed
<1> QED
  BY <1>1 DEF Next, AddPool, AddFactory, PollHead, PollCheckpoint, StartFill, FillCheckpoint,
              FinishFill, Crash, Typed, vars

\* Every step keeps the order of the chain.
LEMMA ChainedNext ==
  ASSUME Typed, Chained, [Next]_vars
  PROVE  Chained'
<1>1. CASE UNCHANGED chain
  BY <1>1 DEF Chained, Mined, LogsIn, Log
<1> QED
  BY <1>1, ChainedMine, ChainStays

-----------------------------------------------------------------------------
(* The tables. *)

\* The steps that write the database, and those that change what is registered.
LEMMA WritingSteps ==
  ASSUME Typed, TasksSound, [Next]_vars
  PROVE  \/ UNCHANGED <<db, since>>
         \/ \E p \in UserPools : AddPool(p)
         \/ \E f \in Factories : AddFactory(f)
         \/ \E t \in Tasks : \E addrs, b : Checkpoints(t, addrs, b)
         \/ \E t \in Tasks : Commit(t)
<1>1. PollCheckpoint \/ FillCheckpoint \/ FinishFill =>
        \E t \in Tasks : \E addrs, b : Checkpoints(t, addrs, b)
  BY CheckpointSteps
<1> QED
  BY <1>1 DEF Next, Proceed, Mine, PollHead, StartFill, GotLogs, GotBlocks, Prefetched, GotMeta,
              Suspend, CommitFails, RpcFails, CheckpointFails, Crash, Typed, vars

\* The steps that change what is registered.
LEMMA RegisteringSteps ==
  ASSUME Typed, TasksSound, [Next]_vars
  PROVE  \/ /\ mem'.pools = mem.pools /\ mem'.factories = mem.factories
            /\ db'.pools = db.pools /\ db'.factories = db.factories
         \/ \E p \in UserPools : AddPool(p)
         \/ \E f \in Factories : AddFactory(f)
         \/ \E t \in Tasks : Suspend(t) \/ Commit(t) \/ CommitFails(t)
         \/ Crash
<1>1. PollCheckpoint \/ FillCheckpoint \/ FinishFill =>
        UNCHANGED mem /\ db'.pools = db.pools /\ db'.factories = db.factories
  BY CheckpointSteps, CheckpointsGive DEF Checkpoints
<1>2. ASSUME NEW t \in Tasks, Prefetched(t) \/ GotMeta(t)
      PROVE  mem'.pools = mem.pools /\ mem'.factories = mem.factories /\ UNCHANGED db
  BY <1>2 DEF Prefetched, GotMeta, Typed
<1> QED
  BY <1>1, <1>2 DEF Next, Proceed, Mine, PollHead, StartFill, GotLogs, GotBlocks,
                    RpcFails, CheckpointFails, Typed, vars

\* What a loop that ends, waits or fails does to what is registered.
LEMMA LoopRegisters ==
  ASSUME Typed, TasksSound, NEW t \in Tasks, Suspend(t) \/ Commit(t) \/ CommitFails(t),
         NEW s, s = Walk(t)
  PROVE  /\ Sound(task[t]) /\ task[t].pc = "loop"
         /\ mem.pools \subseteq mem'.pools /\ mem'.pools \subseteq s.pools
         /\ ~CommitFails(t) => mem'.pools = s.pools
         /\ mem'.factories = mem.factories /\ mem'.meta = mem.meta
         /\ ~Commit(t) => UNCHANGED db
         /\ Commit(t) => db'.pools = db.pools \union s.added /\ db'.factories = db.factories
         /\ UNCHANGED <<chain, since>>
<1>1. Sound(task[t]) /\ task[t].pc = "loop"
  BY RunningIsSound DEF Suspend, Commit, CommitFails
<1>2. mem.pools \subseteq s.pools
  BY <1>1, WalkIs
<1>3. CASE Suspend(t)
  BY <1>1, <1>2, <1>3, SuspendGives DEF Typed, Commit
<1>4. CASE Commit(t)
  <2>1. /\ mem' = [mem EXCEPT !.pools = s.pools]
        /\ db'.pools = db.pools \union s.added /\ db'.factories = db.factories
        /\ UNCHANGED <<chain, since>>
    BY <1>4, CommitGives
  <2>2. mem'.pools = s.pools /\ mem'.factories = mem.factories /\ mem'.meta = mem.meta
    BY <2>1 DEF Typed
  <2> QED
    BY <1>1, <1>2, <1>4, <2>1, <2>2
<1>5. CASE CommitFails(t) /\ ~Suspend(t) /\ ~Commit(t)
  <2>1. /\ \E P \in SUBSET s.pools : mem.pools \subseteq P /\ mem' = [mem EXCEPT !.pools = P]
        /\ UNCHANGED <<chain, db, since>>
    BY <1>2, <1>5 DEF CommitFails
  <2> QED
    BY <1>1, <1>5, <2>1 DEF Typed
<1> QED
  BY <1>3, <1>4, <1>5

\* What is registered for good is known to the process.
LEMMA RegisteredNext ==
  ASSUME Typed, TasksSound, TypeOK, [Next]_vars
  PROVE  db'.pools \subseteq mem'.pools /\ db'.factories = mem'.factories
<1>1. db.pools \subseteq mem.pools /\ db.factories = mem.factories
  BY DEF TypeOK
<1>2. CASE \E p \in UserPools : AddPool(p)
  BY <1>1, <1>2 DEF AddPool, Typed
<1>3. CASE \E f \in Factories : AddFactory(f)
  BY <1>1, <1>3 DEF AddFactory, Typed
<1>4. CASE Crash
  BY <1>4 DEF Crash
<1>5. ASSUME NEW t \in Tasks, Suspend(t) \/ Commit(t) \/ CommitFails(t)
      PROVE  db'.pools \subseteq mem'.pools /\ db'.factories = mem'.factories
  <2>1. PICK s : s = Walk(t)
    OBVIOUS
  <2>2. /\ Sound(task[t]) /\ task[t].pc = "loop"
        /\ mem.pools \subseteq mem'.pools /\ (~CommitFails(t) => mem'.pools = s.pools)
        /\ mem'.factories = mem.factories
        /\ ~Commit(t) => UNCHANGED db
        /\ Commit(t) => db'.pools = db.pools \union s.added /\ db'.factories = db.factories
    BY <1>5, <2>1, LoopRegisters
  <2>3. s.added \subseteq s.pools
    BY <2>1, <2>2, WalkIs
  <2>4. CASE Commit(t)
    <3>1. mem'.pools = s.pools
      BY <2>1, <2>2, <2>4, CommitGives
    <3> QED
      BY <1>1, <2>2, <2>3, <2>4, <3>1
  <2> QED
    BY <1>1, <2>2, <2>4
<1> QED
  BY <1>1, <1>2, <1>3, <1>4, <1>5, RegisteringSteps

\* A row is a copy of a log that was mined.
LEMMA RowsNext ==
  ASSUME Typed, TasksSound, TypeOK, [Next]_vars
  PROVE  \A e \in Events : db'.rows[e] > 0 => e \in LogsIn(1, MaxBlock)'
<1>1. \A e \in LogsIn(1, MaxBlock) : e \in LogsIn(1, MaxBlock)'
  <2>1. CASE UNCHANGED chain
    BY <2>1 DEF LogsIn
  <2>2. CASE \E c \in BlockContents : Mine(c)
    <3>1. PICK c \in BlockContents : Mine(c)
      BY <2>2
    <3>2. chain \in Seq(BlockContents) /\ chain' = Append(chain, c) /\ Len(chain) \in Nat
      BY <3>1 DEF Mine, Typed
    <3>3. Len(chain') = Len(chain) + 1 /\ \A i \in 1 .. Len(chain) : chain'[i] = chain[i]
      BY <3>2
    <3>4. \A e \in Events : e[1] \in Nat
      BY BoundsAssumption DEF Events
    <3> QED
      BY <3>2, <3>3, <3>4 DEF LogsIn
  <2> QED
    BY <2>1, <2>2, ChainStays
<1>2. ASSUME NEW t \in Tasks, Commit(t), NEW e \in Events, db'.rows[e] > 0
      PROVE  db.rows[e] > 0 \/ e \in LogsIn(1, MaxBlock)
  <2>1. PICK s : s = Walk(t)
    OBVIOUS
  <2>2. task[t].pc = "loop" /\ Sound(task[t])
    BY <1>2, RunningIsSound DEF Commit
  <2>3. /\ db'.rows = [d \in Events |-> IF d \in s.pend THEN db.rows[d] + 1 ELSE db.rows[d]]
    BY <1>2, <2>1, <2>2, CommitGives
  <2>4. s.pend \subseteq task[t].logs
    BY <2>1, <2>2, WalkIs DEF Sound
  <2>5. task[t].logs \subseteq Mined
    BY <2>2, LogsMined
  <2>6. Mined \subseteq LogsIn(1, MaxBlock)
    <3>1. \A d \in Events : d[1] \in 1 .. MaxBlock
      BY DEF Events
    <3> QED
      BY <3>1, BoundsAssumption DEF Mined, LogsIn
  <2> QED
    BY <1>2, <2>3, <2>4, <2>5, <2>6
<1>3. CASE UNCHANGED db \/ \E t \in Tasks : \E addrs, b : Checkpoints(t, addrs, b)
  <2>1. db'.rows = db.rows
    BY <1>3, CheckpointsGive DEF Checkpoints
  <2> QED
    BY <1>1, <2>1 DEF TypeOK
<1>4. CASE \E p \in UserPools : AddPool(p)
  <2>1. db'.rows = db.rows
    BY <1>4 DEF AddPool, Typed
  <2> QED
    BY <1>1, <2>1 DEF TypeOK
<1>5. CASE \E f \in Factories : AddFactory(f)
  <2>1. db'.rows = db.rows
    BY <1>5 DEF AddFactory, Typed
  <2> QED
    BY <1>1, <2>1 DEF TypeOK
<1>6. CASE \E t \in Tasks : Commit(t)
  BY <1>1, <1>2, <1>6 DEF TypeOK
<1> QED
  BY <1>3, <1>4, <1>5, <1>6, WritingSteps

\* A checkpoint is a mined block, and accounts for some blocks.
LEMMA CheckpointsNext ==
  ASSUME Typed, TasksSound, TypeOK, [Next]_vars
  PROVE  \A a \in Addresses : db'.ckpt[a] <= Len(chain') /\ (db'.ckpt[a] > 0 <=> since'[a] > 0)
<1>1. Len(chain) \in Nat /\ Len(chain') \in Nat /\ Len(chain) <= Len(chain')
  <2>1. CASE UNCHANGED chain
    BY <2>1, TypedFields
  <2>2. CASE \E c \in BlockContents : Mine(c)
    <3>1. ChainGrows
      BY <2>2, MineGrows
    <3>2. Len(chain') \in Nat
      BY TypedNext DEF Typed
    <3> QED
      BY <3>1, <3>2, TypedFields DEF ChainGrows
  <2> QED
    BY <2>1, <2>2, ChainStays
<1>2. CASE db'.ckpt = db.ckpt /\ UNCHANGED since
  BY <1>1, <1>2, TypedFields DEF TypeOK
<1>3. CASE \E t \in Tasks : \E addrs, b : Checkpoints(t, addrs, b)
  <2>1. PICK t, addrs, b : t \in Tasks /\ Checkpoints(t, addrs, b)
    BY <1>3
  <2>2. b \in Nat /\ 1 <= b /\ b <= Len(chain) /\ UNCHANGED chain /\ Sound(task[t])
    BY <2>1 DEF Checkpoints
  <2>3. \A a \in Addresses :
          /\ db'.ckpt[a] = IF a \in addrs THEN b ELSE db.ckpt[a]
          /\ since'[a] = IF a \notin addrs \/ since[a] > 0 THEN since[a]
                         ELSE IF a \in task[t].known \union task[t].added
                              THEN task[t].start ELSE b + 1
    BY <2>1, <2>2, CheckpointsGive DEF Checkpoints
  <2>4. task[t].start \in Nat /\ 1 <= task[t].start
    BY <2>2, SoundFields DEF Sound
  <2>5. \A a \in Addresses : since[a] \in Nat
    BY DEF Typed
  <2>6. \A a \in Addresses : db.ckpt[a] <= Len(chain) /\ (db.ckpt[a] > 0 <=> since[a] > 0)
    BY DEF TypeOK
  <2> QED
    BY <2>2, <2>3, <2>4, <2>5, <2>6
<1>4. CASE \E p \in UserPools : AddPool(p)
  BY <1>2, <1>4 DEF AddPool, Typed
<1>5. CASE \E f \in Factories : AddFactory(f)
  BY <1>2, <1>5 DEF AddFactory, Typed
<1>6. CASE \E t \in Tasks : Commit(t)
  <2>1. PICK t \in Tasks : Commit(t)
    BY <1>6
  <2>2. Sound(task[t])
    BY <2>1, RunningIsSound DEF Commit
  <2>3. db'.ckpt = db.ckpt /\ UNCHANGED since
    BY <2>1, <2>2, CommitGives
  <2> QED
    BY <1>2, <2>3
<1> QED
  BY <1>2, <1>3, <1>4, <1>5, <1>6, WritingSteps

\* A session that was suspended before still waits for a factory's log.
LEMMA WaitsOn ==
  ASSUME Typed, TasksSound, TypeOK, Grows, NEW t \in Tasks, task[t].pc = "meta"
  PROVE  \E e \in task[t].todo : Log(e)'.from \in mem'.factories
<1>1. PICK e \in task[t].todo : Log(e).from \in mem.factories
  BY DEF TypeOK, Typed
<1>2. Sound(task[t])
  BY RunningIsSound
<1>3. e \in Mined
  BY <1>2, LogsMined DEF Sound
<1> QED
  BY <1>1, <1>3 DEF Grows, ChainGrows

\* A session that is suspended now waits for a log of a factory.
LEMMA SuspendWaits ==
  ASSUME Typed, TasksSound, Grows, NEW t \in Tasks, Suspend(t)
  PROVE  \E e \in task'[t].todo : Log(e)'.from \in mem'.factories
<1>1. PICK s : s = Walk(t)
  OBVIOUS
<1>2. PICK k : k = task'[t]
  OBVIOUS
<1>3. task[t].pc = "loop" /\ Sound(task[t])
  BY RunningIsSound DEF Suspend
<1>4. s.stuck /\ k.todo = task[t].todo \ s.done
  BY <1>1, <1>2, <1>3, SuspendGives
<1>5. PICK w \in WaitsFor(t) : TRUE
  BY <1>1, <1>3, <1>4, WalkIs
<1>6. w \in task[t].todo /\ Log(w).from \in mem.factories
  BY <1>5 DEF WaitsFor
<1>7. w \in Mined
  BY <1>3, <1>6, LogsMined DEF Sound
<1>8. w \notin s.done
  BY <1>1, <1>3, <1>5, <1>7, WalkIs, BeforeOrder DEF HandledBy
<1> QED
  BY <1>2, <1>4, <1>6, <1>7, <1>8 DEF Grows, ChainGrows

\* Where a step leaves a task.
LEMMA TaskMoves ==
  ASSUME Typed, TasksSound, [Next]_vars, NEW t \in Tasks
  PROVE  \/ task'[t] = task[t]
         \/ task'[t].pc \in {"idle", "logs", "ckpt", "final"}
         \/ GotLogs(t) \/ GotBlocks(t) \/ Prefetched(t) \/ GotMeta(t) \/ Suspend(t)
<1>1. ASSUME NEW u \in Tasks,
             \/ GotLogs(u) \/ GotBlocks(u) \/ Prefetched(u) \/ GotMeta(u) \/ Suspend(u)
             \/ Commit(u) \/ CommitFails(u) \/ RpcFails(u) \/ CheckpointFails(u)
      PROVE  \/ task'[t] = task[t]
             \/ task'[t].pc \in {"idle", "ckpt"}
             \/ GotLogs(t) \/ GotBlocks(t) \/ Prefetched(t) \/ GotMeta(t) \/ Suspend(t)
  <2>1. \A x \in Tasks \ {u} : task'[x] = task[x]
    BY <1>1, OthersStay
  <2>2. CASE Commit(u)
    <3>1. Sound(task[u])
      BY <1>1, OthersStay, RunningIsSound
    <3>2. task'[u].pc = "ckpt"
      BY <2>2, <3>1, CommitScope
    <3> QED
      BY <2>1, <3>2
  <2>3. CASE CommitFails(u) \/ RpcFails(u) \/ CheckpointFails(u)
    <3>1. task'[u].pc = "idle"
      BY <2>3, OthersStay DEF Resting
    <3> QED
      BY <2>1, <3>1
  <2> QED
    BY <1>1, <2>1, <2>2, <2>3
<1>2. CASE PollHead \/ PollCheckpoint
  <2>1. \A x \in Tasks \ {"poll"} : task'[x] = task[x]
    BY <1>2 DEF PollHead, PollCheckpoint, Rest, Typed
  <2>2. task'["poll"].pc \in {"idle", "logs"}
    BY <1>2 DEF PollHead, PollCheckpoint, Rest, Resting, Request, Typed, Tasks
  <2> QED
    BY <2>1, <2>2
<1>3. CASE FillCheckpoint \/ FinishFill
  <2>1. \A x \in Tasks \ {"fill"} : task'[x] = task[x]
    BY <1>3 DEF FillCheckpoint, FinishFill, Rest, Typed
  <2>2. task'["fill"].pc \in {"idle", "logs", "final"}
    <3>1. CASE FinishFill
      BY <3>1 DEF FinishFill, Rest, Resting, Typed, Tasks
    <3>2. CASE FillCheckpoint
      <4>1. task["fill"].pc = "ckpt" /\ "fill" \in Tasks
        BY <3>2 DEF FillCheckpoint, Tasks
      <4>2. PICK l : l = task["fill"]
        OBVIOUS
      <4>3. l \in Locals
        BY <4>1, <4>2, RunningIsSound DEF Sound
      <4>4. task'["fill"] = IF l.end = l.to THEN [l EXCEPT !.pc = "final"]
                            ELSE Batch(l.end + 1, l.to, l.start, l.known, l.only)
        BY <3>2, <4>1, <4>2 DEF FillCheckpoint, Typed
      <4>5. [l EXCEPT !.pc = "final"].pc = "final"
        BY <4>3 DEF Locals
      <4>6. Batch(l.end + 1, l.to, l.start, l.known, l.only).pc = "logs"
        BY DEF Batch, Request
      <4> QED
        BY <4>4, <4>5, <4>6
    <3> QED
      BY <1>3, <3>1, <3>2
  <2> QED
    BY <2>1, <2>2
<1>4. CASE \E from, to \in 1 .. MaxBlock, only \in {{}} \union {{p} : p \in UserPools} :
             StartFill(from, to, only)
  <2>1. \A x \in Tasks \ {"fill"} : task'[x] = task[x]
    BY <1>4 DEF StartFill, Typed
  <2>2. task'["fill"].pc = "logs"
    BY <1>4 DEF StartFill, Batch, Request, Typed, Tasks
  <2> QED
    BY <2>1, <2>2
<1>5. CASE Crash
  BY <1>5 DEF Crash, Typed, Resting
<1> QED
  BY <1>1, <1>2, <1>3, <1>4, <1>5 DEF Next, Proceed, Mine, AddPool, AddFactory, Typed, vars

\* Every suspended session has a log left to wait for.
LEMMA SuspendedNext ==
  ASSUME Typed, TasksSound, TypeOK, [Next]_vars, NEW t \in Tasks, task'[t].pc = "meta"
  PROVE  \E e \in task'[t].todo : Log(e)'.from \in mem'.factories
<1>1. ~Crash
  BY DEF Crash, Typed, Resting
<1>2. Grows
  BY <1>1, NextGrows
<1>3. PICK k : k = task'[t]
  OBVIOUS
<1>4. CASE task'[t] = task[t]
  BY <1>2, <1>4, WaitsOn
<1>5. CASE GotLogs(t)
  <2>1. Sound(task[t])
    BY <1>5, RunningIsSound DEF GotLogs
  <2> QED
    BY <1>3, <1>5, <2>1, GotLogsGives
<1>6. CASE GotBlocks(t)
  <2>1. Sound(task[t])
    BY <1>6, RunningIsSound DEF GotBlocks
  <2> QED
    BY <1>3, <1>6, <2>1, GotBlocksGives
<1>7. CASE Prefetched(t) \/ GotMeta(t)
  <2>1. Sound(task[t])
    BY <1>7, RunningIsSound DEF Prefetched, GotMeta
  <2> QED
    BY <1>3, <1>7, <2>1, GotTokensGives
<1>8. CASE Suspend(t)
  BY <1>2, <1>8, SuspendWaits
<1> QED
  BY <1>4, <1>5, <1>6, <1>7, <1>8, TaskMoves

\* Every step keeps the type invariant.
LEMMA TypeOKNext ==
  ASSUME Typed, TasksSound, TypeOK, [Next]_vars
  PROVE  TypeOK'
<1>1. Typed'
  BY TypedNext
<1>2. mem'.pools \subseteq Pools /\ DOMAIN task' = Tasks
  BY <1>1 DEF Typed
<1> QED
  BY <1>2, RegisteredNext, RowsNext, CheckpointsNext, SuspendedNext DEF TypeOK

-----------------------------------------------------------------------------
(* While the user registers nothing in between, no session is ever suspended. *)

\* The counts of the faults never go down.
LEMMA FaultsGrow ==
  ASSUME Typed, [Next]_vars
  PROVE  /\ faults'.late = 0 => faults.late = 0
         /\ faults'.write = 0 => faults.write = 0
         /\ faults'.fill = 0 => faults.fill = 0
<1>1. /\ faults \in [crash : Nat, rpc : Nat, write : Nat, fill : Nat, late : Nat]
      /\ DOMAIN task = Tasks
  BY DEF Typed
<1>2. CASE \/ UNCHANGED faults
           \/ faults' = [faults EXCEPT !.late = faults.late + 1]
           \/ faults' = [faults EXCEPT !.late = faults.late]
           \/ faults' = [faults EXCEPT !.write = faults.write + 1]
           \/ faults' = [faults EXCEPT !.fill = faults.fill + 1]
           \/ faults' = [faults EXCEPT !.rpc = faults.rpc + 1]
           \/ faults' = [faults EXCEPT !.crash = faults.crash + 1]
  BY <1>1, <1>2
<1>3. MayRegister => \/ faults' = [faults EXCEPT !.late = faults.late + 1]
                     \/ faults' = [faults EXCEPT !.late = faults.late]
  BY DEF MayRegister
<1>4. CASE \E p \in UserPools : AddPool(p)
  BY <1>2, <1>3, <1>4 DEF AddPool
<1>5. CASE \E f \in Factories : AddFactory(f)
  BY <1>2, <1>3, <1>5 DEF AddFactory
<1>6. CASE Crash
  BY <1>2, <1>6 DEF Crash
<1>7. CASE \E from, to \in 1 .. MaxBlock, only \in {{}} \union {{p} : p \in UserPools} :
             StartFill(from, to, only)
  BY <1>2, <1>7 DEF StartFill
<1>8. CASE \E t \in Tasks : CommitFails(t)
  <2>1. faults' = [faults EXCEPT !.write = faults.write + 1] \/ UNCHANGED faults
    BY <1>8 DEF CommitFails
  <2> QED
    BY <1>2, <2>1
<1>9. CASE \E t \in Tasks : RpcFails(t)
  BY <1>2, <1>9 DEF RpcFails
<1> QED
  BY <1>1, <1>2, <1>4, <1>5, <1>6, <1>7, <1>8, <1>9
  DEF Next, Proceed, Mine, PollHead, PollCheckpoint, FillCheckpoint, FinishFill, GotLogs,
      GotBlocks, Prefetched, GotMeta, Suspend, Commit, CheckpointFails, vars

\* A registration that is not late finds both tasks at rest.
LEMMA RegistrationRests ==
  ASSUME Typed, faults'.late = 0, MayRegister
  PROVE  \A t \in Tasks : task[t].pc = "idle"
<1>1. faults \in [crash : Nat, rpc : Nat, write : Nat, fill : Nat, late : Nat]
  BY DEF Typed
<1>2. AllRest \/ faults' = [faults EXCEPT !.late = faults.late + 1]
  BY DEF MayRegister
<1>3. AllRest
  BY <1>1, <1>2
<1> QED
  BY <1>3 DEF AllRest, Typed

\* A steady task stays so while others move.
LEMMA SteadyStays ==
  ASSUME Typed, ChainGrows, mem'.factories = mem.factories, mem.meta \subseteq mem'.meta,
         NEW l, Sound(l), Steady(l)
  PROVE  Steady(l)'
<1>1. ASSUME l.pc # "logs" PROVE CreatedBy(l.logs)' = CreatedBy(l.logs)
  <2>1. \A e \in l.logs : Log(e)' = Log(e)
    BY <1>1, LogsMined DEF ChainGrows
  <2> QED
    BY <2>1 DEF CreatedBy
<1> QED
  BY <1>1 DEF Steady

\* A loop that starts with all it needs goes through without waiting.
LEMMA SteadyLoop ==
  ASSUME Typed, TasksSound, NEW t \in Tasks, task[t].pc = "loop", Steady(task[t]),
         NEW s, s = Walk(t)
  PROVE  /\ ~s.stuck /\ s.done = task[t].todo
         /\ s.pend = {e \in s.done : Ours(t, e) /\ db.rows[e] = 0}
         /\ s.added = (CreatedBy(s.done) \ mem.pools) \ db.pools
         /\ s.pools = mem.pools \union CreatedBy(s.done)
<1>1. Sound(task[t])
  BY RunningIsSound
<1>2. /\ CreatedBy(task[t].logs) \subseteq mem.meta /\ task[t].pend = {} /\ task[t].added = {}
      /\ task[t].todo \subseteq task[t].logs
  BY <1>1 DEF Steady, Sound
<1>3. WaitsFor(t) = {}
  BY <1>2 DEF WaitsFor, CreatedBy
<1> QED
  BY <1>1, <1>2, <1>3, WalkIs

\* So two sessions never meet, and only the database can refuse a transaction.
LEMMA SteadyCommits ==
  ASSUME Typed, TasksSound, Settled, faults.late = 0, NEW t \in Tasks
  PROVE  /\ ~Suspend(t) /\ ~GotMeta(t)
         /\ CommitFails(t) => faults'.write # 0
<1>1. \A u \in Tasks : Steady(task[u])
  BY DEF Settled
<1>2. Unlocked(t) /\ task[t].pc # "meta"
  BY <1>1 DEF Steady, Unlocked, Typed
<1>3. PICK s : s = Walk(t)
  OBVIOUS
<1>4. ASSUME task[t].pc = "loop" PROVE ~s.stuck /\ s.added \cap db.pools = {}
  BY <1>1, <1>3, <1>4, SteadyLoop
<1>5. ~Suspend(t)
  BY <1>3, <1>4 DEF Suspend
<1>6. ASSUME CommitFails(t) PROVE faults'.write # 0
  <2>1. task[t].pc = "loop"
    BY <1>6 DEF CommitFails
  <2>2. faults' = [faults EXCEPT !.write = faults.write + 1]
    BY <1>2, <1>3, <1>4, <1>6, <2>1 DEF CommitFails
  <2>3. faults \in [crash : Nat, rpc : Nat, write : Nat, fill : Nat, late : Nat]
    BY DEF Typed
  <2> QED
    BY <2>2, <2>3
<1> QED
  BY <1>2, <1>5, <1>6 DEF GotMeta

\* No log gets a second row.
LEMMA RowsSettled ==
  ASSUME Typed, TasksSound, Settled, [Next]_vars, faults'.late = 0
  PROVE  \A e \in Events : db'.rows[e] <= 1
<1>1. faults.late = 0
  BY FaultsGrow
<1>2. \A e \in Events : db.rows[e] <= 1
  BY <1>1 DEF Settled
<1>3. CASE \E t \in Tasks : Commit(t)
  <2>1. PICK t \in Tasks : Commit(t)
    BY <1>3
  <2>2. PICK s : s = Walk(t)
    OBVIOUS
  <2>3. task[t].pc = "loop" /\ Sound(task[t]) /\ Steady(task[t])
    BY <1>1, <2>1, RunningIsSound DEF Commit, Settled
  <2>4. \A e \in s.pend : db.rows[e] = 0
    BY <2>2, <2>3, SteadyLoop
  <2>5. db'.rows = [e \in Events |-> IF e \in s.pend THEN db.rows[e] + 1 ELSE db.rows[e]]
    BY <2>1, <2>2, <2>3, CommitGives
  <2> QED
    BY <1>2, <2>4, <2>5
<1>4. CASE db'.rows = db.rows
  BY <1>2, <1>4
<1>5. CASE \E t \in Tasks : \E addrs, b : Checkpoints(t, addrs, b)
  BY <1>4, <1>5, CheckpointsGive DEF Checkpoints
<1> QED
  BY <1>3, <1>4, <1>5, WritingSteps DEF AddPool, AddFactory, Typed

\* No pool is known to the process only.
LEMMA PoolsSettled ==
  ASSUME Typed, TasksSound, Settled, [Next]_vars, faults'.late = 0, faults'.write = 0
  PROVE  mem'.pools \subseteq db'.pools
<1>1. faults.late = 0 /\ faults.write = 0
  BY FaultsGrow
<1>2. mem.pools \subseteq db.pools
  BY <1>1 DEF Settled
<1>3. ASSUME NEW t \in Tasks, Commit(t)
      PROVE  mem'.pools \subseteq db'.pools
  <2>1. PICK s : s = Walk(t)
    OBVIOUS
  <2>2. task[t].pc = "loop" /\ Sound(task[t]) /\ Steady(task[t])
    BY <1>1, <1>3, RunningIsSound DEF Commit, Settled
  <2>3. /\ s.added = (CreatedBy(s.done) \ mem.pools) \ db.pools
        /\ s.pools = mem.pools \union CreatedBy(s.done)
    BY <2>1, <2>2, SteadyLoop
  <2>4. mem'.pools = s.pools /\ db'.pools = db.pools \union s.added
    BY <1>3, <2>1, <2>2, CommitGives
  <2> QED
    BY <1>2, <2>3, <2>4
<1>4. CASE \E p \in UserPools : AddPool(p)
  BY <1>2, <1>4 DEF AddPool, Typed
<1>5. CASE \E f \in Factories : AddFactory(f)
  BY <1>2, <1>5 DEF AddFactory, Typed
<1>6. CASE Crash
  BY <1>6 DEF Crash
<1>7. \A t \in Tasks : ~Suspend(t) /\ ~CommitFails(t)
  BY <1>1, SteadyCommits
<1> QED
  BY <1>2, <1>3, <1>4, <1>5, <1>6, <1>7, RegisteringSteps

\* No loop gets to wait.
LEMMA SteadyNext ==
  ASSUME Typed, TasksSound, Settled, [Next]_vars, faults'.late = 0, NEW t \in Tasks
  PROVE  Steady(task[t])'
<1>1. faults.late = 0
  BY FaultsGrow
<1>2. Steady(task[t])
  BY <1>1 DEF Settled
<1>3. PICK l : l = task[t]
  OBVIOUS
<1>4. PICK k : k = task'[t]
  OBVIOUS
<1>5. SUFFICES Steady(k)'
  BY <1>4
<1>6. CASE k.pc \in {"idle", "logs", "blocks", "ckpt", "final"}
  BY <1>6 DEF Steady
<1>7. CASE k = l /\ k.pc # "idle"
  <2>1. ~Crash
    <3>1. Crash => task'[t] = Resting
      BY DEF Crash, Typed
    <3>2. Resting.pc = "idle"
      BY DEF Resting
    <3> QED
      BY <1>4, <1>7, <3>1, <3>2
  <2>2. ~MayRegister
    BY <1>3, <1>7, RegistrationRests
  <2>3. ChainGrows
    BY <2>1, NextGrows DEF Grows
  <2>4. mem'.factories = mem.factories /\ mem.meta \subseteq mem'.meta
    <3>1. ASSUME NEW u \in Tasks, Suspend(u) \/ Commit(u) \/ CommitFails(u)
          PROVE  mem'.factories = mem.factories /\ mem.meta \subseteq mem'.meta
      BY <3>1, LoopRegisters
    <3>2. ASSUME NEW u \in Tasks, Prefetched(u) \/ GotMeta(u)
          PROVE  mem'.factories = mem.factories /\ mem.meta \subseteq mem'.meta
      BY <3>2 DEF Prefetched, GotMeta, Typed
    <3> QED
      BY <2>1, <2>2, <3>1, <3>2
      DEF Next, Proceed, Mine, AddPool, AddFactory, PollHead, PollCheckpoint, StartFill,
          FillCheckpoint, FinishFill, GotLogs, GotBlocks, RpcFails, CheckpointFails, Typed, vars
  <2>5. Sound(l)
    BY <1>3, <1>7, RunningIsSound
  <2> QED
    BY <1>2, <1>3, <1>7, <2>3, <2>4, <2>5, SteadyStays
<1>8. CASE GotLogs(t)
  <2>1. Sound(l) /\ UNCHANGED <<chain, mem>>
    BY <1>3, <1>8, RunningIsSound DEF GotLogs
  <2>2. /\ k.pc \in {"ckpt", "blocks", "prefetch", "loop"} /\ k.pend = {} /\ k.added = {}
        /\ k.pc = "prefetch" => CreatedBy(k.logs) \subseteq mem.meta \union k.want
        /\ k.pc = "loop" => CreatedBy(k.logs) \subseteq mem.meta
    BY <1>3, <1>4, <1>8, <2>1, GotLogsGives
  <2> QED
    BY <2>1, <2>2 DEF Steady, CreatedBy, Log
<1>9. CASE GotBlocks(t)
  <2>1. Sound(l) /\ UNCHANGED <<chain, mem>>
    BY <1>3, <1>9, RunningIsSound DEF GotBlocks
  <2>2. /\ k.pc \in {"prefetch", "loop"} /\ k.pend = {} /\ k.added = {}
        /\ CreatedBy(k.logs) \subseteq mem.meta \union k.want
        /\ k.pc = "loop" => CreatedBy(k.logs) \subseteq mem.meta
    BY <1>3, <1>4, <1>9, <2>1, GotBlocksGives
  <2> QED
    BY <2>1, <2>2 DEF Steady, CreatedBy, Log
<1>10. CASE Prefetched(t)
  <2>1. /\ Sound(l) /\ l.pc = "prefetch" /\ UNCHANGED chain
        /\ mem'.meta = mem.meta \union l.want /\ mem'.factories = mem.factories
    BY <1>3, <1>10, RunningIsSound DEF Prefetched, Typed
  <2>2. k.pc = "loop" /\ k.logs = l.logs /\ k.pend = l.pend /\ k.added = l.added
    BY <1>3, <1>4, <1>10, <2>1, GotTokensGives
  <2>3. l.pend = {} /\ l.added = {} /\ CreatedBy(l.logs) \subseteq mem.meta \union l.want
    BY <1>2, <1>3, <2>1 DEF Sound, Steady
  <2>4. CreatedBy(k.logs)' = CreatedBy(l.logs)
    BY <2>1, <2>2 DEF CreatedBy, Log
  <2> QED
    BY <2>1, <2>2, <2>3, <2>4 DEF Steady
<1>11. ~GotMeta(t) /\ ~Suspend(t)
  BY <1>1, SteadyCommits
<1> QED
  BY <1>3, <1>4, <1>6, <1>7, <1>8, <1>9, <1>10, <1>11, TaskMoves

\* Every step keeps what holds without late registrations.
LEMMA SettledNext ==
  ASSUME Typed, TasksSound, Settled, [Next]_vars
  PROVE  Settled'
BY RowsSettled, PoolsSettled, SteadyNext DEF Settled

-----------------------------------------------------------------------------
(* Backfill. *)

\* What a backfill that is done went through is in the tables.
LEMMA DoneIsDone ==
  ASSUME Typed, TasksSound, Settled
  PROVE  BackfillDone
<1>1. SUFFICES ASSUME task["fill"].pc = "final"
               PROVE  BackfillDone
  BY DEF BackfillDone, BackfillComplete, BackfillDiscovers
<1>2. PICK l : l = task["fill"]
  OBVIOUS
<1>3. Sound(l) /\ l.pc = "final"
  BY <1>1, <1>2, RunningIsSound DEF Tasks
<1>4. l.end = l.to /\ l.start \in Nat /\ l.end \in Nat /\ l.start > 0
  BY <1>3, SoundFields DEF Sound
<1>5. ASSUME NEW e \in LogsIn(l.start, l.to), Log(e).from \in Asked(l)
      PROVE  Kept(e)
  BY <1>3, <1>4, <1>5, CommittedUpTo
<1>6. FillAsked = Asked(l)
  BY <1>2 DEF FillAsked, Asked
<1>7. BackfillComplete
  <2>1. ASSUME NEW p \in FillAsked \cap Pools, NEW e \in LogsBy(p, l.start, l.to)
        PROVE  db.rows[e] > 0
    <3>1. e \in LogsIn(l.start, l.end) /\ Log(e).from = p
      BY <1>4, <2>1 DEF LogsBy
    <3>2. Log(e).new = {}
      BY <1>4, <3>1, LogAt
    <3> QED
      BY <1>4, <1>5, <1>6, <2>1, <3>1, <3>2 DEF Kept
  <2> QED
    BY <1>2, <2>1 DEF BackfillComplete, Stored
<1>8. BackfillDiscovers
  <2>1. ASSUME faults.late = 0, faults.write = 0, NEW e \in LogsIn(l.start, l.to),
               Log(e).from \in FillAsked
        PROVE  Log(e).new \subseteq db.pools
    BY <1>5, <1>6, <2>1 DEF Kept, Settled
  <2> QED
    BY <1>2, <2>1 DEF BackfillDiscovers
<1> QED
  BY <1>7, <1>8 DEF BackfillDone

-----------------------------------------------------------------------------
(* Polling alone. *)

\* The steps that are possible while only the poll writes.
LEMMA AloneSteps ==
  ASSUME Typed, TasksSound, Polling, [Next]_vars, PollsAlone'
  PROVE  /\ PollsAlone
         /\ \/ UNCHANGED <<db, mem, task, since>>
            \/ \E p \in UserPools : AddPool(p)
            \/ \E f \in Factories : AddFactory(f)
            \/ PollHead \/ PollCheckpoint \/ Crash
            \/ GotLogs("poll") \/ GotBlocks("poll") \/ Prefetched("poll") \/ GotMeta("poll")
            \/ Suspend("poll") \/ Commit("poll") \/ RpcFails("poll")
<1>1. PollsAlone
  BY FaultsGrow DEF PollsAlone
<1>2. task["fill"].pc = "idle"
  BY <1>1 DEF Polling
<1>3. Unlocked("poll")
  BY <1>2 DEF Unlocked, Typed, Tasks
<1>4. faults \in [crash : Nat, rpc : Nat, write : Nat, fill : Nat, late : Nat]
  BY DEF Typed
<1>5. ~CommitFails("poll")
  <2>1. SUFFICES ASSUME CommitFails("poll") PROVE FALSE
    OBVIOUS
  <2>2. PICK s : s = Walk("poll")
    OBVIOUS
  <2>3. task["poll"].pc = "loop" /\ Sound(task["poll"]) /\ Alone(task["poll"])
    BY <1>1, <2>1, RunningIsSound DEF CommitFails, Tasks, Polling
  <2>4. s.added = task["poll"].added \union ((CreatedBy(s.done) \ mem.pools) \ db.pools)
    BY <2>2, <2>3, WalkIs DEF Tasks
  <2>5. s.added \cap db.pools = {}
    BY <2>3, <2>4 DEF Alone
  <2>6. faults' = [faults EXCEPT !.write = faults.write + 1]
    BY <1>3, <2>1, <2>2, <2>5 DEF CommitFails
  <2>7. faults'.write # 0
    BY <1>4, <2>6
  <2> QED
    BY <2>7 DEF PollsAlone
<1>6. \A from, to, only : ~StartFill(from, to, only)
  <2>1. ASSUME NEW from, NEW to, NEW only, StartFill(from, to, only) PROVE FALSE
    <3>1. faults' = [faults EXCEPT !.fill = faults.fill + 1]
      BY <2>1 DEF StartFill
    <3>2. faults'.fill # 0
      BY <1>4, <3>1
    <3> QED
      BY <3>2 DEF PollsAlone
  <2> QED
    BY <2>1
<1>7. ~FillCheckpoint /\ ~FinishFill
  BY <1>2 DEF FillCheckpoint, FinishFill
<1>8. /\ ~Proceed("fill") /\ ~CommitFails("fill") /\ ~RpcFails("fill") /\ ~CheckpointFails("fill")
  BY <1>2, OthersStay DEF Proceed, Tasks
<1>9. ~CheckpointFails("poll")
  BY <1>3 DEF CheckpointFails
<1>10. DOMAIN task = Tasks
  BY DEF Typed
<1>11. (\E t \in DOMAIN task : Proceed(t) \/ CommitFails(t) \/ RpcFails(t) \/ CheckpointFails(t))
         => Proceed("poll") \/ RpcFails("poll")
  BY <1>5, <1>8, <1>9, <1>10 DEF Tasks
<1> QED
  BY <1>1, <1>6, <1>7, <1>11 DEF Next, Proceed, Mine, vars

\* What polling needs to know of its locals carries over to those of a task
\* that moves on without committing.
LEMMA AloneMoves ==
  ASSUME Typed, NEW l, Sound(l), Alone(l), NEW k \in Locals, SameScope(k, l),
         k.added = l.added, k.added = {} \/ l.pc \in {"loop", "meta"},
         UNCHANGED <<db, since>>, mem'.pools = mem.pools
  PROVE  Alone(k)'
BY DEF Alone, SameScope

\* The steps of a poll up to its loop.
LEMMA AloneTokens ==
  ASSUME Typed, TasksSound, Polling, PollsAlone,
         \/ GotLogs("poll") \/ GotBlocks("poll") \/ Prefetched("poll") \/ GotMeta("poll"),
         NEW k, k = task'["poll"]
  PROVE  /\ k.pc # "idle" /\ Alone(k)'
         /\ mem'.pools \subseteq db'.pools \union Uncommitted(k)
         /\ UNCHANGED <<db, since>> /\ mem'.factories = mem.factories
<1>1. PICK l : l = task["poll"]
  OBVIOUS
<1>2. Sound(l) /\ l.pc # "idle" /\ Alone(l) /\ mem.pools \subseteq db.pools \union Uncommitted(l)
  BY <1>1, RunningIsSound DEF GotLogs, GotBlocks, Prefetched, GotMeta, Tasks, Polling
<1>3. UNCHANGED <<db, since>> /\ mem'.pools = mem.pools /\ mem'.factories = mem.factories
  BY DEF GotLogs, GotBlocks, Prefetched, GotMeta, Typed
<1>4. CASE GotLogs("poll")
  <2>1. /\ k \in Locals /\ SameScope(k, l) /\ k.added = {}
        /\ k.pc \in {"ckpt", "blocks", "prefetch", "loop"}
    BY <1>1, <1>2, <1>4, GotLogsGives DEF Tasks
  <2>2. l.added = {} /\ l.pc = "logs"
    BY <1>1, <1>2, <1>4 DEF GotLogs, Sound
  <2>3. Alone(k)'
    BY <1>2, <1>3, <2>1, <2>2, AloneMoves
  <2> QED
    BY <1>2, <1>3, <2>1, <2>2, <2>3 DEF Uncommitted
<1>5. CASE GotBlocks("poll")
  <2>1. /\ k \in Locals /\ SameScope(k, l) /\ k.added = {} /\ k.pc \in {"prefetch", "loop"}
    BY <1>1, <1>2, <1>5, GotBlocksGives DEF Tasks
  <2>2. l.added = {} /\ l.pc = "blocks"
    BY <1>1, <1>2, <1>5 DEF GotBlocks, Sound
  <2>3. Alone(k)'
    BY <1>2, <1>3, <2>1, <2>2, AloneMoves
  <2> QED
    BY <1>2, <1>3, <2>1, <2>2, <2>3 DEF Uncommitted
<1>6. CASE Prefetched("poll") \/ GotMeta("poll")
  <2>1. /\ l.pc \in {"prefetch", "meta"}
        /\ k \in Locals /\ SameScope(k, l) /\ k.added = l.added /\ k.pc = "loop"
    BY <1>1, <1>2, <1>6, GotTokensGives DEF Tasks
  <2>2. l.added = {} \/ l.pc = "meta"
    BY <1>2, <2>1 DEF Sound
  <2>3. Alone(k)'
    BY <1>2, <1>3, <2>1, <2>2, AloneMoves
  <2> QED
    BY <1>2, <1>3, <2>1, <2>2, <2>3 DEF Uncommitted
<1> QED
  BY <1>4, <1>5, <1>6

\* The loop discovers pools that exist because a log created them.
LEMMA WalkCreates ==
  ASSUME Typed, NEW t \in Tasks, Sound(task[t]), task[t].pc = "loop", NEW s, s = Walk(t)
  PROVE  CreatedBy(s.done) \subseteq Creatable
<1>1. s.done \subseteq Mined
  BY WalkIs, LogsMined DEF Sound
<1>2. ASSUME NEW e \in Mined PROVE Log(e).new \subseteq Creatable
  <2>1. chain[e[1]] \in BlockContents /\ e[2] \in DOMAIN chain[e[1]]
    BY TypedFields, LogAt DEF Mined
  <2> QED
    BY <2>1 DEF Log, Creatable, Created
<1> QED
  BY <1>1, <1>2 DEF CreatedBy

\* The steps of its loop: what it discovers was not registered before.
LEMMA AloneWalks ==
  ASSUME Typed, TasksSound, TypeOK, Polling, PollsAlone, Suspend("poll") \/ Commit("poll"),
         NEW k, k = task'["poll"]
  PROVE  /\ k.pc \in {"meta", "ckpt"} /\ Alone(k)'
         /\ mem'.pools \subseteq db'.pools \union Uncommitted(k)
         /\ mem'.factories = mem.factories /\ db'.factories = db.factories
         /\ db.pools \subseteq db'.pools /\ UNCHANGED since
<1>1. PICK l : l = task["poll"]
  OBVIOUS
<1>2. PICK s : s = Walk("poll")
  OBVIOUS
<1>3. /\ Sound(l) /\ l.pc = "loop" /\ Alone(l) /\ mem.pools \subseteq db.pools \union l.added
      /\ db.pools \subseteq mem.pools
  BY <1>1, RunningIsSound DEF Suspend, Commit, Tasks, Polling, Uncommitted, TypeOK
<1>4. /\ s.pools = mem.pools \union CreatedBy(s.done)
      /\ s.added = l.added \union ((CreatedBy(s.done) \ mem.pools) \ db.pools)
  BY <1>1, <1>2, <1>3, WalkIs DEF Tasks
<1>5. CreatedBy(s.done) \subseteq Creatable
  BY <1>1, <1>2, <1>3, WalkCreates DEF Tasks
<1>6. /\ s.added \subseteq Creatable /\ s.added \cap db.pools = {}
      /\ s.pools \subseteq l.known \union s.added \union UserPools
      /\ s.pools \subseteq db.pools \union s.added
  BY <1>3, <1>4, <1>5 DEF Alone
<1>7. /\ l.only = {} /\ l.filter = {} /\ l.start = l.from /\ l.end = l.to
      /\ \A a \in Addresses : since[a] > 0 => a \in l.known /\ l.from <= db.ckpt[a] + 1
  BY <1>3 DEF Alone
<1>8. CASE Suspend("poll")
  <2>1. /\ SameScope(k, l) /\ k.pc = "meta" /\ k.added = s.added /\ mem'.pools = s.pools
        /\ mem' = [mem EXCEPT !.pools = s.pools] /\ UNCHANGED <<db, since>>
    BY <1>1, <1>2, <1>3, <1>8, SuspendGives DEF Tasks
  <2>2. Alone(k)'
    BY <1>6, <1>7, <2>1 DEF Alone, SameScope
  <2>3. mem'.factories = mem.factories
    BY <2>1 DEF Typed
  <2> QED
    BY <1>6, <2>1, <2>2, <2>3 DEF Uncommitted
<1>9. CASE Commit("poll")
  <2>1. "poll" \in Tasks
    BY DEF Tasks
  <2>2. Sound(task["poll"])
    BY <1>1, <1>3
  <2>3. SameScope(k, l) /\ k.pc = "ckpt" /\ k.added = s.added
    BY <1>1, <1>2, <1>9, <2>1, <2>2, CommitScope
  <2>4. /\ db'.pools = db.pools \union s.added /\ db'.factories = db.factories
        /\ db'.ckpt = db.ckpt /\ UNCHANGED since
        /\ mem' = [mem EXCEPT !.pools = s.pools] /\ mem'.pools = s.pools
    BY <1>2, <1>9, <2>1, CommitGives
  <2>5. Alone(k)'
    BY <1>6, <1>7, <2>3, <2>4 DEF Alone, SameScope
  <2>6. mem'.factories = mem.factories
    BY <2>4 DEF Typed
  <2> QED
    BY <1>6, <2>3, <2>4, <2>5, <2>6 DEF Uncommitted
<1> QED
  BY <1>8, <1>9

\* The poll's start and the user's registrations.
LEMMA AlonePollHead ==
  ASSUME Typed, TypeOK, Polling, PollsAlone, PollHead, NEW k, k = task'["poll"]
  PROVE  Alone(k)' /\ UNCHANGED <<db, mem, since>>
<1>1. PICK from \in Nat, head \in Nat :
        /\ \A a \in Tracked : db.ckpt[a] > 0 => from <= db.ckpt[a] + 1
        /\ task' = [task EXCEPT !["poll"] = Request(from, head, head, from, Tracked, {}, {})]
  BY PollHeadAsks
<1>2. k = Request(from, head, head, from, Tracked, {}, {})
  BY <1>1 DEF Typed, Tasks
<1>3. \A a \in Addresses : since[a] > 0 => a \in Tracked /\ db.ckpt[a] > 0
  BY DEF Polling, TypeOK, Tracked
<1>4. UNCHANGED <<db, mem, since>>
  BY DEF PollHead
<1>5. /\ k.only = {} /\ k.filter = {} /\ k.start = k.from /\ k.end = k.to /\ k.added = {}
      /\ k.pc = "logs" /\ k.known = Tracked /\ k.from = from
  BY <1>2 DEF Request
<1> QED
  BY <1>1, <1>3, <1>4, <1>5 DEF Alone, Tracked

\* A pool that the user registers is not one that the poll discovers.
LEMMA AloneRegisters ==
  ASSUME Typed, Polling, PollsAlone,
         (\E p \in UserPools : AddPool(p)) \/ (\E f \in Factories : AddFactory(f)),
         NEW l, l = task["poll"]
  PROVE  /\ l.pc # "idle" => Alone(l)'
         /\ mem'.pools \subseteq db'.pools \union Uncommitted(l)
         /\ db.pools \subseteq db'.pools /\ db.factories \subseteq db'.factories
         /\ UNCHANGED <<chain, task, since>> /\ db'.ckpt = db.ckpt /\ db'.rows = db.rows
<1>1. /\ \E P \in SUBSET UserPools : mem'.pools = mem.pools \union P /\ db'.pools = db.pools \union P
      /\ db.factories \subseteq db'.factories /\ db'.ckpt = db.ckpt /\ db'.rows = db.rows
      /\ UNCHANGED <<chain, task, since>>
  <2>1. ASSUME NEW p \in UserPools, AddPool(p)
        PROVE  /\ mem'.pools = mem.pools \union {p} /\ db'.pools = db.pools \union {p}
               /\ db.factories \subseteq db'.factories /\ db'.ckpt = db.ckpt
               /\ db'.rows = db.rows /\ UNCHANGED <<chain, task, since>>
    BY <2>1 DEF AddPool, Typed
  <2>2. ASSUME NEW f \in Factories, AddFactory(f)
        PROVE  /\ mem'.pools = mem.pools \union {} /\ db'.pools = db.pools \union {}
               /\ db.factories \subseteq db'.factories /\ db'.ckpt = db.ckpt
               /\ db'.rows = db.rows /\ UNCHANGED <<chain, task, since>>
    BY <2>2 DEF AddFactory, Typed
  <2>3. \A p \in UserPools : {p} \in SUBSET UserPools
    OBVIOUS
  <2> QED
    BY <2>1, <2>2, <2>3
<1>2. PICK P \in SUBSET UserPools :
        mem'.pools = mem.pools \union P /\ db'.pools = db.pools \union P
  BY <1>1
<1>3. mem.pools \subseteq db.pools \union Uncommitted(l) /\ (l.pc # "idle" => Alone(l))
  BY DEF Polling
<1>4. UserPools \cap Creatable = {}
  BY DEF PollsAlone
<1>5. l.pc # "idle" => Alone(l)'
  BY <1>1, <1>2, <1>3, <1>4 DEF Alone
<1> QED
  BY <1>1, <1>2, <1>3, <1>5

\* Whatever does not write checkpoints loses nothing of what they account for.
LEMMA AccountsStay ==
  ASSUME Typed, TypeOK, ChainGrows, NoGap, DiscoveryComplete,
         UNCHANGED since, db'.ckpt = db.ckpt, db.pools \subseteq db'.pools,
         \A e \in Events : db.rows[e] > 0 => db'.rows[e] > 0
  PROVE  NoGap' /\ DiscoveryComplete'
<1>1. ASSUME NEW p, NEW a \in Addresses, NEW n \in Nat, n > 0
      PROVE  /\ LogsBy(p, n, db.ckpt[a])' = LogsBy(p, n, db.ckpt[a])
             /\ \A e \in LogsBy(p, n, db.ckpt[a]) : Log(e)' = Log(e) /\ e \in Events
  <2>1. db.ckpt[a] \in Nat /\ db.ckpt[a] <= Len(chain)
    BY TypedFields DEF TypeOK
  <2>2. LogsIn(n, db.ckpt[a])' = LogsIn(n, db.ckpt[a])
    <3>1. PICK m : m = db.ckpt[a]
      OBVIOUS
    <3>2. LogsIn(n, m)' = LogsIn(n, m)
      BY <2>1, <3>1 DEF ChainGrows
    <3>3. m = db'.ckpt[a]
      BY <3>1
    <3> QED
      BY <3>1, <3>2, <3>3 DEF LogsIn
  <2>3. \A e \in LogsIn(n, db.ckpt[a]) : Log(e)' = Log(e) /\ e \in Events
    BY <1>1, <2>1, LogAt DEF ChainGrows
  <2> QED
    BY <2>2, <2>3 DEF LogsBy
<1>2. \A a \in Addresses : since[a] \in Nat
  BY DEF Typed
<1>3. ASSUME NEW p \in Pools, since'[p] > 0, NEW e \in LogsBy(p, since[p], db.ckpt[p])'
      PROVE  db'.rows[e] > 0
  <2>1. since[p] > 0 /\ p \in Addresses
    BY <1>3 DEF Addresses
  <2>2. PICK n : n = since[p]
    OBVIOUS
  <2>3. LogsBy(p, since[p], db.ckpt[p])' = LogsBy(p, n, db.ckpt[p])'
    BY <2>2 DEF LogsBy, LogsIn
  <2>4. e \in LogsBy(p, n, db.ckpt[p]) /\ e \in Events
    BY <1>1, <1>2, <1>3, <2>1, <2>2, <2>3
  <2>5. db.rows[e] > 0
    BY <2>1, <2>2, <2>4 DEF NoGap, Stored
  <2> QED
    BY <2>4, <2>5
<1>4. ASSUME NEW f \in Factories, NEW p \in CreatedUnder(f)'
      PROVE  p \in db'.pools /\ \A e \in LogsBy(p, 1, db.ckpt[f])' : db'.rows[e] > 0
  <2>1. f \in Addresses
    BY DEF Addresses
  <2>2. PICK n : n = since[f]
    OBVIOUS
  <2>3. PICK e : e \in LogsBy(f, n, db.ckpt[f])' /\ p \in Log(e)'.new /\ n # 0
    BY <1>4, <2>2 DEF CreatedUnder, LogsBy, LogsIn
  <2>4. n \in Nat /\ n > 0
    BY <1>2, <2>1, <2>2, <2>3
  <2>5. e \in LogsBy(f, n, db.ckpt[f]) /\ p \in Log(e).new
    BY <1>1, <2>1, <2>3, <2>4
  <2>6. p \in CreatedUnder(f)
    BY <2>2, <2>4, <2>5 DEF CreatedUnder
  <2>7. p \in db.pools /\ \A d \in LogsBy(p, 1, db.ckpt[f]) : db.rows[d] > 0
    BY <2>6 DEF DiscoveryComplete, Stored
  <2>8. ASSUME NEW d \in LogsBy(p, 1, db.ckpt[f])' PROVE db'.rows[d] > 0
    <3>1. d \in LogsBy(p, 1, db.ckpt[f]) /\ d \in Events
      BY <1>1, <2>1, <2>8
    <3> QED
      BY <2>7, <3>1
  <2> QED
    BY <2>7, <2>8
<1> QED
  BY <1>3, <1>4 DEF NoGap, DiscoveryComplete, Stored

\* The poll's checkpoints.
LEMMA PollCheckpointGives ==
  ASSUME Typed, TasksSound, PollCheckpoint, NEW l, l = task["poll"], Alone(l)
  PROVE  /\ Sound(l) /\ l.pc = "ckpt"
         /\ task'["poll"] = Resting /\ task'["fill"] = task["fill"] /\ UNCHANGED <<chain, mem>>
         /\ db'.pools = db.pools /\ db'.factories = db.factories /\ db'.rows = db.rows
         /\ \A a \in Addresses :
              /\ db'.ckpt[a] = IF a \in Tracked THEN l.end ELSE db.ckpt[a]
              /\ since'[a] = IF a \notin Tracked \/ since[a] > 0 THEN since[a]
                             ELSE IF a \in l.known \union l.added THEN l.from ELSE l.end + 1
         /\ l.from \in Nat /\ l.end \in Nat /\ 1 <= l.from /\ l.from <= l.end
         /\ l.end <= Len(chain)
<1>1. /\ l.pc = "ckpt" /\ SetCheckpoints("poll", Tracked, l.end) /\ "poll" \in Tasks
      /\ UNCHANGED <<chain, mem>>
  BY DEF PollCheckpoint, PollCovers, Tasks
<1>2. task'["poll"] = Resting /\ task'["fill"] = task["fill"]
  BY DEF PollCheckpoint, Rest, Typed, Tasks
<1>3. Sound(l)
  BY <1>1, RunningIsSound
<1>4. /\ l.from \in Nat /\ l.end \in Nat /\ l.to \in Nat /\ l.start \in Nat /\ Len(chain) \in Nat
  BY <1>3, SoundFields, TypedFields
<1>5. /\ 1 <= l.start /\ l.start <= l.from /\ l.from <= l.end /\ l.end <= l.to
      /\ l.to <= Len(chain)
  BY <1>3 DEF Sound
<1>6. l.start = l.from
  BY DEF Alone
<1>7. /\ db'.pools = db.pools /\ db'.factories = db.factories /\ db'.rows = db.rows
      /\ \A a \in Addresses :
           /\ db'.ckpt[a] = IF a \in Tracked THEN l.end ELSE db.ckpt[a]
           /\ since'[a] = IF a \notin Tracked \/ since[a] > 0 THEN since[a]
                          ELSE IF a \in l.known \union l.added THEN l.from ELSE l.end + 1
  BY <1>1, <1>3, <1>4, <1>6, CheckpointsGive
<1>8. 1 <= l.from /\ l.end <= Len(chain)
  BY <1>4, <1>5
<1> QED
  BY <1>1, <1>2, <1>3, <1>4, <1>5, <1>7, <1>8

\* All that the addresses it was about emitted in its range is in the tables.
LEMMA PolledIsKept ==
  ASSUME Typed, NEW l, Sound(l), Alone(l), l.pc = "ckpt",
         NEW e \in LogsIn(l.from, l.end), Log(e).from \in l.known \union l.added
  PROVE  Kept(e)
<1>1. l.filter = {} /\ l.only = {}
  BY DEF Alone
<1>2. e \in l.logs
  BY <1>1 DEF Sound, Answer
<1>3. Log(e).from \in Asked(l) \union l.added
  BY <1>1 DEF Asked
<1> QED
  BY <1>2, <1>3 DEF Sound

\* A created pool whose creator the poll took in is one that the poll is about.
LEMMA CreatedIsAsked ==
  ASSUME Typed, PollsAlone, NEW l, Alone(l), NEW e \in Mined, NEW p \in Log(e).new,
         p \in mem.pools
  PROVE  p \in l.known \union l.added
<1>1. chain[e[1]] \in BlockContents /\ e[2] \in DOMAIN chain[e[1]]
  BY TypedFields, LogAt DEF Mined
<1>2. p \in Creatable
  BY <1>1 DEF Log, Creatable, Created
<1> QED
  BY <1>2 DEF PollsAlone, Alone

\* A checkpoint that the poll writes passes over no log of a pool.
LEMMA NoGapChecked ==
  ASSUME Typed, TasksSound, TypeOK, Polling, PollsAlone, PollCheckpoint
  PROVE  NoGap'
<1>1. PICK l : l = task["poll"]
  OBVIOUS
<1>2. Alone(l) /\ NoGap /\ \A a \in Addresses : since[a] > 0 => a \in Tracked
  <2>1. task["poll"].pc # "idle"
    BY DEF PollCheckpoint
  <2> QED
    BY <1>1, <2>1 DEF Polling, Tracked, TypeOK
<1>3. /\ Sound(l) /\ l.pc = "ckpt" /\ UNCHANGED chain /\ db'.rows = db.rows
      /\ \A a \in Addresses :
           /\ db'.ckpt[a] = IF a \in Tracked THEN l.end ELSE db.ckpt[a]
           /\ since'[a] = IF a \notin Tracked \/ since[a] > 0 THEN since[a]
                          ELSE IF a \in l.known \union l.added THEN l.from ELSE l.end + 1
      /\ l.from \in Nat /\ l.end \in Nat /\ 1 <= l.from /\ l.from <= l.end
  BY <1>1, <1>2, PollCheckpointGives
<1>4. SUFFICES ASSUME NEW p \in Pools, since'[p] > 0, NEW e \in LogsBy(p, since[p], db.ckpt[p])'
               PROVE  db.rows[e] > 0
  BY <1>3 DEF NoGap, Stored
<1>5. p \in Addresses /\ since[p] \in Nat /\ db.ckpt[p] \in Nat
  BY TypedFields DEF Addresses, Typed
<1>6. p \in Tracked /\ db'.ckpt[p] = l.end
  BY <1>2, <1>3, <1>4, <1>5
<1>7. since'[p] \in Nat /\ since'[p] > 0
  BY <1>3, <1>4, <1>5
<1>8. e \in LogsIn(since'[p], l.end) /\ Log(e).from = p
  BY <1>3, <1>4, <1>6 DEF LogsBy, LogsIn, Log
<1>9. /\ e[1] \in Nat /\ since'[p] <= e[1] /\ e[1] <= l.end
      /\ \A c \in Nat, d \in Nat : c <= e[1] /\ e[1] <= d <=> e \in LogsIn(c, d)
      /\ Log(e).new = {}
  <2>1. e[1] \in 1 .. Len(chain) /\ Len(chain) \in Nat /\ Log(e).new = {}
    BY <1>3, <1>7, <1>8, LogAt, TypedFields
  <2> QED
    BY <1>3, <1>7, <1>8, <2>1, MinedIn
<1>10. ASSUME l.from <= e[1], p \in l.known \union l.added PROVE db.rows[e] > 0
  <2>1. e \in LogsIn(l.from, l.end)
    BY <1>3, <1>9, <1>10
  <2>2. Kept(e)
    BY <1>2, <1>3, <1>8, <1>10, <2>1, PolledIsKept
  <2> QED
    BY <1>9, <2>2 DEF Kept
<1>11. CASE since[p] > 0
  <2>1. p \in l.known /\ l.from <= db.ckpt[p] + 1 /\ since'[p] = since[p]
    BY <1>2, <1>3, <1>5, <1>6, <1>11 DEF Alone
  <2>2. CASE e[1] <= db.ckpt[p]
    <3>1. e \in LogsBy(p, since[p], db.ckpt[p])
      BY <1>5, <1>8, <1>9, <2>1, <2>2 DEF LogsBy
    <3> QED
      BY <1>2, <1>11, <3>1 DEF NoGap, Stored
  <2>3. CASE e[1] > db.ckpt[p]
    <3>1. l.from <= e[1]
      BY <1>3, <1>5, <1>9, <2>1, <2>3
    <3> QED
      BY <1>10, <2>1, <3>1
  <2> QED
    BY <1>5, <1>9, <2>2, <2>3
<1>12. CASE since[p] = 0
  <2>1. since'[p] = IF p \in l.known \union l.added THEN l.from ELSE l.end + 1
    BY <1>3, <1>5, <1>6, <1>12
  <2>2. p \in l.known \union l.added /\ l.from <= e[1]
    BY <1>3, <1>9, <2>1
  <2> QED
    BY <1>10, <2>2
<1> QED
  BY <1>5, <1>11, <1>12

\* Nor over a creation, whose pool the poll took in with all its logs: they
\* come after the creation, thus in the range of this poll or of an earlier one.
LEMMA DiscoveryChecked ==
  ASSUME Typed, Chained, TasksSound, TypeOK, Polling, PollsAlone, PollCheckpoint
  PROVE  DiscoveryComplete'
<1>1. PICK l : l = task["poll"]
  OBVIOUS
<1>2. /\ Alone(l) /\ DiscoveryComplete /\ \A a \in Addresses : since[a] > 0 => a \in Tracked
      /\ mem.pools \subseteq db.pools /\ db.pools \subseteq mem.pools
  <2>1. task["poll"].pc = "ckpt"
    BY DEF PollCheckpoint
  <2> QED
    BY <1>1, <2>1 DEF Polling, Uncommitted, Tracked, TypeOK
<1>3. /\ Sound(l) /\ l.pc = "ckpt" /\ UNCHANGED chain
      /\ db'.rows = db.rows /\ db'.pools = db.pools
      /\ \A a \in Addresses :
           /\ db'.ckpt[a] = IF a \in Tracked THEN l.end ELSE db.ckpt[a]
           /\ since'[a] = IF a \notin Tracked \/ since[a] > 0 THEN since[a]
                          ELSE IF a \in l.known \union l.added THEN l.from ELSE l.end + 1
      /\ l.from \in Nat /\ l.end \in Nat /\ 1 <= l.from /\ l.from <= l.end
      /\ l.end <= Len(chain)
  BY <1>1, <1>2, PollCheckpointGives
<1>4. SUFFICES ASSUME NEW f \in Factories, NEW p \in CreatedUnder(f)'
               PROVE  p \in db.pools /\ \A d \in LogsBy(p, 1, db.ckpt[f])' : db.rows[d] > 0
  BY <1>3 DEF DiscoveryComplete, Stored
<1>5. f \in Addresses /\ since[f] \in Nat /\ db.ckpt[f] \in Nat /\ Len(chain) \in Nat
  BY TypedFields DEF Addresses, Typed
<1>6. PICK e : e \in LogsBy(f, since[f], db.ckpt[f])' /\ p \in Log(e)'.new /\ since'[f] # 0
  BY <1>4 DEF CreatedUnder
<1>7. since'[f] \in Nat /\ since'[f] > 0
  BY <1>3, <1>5, <1>6
<1>8. f \in Tracked /\ db'.ckpt[f] = l.end
  BY <1>2, <1>3, <1>5, <1>7
<1>9. e \in LogsIn(since'[f], l.end) /\ Log(e).from = f /\ p \in Log(e).new
  BY <1>3, <1>6, <1>8 DEF LogsBy, LogsIn, Log
<1>10. /\ e[1] \in Nat /\ since'[f] <= e[1] /\ e[1] <= l.end /\ e \in Mined
       /\ \A c \in Nat, d \in Nat : c <= e[1] /\ e[1] <= d <=> e \in LogsIn(c, d)
       /\ p \in Pools
  <2>1. e[1] \in 1 .. Len(chain) /\ e \in Mined /\ Log(e).new \in SUBSET Pools
    BY <1>3, <1>7, <1>9, LogAt
  <2> QED
    BY <1>3, <1>5, <1>7, <1>9, <2>1, MinedIn
<1>11. ASSUME NEW d \in LogsBy(p, 1, db.ckpt[f])'
       PROVE  /\ d \in Mined /\ Log(d).from = p /\ Log(d).new = {} /\ d[1] \in Nat /\ d[1] <= l.end
              /\ \A a \in Nat, b \in Nat : a <= d[1] /\ d[1] <= b <=> d \in LogsIn(a, b)
              /\ 1 <= d[1] /\ e[1] <= d[1]
  <2>1. d \in LogsIn(1, l.end) /\ Log(d).from = p
    BY <1>3, <1>8, <1>11 DEF LogsBy, LogsIn, Log
  <2>2. d[1] \in 1 .. Len(chain) /\ d \in Mined /\ Log(d).new = {}
    BY <1>3, <1>10, <2>1, LogAt
  <2>3. Before(e, d)
    BY <1>9, <1>10, <2>1, <2>2, Birth
  <2>4. e[1] <= d[1]
    BY <1>10, <2>2, <2>3, BeforeOrder
  <2> QED
    BY <1>3, <1>5, <2>1, <2>2, <2>4, MinedIn
<1>12. ASSUME p \in db.pools, NEW d \in LogsBy(p, 1, db.ckpt[f])', l.from <= d[1]
       PROVE  db.rows[d] > 0
  <2>1. p \in l.known \union l.added
    BY <1>2, <1>9, <1>10, <1>12, CreatedIsAsked
  <2>2. d \in LogsIn(l.from, l.end)
    BY <1>3, <1>11, <1>12
  <2>3. Kept(d)
    BY <1>2, <1>3, <1>11, <1>12, <2>1, <2>2, PolledIsKept
  <2> QED
    BY <1>11, <1>12, <2>3 DEF Kept
<1>13. CASE since[f] > 0 /\ e[1] <= db.ckpt[f]
  <2>1. since'[f] = since[f] /\ l.from <= db.ckpt[f] + 1
    BY <1>2, <1>3, <1>5, <1>13 DEF Alone
  <2>2. e \in LogsBy(f, since[f], db.ckpt[f])
    BY <1>5, <1>9, <1>10, <1>13, <2>1 DEF LogsBy
  <2>3. p \in CreatedUnder(f)
    BY <1>9, <1>13, <2>2, <1>5 DEF CreatedUnder
  <2>4. p \in db.pools /\ \A d \in LogsBy(p, 1, db.ckpt[f]) : db.rows[d] > 0
    BY <1>2, <2>3 DEF DiscoveryComplete, Stored
  <2>5. ASSUME NEW d \in LogsBy(p, 1, db.ckpt[f])' PROVE db.rows[d] > 0
    <3>1. CASE d[1] <= db.ckpt[f]
      <4>1. d \in LogsBy(p, 1, db.ckpt[f])
        BY <1>5, <1>11, <2>5, <3>1 DEF LogsBy
      <4> QED
        BY <2>4, <4>1
    <3>2. CASE d[1] > db.ckpt[f]
      <4>1. l.from <= d[1]
        BY <1>3, <1>5, <1>11, <2>1, <2>5, <3>2
      <4> QED
        BY <1>12, <2>4, <2>5, <4>1
    <3> QED
      BY <1>5, <1>11, <2>5, <3>1, <3>2
  <2> QED
    BY <2>4, <2>5
<1>14. CASE ~(since[f] > 0 /\ e[1] <= db.ckpt[f])
  <2>1. f \in l.known \union l.added /\ l.from <= e[1]
    <3>1. CASE since[f] > 0
      BY <1>2, <1>3, <1>5, <1>10, <1>14, <3>1 DEF Alone
    <3>2. CASE since[f] = 0
      <4>1. since'[f] = IF f \in l.known \union l.added THEN l.from ELSE l.end + 1
        BY <1>3, <1>5, <1>8, <3>2
      <4> QED
        BY <1>3, <1>10, <4>1
    <3> QED
      BY <1>5, <3>1, <3>2
  <2>2. e \in LogsIn(l.from, l.end)
    BY <1>3, <1>10, <2>1
  <2>3. Kept(e)
    BY <1>2, <1>3, <1>9, <2>1, <2>2, PolledIsKept
  <2>4. p \in db.pools
    BY <1>2, <1>9, <2>3 DEF Kept
  <2>5. ASSUME NEW d \in LogsBy(p, 1, db.ckpt[f])' PROVE db.rows[d] > 0
    <3>1. l.from <= d[1]
      BY <1>3, <1>10, <1>11, <2>1, <2>5
    <3> QED
      BY <1>12, <2>4, <2>5, <3>1
  <2> QED
    BY <2>4, <2>5
<1> QED
  BY <1>13, <1>14

\* One step of polling alone: the parts of Polling, then together.
LEMMA PollingNext ==
  ASSUME Typed, Chained, TasksSound, TypeOK, Polling, [Next]_vars
  PROVE  Polling'
<1>1. SUFFICES ASSUME PollsAlone'
               PROVE  /\ task'["fill"].pc = "idle"
                      /\ \A a \in Addresses : since'[a] > 0 => a \in db'.pools \union db'.factories
                      /\ mem'.pools \subseteq db'.pools \union Uncommitted(task["poll"])'
                      /\ task'["poll"].pc # "idle" => Alone(task["poll"])'
                      /\ NoGap' /\ DiscoveryComplete'
  BY DEF Polling
<1>2. /\ PollsAlone
      /\ \/ UNCHANGED <<db, mem, task, since>>
         \/ \E p \in UserPools : AddPool(p)
         \/ \E f \in Factories : AddFactory(f)
         \/ PollHead \/ PollCheckpoint \/ Crash
         \/ GotLogs("poll") \/ GotBlocks("poll") \/ Prefetched("poll") \/ GotMeta("poll")
         \/ Suspend("poll") \/ Commit("poll") \/ RpcFails("poll")
  BY <1>1, AloneSteps
<1>3. /\ task["fill"].pc = "idle"
      /\ \A a \in Addresses : since[a] > 0 => a \in db.pools \union db.factories
      /\ mem.pools \subseteq db.pools \union Uncommitted(task["poll"])
      /\ task["poll"].pc # "idle" => Alone(task["poll"])
      /\ NoGap /\ DiscoveryComplete
  BY <1>2 DEF Polling
<1>4. PICK k : k = task'["poll"]
  OBVIOUS
<1>5. SUFFICES /\ task'["fill"].pc = "idle"
               /\ \A a \in Addresses : since'[a] > 0 => a \in db'.pools \union db'.factories
               /\ mem'.pools \subseteq db'.pools \union Uncommitted(k)
               /\ k.pc # "idle" => Alone(k)'
               /\ NoGap' /\ DiscoveryComplete'
  BY <1>4 DEF Uncommitted
<1>6. ASSUME UNCHANGED since, db'.ckpt = db.ckpt, db.pools \subseteq db'.pools,
             db.factories \subseteq db'.factories,
             \A e \in Events : db.rows[e] > 0 => db'.rows[e] > 0
      PROVE  /\ \A a \in Addresses : since'[a] > 0 => a \in db'.pools \union db'.factories
             /\ NoGap' /\ DiscoveryComplete'
  <2>1. ChainGrows
    BY SameChain, MineGrows, ChainStays
  <2> QED
    BY <1>3, <1>6, <2>1, AccountsStay
<1>7. CASE UNCHANGED <<db, mem, task, since>>
  <2>1. k = task["poll"] /\ UNCHANGED <<db, mem, since>> /\ task'["fill"] = task["fill"]
    BY <1>4, <1>7
  <2>2. k.pc # "idle" => Alone(k)'
    BY <1>3, <2>1 DEF Alone
  <2> QED
    BY <1>3, <1>6, <2>1, <2>2
<1>8. CASE (\E p \in UserPools : AddPool(p)) \/ (\E f \in Factories : AddFactory(f))
  <2>1. PICK l : l = task["poll"]
    OBVIOUS
  <2>2. /\ l.pc # "idle" => Alone(l)'
        /\ mem'.pools \subseteq db'.pools \union Uncommitted(l)
        /\ db.pools \subseteq db'.pools /\ db.factories \subseteq db'.factories
        /\ UNCHANGED <<chain, task, since>> /\ db'.ckpt = db.ckpt /\ db'.rows = db.rows
    BY <1>2, <1>8, <2>1, AloneRegisters
  <2>3. k = l
    BY <1>4, <2>1, <2>2
  <2> QED
    BY <1>3, <1>6, <2>2, <2>3
<1>9. CASE PollHead
  <2>1. Alone(k)' /\ UNCHANGED <<db, mem, since>>
    BY <1>2, <1>4, <1>9, AlonePollHead
  <2>2. task["poll"].pc = "idle" /\ task'["fill"] = task["fill"]
    BY <1>9 DEF PollHead, Typed, Tasks
  <2>3. mem.pools \subseteq db.pools
    BY <1>3, <2>2 DEF Uncommitted
  <2> QED
    BY <1>3, <1>6, <2>1, <2>2, <2>3
<1>10. CASE GotLogs("poll") \/ GotBlocks("poll") \/ Prefetched("poll") \/ GotMeta("poll")
  <2>1. /\ k.pc # "idle" /\ Alone(k)'
        /\ mem'.pools \subseteq db'.pools \union Uncommitted(k)
        /\ UNCHANGED <<db, since>>
    BY <1>2, <1>4, <1>10, AloneTokens
  <2>2. task'["fill"] = task["fill"]
    BY <1>10, OthersStay DEF Tasks
  <2> QED
    BY <1>3, <1>6, <2>1, <2>2
<1>11. CASE Suspend("poll") \/ Commit("poll")
  <2>1. /\ k.pc \in {"meta", "ckpt"} /\ Alone(k)'
        /\ mem'.pools \subseteq db'.pools \union Uncommitted(k)
        /\ db'.factories = db.factories /\ db.pools \subseteq db'.pools /\ UNCHANGED since
    BY <1>2, <1>4, <1>11, AloneWalks
  <2>2. task'["fill"] = task["fill"]
    BY <1>11, OthersStay DEF Tasks
  <2>3. Grows
    <3>1. Crash => task'["poll"].pc = "idle"
      BY DEF Crash, Resting, Typed, Tasks
    <3>2. ~Crash
      BY <1>4, <2>1, <3>1
    <3> QED
      BY <3>2, NextGrows
  <2>4. db'.ckpt = db.ckpt
    BY <1>11 DEF Suspend, Commit, Typed
  <2> QED
    BY <1>3, <1>6, <2>1, <2>2, <2>3, <2>4 DEF Grows
<1>12. CASE RpcFails("poll")
  <2>1. /\ task["poll"].pc \in {"logs", "blocks"} /\ k = Resting
        /\ UNCHANGED <<db, mem, since>> /\ task'["fill"] = task["fill"]
    BY <1>4, <1>12 DEF RpcFails, Fail, Rest, Typed, Tasks
  <2>2. mem.pools \subseteq db.pools
    BY <1>3, <2>1 DEF Uncommitted
  <2> QED
    BY <1>3, <1>6, <2>1, <2>2 DEF Resting
<1>13. CASE Crash
  <2>1. /\ k = Resting /\ task'["fill"] = Resting /\ UNCHANGED <<db, since>>
        /\ mem'.pools = db.pools
    BY <1>4, <1>13 DEF Crash, Typed, Tasks
  <2> QED
    BY <1>6, <2>1 DEF Resting
<1>14. CASE PollCheckpoint
  <2>1. PICK l : l = task["poll"]
    OBVIOUS
  <2>2. l.pc = "ckpt" /\ Alone(l)
    BY <1>3, <1>14, <2>1 DEF PollCheckpoint
  <2>3. /\ k = Resting /\ task'["fill"] = task["fill"] /\ UNCHANGED mem
        /\ db'.pools = db.pools /\ db'.factories = db.factories
        /\ \A a \in Addresses : a \notin Tracked => since'[a] = since[a]
    BY <1>4, <1>14, <2>1, <2>2, PollCheckpointGives
  <2>4. mem.pools \subseteq db.pools /\ mem.factories = db.factories
    BY <1>3, <2>1, <2>2 DEF Uncommitted, TypeOK
  <2>5. \A a \in Addresses : since'[a] > 0 => a \in db'.pools \union db'.factories
    BY <1>3, <2>3, <2>4 DEF Tracked
  <2>6. NoGap' /\ DiscoveryComplete'
    BY <1>2, <1>14, NoGapChecked, DiscoveryChecked
  <2> QED
    BY <1>3, <2>3, <2>4, <2>5, <2>6 DEF Resting
<1> QED
  BY <1>2, <1>7, <1>8, <1>9, <1>10, <1>11, <1>12, <1>13, <1>14

-----------------------------------------------------------------------------
(* The theorems. *)

\* The invariant is inductive.
LEMMA InitHolds ==
  ASSUME Init
  PROVE  IInv
<1>1. Typed
  <2>1. Len(chain) = 0 /\ chain \in Seq(BlockContents) /\ MaxBlock \in Nat
    BY BoundsAssumption DEF Init
  <2>2. /\ [e \in Events |-> 0] \in [Events -> Nat]
        /\ [a \in Addresses |-> 0] \in [Addresses -> Nat]
    OBVIOUS
  <2> QED
    BY <2>1, <2>2 DEF Init, Typed, Tasks
<1>2. \A a, b : LogsIn(a, b) = {}
  BY DEF Init, LogsIn, Events
<1>3. Chained
  BY <1>2 DEF Chained, Mined
<1>4. task = [t \in Tasks |-> Resting]
  BY DEF Init, Tasks
<1>5. TypeOK
  BY <1>4 DEF Init, TypeOK, Resting
<1>6. TasksSound
  BY <1>4 DEF TasksSound
<1>7. \A t \in Tasks : Steady(task[t])
  BY <1>4 DEF Steady, Resting
<1>8. Settled
  BY <1>7 DEF Init, Settled
<1>9. NoGap /\ DiscoveryComplete
  BY DEF Init, NoGap, DiscoveryComplete, CreatedUnder, Addresses
<1>10. Polling
  BY <1>4, <1>9 DEF Init, Polling, Resting, Tasks
<1> QED
  BY <1>1, <1>3, <1>5, <1>6, <1>8, <1>10 DEF IInv, TasksSound

LEMMA NextHolds ==
  ASSUME IInv, [Next]_vars
  PROVE  IInv'
<1>1. Typed /\ Chained /\ TypeOK /\ TasksSound /\ Settled /\ Polling
  BY DEF IInv, TasksSound
<1>2. Typed' /\ Chained' /\ TypeOK' /\ TasksSound' /\ Settled' /\ Polling'
  BY <1>1, TypedNext, ChainedNext, TypeOKNext, TasksSoundNext, SettledNext, PollingNext
<1> QED
  BY <1>2 DEF IInv, TasksSound

\* The inductive invariant holds of every behaviour of the indexer.
THEOREM Consistency == Spec => []IInv
BY InitHolds, NextHolds, PTL DEF Spec

\* The type invariant: tables, registrations, checkpoints and suspended
\* sessions are consistent with each other and with the chain.
THEOREM TypeCorrect == Spec => []TypeOK
<1>1. IInv => TypeOK
  BY DEF IInv
<1> QED
  BY <1>1, Consistency, PTL

\* However poll and backfill overlap, fail and are retried, each log has at
\* most one row, as long as the user registers nothing while they run.
THEOREM OneRowEach == Spec => []NoDuplicateRows
<1>1. IInv => NoDuplicateRows
  BY DEF IInv, Settled, NoDuplicateRows
<1> QED
  BY <1>1, Consistency, PTL

\* A backfill that returns has stored all that its pools emitted in its range
\* and, if no transaction was refused, registered all that its factories
\* created there.
THEOREM BackfillCompletes == Spec => []BackfillDone
<1>1. IInv => BackfillDone
  BY DoneIsDone DEF IInv, TasksSound
<1> QED
  BY <1>1, Consistency, PTL

\* With live polling alone, and user pools that no factory creates, a pool's
\* checkpoint never passes over one of its logs, whatever crashes, failed
\* calls and late registrations fall in between.
THEOREM PollingLeavesNoGap == Spec => [](PollsAlone => NoGap)
<1>1. IInv => (PollsAlone => NoGap)
  BY DEF IInv, Polling
<1> QED
  BY <1>1, Consistency, PTL

\* And every pool that a registered factory created is registered, and none
\* of its logs is missing, where the factory's checkpoint has passed.
THEOREM PollingDiscovers == Spec => [](PollsAlone => DiscoveryComplete)
<1>1. IInv => (PollsAlone => DiscoveryComplete)
  BY DEF IInv, Polling
<1> QED
  BY <1>1, Consistency, PTL
=============================================================================
