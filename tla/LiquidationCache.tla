-------------------------- MODULE LiquidationCache --------------------------
(***************************************************************************)
(* lending/liquidation.py, LiquidationRouter._aave_v3_client: the checks   *)
(* of a batch, and of batches that run at the same time, share one asyncio *)
(* Task per chain that resolves the AaveV3 client, and keep its result.    *)
(* A step is what runs between two awaits of the event loop.               *)
(***************************************************************************)
EXTENDS Integers, Sequences

CONSTANTS
  Checks,       \* calls of check_aave_v3
  Chains,
  ChainOf,      \* the chain of each check's candidate
  Configured,   \* the chains the router has a provider for
  Cancellable,  \* the checks that run under a timeout of their caller
  MaxTasks      \* bound: resolves that are started

ASSUME ChecksAssumption ==
  ChainOf \in [Checks -> Chains] /\ Configured \subseteq Chains
ASSUME CancelAssumption == Cancellable \subseteq Checks
ASSUME TasksAssumption == MaxTasks \in Nat

VARIABLES
  tasks,  \* the Tasks created so far, each with its chain and state
  cache,  \* _aave_v3: per chain the number of its Task, or 0
  check   \* per check: where it is, and the Task it awaits

vars == <<tasks, cache, check>>

Done == {"client", "raised", "cancelled"}  \* how a Task, and a check, ends

Init ==
  /\ tasks = << >>
  /\ cache = [ch \in Chains |-> 0]
  /\ check = [c \in Checks |-> [pc |-> "new", on |-> 0]]

-----------------------------------------------------------------------------
\* Mutant: whatever is cached is evicted.
EvictedAny(t) == [cache EXCEPT ![tasks[t].chain] = 0]

\* "Evict only our own task".
Evicted(t) == [cache EXCEPT ![tasks[t].chain] = IF @ = t THEN 0 ELSE @]

\* Mutant: a failure stays cached.
NeverEvicts(c, t) ==
  /\ check' = [check EXCEPT ![c] = [pc |-> tasks[t].state, on |-> t]]
  /\ UNCHANGED cache

\* `return await task` on a Task that is done.  A CancelledError is not an
\* Exception: it passes the handler and nothing is evicted.
Take(c, t) ==
  /\ check' = [check EXCEPT ![c] = [pc |-> tasks[t].state, on |-> t]]
  /\ cache' = IF tasks[t].state = "raised" THEN Evicted(t) ELSE cache

\* Mutant: the provider is not looked up before the Task is cached.
AnyChain(ch) == TRUE

\* _w3: the router has a provider for the chain.
HasProvider(ch) == ch \in Configured

\* Entering on a chain with nothing cached, with or without a provider.
StartResolve(c) ==
  LET ch == ChainOf[c] IN
  /\ check[c].pc = "new" /\ cache[ch] = 0
  /\ HasProvider(ch) /\ Len(tasks) < MaxTasks
  /\ tasks' = Append(tasks, [chain |-> ch, state |-> "running"])
  /\ cache' = [cache EXCEPT ![ch] = Len(tasks) + 1]
  /\ check' = [check EXCEPT ![c] = [pc |-> "awaiting", on |-> Len(tasks) + 1]]

Unconfigured(c) ==
  /\ check[c].pc = "new" /\ cache[ChainOf[c]] = 0 /\ ~HasProvider(ChainOf[c])
  /\ check' = [check EXCEPT ![c].pc = "raised"]
  /\ UNCHANGED <<tasks, cache>>

\* Entering when a Task is cached: await it, or take its outcome at once.
Join(c) ==
  LET t == cache[ChainOf[c]] IN
  /\ check[c].pc = "new" /\ t # 0
  /\ IF tasks[t].state \in Done
       THEN Take(c, t)
       ELSE /\ check' = [check EXCEPT ![c] = [pc |-> "awaiting", on |-> t]]
            /\ UNCHANGED cache
  /\ UNCHANGED tasks

\* The Task ends, by AaveV3.from_chain or as the CancelledError thrown into it.
Resolve(t) ==
  /\ \/ tasks[t].state = "running"
        /\ \E r \in {"client", "raised"} : tasks' = [tasks EXCEPT ![t].state = r]
     \/ tasks[t].state = "cancelling"
        /\ tasks' = [tasks EXCEPT ![t].state = "cancelled"]
  /\ UNCHANGED <<cache, check>>

\* The event loop runs a check whose Task is done.
Resume(c) ==
  /\ check[c].pc = "awaiting" /\ tasks[check[c].on].state \in Done
  /\ Take(c, check[c].on)
  /\ UNCHANGED tasks

\* The caller's timeout.  Cancelling a coroutine cancels what it awaits, here
\* the Task it shares; only when that is done is it the coroutine itself.
Cancel(c) ==
  LET t == check[c].on IN
  /\ c \in Cancellable /\ check[c].pc = "awaiting"
  /\ IF tasks[t].state \in Done
       THEN check' = [check EXCEPT ![c].pc = "cancelled"] /\ UNCHANGED tasks
       ELSE tasks' = [tasks EXCEPT ![t].state = "cancelling"] /\ UNCHANGED check
  /\ UNCHANGED cache

Finished == (\A c \in Checks : check[c].pc \in Done) /\ UNCHANGED vars

Next ==
  \/ \E c \in Checks :
       StartResolve(c) \/ Unconfigured(c) \/ Join(c) \/ Resume(c) \/ Cancel(c)
  \/ \E t \in DOMAIN tasks : Resolve(t)
  \/ Finished

Spec == Init /\ [][Next]_vars

-----------------------------------------------------------------------------
Waiting == {c \in Checks : check[c].pc = "awaiting"}

\* Tasks are started and cached for configured chains only, and a check waits
\* for a Task of its own chain.
TypeOK ==
  /\ tasks \in Seq([chain : Configured,
                    state : {"running", "cancelling"} \union Done])
  /\ cache \in [Chains -> 0 .. Len(tasks)]
  /\ \A ch \in Chains : cache[ch] # 0 => tasks[cache[ch]].chain = ch
  /\ check \in [Checks -> [pc : {"new", "awaiting"} \union Done, on : 0 .. Len(tasks)]]
  /\ \A c \in Waiting : check[c].on # 0 /\ tasks[check[c].on].chain = ChainOf[c]

\* "Concurrent same-chain first-misses share one in-flight resolve": a resolve
\* that is under way is the cached one, also when the awaiters of an earlier,
\* failed one wake up late.
OneResolveInFlight ==
  \A t \in DOMAIN tasks :
    tasks[t].state \in {"running", "cancelling"} => cache[tasks[t].chain] = t

\* The checks of this chain have all ended, or not begun.
Quiet(ch) == \A c \in Waiting : ChainOf[c] # ch

\* A failed resolve is evicted by whichever awaiter wakes up first: when the
\* checks of a chain have ended and none was cancelled, no failure is cached.
FailureEvicted ==
  \A ch \in Chains :
    cache[ch] # 0 /\ Quiet(ch) =>
      \/ tasks[cache[ch]].state = "client"
      \/ \E c \in Cancellable : ChainOf[c] = ch /\ check[c].pc = "cancelled"

\* What the checks share is never doubled and never a failure.
CacheSound == OneResolveInFlight /\ FailureEvicted

\* "a failed resolve is evicted so the next candidate retries rather than
\* inheriting a cached failure": nor does one that was cancelled remain.
NotPoisoned ==
  \A ch \in Chains :
    cache[ch] # 0 /\ Quiet(ch) => tasks[cache[ch]].state # "cancelled"
=============================================================================
