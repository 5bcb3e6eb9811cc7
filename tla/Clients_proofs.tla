--------------------------- MODULE Clients_proofs ---------------------------
(***************************************************************************)
(* Proofs about the clients that await answers, for any number of calls,   *)
(* endpoints, checks, blocks and addresses, whatever the order in which    *)
(* answers, failures and timeouts arrive; and about the UniversalRouter,   *)
(* for routes of any length.                                               *)
(***************************************************************************)
EXTENDS Clients, FiniteSetTheorems, SequenceTheorems, TLAPS

-----------------------------------------------------------------------------
(* LiquidationCache.  A failed resolve is never left behind: until somebody *)
(* takes it out, a check that saw it fail is about to.                      *)

Task == [chain : Configured, state : {"running", "cancelling"} \union Done]

IInv == TypeOK /\ OneResolveInFlight

-----------------------------------------------------------------------------
LEMMA TaskAt ==
  ASSUME IInv, NEW t \in DOMAIN tasks
  PROVE  /\ t \in 1 .. Len(tasks) /\ t # 0 /\ tasks[t] \in Task
         /\ tasks[t].chain \in Chains
         /\ tasks[t].state \in {"running", "cancelling"} \union Done
<1>1. tasks \in Seq(Task)
  BY DEF IInv, TypeOK, Task
<1>2. DOMAIN tasks = 1 .. Len(tasks) /\ Len(tasks) \in Nat
  BY <1>1
<1>3. tasks[t] \in Task
  BY <1>1, <1>2
<1>4. tasks[t].chain \in Configured
      /\ tasks[t].state \in {"running", "cancelling"} \union Done
  BY <1>3 DEF Task
<1> QED
  BY <1>2, <1>3, <1>4, ChecksAssumption

\* A check is set to a state of its own, and the cache loses at most entries
\* of Tasks that are done.
LEMMA QuietStep ==
  ASSUME IInv, tasks' = tasks,
         cache' \in [Chains -> Int],
         \A ch \in Chains :
           \/ cache'[ch] = cache[ch]
           \/ cache'[ch] = 0 /\ (cache[ch] # 0 => tasks[cache[ch]].state \in Done),
         NEW c \in Checks, NEW q,
         q \in [pc : {"new", "awaiting"} \union Done, on : 0 .. Len(tasks)],
         q.pc = "awaiting" => q.on # 0 /\ tasks[q.on].chain = ChainOf[c],
         check' = [check EXCEPT ![c] = q]
  PROVE  IInv'
<1>1. tasks \in Seq(Task) /\ Len(tasks) \in Nat
  BY DEF IInv, TypeOK, Task
<1>2. cache' \in [Chains -> 0 .. Len(tasks')]
  BY <1>1 DEF IInv, TypeOK
<1>3. \A ch \in Chains : cache'[ch] # 0 => tasks'[cache'[ch]].chain = ch
  BY DEF IInv, TypeOK
<1>4. check' \in [Checks -> [pc : {"new", "awaiting"} \union Done,
                             on : 0 .. Len(tasks')]]
  BY DEF IInv, TypeOK
<1>5. \A d \in Waiting' : check'[d].on # 0 /\ tasks'[check'[d].on].chain = ChainOf[d]
  <2> SUFFICES ASSUME NEW d \in Checks, check'[d].pc = "awaiting"
               PROVE  check'[d].on # 0 /\ tasks'[check'[d].on].chain = ChainOf[d]
    BY DEF Waiting
  <2>1. CASE d = c
    BY <2>1 DEF IInv, TypeOK
  <2>2. CASE d # c
    BY <2>2 DEF IInv, TypeOK, Waiting
  <2> QED
    BY <2>1, <2>2
<1>6. TypeOK'
  BY <1>1, <1>2, <1>3, <1>4, <1>5 DEF TypeOK, Task
<1>7. OneResolveInFlight'
  <2> SUFFICES ASSUME NEW t \in DOMAIN tasks, tasks[t].state \in {"running", "cancelling"}
               PROVE  cache'[tasks[t].chain] = t
    BY DEF OneResolveInFlight
  <2>1. cache[tasks[t].chain] = t
    BY DEF IInv, OneResolveInFlight
  <2>2. tasks[t].chain \in Chains /\ t # 0
    BY TaskAt
  <2>3. tasks[t].state \notin Done
    BY DEF Done
  <2> QED
    BY <2>1, <2>2, <2>3
<1> QED
  BY <1>6, <1>7 DEF IInv

\* Taking the outcome of a Task that is done.
LEMMA TakeStep ==
  ASSUME IInv, NEW c \in Checks, NEW t \in DOMAIN tasks, tasks[t].state \in Done,
         tasks' = tasks, Take(c, t)
  PROVE  IInv'
<1>1. tasks \in Seq(Task) /\ Len(tasks) \in Nat /\ t \in 1 .. Len(tasks)
      /\ cache \in [Chains -> 0 .. Len(tasks)]
  BY DEF IInv, TypeOK, Task
<1>2. tasks[t].chain \in Chains
  BY TaskAt
<1> DEFINE q == [pc |-> tasks[t].state, on |-> t]
<1>3. q \in [pc : {"new", "awaiting"} \union Done, on : 0 .. Len(tasks)]
      /\ q.pc # "awaiting"
  BY <1>1 DEF Done
<1>4. check' = [check EXCEPT ![c] = q]
  BY DEF Take
<1>5. /\ cache' \in [Chains -> Int]
      /\ \A ch \in Chains : cache'[ch] = cache[ch] \/ (cache'[ch] = 0 /\ cache[ch] = t)
  <2>1. CASE tasks[t].state = "raised"
    BY <2>1, <1>1, <1>2 DEF Take, Evicted
  <2>2. CASE tasks[t].state # "raised"
    BY <2>2, <1>1 DEF Take
  <2> QED
    BY <2>1, <2>2
<1> HIDE DEF q
<1> QED
  BY <1>3, <1>4, <1>5, QuietStep

\* A first miss starts a resolve and caches it.
LEMMA StartStep ==
  ASSUME IInv, NEW c \in Checks, StartResolve(c)
  PROVE  IInv'
<1> DEFINE ch == ChainOf[c]
           n == Len(tasks) + 1
           task == [chain |-> ch, state |-> "running"]
<1>1. tasks \in Seq(Task) /\ Len(tasks) \in Nat /\ n \in Nat \ {0}
      /\ cache \in [Chains -> 0 .. Len(tasks)] /\ cache[ch] = 0 /\ ch \in Configured
      /\ ch \in Chains
  BY ChecksAssumption DEF IInv, TypeOK, Task, StartResolve, HasProvider
<1>2. task \in Task
  BY <1>1 DEF Task
<1>3. /\ tasks' = Append(tasks, task)
      /\ cache' = [cache EXCEPT ![ch] = n]
      /\ check' = [check EXCEPT ![c] = [pc |-> "awaiting", on |-> n]]
  BY DEF StartResolve
<1> HIDE DEF task
<1>4. /\ tasks' \in Seq(Task) /\ Len(tasks') = n /\ tasks'[n] = task
      /\ DOMAIN tasks' = 1 .. n
      /\ \A t \in 1 .. Len(tasks) : tasks'[t] = tasks[t]
  BY <1>1, <1>2, <1>3, AppendProperties
<1>5. task.chain = ch
  BY DEF task
<1> HIDE DEF n, ch
<1>6. /\ 0 .. Len(tasks) \subseteq 0 .. n /\ n \in 0 .. n /\ n # 0
      /\ \A t : t \in 1 .. n <=> (t \in 1 .. Len(tasks) \/ t = n)
      /\ \A t : t \in 0 .. Len(tasks) => t = 0 \/ t \in 1 .. Len(tasks)
  BY <1>1 DEF n
<1>7. cache' \in [Chains -> 0 .. n]
  BY <1>1, <1>3, <1>6
<1>8. \A x \in Chains : cache'[x] # 0 => tasks'[cache'[x]].chain = x
  <2> SUFFICES ASSUME NEW x \in Chains, cache'[x] # 0
               PROVE  tasks'[cache'[x]].chain = x
    OBVIOUS
  <2>1. CASE x = ch
    BY <2>1, <1>1, <1>3, <1>4, <1>5
  <2>2. CASE x # ch
    <3>1. cache'[x] = cache[x] /\ cache[x] \in 1 .. Len(tasks)
      BY <2>2, <1>1, <1>3, <1>6
    <3> QED
      BY <3>1, <1>4 DEF IInv, TypeOK
  <2> QED
    BY <2>1, <2>2
<1>9. check' \in [Checks -> [pc : {"new", "awaiting"} \union Done, on : 0 .. n]]
  BY <1>3, <1>6 DEF IInv, TypeOK
<1>10. \A d \in Waiting' : check'[d].on # 0 /\ tasks'[check'[d].on].chain = ChainOf[d]
  <2> SUFFICES ASSUME NEW d \in Checks, check'[d].pc = "awaiting"
               PROVE  check'[d].on # 0 /\ tasks'[check'[d].on].chain = ChainOf[d]
    BY DEF Waiting
  <2>1. CASE d = c
    <3>1. check'[d].on = n
      BY <2>1, <1>3 DEF IInv, TypeOK
    <3> QED
      BY <2>1, <3>1, <1>4, <1>5, <1>6 DEF ch
  <2>2. CASE d # c
    <3>1. check'[d] = check[d] /\ d \in Waiting
      BY <2>2, <1>3 DEF IInv, TypeOK, Waiting
    <3>2. check[d].on \in 1 .. Len(tasks) /\ tasks[check[d].on].chain = ChainOf[d]
      BY <3>1, <1>6 DEF IInv, TypeOK
    <3> QED
      BY <3>1, <3>2, <1>4
  <2> QED
    BY <2>1, <2>2
<1>11. TypeOK'
  BY <1>4, <1>7, <1>8, <1>9, <1>10 DEF TypeOK, Task
<1>12. OneResolveInFlight'
  <2> SUFFICES ASSUME NEW t \in 1 .. n, tasks'[t].state \in {"running", "cancelling"}
               PROVE  cache'[tasks'[t].chain] = t
    BY <1>4 DEF OneResolveInFlight
  <2>1. CASE t = n
    BY <2>1, <1>1, <1>3, <1>4, <1>5
  <2>2. CASE t \in 1 .. Len(tasks)
    <3>1. tasks'[t] = tasks[t] /\ cache[tasks[t].chain] = t /\ t # 0
      BY <2>2, <1>1, <1>4 DEF IInv, OneResolveInFlight
    <3>2. tasks[t].chain # ch
      BY <3>1, <1>1
    <3>3. tasks[t].chain \in Chains
      BY <2>2, <1>1, TaskAt
    <3> QED
      BY <3>1, <3>2, <3>3, <1>1, <1>3
  <2> QED
    BY <2>1, <2>2, <1>6
<1> QED
  BY <1>11, <1>12 DEF IInv

\* A Task changes its state and nothing else; one that is done stays done.
LEMMA ResolveStep ==
  ASSUME IInv, cache' = cache, check' = check,
         NEW t \in DOMAIN tasks, NEW s \in {"running", "cancelling"} \union Done,
         tasks[t].state \in {"running", "cancelling"},
         tasks' = [tasks EXCEPT ![t].state = s]
  PROVE  IInv'
<1>1. tasks \in Seq(Task) /\ Len(tasks) \in Nat
  BY DEF IInv, TypeOK, Task
<1>2. [tasks[t] EXCEPT !.state = s] \in Task
  BY TaskAt DEF Task
<1>3. /\ tasks' \in Seq(Task) /\ Len(tasks') = Len(tasks)
      /\ DOMAIN tasks' = DOMAIN tasks
  BY <1>1, <1>2, ExceptSeq
<1>4. \A u \in DOMAIN tasks :
        /\ tasks'[u].chain = tasks[u].chain
        /\ u # t => tasks'[u] = tasks[u]
  BY <1>1 DEF Task
<1>5. TypeOK'
  BY <1>1, <1>3, <1>4 DEF IInv, TypeOK, Task, Waiting
<1>6. OneResolveInFlight'
  BY <1>3, <1>4 DEF IInv, OneResolveInFlight
<1> QED
  BY <1>5, <1>6 DEF IInv

LEMMA NextStep ==
  ASSUME IInv, [Next]_vars
  PROVE  IInv'
<1>1. /\ tasks \in Seq(Task) /\ Len(tasks) \in Nat /\ DOMAIN tasks = 1 .. Len(tasks)
      /\ cache \in [Chains -> 0 .. Len(tasks)]
      /\ check \in [Checks -> [pc : {"new", "awaiting"} \union Done, on : 0 .. Len(tasks)]]
      /\ \A c \in Checks : check[c].pc = "awaiting" =>
           check[c].on # 0 /\ tasks[check[c].on].chain = ChainOf[c]
  BY DEF IInv, TypeOK, Task, Waiting
<1>2. cache \in [Chains -> Int]
  BY <1>1
<1>3. ASSUME NEW c \in Checks, StartResolve(c) PROVE IInv'
  BY <1>3, StartStep
<1>4. ASSUME NEW c \in Checks, Unconfigured(c) PROVE IInv'
  <2> DEFINE q == [check[c] EXCEPT !.pc = "raised"]
  <2>1. q \in [pc : {"new", "awaiting"} \union Done, on : 0 .. Len(tasks)]
        /\ q.pc # "awaiting"
    BY <1>1 DEF Done
  <2>2. check' = [check EXCEPT ![c] = q] /\ tasks' = tasks /\ cache' = cache
    BY <1>4 DEF Unconfigured
  <2> HIDE DEF q
  <2> QED
    BY <2>1, <2>2, <1>2, QuietStep
<1>5. ASSUME NEW c \in Checks, Join(c) PROVE IInv'
  <2> DEFINE t == cache[ChainOf[c]]
             q == [pc |-> "awaiting", on |-> t]
  <2>1. ChainOf[c] \in Chains /\ t # 0 /\ t \in 0 .. Len(tasks) /\ tasks' = tasks
    BY <1>1, <1>5, ChecksAssumption DEF Join
  <2>2. t \in DOMAIN tasks /\ tasks[t].chain = ChainOf[c]
    BY <2>1, <1>1 DEF IInv, TypeOK
  <2>3. CASE tasks[t].state \in Done
    <3>1. Take(c, t)
      BY <2>3, <1>5 DEF Join
    <3> HIDE DEF t
    <3> QED
      BY <2>1, <2>2, <2>3, <3>1, TakeStep
  <2>4. CASE tasks[t].state \notin Done
    <3>1. q \in [pc : {"new", "awaiting"} \union Done, on : 0 .. Len(tasks)]
          /\ q.on # 0 /\ tasks[q.on].chain = ChainOf[c]
      BY <2>1, <2>2
    <3>2. check' = [check EXCEPT ![c] = q] /\ cache' = cache
      BY <2>4, <1>5 DEF Join
    <3> HIDE DEF q
    <3> QED
      BY <2>1, <3>1, <3>2, <1>2, QuietStep
  <2> QED
    BY <2>3, <2>4
<1>6. ASSUME NEW c \in Checks, Resume(c) PROVE IInv'
  <2>1. check[c].on \in DOMAIN tasks /\ tasks[check[c].on].state \in Done
        /\ tasks' = tasks /\ Take(c, check[c].on)
    BY <1>1, <1>6 DEF Resume
  <2> QED
    BY <2>1, TakeStep
<1>7. ASSUME NEW c \in Checks, Cancel(c) PROVE IInv'
  <2> DEFINE t == check[c].on
             q == [check[c] EXCEPT !.pc = "cancelled"]
  <2>1. t \in DOMAIN tasks /\ cache' = cache
    BY <1>1, <1>7 DEF Cancel
  <2>2. CASE tasks[t].state \in Done
    <3>1. q \in [pc : {"new", "awaiting"} \union Done, on : 0 .. Len(tasks)]
          /\ q.pc # "awaiting"
      BY <1>1 DEF Done
    <3>2. check' = [check EXCEPT ![c] = q] /\ tasks' = tasks
      BY <2>2, <1>7 DEF Cancel
    <3> HIDE DEF q
    <3> QED
      BY <2>1, <3>1, <3>2, <1>2, QuietStep
  <2>3. CASE tasks[t].state \notin Done
    <3>1. check' = check /\ tasks' = [tasks EXCEPT ![t].state = "cancelling"]
      BY <2>3, <1>7 DEF Cancel
    <3>2. tasks[t].state \in {"running", "cancelling"}
      BY <2>1, <2>3, TaskAt
    <3> HIDE DEF t
    <3> QED
      BY <2>1, <3>1, <3>2, ResolveStep
  <2> QED
    BY <2>2, <2>3
<1>8. ASSUME NEW t \in DOMAIN tasks, Resolve(t) PROVE IInv'
  <2>1. PICK s \in Done : tasks' = [tasks EXCEPT ![t].state = s]
    BY <1>8 DEF Resolve, Done
  <2>2. cache' = cache /\ check' = check
        /\ tasks[t].state \in {"running", "cancelling"}
    BY <1>8 DEF Resolve
  <2> QED
    BY <2>1, <2>2, ResolveStep
<1>9. CASE Finished \/ UNCHANGED vars
  <2>1. UNCHANGED <<tasks, cache, check>>
    BY <1>9 DEF Finished, vars
  <2> QED
    BY <2>1 DEF IInv, TypeOK, OneResolveInFlight, Waiting
<1> QED
  BY <1>3, <1>4, <1>5, <1>6, <1>7, <1>8, <1>9 DEF Next

LEMMA InitStep == Init => IInv
BY DEF Init, IInv, TypeOK, OneResolveInFlight, Waiting, Done

\* Type correctness of the cache: every entry is a Task of its own chain, and
\* every check that waits does so on one of its own chain.
THEOREM CacheTyped == Spec => []TypeOK
<1>1. IInv /\ [Next]_vars => IInv'
  BY NextStep
<1>2. IInv => TypeOK
  BY DEF IInv
<1> QED
  BY <1>1, <1>2, InitStep, PTL DEF Spec

\* Concurrent first misses share one resolve, and no late awaiter of a failed
\* one ever evicts its successor.
THEOREM SharedResolve == Spec => []OneResolveInFlight
<1>1. IInv /\ [Next]_vars => IInv'
  BY NextStep
<1>2. IInv => OneResolveInFlight
  BY DEF IInv
<1> QED
  BY <1>1, <1>2, InitStep, PTL DEF Spec
-----------------------------------------------------------------------------
\* Who will evict the cached Task of a chain if it fails: a check that awaits
\* it.  Who is to blame for one that is cancelled: a check with a timeout that
\* awaits it, or one that has already been cancelled.
Awaited(ch) == \E c \in Waiting : check[c].on = cache[ch]
TimedOut(ch) == \E c \in Cancellable : ChainOf[c] = ch /\ check[c].pc = "cancelled"
TimingOut(ch) == \E c \in Cancellable \intersect Waiting : check[c].on = cache[ch]

Answered(ch) ==
  LET s == tasks[cache[ch]].state IN
  cache[ch] # 0 =>
    /\ s \in {"running", "raised"} => Awaited(ch) \/ TimedOut(ch)
    /\ s \in {"cancelling", "cancelled"} => TimingOut(ch) \/ TimedOut(ch)

AllAnswered == \A ch \in Chains : Answered(ch)

\* One check moves on; if it awaited a cached Task, that one is a client or
\* the check ends as cancelled.
LEMMA AnsweredAfterCheck ==
  ASSUME IInv, AllAnswered, NEW c \in Checks, NEW q,
         check' = [check EXCEPT ![c] = q], tasks' = tasks,
         check[c].pc # "cancelled",
         \A ch \in Chains : cache'[ch] # 0 => cache'[ch] = cache[ch],
         \A ch \in Chains :
           cache'[ch] # 0 /\ check[c].pc = "awaiting" /\ check[c].on = cache[ch] =>
             \/ tasks[cache[ch]].state = "client"
             \/ /\ q.pc = "cancelled"
                /\ c \in Cancellable \/ tasks[cache[ch]].state = "cancelled"
  PROVE  AllAnswered'
<1> SUFFICES ASSUME NEW ch \in Chains, cache'[ch] # 0
             PROVE  Answered(ch)'
  BY DEF AllAnswered, Answered
<1>1. cache'[ch] = cache[ch] /\ Answered(ch)
  BY DEF AllAnswered
<1>2. /\ check'[c] = q
      /\ \A d \in Checks \ {c} : check'[d] = check[d]
  BY DEF IInv, TypeOK
<1>3. Cancellable \subseteq Checks
  BY CancelAssumption
<1>4. TimedOut(ch) => TimedOut(ch)'
  BY <1>2, <1>3 DEF TimedOut
<1>5. CASE check[c].pc = "awaiting" /\ check[c].on = cache[ch]
  <2>1. ChainOf[c] = ch
    BY <1>1, <1>5 DEF IInv, TypeOK, Waiting
  <2>2. CASE tasks[cache[ch]].state = "client"
    BY <2>2, <1>1 DEF Answered
  <2>3. CASE q.pc = "cancelled" /\ c \in Cancellable
    <3>1. TimedOut(ch)'
      BY <2>1, <2>3, <1>2 DEF TimedOut
    <3> QED
      BY <3>1 DEF Answered
  <2>4. CASE q.pc = "cancelled" /\ tasks[cache[ch]].state = "cancelled"
    <3>1. TimingOut(ch) => TimedOut(ch)' \/ TimingOut(ch)'
      <4> SUFFICES ASSUME NEW d \in Cancellable \intersect Waiting,
                          check[d].on = cache[ch]
                   PROVE  TimedOut(ch)' \/ TimingOut(ch)'
        BY DEF TimingOut
      <4>1. CASE d = c
        BY <4>1, <2>1, <2>4, <1>2 DEF TimedOut
      <4>2. CASE d # c
        BY <4>2, <1>1, <1>2, <1>3 DEF TimingOut, Waiting
      <4> QED
        BY <4>1, <4>2
    <3> QED
      BY <3>1, <2>4, <1>1, <1>4 DEF Answered
  <2> QED
    BY <2>2, <2>3, <2>4, <1>1, <1>5
<1>6. CASE ~(check[c].pc = "awaiting" /\ check[c].on = cache[ch])
  <2>1. Awaited(ch) => Awaited(ch)'
    <3> SUFFICES ASSUME NEW d \in Checks, check[d].pc = "awaiting",
                        check[d].on = cache[ch]
                 PROVE  Awaited(ch)'
      BY DEF Awaited, Waiting
    <3> QED
      BY <1>1, <1>2, <1>6 DEF Awaited, Waiting
  <2>2. TimingOut(ch) => TimingOut(ch)'
    <3> SUFFICES ASSUME NEW d \in Cancellable, check[d].pc = "awaiting",
                        check[d].on = cache[ch]
                 PROVE  TimingOut(ch)'
      BY DEF TimingOut, Waiting
    <3> QED
      BY <1>1, <1>2, <1>3, <1>6 DEF TimingOut, Waiting
  <2> QED
    BY <2>1, <2>2, <1>1, <1>4 DEF Answered
<1> QED
  BY <1>5, <1>6

\* One Task moves on: from running to any state if a check that may still be
\* cancelled awaits it, from cancelling to cancelled, or to an end of its own.
LEMMA AnsweredAfterTask ==
  ASSUME IInv, AllAnswered, cache' = cache, check' = check,
         NEW t \in DOMAIN tasks, NEW s \in {"running", "cancelling"} \union Done,
         tasks' = [tasks EXCEPT ![t].state = s],
         \/ tasks[t].state = "running" /\ s \in {"client", "raised"}
         \/ tasks[t].state = "cancelling" /\ s = "cancelled"
         \/ s = "cancelling" /\ \E c \in Cancellable \intersect Waiting : check[c].on = t
  PROVE  AllAnswered'
<1> SUFFICES ASSUME NEW ch \in Chains, cache[ch] # 0
             PROVE  Answered(ch)'
  BY DEF AllAnswered, Answered
<1>1. Answered(ch) /\ cache[ch] \in DOMAIN tasks
  BY DEF AllAnswered, IInv, TypeOK
<1>2. /\ TimedOut(ch)' <=> TimedOut(ch)
      /\ TimingOut(ch)' <=> TimingOut(ch)
      /\ Awaited(ch)' <=> Awaited(ch)
  BY DEF TimedOut, TimingOut, Awaited, Waiting
<1>3. CASE cache[ch] # t
  <2>1. tasks'[cache[ch]] = tasks[cache[ch]]
    BY <1>1, <1>3
  <2> QED
    BY <2>1, <1>1, <1>2 DEF Answered
<1>4. CASE cache[ch] = t
  <2>1. tasks'[cache[ch]].state = s
    BY <1>1, <1>4, TaskAt DEF Task
  <2>2. s = "cancelling" /\ (\E c \in Cancellable \intersect Waiting : check[c].on = t)
          => TimingOut(ch)
    BY <1>4 DEF TimingOut
  <2> QED
    BY <2>1, <2>2, <1>1, <1>2, <1>4 DEF Answered
<1> QED
  BY <1>3, <1>4

\* A check that starts a resolve awaits it.
LEMMA AnsweredAfterStart ==
  ASSUME IInv, AllAnswered, NEW c \in Checks, StartResolve(c)
  PROVE  AllAnswered'
<1> SUFFICES ASSUME NEW ch \in Chains, cache'[ch] # 0
             PROVE  Answered(ch)'
  BY DEF AllAnswered, Answered
<1> DEFINE n == Len(tasks) + 1
           task == [chain |-> ChainOf[c], state |-> "running"]
<1>1. /\ check[c].pc = "new" /\ ChainOf[c] \in Configured
      /\ tasks' = Append(tasks, task)
      /\ cache' = [cache EXCEPT ![ChainOf[c]] = n]
      /\ check' = [check EXCEPT ![c] = [pc |-> "awaiting", on |-> n]]
  BY DEF StartResolve, HasProvider
<1>2. /\ check'[c].pc = "awaiting" /\ check'[c].on = n
      /\ \A d \in Checks \ {c} : check'[d] = check[d]
  BY <1>1 DEF IInv, TypeOK
<1>3. tasks \in Seq(Task) /\ task \in Task /\ Len(tasks) \in Nat
  BY <1>1 DEF IInv, TypeOK, Task
<1>4. /\ tasks'[n] = task
      /\ \A t \in 1 .. Len(tasks) : tasks'[t] = tasks[t]
  <2> HIDE DEF task
  <2> QED
    BY <1>1, <1>3, AppendProperties
<1>5. CASE ch = ChainOf[c]
  <2>1. cache'[ch] = n
    BY <1>1, <1>5 DEF IInv, TypeOK
  <2>2. Awaited(ch)' /\ tasks'[cache'[ch]].state = "running"
    BY <2>1, <1>2, <1>4 DEF Awaited, Waiting
  <2> QED
    BY <2>2 DEF Answered
<1>6. CASE ch # ChainOf[c]
  <2>1. cache'[ch] = cache[ch] /\ cache[ch] \in 1 .. Len(tasks)
    BY <1>1, <1>3, <1>6 DEF IInv, TypeOK
  <2>2. tasks'[cache'[ch]] = tasks[cache[ch]] /\ Answered(ch)
    BY <2>1, <1>4 DEF AllAnswered
  <2>3. Cancellable \subseteq Checks
    BY CancelAssumption
  <2>4. /\ TimedOut(ch) => TimedOut(ch)'
        /\ TimingOut(ch) => TimingOut(ch)'
        /\ Awaited(ch) => Awaited(ch)'
    BY <2>1, <2>3, <1>1, <1>2 DEF TimedOut, TimingOut, Awaited, Waiting
  <2> QED
    BY <2>1, <2>2, <2>4 DEF Answered
<1> QED
  BY <1>5, <1>6

\* Taking an outcome evicts it if it is a failure.
LEMMA AnsweredAfterTake ==
  ASSUME IInv, AllAnswered, NEW c \in Checks, NEW t \in DOMAIN tasks,
         tasks[t].state \in Done, tasks' = tasks, Take(c, t),
         \/ check[c].pc = "new"
         \/ check[c].pc = "awaiting" /\ check[c].on = t
  PROVE  AllAnswered'
<1> DEFINE q == [pc |-> tasks[t].state, on |-> t]
<1>1. /\ check' = [check EXCEPT ![c] = q] /\ q.pc = tasks[t].state
      /\ cache \in [Chains -> 0 .. Len(tasks)]
  BY DEF Take, IInv, TypeOK
<1>2. \A ch \in Chains :
        /\ cache'[ch] # 0 => cache'[ch] = cache[ch]
        /\ cache'[ch] # 0 /\ cache[ch] = t => tasks[t].state # "raised"
  <2> SUFFICES ASSUME NEW ch \in Chains
               PROVE  /\ cache'[ch] # 0 => cache'[ch] = cache[ch]
                      /\ cache'[ch] # 0 /\ cache[ch] = t => tasks[t].state # "raised"
    OBVIOUS
  <2>1. CASE tasks[t].state = "raised"
    <3>1. cache' = [cache EXCEPT ![tasks[t].chain] = IF @ = t THEN 0 ELSE @]
      BY <2>1 DEF Take, Evicted
    <3>2. cache[ch] = t => tasks[t].chain = ch
      BY TaskAt DEF IInv, TypeOK
    <3> QED
      BY <3>1, <3>2, <1>1
  <2>2. CASE tasks[t].state # "raised"
    BY <2>2 DEF Take
  <2> QED
    BY <2>1, <2>2
<1>3. tasks[t].state \in {"client", "raised", "cancelled"}
  BY DEF Done
<1> HIDE DEF q
<1>4. ASSUME NEW ch \in Chains, cache'[ch] # 0, check[c].pc = "awaiting",
             check[c].on = cache[ch]
      PROVE  \/ tasks[cache[ch]].state = "client"
             \/ q.pc = "cancelled" /\ tasks[cache[ch]].state = "cancelled"
  BY <1>1, <1>2, <1>3, <1>4
<1>5. check[c].pc # "cancelled" /\ \A ch \in Chains : cache'[ch] # 0 => cache'[ch] = cache[ch]
  BY <1>2
<1> QED
  BY <1>1, <1>4, <1>5, AnsweredAfterCheck

LEMMA NextAnswered ==
  ASSUME IInv, AllAnswered, [Next]_vars
  PROVE  AllAnswered'
<1>1. /\ \A c \in Checks : check[c].on \in 0 .. Len(tasks) /\ Len(tasks) \in Nat
      /\ \A c \in Checks : check[c].pc = "awaiting" => check[c].on \in DOMAIN tasks
  BY DEF IInv, TypeOK, Waiting
<1>2. ASSUME NEW c \in Checks, StartResolve(c) PROVE AllAnswered'
  BY <1>2, AnsweredAfterStart
<1>3. ASSUME NEW c \in Checks, Unconfigured(c) PROVE AllAnswered'
  <2>1. PICK q : check' = [check EXCEPT ![c] = q]
    BY <1>3 DEF Unconfigured
  <2>2. tasks' = tasks /\ cache' = cache /\ check[c].pc = "new"
    BY <1>3 DEF Unconfigured
  <2> QED
    BY <2>1, <2>2, AnsweredAfterCheck
<1>4. ASSUME NEW c \in Checks, Join(c) PROVE AllAnswered'
  <2> DEFINE t == cache[ChainOf[c]]
             q == [pc |-> "awaiting", on |-> t]
  <2>1. /\ ChainOf[c] \in Chains /\ t \in DOMAIN tasks /\ tasks' = tasks
        /\ check[c].pc = "new"
    BY <1>4, ChecksAssumption DEF Join, IInv, TypeOK
  <2>2. CASE tasks[t].state \in Done
    <3>1. Take(c, t)
      BY <2>2, <1>4 DEF Join
    <3> HIDE DEF t
    <3> QED
      BY <2>1, <2>2, <3>1, AnsweredAfterTake
  <2>3. CASE tasks[t].state \notin Done
    <3>1. check' = [check EXCEPT ![c] = q] /\ cache' = cache
      BY <2>3, <1>4 DEF Join
    <3> HIDE DEF q
    <3> QED
      BY <2>1, <3>1, AnsweredAfterCheck
  <2> QED
    BY <2>2, <2>3
<1>5. ASSUME NEW c \in Checks, Resume(c) PROVE AllAnswered'
  <2>1. /\ check[c].pc = "awaiting" /\ tasks[check[c].on].state \in Done
        /\ Take(c, check[c].on) /\ tasks' = tasks
    BY <1>5 DEF Resume
  <2> QED
    BY <2>1, <1>1, AnsweredAfterTake
<1>6. ASSUME NEW c \in Checks, Cancel(c) PROVE AllAnswered'
  <2> DEFINE t == check[c].on
             q == [check[c] EXCEPT !.pc = "cancelled"]
  <2>1. /\ c \in Cancellable /\ check[c].pc = "awaiting" /\ cache' = cache
        /\ t \in DOMAIN tasks /\ c \in Waiting
    BY <1>1, <1>6 DEF Cancel, Waiting
  <2>2. CASE tasks[t].state \in Done
    <3>1. check' = [check EXCEPT ![c] = q] /\ tasks' = tasks
      BY <2>2, <1>6 DEF Cancel
    <3>2. q.pc = "cancelled"
      BY DEF IInv, TypeOK
    <3> HIDE DEF q
    <3> QED
      BY <2>1, <3>1, <3>2, AnsweredAfterCheck
  <2>3. CASE tasks[t].state \notin Done
    <3>1. check' = check /\ tasks' = [tasks EXCEPT ![t].state = "cancelling"]
      BY <2>3, <1>6 DEF Cancel
    <3>2. \E d \in Cancellable \intersect Waiting : check[d].on = t
      BY <2>1
    <3> HIDE DEF t
    <3> QED
      BY <2>1, <3>1, <3>2, AnsweredAfterTask
  <2> QED
    BY <2>2, <2>3
<1>7. ASSUME NEW t \in DOMAIN tasks, Resolve(t) PROVE AllAnswered'
  <2>1. PICK s \in Done :
          /\ tasks' = [tasks EXCEPT ![t].state = s]
          /\ \/ tasks[t].state = "running" /\ s \in {"client", "raised"}
             \/ tasks[t].state = "cancelling" /\ s = "cancelled"
    BY <1>7 DEF Resolve, Done
  <2>2. cache' = cache /\ check' = check
    BY <1>7 DEF Resolve
  <2> QED
    BY <2>1, <2>2, AnsweredAfterTask
<1>8. CASE Finished \/ UNCHANGED vars
  <2>1. UNCHANGED <<tasks, cache, check>>
    BY <1>8 DEF Finished, vars
  <2> QED
    BY <2>1 DEF AllAnswered, Answered, Awaited, TimedOut, TimingOut, Waiting
<1> QED
  BY <1>2, <1>3, <1>4, <1>5, <1>6, <1>7, <1>8 DEF Next

\* A check awaits Tasks of its own chain only: when the chain is quiet, nobody
\* is left to evict a failure, so there is none.
LEMMA AnsweredIsSound == IInv /\ AllAnswered => CacheSound
<1> SUFFICES ASSUME IInv, AllAnswered, NEW ch \in Chains, cache[ch] # 0, Quiet(ch)
             PROVE  tasks[cache[ch]].state = "client" \/ TimedOut(ch)
  BY DEF CacheSound, FailureEvicted, TimedOut, IInv
<1>1. cache[ch] \in DOMAIN tasks /\ tasks[cache[ch]].chain = ch
  BY DEF IInv, TypeOK
<1>2. ~Awaited(ch) /\ ~TimingOut(ch)
  BY <1>1 DEF Awaited, TimingOut, Quiet, IInv, TypeOK
<1>3. tasks[cache[ch]].state \in {"running", "cancelling"} \union Done
  BY <1>1, TaskAt
<1> QED
  BY <1>2, <1>3 DEF AllAnswered, Answered, Done

\* What concurrent checks share is one resolve per chain, and a failed one is
\* gone when the checks that saw it have ended, unless one was cancelled.
THEOREM SharedAndClean == Spec => []CacheSound
<1>1. Init => AllAnswered
  BY DEF Init, AllAnswered, Answered
<1>2. IInv /\ [Next]_vars => IInv'
  BY NextStep
<1>3. IInv /\ AllAnswered /\ [Next]_vars => AllAnswered'
  BY NextAnswered
<1> QED
  BY <1>1, <1>2, <1>3, InitStep, AnsweredIsSound, PTL DEF Spec

-----------------------------------------------------------------------------
(* MultiRpc.  Every open provider is the cached one or in the hands of one  *)
(* call, and no provider is built twice.                                   *)

Closing == {"closing", "retiring", "unwinding"}

\* Call c is about to close p, or to adopt or close it after its answer.
Has(c, p) ==
  \/ call[c].pc \in Closing /\ call[c].closing = p
  \/ call[c].pc = "sent" /\ ~call[c].cached /\ call[c].cand = p

\* The iteration of its call that built p is over or under way.
Built(p) ==
  \/ p.i < call[p.by].i
  \/ p.i = call[p.by].i /\ call[p.by].pc \notin {"new", "next"}

\* Where a call is in its loop.
InLoop(c) ==
  /\ call[c].pc = "new" => call[c].i = 0
  /\ call[c].pc \in {"new", "next", "sent"} \union Closing => call[c].i < N

\* What call c has tried, if the index stayed where it is.
HasTried(c) ==
  /\ call[c].pc = "next" =>
       \A j \in 0 .. N - 1 : j < call[c].i => (index + j) % N \in tried[c]
  /\ call[c].pc \in {"sent", "retiring"} =>
       \A j \in 0 .. N - 1 : j <= call[c].i => (index + j) % N \in tried[c]
  /\ call[c].pc = "failed" => tried[c] = Rpc!Endpoints

\* What the fields of a call stand for: `closing` of a call that closes nothing
\* is left over from a provider that is closed already.
Settles(c) ==
  /\ call[c].pc \in Closing => call[c].closing \in Rpc!Providers
  /\ call[c].pc = "sent" => call[c].cand \in Rpc!Providers
  /\ call[c].pc \notin Closing => call[c].closing \notin open \union current
  /\ call[c].closing = Rpc!Nobody \/ Built(call[c].closing)

Held ==
  /\ \A p \in open \union current : Built(p)
  /\ \A c \in Rpc!Calls, p \in Rpc!Providers : Has(c, p) => Built(p) /\ p \notin current
  /\ \A c, d \in Rpc!Calls, p \in Rpc!Providers : Has(c, p) /\ Has(d, p) => c = d
  /\ \A c \in Rpc!Calls : Settles(c)

\* Nobody leaves a provider behind but a request that is cancelled.
Claimed ==
  RpcCancellable \subseteq RpcProbes =>
    \A p \in open \ current : \E c \in Rpc!Calls : Has(c, p)

RpcIInv ==
  /\ Rpc!TypeOK
  /\ Rpc!CurrentUsable
  /\ \A c \in Rpc!Calls : InLoop(c)
  /\ \A c \in Rpc!Calls \ overtaken : HasTried(c)
  /\ Held /\ Claimed

CallState ==
  [pc : {"new", "sent", "next", "closing", "retiring", "unwinding"} \union Rpc!Ended,
   i : 0 .. N, cand : Rpc!Providers \union {Rpc!Nobody},
   cached : BOOLEAN, closing : Rpc!Providers \union {Rpc!Nobody}]

LEMMA CallStateFields ==
  ASSUME NEW k \in CallState
  PROVE  /\ k.pc \in {"new", "sent", "next", "closing", "retiring", "unwinding",
                      "ok", "failed", "cancelled"}
         /\ k.i \in Nat /\ k.i <= N /\ k.cached \in BOOLEAN
         /\ k.cand \in Rpc!Providers \union {Rpc!Nobody}
         /\ k.closing \in Rpc!Providers \union {Rpc!Nobody}
BY RpcAssumption DEF CallState, Rpc!Ended

LEMMA ProviderFields ==
  ASSUME NEW p \in Rpc!Providers
  PROVE  /\ p.by \in Rpc!Calls /\ p.i \in Nat /\ p.i < N /\ p.url \in Rpc!Endpoints
         /\ p # Rpc!Nobody
BY RpcAssumption DEF Rpc!Providers, Rpc!Nobody, Rpc!Endpoints, Rpc!Calls

LEMMA RpcTyped ==
  ASSUME RpcIInv
  PROVE  /\ index \in Rpc!Endpoints /\ index \in Nat /\ index < N
         /\ call \in [Rpc!Calls -> CallState]
         /\ current \subseteq Rpc!Providers /\ open \subseteq Rpc!Providers
         /\ \A p, q \in current : p = q
         /\ tried \in [Rpc!Calls -> SUBSET Rpc!Endpoints] /\ overtaken \subseteq Rpc!Calls
BY RpcAssumption DEF RpcIInv, Rpc!TypeOK, Rpc!Endpoints, CallState

LEMMA InEndpoints ==
  ASSUME NEW a \in Nat
  PROVE  a % N \in Rpc!Endpoints /\ a % N \in Nat
BY RpcAssumption DEF Rpc!Endpoints

\* From any index, N iterations get to every endpoint.
LEMMA AllEndpoints ==
  ASSUME NEW a \in Nat, a < N, NEW x \in Rpc!Endpoints
  PROVE  \E j \in 0 .. N - 1 : (a + j) % N = x
<1>1. x \in Nat /\ x < N /\ N \in Nat /\ N > 0
  BY RpcAssumption DEF Rpc!Endpoints
<1>2. x % N = x /\ (x + N) % N = x
  BY <1>1
<1>3. CASE a <= x
  <2>1. x - a \in 0 .. N - 1 /\ a + (x - a) = x
    BY <1>1, <1>3
  <2> QED
    BY <1>2, <2>1
<1>4. CASE x < a
  <2>1. x + N - a \in 0 .. N - 1 /\ a + (x + N - a) = x + N
    BY <1>1, <1>4
  <2> QED
    BY <1>2, <2>1
<1> QED
  BY <1>1, <1>3, <1>4

\* A step of call c puts it into the state n.
Moves(c, n) == n \in CallState /\ call' = [call EXCEPT ![c] = n]

LEMMA Moved ==
  ASSUME RpcIInv, NEW c \in Rpc!Calls, NEW n, Moves(c, n)
  PROVE  /\ call' \in [Rpc!Calls -> CallState]
         /\ call'[c] = n /\ \A d \in Rpc!Calls : d # c => call'[d] = call[d]
BY RpcTyped DEF Moves

\* A provider that was built stays built while the call that built it goes on.
LEMMA StaysBuilt ==
  ASSUME RpcIInv, NEW c \in Rpc!Calls, NEW n, Moves(c, n),
         \/ n.i > call[c].i
         \/ n.i = call[c].i /\ (n.pc \notin {"new", "next"} \/ call[c].pc \in {"new", "next"})
  PROVE  \A p \in Rpc!Providers : Built(p) => Built(p)'
<1> SUFFICES ASSUME NEW p \in Rpc!Providers, Built(p)
             PROVE  Built(p)'
  OBVIOUS
<1>1. p.by \in Rpc!Calls /\ p.i \in Nat /\ call[c] \in CallState /\ n \in CallState
  BY ProviderFields, RpcTyped DEF Moves
<1>2. call[c].i \in Nat /\ n.i \in Nat
  BY <1>1, CallStateFields
<1>3. CASE p.by = c
  BY <1>1, <1>2, <1>3, Moved DEF Built
<1>4. CASE p.by # c
  BY <1>1, <1>4, Moved DEF Built
<1> QED
  BY <1>3, <1>4

\* A call begins an iteration: with the cached provider, or with a new one.
LEMMA TryKeeps ==
  ASSUME RpcIInv, NEW c \in Rpc!Calls, Rpc!Try(c)
  PROVE  RpcIInv'
<1> DEFINE k == call[c]
           n == call'[c]
           url == (index + k.i) % N
<1>1. k \in CallState /\ k.pc \in {"new", "next"} /\ k.i \in Nat /\ k.i < N /\ url \in Rpc!Endpoints
  <2>1. k \in CallState /\ k.pc \in {"new", "next"} /\ k.i < N
    BY RpcTyped DEF Rpc!Try, RpcIInv, InLoop
  <2> QED
    BY <2>1, CallStateFields, RpcTyped, InEndpoints
<1>2. PICK b \in Rpc!Providers : b = [by |-> c, i |-> k.i, url |-> url]
  <2>1. [by |-> c, i |-> k.i, url |-> url] \in Rpc!Providers
    BY <1>1, RpcAssumption DEF Rpc!Providers, Rpc!Endpoints
  <2> QED
    BY <2>1
<1>3. PICK p \in current \union {b} :
        /\ call' = [call EXCEPT ![c] = [k EXCEPT !.pc = "sent", !.cand = p,
                                                 !.cached = (k.i = 0 /\ current # {})]]
        /\ IF k.i = 0 /\ current # {} THEN p \in current /\ open' = open
           ELSE p = b /\ open' = open \union {b}
  BY <1>2 DEF Rpc!Try
<1>4. /\ tried' = [tried EXCEPT ![c] = @ \union {url}]
      /\ UNCHANGED <<index, current, overtaken>>
  BY DEF Rpc!Try
<1>5. p \in Rpc!Providers
  BY <1>2, <1>3, RpcTyped
<1>6. /\ Moves(c, n) /\ n.pc = "sent" /\ n.i = k.i /\ n.cand = p /\ n.closing = k.closing
      /\ n.cached = (k.i = 0 /\ current # {})
  BY <1>1, <1>3, <1>5, RpcTyped DEF Moves, CallState
<1>7. \A q \in Rpc!Providers : Built(q) => Built(q)'
  BY <1>6, StaysBuilt
<1>8. ~Built(b)
  BY <1>1, <1>2 DEF Built
<1>9. b \notin open \union current /\ (\A d \in Rpc!Calls : ~Has(d, b) /\ call[d].closing # b)
  <2>1. b # Rpc!Nobody /\ b \in Rpc!Providers
    BY <1>2, ProviderFields
  <2>2. \A d \in Rpc!Calls : Settles(d) /\ ~Has(d, b)
    BY <1>8, <2>1 DEF RpcIInv, Held
  <2>3. \A d \in Rpc!Calls : call[d].closing # b
    BY <1>8, <2>1, <2>2 DEF Settles
  <2> QED
    BY <1>8, <2>2, <2>3 DEF RpcIInv, Held
<1>10. Built(b)' /\ open' \subseteq open \union {b} /\ b \notin current
  BY <1>2, <1>3, <1>6, <1>9 DEF Built
<1>11. \A q \in Rpc!Providers : ~Has(c, q)
  BY <1>1 DEF Has, Closing
<1>12. \A q \in Rpc!Providers : Has(c, q)' => q = b /\ ~(k.i = 0 /\ current # {})
  BY <1>3, <1>6 DEF Has, Closing
<1>13. \A d \in Rpc!Calls : d # c => call'[d] = call[d]
  BY <1>6, Moved
<1>14. \A d \in Rpc!Calls, q \in Rpc!Providers : d # c => (Has(d, q)' <=> Has(d, q))
  BY <1>13 DEF Has
<1> HIDE DEF n, k, url
<1>15. Rpc!TypeOK'
  <2>1. call' \in [Rpc!Calls -> CallState] /\ open' \subseteq Rpc!Providers
    BY <1>2, <1>6, <1>10, Moved, RpcTyped
  <2>2. tried' \in [Rpc!Calls -> SUBSET Rpc!Endpoints]
    BY <1>1, <1>4, RpcTyped
  <2> QED
    BY <1>4, <2>1, <2>2, RpcTyped DEF Rpc!TypeOK, CallState
<1>16. Rpc!CurrentUsable'
  BY <1>3, <1>4 DEF RpcIInv, Rpc!CurrentUsable
<1>17. \A d \in Rpc!Calls : InLoop(d)'
  <2> SUFFICES ASSUME NEW d \in Rpc!Calls
               PROVE  InLoop(d)'
    OBVIOUS
  <2>1. CASE d = c
    BY <1>1, <1>6, <2>1 DEF InLoop, n
  <2>2. CASE d # c
    BY <1>13, <2>2 DEF InLoop, RpcIInv
  <2> QED
    BY <2>1, <2>2
<1>18. \A d \in Rpc!Calls \ overtaken' : HasTried(d)'
  <2> SUFFICES ASSUME NEW d \in Rpc!Calls, d \notin overtaken
               PROVE  HasTried(d)'
    BY <1>4
  <2>1. CASE d = c
    <3>1. tried'[c] = tried[c] \union {url} /\ index' = index
      BY <1>4, RpcTyped
    <3>2. \A j \in 0 .. N - 1 : j < k.i => (index + j) % N \in tried[c]
      BY <1>1, <2>1 DEF RpcIInv, HasTried, InLoop, k
    <3>3. \A j \in 0 .. N - 1 : j <= k.i => (index' + j) % N \in tried'[c]
      <4> TAKE j \in 0 .. N - 1
      <4>1. j <= k.i => j < k.i \/ j = k.i
        BY <1>1, RpcAssumption
      <4> QED
        BY <3>1, <3>2, <4>1 DEF url
    <3> QED
      BY <1>6, <2>1, <3>3 DEF HasTried, n
  <2>2. CASE d # c
    <3>1. tried'[d] = tried[d] /\ index' = index /\ call'[d] = call[d]
      BY <1>4, <1>13, <2>2, RpcTyped
    <3> QED
      BY <3>1 DEF RpcIInv, HasTried
  <2> QED
    BY <2>1, <2>2
<1>19. Held'
  <2>1. \A q \in open' \union current' : Built(q)'
    <3> TAKE q \in open' \union current'
    <3>1. q = b \/ q \in open \union current
      BY <1>4, <1>10
    <3>2. q \in open \union current => q \in Rpc!Providers /\ Built(q)
      BY RpcTyped DEF RpcIInv, Held
    <3> QED
      BY <1>7, <1>10, <3>1, <3>2
  <2>2. \A d \in Rpc!Calls, q \in Rpc!Providers : Has(d, q)' => Built(q)' /\ q \notin current'
    <3> SUFFICES ASSUME NEW d \in Rpc!Calls, NEW q \in Rpc!Providers, Has(d, q)'
                 PROVE  Built(q)' /\ q \notin current'
      OBVIOUS
    <3>1. CASE d = c
      BY <1>4, <1>10, <1>12, <3>1
    <3>2. CASE d # c
      BY <1>4, <1>7, <1>14, <3>2 DEF RpcIInv, Held
    <3> QED
      BY <3>1, <3>2
  <2>3. \A d, e \in Rpc!Calls, q \in Rpc!Providers : Has(d, q)' /\ Has(e, q)' => d = e
    BY <1>9, <1>12, <1>14 DEF RpcIInv, Held
  <2>4. \A d \in Rpc!Calls : Settles(d)'
    <3> SUFFICES ASSUME NEW d \in Rpc!Calls
                 PROVE  Settles(d)'
      OBVIOUS
    <3>1. PICK x \in Rpc!Providers \union {Rpc!Nobody} : x = call[d].closing
      BY RpcTyped, CallStateFields
    <3>2. Settles(d)
      BY DEF RpcIInv, Held
    <3>3. call[d].closing \notin open \union current => call[d].closing \notin open' \union current'
      BY <1>4, <1>9, <1>10
    <3>4. CASE d = c
      <4>1. call'[c].closing = call[c].closing /\ call'[c].pc = "sent" /\ call'[c].cand = p
            /\ call[c].pc \in {"new", "next"}
        BY <1>1, <1>6 DEF n, k
      <4>2. x = Rpc!Nobody \/ Built(x)'
        BY <1>7, <3>1, <3>2, <3>4 DEF Settles
      <4> QED
        BY <1>5, <3>1, <3>2, <3>3, <3>4, <4>1, <4>2 DEF Settles, Closing, Built
    <3>5. CASE d # c
      <4>1. call'[d] = call[d]
        BY <1>13, <3>5
      <4>2. x = Rpc!Nobody \/ Built(x)'
        BY <1>7, <3>1, <3>2 DEF Settles
      <4> QED
        BY <3>1, <3>2, <3>3, <4>1, <4>2 DEF Settles, Built
    <3> QED
      BY <3>4, <3>5
  <2> QED
    BY <2>1, <2>2, <2>3, <2>4 DEF Held
<1>20. Claimed'
  <2> SUFFICES ASSUME RpcCancellable \subseteq RpcProbes, NEW q \in open', q \notin current
               PROVE  \E d \in Rpc!Calls : Has(d, q)'
    BY <1>4 DEF Claimed
  <2>1. CASE q \in open
    <3>1. PICK d \in Rpc!Calls : Has(d, q)
      BY <2>1 DEF RpcIInv, Claimed
    <3> QED
      BY <1>11, <1>14, <2>1, <3>1, RpcTyped
  <2>2. CASE q \notin open
    <3>1. q = b /\ ~(k.i = 0 /\ current # {})
      BY <1>3, <2>2
    <3>2. Has(c, q)'
      BY <1>3, <1>6, <3>1 DEF Has, n
    <3> QED
      BY <3>2
  <2> QED
    BY <2>1, <2>2
<1> QED
  BY <1>15, <1>16, <1>17, <1>18, <1>19, <1>20 DEF RpcIInv

\* Call c goes from k to n after its request was sent: it hands its candidate
\* over to be closed, closes the provider in its hands, or only goes on.
Passes(c, k, n) ==
  /\ k = call[c] /\ Moves(c, n)
  /\ UNCHANGED <<index, current, tried, overtaken>>
  /\ k.pc \in {"sent"} \union Closing /\ n.pc \notin {"new", "sent"}
  /\ \/ n.i = k.i /\ n.pc # "next"
     \/ n.i = k.i + 1 /\ n.pc \in {"next", "failed"}
  /\ n.pc \in {"next"} \union Closing => n.i < N
  /\ n.pc \in {"next", "failed"} => k.pc \in {"sent", "retiring"} /\ n.i = k.i + 1
  /\ n.pc = "failed" => n.i = N
  /\ n.pc = "retiring" => k.pc = "sent"
  /\ IF n.pc \in Closing THEN k.pc = "sent" /\ ~k.cached /\ n.closing = k.cand
     ELSE n.closing = k.closing
  /\ open' = IF k.pc \in Closing THEN open \ {k.closing} ELSE open
  /\ k.pc = "sent" /\ n.pc \notin Closing => k.cached \/ ~(RpcCancellable \subseteq RpcProbes)

LEMMA PassKeeps ==
  ASSUME RpcIInv, NEW c \in Rpc!Calls, NEW k, NEW n, Passes(c, k, n)
  PROVE  RpcIInv'
<1>1. /\ k \in CallState /\ k = call[c] /\ n \in CallState /\ call'[c] = n
      /\ call' \in [Rpc!Calls -> CallState]
      /\ \A d \in Rpc!Calls : d # c => call'[d] = call[d]
      /\ UNCHANGED <<index, current, tried, overtaken>>
  BY Moved, RpcTyped DEF Passes, Moves
<1>2. k.i \in Nat /\ n.i \in Nat /\ N \in Nat /\ N > 0
  BY <1>1, CallStateFields, RpcAssumption
<1>3. \A q \in Rpc!Providers : Built(q) => Built(q)'
  <2>1. \/ n.i > k.i
        \/ n.i = k.i /\ n.pc \notin {"new", "next"}
    BY <1>2 DEF Passes
  <2> QED
    BY <1>1, <2>1, StaysBuilt DEF Passes
<1>4. \A q \in Rpc!Providers : Has(c, q)' => Has(c, q) /\ k.pc = "sent"
  BY <1>1 DEF Passes, Has, Closing
<1>5. \A d \in Rpc!Calls, q \in Rpc!Providers : d # c => (Has(d, q)' <=> Has(d, q))
  BY <1>1 DEF Has
<1>6. \A d \in Rpc!Calls, q \in Rpc!Providers : Has(d, q)' => Has(d, q)
  BY <1>4, <1>5
<1>7. open' \subseteq open /\ (k.pc \in Closing => k.closing \notin open')
  BY DEF Passes
<1>8. k.pc \in Closing => k.closing \in Rpc!Providers /\ Has(c, k.closing)
  BY <1>1 DEF RpcIInv, Held, Settles, Has
<1>9. k.pc \in Closing => k.closing \notin current
  BY <1>8 DEF RpcIInv, Held
<1>10. Rpc!TypeOK'
  BY <1>1, <1>7, RpcTyped DEF Rpc!TypeOK, CallState
<1>11. Rpc!CurrentUsable'
  <2>1. \A p \in current : p.url = index /\ p \in open
    BY DEF RpcIInv, Rpc!CurrentUsable
  <2>2. \A p \in current : p \in open'
    BY <1>9, <2>1 DEF Passes
  <2> QED
    BY <1>1, <2>1, <2>2 DEF Rpc!CurrentUsable
<1>12. \A d \in Rpc!Calls : InLoop(d)'
  <2> SUFFICES ASSUME NEW d \in Rpc!Calls
               PROVE  InLoop(d)'
    OBVIOUS
  <2>1. CASE d = c
    BY <1>1, <2>1 DEF InLoop, Passes
  <2>2. CASE d # c
    BY <1>1, <2>2 DEF InLoop, RpcIInv
  <2> QED
    BY <2>1, <2>2
<1>13. \A d \in Rpc!Calls \ overtaken' : HasTried(d)'
  <2> SUFFICES ASSUME NEW d \in Rpc!Calls, d \notin overtaken
               PROVE  HasTried(d)'
    BY <1>1
  <2>1. HasTried(d) /\ tried' = tried /\ index' = index
    BY <1>1 DEF RpcIInv
  <2>2. CASE d = c
    <3>1. n.pc \in {"next", "failed", "retiring"} => k.pc \in {"sent", "retiring"}
      BY DEF Passes
    <3>2. n.pc \in {"next", "failed", "retiring"} =>
            \A j \in 0 .. N - 1 : j <= k.i => (index + j) % N \in tried[c]
      BY <1>1, <2>1, <2>2, <3>1 DEF HasTried
    <3>3. n.pc = "next" => \A j \in 0 .. N - 1 : j < n.i => (index + j) % N \in tried[c]
      BY <1>2, <3>2 DEF Passes
    <3>4. n.pc = "retiring" => \A j \in 0 .. N - 1 : j <= n.i => (index + j) % N \in tried[c]
      BY <1>2, <3>2 DEF Passes
    <3>5. n.pc = "failed" => tried[c] = Rpc!Endpoints
      <4> SUFFICES ASSUME n.pc = "failed"
                   PROVE  tried[c] = Rpc!Endpoints
        OBVIOUS
      <4>1. k.i = N - 1
        BY <1>2 DEF Passes
      <4>2. \A j \in 0 .. N - 1 : (index + j) % N \in tried[c]
        BY <1>2, <3>2, <4>1
      <4>3. \A x \in Rpc!Endpoints : x \in tried[c]
        BY <4>2, AllEndpoints, RpcTyped
      <4> QED
        BY <4>3, RpcTyped
    <3>6. n.pc # "sent"
      BY DEF Passes
    <3> QED
      BY <1>1, <2>1, <2>2, <3>3, <3>4, <3>5, <3>6 DEF HasTried
  <2>3. CASE d # c
    BY <1>1, <2>1, <2>3 DEF HasTried
  <2> QED
    BY <2>2, <2>3
<1>14. Held'
  <2>1. \A q \in open' \union current' : Built(q)'
    <3> TAKE q \in open' \union current'
    <3>1. q \in Rpc!Providers /\ Built(q)
      BY <1>1, <1>7, RpcTyped DEF RpcIInv, Held
    <3> QED
      BY <1>3, <3>1
  <2>2. \A d \in Rpc!Calls, q \in Rpc!Providers : Has(d, q)' => Built(q)' /\ q \notin current'
    BY <1>1, <1>3, <1>6 DEF RpcIInv, Held
  <2>3. \A d, e \in Rpc!Calls, q \in Rpc!Providers : Has(d, q)' /\ Has(e, q)' => d = e
    BY <1>6 DEF RpcIInv, Held
  <2>4. \A d \in Rpc!Calls : Settles(d)'
    <3> SUFFICES ASSUME NEW d \in Rpc!Calls
                 PROVE  Settles(d)'
      OBVIOUS
    <3>1. Settles(d)
      BY DEF RpcIInv, Held
    <3>2. CASE d # c
      <4>1. PICK x \in Rpc!Providers \union {Rpc!Nobody} : x = call[d].closing
        BY RpcTyped, CallStateFields
      <4>2. x = Rpc!Nobody \/ Built(x)'
        BY <1>3, <3>1, <4>1 DEF Settles
      <4>3. call'[d] = call[d] /\ open' \union current' \subseteq open \union current
        BY <1>1, <1>7, <3>2
      <4> QED
        BY <3>1, <4>1, <4>2, <4>3 DEF Settles, Built
    <3>3. CASE d = c /\ n.pc \in Closing
      <4>1. PICK x \in Rpc!Providers : x = k.cand
        BY <1>1, <3>1, <3>3 DEF Passes, Settles
      <4>2. Has(c, x) /\ n.closing = x
        BY <1>1, <3>3, <4>1 DEF Passes, Has
      <4>3. Built(x)'
        BY <1>3, <4>2 DEF RpcIInv, Held
      <4> QED
        BY <1>1, <3>3, <4>2, <4>3 DEF Settles, Built, Closing
    <3>4. CASE d = c /\ n.pc \notin Closing
      <4>1. PICK x \in Rpc!Providers \union {Rpc!Nobody} : x = k.closing
        BY <1>1, CallStateFields
      <4>2. x = Rpc!Nobody \/ Built(x)'
        BY <1>1, <1>3, <3>1, <3>4, <4>1 DEF Settles
      <4>3. x \notin open' \union current'
        BY <1>1, <1>7, <1>9, <3>1, <3>4, <4>1 DEF Settles
      <4>4. n.closing = x /\ n.pc # "sent"
        BY <3>4, <4>1 DEF Passes
      <4> QED
        BY <1>1, <3>4, <4>2, <4>3, <4>4 DEF Settles, Built
    <3> QED
      BY <3>2, <3>3, <3>4
  <2> QED
    BY <2>1, <2>2, <2>3, <2>4 DEF Held
<1>15. Claimed'
  <2> SUFFICES ASSUME RpcCancellable \subseteq RpcProbes, NEW q \in open', q \notin current
               PROVE  \E d \in Rpc!Calls : Has(d, q)'
    BY <1>1 DEF Claimed
  <2>1. q \in open /\ q \in Rpc!Providers
    BY <1>7, RpcTyped
  <2>2. PICK d \in Rpc!Calls : Has(d, q)
    BY <2>1 DEF RpcIInv, Claimed
  <2>3. CASE d # c
    BY <1>5, <2>1, <2>2, <2>3
  <2>4. CASE d = c
    <3>1. k.pc = "sent" /\ ~k.cached /\ k.cand = q
      BY <1>1, <1>7, <2>2, <2>4 DEF Has
    <3>2. n.pc \in Closing /\ n.closing = q
      BY <3>1 DEF Passes
    <3> QED
      BY <1>1, <3>2 DEF Has
  <2> QED
    BY <2>3, <2>4
<1> QED
  BY <1>10, <1>11, <1>12, <1>13, <1>14, <1>15 DEF RpcIInv

\* make_request gets its answer from a provider that was not the cached one.
LEMMA AdoptKeeps ==
  ASSUME RpcIInv, NEW c \in Rpc!Calls, Rpc!Answered(c), ~call[c].cached
  PROVE  RpcIInv'
<1> DEFINE k == call[c]
           n == call'[c]
<1>1. k \in CallState /\ k.pc = "sent" /\ k.i \in Nat /\ k.i < N /\ k.cand \in open
  <2>1. k \in CallState /\ k.pc = "sent" /\ k.i < N /\ k.cand \in open
    BY RpcTyped DEF Rpc!Answered, RpcIInv, InLoop
  <2> QED
    BY <2>1, CallStateFields
<1>2. PICK p \in Rpc!Providers : p = k.cand /\ p \in open
  BY <1>1, RpcTyped
<1>3. Has(c, p) /\ p \notin current /\ p.url \in Rpc!Endpoints /\ Built(p)
  BY <1>1, <1>2, ProviderFields DEF Has, RpcIInv, Held
<1>4. /\ index' = p.url /\ current' = {p} /\ UNCHANGED <<open, tried>>
      /\ overtaken' = IF index' = index THEN overtaken
                      ELSE overtaken \union (Rpc!Running \ {c})
  BY <1>2 DEF Rpc!Answered, Rpc!IndexAdopted
<1>5. /\ Moves(c, n) /\ n.i = k.i /\ n.cand = k.cand
      /\ \/ n.pc = "ok" /\ n.closing = k.closing /\ current = {}
         \/ n.pc = "closing" /\ n.closing \in current
  <2>1. CASE current = {}
    <3>1. call' = [call EXCEPT ![c].pc = "ok"]
      BY <2>1 DEF Rpc!Answered, Rpc!CloseOld
    <3> QED
      BY <1>1, <2>1, <3>1, RpcTyped DEF Moves, CallState, Rpc!Ended
  <2>2. CASE current # {}
    <3>1. PICK old \in current : call' = [call EXCEPT ![c].pc = "closing", ![c].closing = old]
      BY <2>2 DEF Rpc!Answered, Rpc!CloseOld
    <3>2. old \in Rpc!Providers
      BY RpcTyped
    <3> QED
      BY <1>1, <3>1, <3>2, RpcTyped DEF Moves, CallState
  <2> QED
    BY <2>1, <2>2
<1>6. \A q \in Rpc!Providers : Built(q) => Built(q)'
  BY <1>5, StaysBuilt
<1>7. call' \in [Rpc!Calls -> CallState] /\ \A d \in Rpc!Calls : d # c => call'[d] = call[d]
  BY <1>5, Moved
<1>8. \A d \in Rpc!Calls, q \in Rpc!Providers : d # c => (Has(d, q)' <=> Has(d, q))
  BY <1>7 DEF Has
<1>9. \A q \in Rpc!Providers : Has(c, q) => q = p
  BY <1>1, <1>2 DEF Has, Closing
<1>10. \A q \in Rpc!Providers : Has(c, q)' => q \in current /\ n.pc = "closing"
  BY <1>5 DEF Has, Closing
<1> HIDE DEF n, k
<1>11. \A d \in Rpc!Calls : d # c => ~Has(d, p) /\ \A q \in current : q \in Rpc!Providers /\ ~Has(d, q)
  BY <1>3, RpcTyped DEF RpcIInv, Held
<1>12. Rpc!TypeOK'
  <2>1. current' \subseteq Rpc!Providers /\ (\A x, y \in current' : x = y) /\ index' \in Rpc!Endpoints
    BY <1>3, <1>4
  <2>2. overtaken' \subseteq Rpc!Calls
    BY <1>4, RpcTyped DEF Rpc!Running
  <2> QED
    BY <1>4, <1>7, <2>1, <2>2, RpcTyped DEF Rpc!TypeOK, CallState
<1>13. Rpc!CurrentUsable'
  BY <1>2, <1>4 DEF Rpc!CurrentUsable
<1>14. \A d \in Rpc!Calls : InLoop(d)'
  <2> SUFFICES ASSUME NEW d \in Rpc!Calls
               PROVE  InLoop(d)'
    OBVIOUS
  <2>1. CASE d = c
    BY <1>1, <1>5, <2>1 DEF InLoop, n, Closing
  <2>2. CASE d # c
    BY <1>7, <2>2 DEF InLoop, RpcIInv
  <2> QED
    BY <2>1, <2>2
<1>15. \A d \in Rpc!Calls \ overtaken' : HasTried(d)'
  <2> SUFFICES ASSUME NEW d \in Rpc!Calls, d \notin overtaken'
               PROVE  HasTried(d)'
    OBVIOUS
  <2>1. CASE d = c
    BY <1>5, <2>1 DEF HasTried, n
  <2>2. CASE d # c
    <3>1. HasTried(d) /\ call'[d] = call[d] /\ tried' = tried
      BY <1>4, <1>7, <2>2 DEF RpcIInv
    <3>2. index' = index \/ d \notin Rpc!Running
      BY <1>4, <2>2
    <3>3. d \notin Rpc!Running => call[d].pc \notin {"next", "sent", "retiring"}
      BY DEF Rpc!Running, Rpc!Ended
    <3> QED
      BY <3>1, <3>2, <3>3 DEF HasTried
  <2> QED
    BY <2>1, <2>2
<1>16. Held'
  <2>1. \A q \in open' \union current' : Built(q)'
    <3> TAKE q \in open' \union current'
    <3>1. q \in Rpc!Providers /\ Built(q)
      BY <1>2, <1>4, RpcTyped DEF RpcIInv, Held
    <3> QED
      BY <1>6, <3>1
  <2>2. \A d \in Rpc!Calls, q \in Rpc!Providers : Has(d, q)' => Built(q)' /\ q \notin current'
    <3> SUFFICES ASSUME NEW d \in Rpc!Calls, NEW q \in Rpc!Providers, Has(d, q)'
                 PROVE  Built(q)' /\ q # p
      BY <1>4
    <3>1. CASE d = c
      BY <1>3, <1>6, <1>10, <3>1 DEF RpcIInv, Held
    <3>2. CASE d # c
      BY <1>6, <1>8, <1>11, <3>2 DEF RpcIInv, Held
    <3> QED
      BY <3>1, <3>2
  <2>3. \A d, e \in Rpc!Calls, q \in Rpc!Providers : Has(d, q)' /\ Has(e, q)' => d = e
    BY <1>8, <1>10, <1>11 DEF RpcIInv, Held
  <2>4. \A d \in Rpc!Calls : Settles(d)'
    <3> SUFFICES ASSUME NEW d \in Rpc!Calls
                 PROVE  Settles(d)'
      OBVIOUS
    <3>1. Settles(d) /\ open' = open /\ current' = {p} /\ p \in open
      BY <1>2, <1>4 DEF RpcIInv, Held
    <3>2. CASE call'[d].closing = call[d].closing /\ call'[d].pc \notin Closing
               /\ call[d].pc \notin Closing /\ (call'[d].pc = "sent" => call'[d].cand = call[d].cand /\ call[d].pc = "sent")
      <4>1. PICK x \in Rpc!Providers \union {Rpc!Nobody} : x = call[d].closing
        BY RpcTyped, CallStateFields
      <4>2. x = Rpc!Nobody \/ Built(x)'
        BY <1>6, <3>1, <4>1 DEF Settles
      <4> QED
        BY <3>1, <3>2, <4>1, <4>2 DEF Settles, Built
    <3>3. CASE call'[d].pc \in Closing
      <4>1. PICK x \in Rpc!Providers : x = call'[d].closing /\ Built(x)
        <5>1. CASE d = c
          <6>1. n.closing \in current
            BY <1>5, <3>3, <5>1 DEF n, Closing
          <6> QED
            BY <5>1, <6>1, RpcTyped DEF RpcIInv, Held, n
        <5>2. CASE d # c
          BY <1>7, <3>1, <3>3, <5>2, ProviderFields DEF Settles
        <5> QED
          BY <5>1, <5>2
      <4>2. Built(x)'
        BY <1>6, <4>1
      <4> QED
        BY <3>3, <4>1, <4>2 DEF Settles, Built, Closing
    <3>4. CASE call'[d].pc \notin Closing
      BY <1>1, <1>5, <1>7, <3>2, <3>4 DEF n, k, Closing
    <3> QED
      BY <3>3, <3>4
  <2> QED
    BY <2>1, <2>2, <2>3, <2>4 DEF Held
<1>17. Claimed'
  <2> SUFFICES ASSUME RpcCancellable \subseteq RpcProbes, NEW q \in open, q # p
               PROVE  \E d \in Rpc!Calls : Has(d, q)'
    BY <1>4 DEF Claimed
  <2>1. q \in Rpc!Providers
    BY RpcTyped
  <2>2. CASE q \in current
    <3>1. n.pc = "closing" /\ n.closing = q
      BY <1>5, <2>2, RpcTyped
    <3> QED
      BY <3>1 DEF Has, n, Closing
  <2>3. CASE q \notin current
    <3>1. PICK d \in Rpc!Calls : Has(d, q)
      BY <2>3 DEF RpcIInv, Claimed
    <3> QED
      BY <1>8, <1>9, <2>1, <3>1
  <2> QED
    BY <2>2, <2>3
<1> QED
  BY <1>12, <1>13, <1>14, <1>15, <1>16, <1>17 DEF RpcIInv

\* An answer from the cached provider, or an outcome that hands the candidate
\* over, lets it go, or follows the closing of one.
LEMMA PassSteps ==
  ASSUME RpcIInv, NEW c \in Rpc!Calls,
         \/ Rpc!Answered(c) /\ call[c].cached
         \/ Rpc!Raised(c) \/ Rpc!Connected(c) \/ Rpc!Cancelled(c) \/ Rpc!Closed(c)
  PROVE  \E k, n : Passes(c, k, n)
<1> DEFINE k == call[c]
           n == call'[c]
<1>1. /\ k \in CallState /\ k.i \in Nat /\ N \in Nat
      /\ k.pc = "sent" => k.cand \in Rpc!Providers /\ k.i < N
      /\ k.pc \in Closing => k.i < N
  <2>1. k \in CallState /\ InLoop(c) /\ Settles(c)
    BY RpcTyped DEF RpcIInv, Held
  <2> QED
    BY <2>1, CallStateFields, RpcAssumption DEF InLoop, Settles
<1>2. CASE Rpc!Answered(c) /\ k.cached
  <2>1. call' = [call EXCEPT ![c] = [k EXCEPT !.pc = "ok"]] /\ k.pc = "sent"
    BY <1>2 DEF Rpc!Answered
  <2>2. Moves(c, n) /\ n = [k EXCEPT !.pc = "ok"]
    BY <1>1, <2>1, RpcTyped DEF Moves, CallState, Rpc!Ended
  <2>3. UNCHANGED <<index, current, tried, overtaken, open>>
    BY <1>2 DEF Rpc!Answered
  <2>4. Passes(c, k, n)
    BY <1>1, <1>2, <2>1, <2>2, <2>3 DEF Passes, Closing, CallState
  <2> QED
    BY <2>4
<1>3. CASE Rpc!Raised(c)
  <2>1. k.pc = "sent" /\ UNCHANGED <<index, current, tried, overtaken, open>>
    BY <1>3 DEF Rpc!Raised
  <2>2. CASE k.cached
    <3>1. PICK pc : /\ pc = IF k.i + 1 = N THEN "failed" ELSE "next"
                    /\ call' = [call EXCEPT ![c] = [k EXCEPT !.pc = pc, !.i = k.i + 1]]
      BY <1>3, <2>2 DEF Rpc!Raised, Rpc!Retire, Rpc!After
    <3>2. /\ k.i + 1 \in 0 .. N /\ pc \in {"failed", "next"}
          /\ pc = IF k.i + 1 = N THEN "failed" ELSE "next"
      BY <1>1, <2>1, <3>1
    <3>3. Moves(c, n) /\ n = [k EXCEPT !.pc = pc, !.i = k.i + 1]
      BY <1>1, <3>1, <3>2, RpcTyped DEF Moves, CallState, Rpc!Ended
    <3>4. n.pc = pc /\ n.i = k.i + 1 /\ n.closing = k.closing
      BY <1>1, <3>3 DEF CallState
    <3>5. \/ pc = "failed" /\ k.i + 1 = N
          \/ pc = "next" /\ k.i + 1 < N
      BY <1>1, <2>1, <3>2 DEF Closing
    <3>6. Passes(c, k, n)
      BY <2>1, <2>2, <3>3, <3>4, <3>5 DEF Passes, Closing
    <3> QED
      BY <3>6
  <2>3. CASE ~k.cached
    <3>1. call' = [call EXCEPT ![c] = [k EXCEPT !.pc = "retiring", !.closing = k.cand]]
      BY <1>3, <2>3 DEF Rpc!Raised, Rpc!Retire
    <3>2. Moves(c, n) /\ n = [k EXCEPT !.pc = "retiring", !.closing = k.cand]
      BY <1>1, <2>1, <3>1, RpcTyped DEF Moves, CallState
    <3>3. Passes(c, k, n)
      BY <1>1, <2>1, <2>3, <3>2 DEF Passes, Closing, CallState
    <3> QED
      BY <3>3
  <2> QED
    BY <2>2, <2>3
<1>4. CASE Rpc!Connected(c)
  <2>1. k.pc = "sent" /\ UNCHANGED <<index, current, tried, overtaken, open>>
    BY <1>4 DEF Rpc!Connected
  <2>2. CASE k.cached
    <3>1. call' = [call EXCEPT ![c] = [k EXCEPT !.pc = "ok"]]
      BY <1>4, <2>2 DEF Rpc!Connected
    <3>2. Moves(c, n) /\ n = [k EXCEPT !.pc = "ok"]
      BY <1>1, <3>1, RpcTyped DEF Moves, CallState, Rpc!Ended
    <3>3. Passes(c, k, n)
      BY <1>1, <2>1, <2>2, <3>2 DEF Passes, Closing, CallState
    <3> QED
      BY <3>3
  <2>3. CASE ~k.cached
    <3>1. call' = [call EXCEPT ![c] = [k EXCEPT !.pc = "closing", !.closing = k.cand]]
      BY <1>4, <2>3 DEF Rpc!Connected
    <3>2. Moves(c, n) /\ n = [k EXCEPT !.pc = "closing", !.closing = k.cand]
      BY <1>1, <2>1, <3>1, RpcTyped DEF Moves, CallState
    <3>3. Passes(c, k, n)
      BY <1>1, <2>1, <2>3, <3>2 DEF Passes, Closing, CallState
    <3> QED
      BY <3>3
  <2> QED
    BY <2>2, <2>3
<1>5. CASE Rpc!Cancelled(c)
  <2>1. /\ k.pc = "sent" /\ c \in RpcCancellable
        /\ UNCHANGED <<index, current, tried, overtaken, open>>
    BY <1>5 DEF Rpc!Cancelled
  <2>2. CASE c \in RpcProbes /\ ~k.cached
    <3>1. call' = [call EXCEPT ![c] = [k EXCEPT !.pc = "unwinding", !.closing = k.cand]]
      BY <1>5, <2>2 DEF Rpc!Cancelled
    <3>2. Moves(c, n) /\ n = [k EXCEPT !.pc = "unwinding", !.closing = k.cand]
      BY <1>1, <2>1, <3>1, RpcTyped DEF Moves, CallState
    <3>3. Passes(c, k, n)
      BY <1>1, <2>1, <2>2, <3>2 DEF Passes, Closing, CallState
    <3> QED
      BY <3>3
  <2>3. CASE ~(c \in RpcProbes /\ ~k.cached)
    <3>1. call' = [call EXCEPT ![c] = [k EXCEPT !.pc = "cancelled"]]
      BY <1>5, <2>3 DEF Rpc!Cancelled
    <3>2. Moves(c, n) /\ n = [k EXCEPT !.pc = "cancelled"]
      BY <1>1, <3>1, RpcTyped DEF Moves, CallState, Rpc!Ended
    <3>3. k.cached \/ ~(RpcCancellable \subseteq RpcProbes)
      BY <2>1, <2>3
    <3>4. Passes(c, k, n)
      BY <1>1, <2>1, <3>2, <3>3 DEF Passes, Closing, CallState
    <3> QED
      BY <3>4
  <2> QED
    BY <2>2, <2>3
<1>6. CASE Rpc!Closed(c)
  <2>1. /\ k.pc \in Closing /\ open' = open \ {k.closing}
        /\ UNCHANGED <<index, current, tried, overtaken>>
    BY <1>6 DEF Rpc!Closed, Closing
  <2>2. CASE k.pc \in {"closing", "unwinding"}
    <3>1. PICK pc \in {"ok", "cancelled"} : call' = [call EXCEPT ![c] = [k EXCEPT !.pc = pc]]
      BY <1>6, <2>2 DEF Rpc!Closed
    <3>2. Moves(c, n) /\ n = [k EXCEPT !.pc = pc]
      BY <1>1, <3>1, RpcTyped DEF Moves, CallState, Rpc!Ended
    <3>3. Passes(c, k, n)
      BY <1>1, <2>1, <2>2, <3>1, <3>2 DEF Passes, Closing, CallState
    <3> QED
      BY <3>3
  <2>3. CASE k.pc = "retiring"
    <3>1. PICK pc : /\ pc = IF k.i + 1 = N THEN "failed" ELSE "next"
                    /\ call' = [call EXCEPT ![c] = [k EXCEPT !.pc = pc, !.i = k.i + 1]]
      BY <1>6, <2>3 DEF Rpc!Closed, Rpc!After
    <3>2. /\ k.i + 1 \in 0 .. N /\ pc \in {"failed", "next"}
          /\ pc = IF k.i + 1 = N THEN "failed" ELSE "next"
      BY <1>1, <2>1, <3>1
    <3>3. Moves(c, n) /\ n = [k EXCEPT !.pc = pc, !.i = k.i + 1]
      BY <1>1, <3>1, <3>2, RpcTyped DEF Moves, CallState, Rpc!Ended
    <3>4. n.pc = pc /\ n.i = k.i + 1 /\ n.closing = k.closing
      BY <1>1, <3>3 DEF CallState
    <3>5. \/ pc = "failed" /\ k.i + 1 = N
          \/ pc = "next" /\ k.i + 1 < N
      BY <1>1, <2>1, <3>2 DEF Closing
    <3>6. Passes(c, k, n)
      BY <2>1, <2>3, <3>3, <3>4, <3>5 DEF Passes, Closing
    <3> QED
      BY <3>6
  <2> QED
    BY <2>1, <2>2, <2>3 DEF Closing
<1> QED
  BY <1>2, <1>3, <1>4, <1>5, <1>6

LEMMA RpcInit ==
  ASSUME Rpc!Init
  PROVE  RpcIInv
<1>1. 0 \in Rpc!Endpoints /\ N \in Nat /\ N > 0
  BY RpcAssumption DEF Rpc!Endpoints
<1>2. Rpc!TypeOK
  BY <1>1 DEF Rpc!Init, Rpc!TypeOK
<1>3. \A c \in Rpc!Calls : call[c].pc = "new" /\ call[c].i = 0 /\ call[c].closing = Rpc!Nobody
  BY DEF Rpc!Init
<1>4. (\A c \in Rpc!Calls : InLoop(c) /\ HasTried(c)) /\ Rpc!CurrentUsable
  BY <1>1, <1>3 DEF InLoop, HasTried, Closing, Rpc!CurrentUsable, Rpc!Init
<1>5. Held
  BY <1>3 DEF Held, Settles, Has, Closing, Rpc!Init
<1>6. Claimed
  BY DEF Claimed, Rpc!Init
<1> QED
  BY <1>2, <1>4, <1>5, <1>6 DEF RpcIInv

LEMMA RpcStep ==
  ASSUME RpcIInv, [Rpc!Next]_(Rpc!vars)
  PROVE  RpcIInv'
<1>1. CASE UNCHANGED Rpc!vars
  BY <1>1 DEF Rpc!vars, RpcIInv, Rpc!TypeOK, Rpc!CurrentUsable, InLoop, HasTried, Held,
              Settles, Has, Built, Claimed
<1>2. ASSUME NEW c \in Rpc!Calls, Rpc!Step(c)
      PROVE  RpcIInv'
  <2>1. CASE Rpc!Try(c)
    BY <2>1, TryKeeps
  <2>2. CASE Rpc!Answered(c) /\ ~call[c].cached
    BY <2>2, AdoptKeeps
  <2>3. CASE \/ Rpc!Answered(c) /\ call[c].cached
             \/ Rpc!Raised(c) \/ Rpc!Connected(c) \/ Rpc!Cancelled(c) \/ Rpc!Closed(c)
    BY <2>3, PassSteps, PassKeeps
  <2> QED
    BY <1>2, <2>1, <2>2, <2>3 DEF Rpc!Step
<1> QED
  BY <1>1, <1>2 DEF Rpc!Next

LEMMA RpcInvariant == Rpc!Spec => []RpcIInv
<1>1. Rpc!Init => RpcIInv
  BY RpcInit
<1>2. RpcIInv /\ [Rpc!Next]_(Rpc!vars) => RpcIInv'
  BY RpcStep
<1> QED
  BY <1>1, <1>2, PTL DEF Rpc!Spec

\* If no request is cancelled, an open provider that is not the cached one is in
\* the hands of exactly one running call.
LEMMA OneHolder ==
  ASSUME RpcIInv, RpcCancellable \subseteq RpcProbes
  PROVE  Rpc!NothingRetained
<1> SUFFICES ASSUME NEW p \in open \ current
             PROVE  \E c \in Rpc!Running : \A d \in Rpc!Running :
                      (\/ call[d].closing = p
                       \/ call[d].pc = "sent" /\ ~call[d].cached /\ call[d].cand = p)
                        <=> c = d
  BY DEF Rpc!NothingRetained
<1>1. PICK d \in Rpc!Calls : Has(d, p)
  BY DEF RpcIInv, Claimed
<1>2. p \in Rpc!Providers
  BY RpcTyped
<1>3. \A c \in Rpc!Calls : Has(c, p) => c = d
  BY <1>1, <1>2 DEF RpcIInv, Held
<1>4. \A c \in Rpc!Calls : call[c].closing = p => Has(c, p)
  <2>1. \A c \in Rpc!Calls : Settles(c)
    BY DEF RpcIInv, Held
  <2> QED
    BY <2>1 DEF Settles, Has
<1>5. \A c \in Rpc!Calls : Has(c, p) => c \in Rpc!Running
  BY DEF Has, Closing, Rpc!Running, Rpc!Ended
<1> QED
  BY <1>1, <1>3, <1>4, <1>5 DEF Has, Rpc!Running

\* rpc.py, MultiRpcProvider: the cached provider is a single one, and every call
\* keeps its place in the loop, whatever the other calls do.
THEOREM FailoverTyped == Rpc!Spec => []Rpc!TypeOK
BY RpcInvariant, PTL DEF RpcIInv

\* The cached provider is open and belongs to the endpoint of the index, and a
\* call that fails has tried every endpoint unless another one moved the index.
THEOREM FailoverUsable ==
  Rpc!Spec => [](Rpc!CurrentUsable /\ Rpc!TriesAllUnlessOvertaken)
<1>1. RpcIInv => Rpc!CurrentUsable /\ Rpc!TriesAllUnlessOvertaken
  BY DEF RpcIInv, HasTried, Rpc!TriesAllUnlessOvertaken
<1> QED
  BY <1>1, RpcInvariant, PTL

\* While no request is cancelled, moreover, no provider stays open that nobody
\* will close or adopt.
THEOREM FailoverIsSound ==
  Rpc!Spec => [](RpcCancellable \subseteq RpcProbes => FailoverSound)
<1>1. RpcIInv => (RpcCancellable \subseteq RpcProbes => FailoverSound)
  BY OneHolder DEF RpcIInv, HasTried, Rpc!TriesAllUnlessOvertaken, FailoverSound
<1> QED
  BY <1>1, RpcInvariant, PTL

-----------------------------------------------------------------------------
(* YieldDeposit.  An address without a Safe has paid and supplied nothing,  *)
(* one with a Safe has paid its fee once.                                  *)

DepositTyped ==
  /\ {held, position, earned, taken, received} \subseteq [Deposit!Addresses -> Nat]
  /\ deployed \subseteq Deposit!Addresses

DepositIInv ==
  /\ DepositTyped
  /\ \A a \in Deposit!Addresses :
       /\ received[a] = held[a] + position[a] + earned[a] + taken[a]
       /\ a \notin deployed => position[a] = 0 /\ earned[a] = 0
       /\ a \in deployed => position[a] > 0 /\ earned[a] = a.fee

LEMMA DepositStep ==
  ASSUME DepositIInv, [Deposit!Next]_(Deposit!vars)
  PROVE  DepositIInv'
<1>1. /\ held \in [Deposit!Addresses -> Nat] /\ position \in [Deposit!Addresses -> Nat]
      /\ earned \in [Deposit!Addresses -> Nat] /\ taken \in [Deposit!Addresses -> Nat]
      /\ received \in [Deposit!Addresses -> Nat] /\ deployed \subseteq Deposit!Addresses
  BY DEF DepositIInv, DepositTyped
<1>2. \A a \in Deposit!Addresses : a.fee \in Nat
  BY DepositAssumption DEF Deposit!Addresses
<1>3. ASSUME NEW a \in Deposit!Addresses, Deposit!Fund(a)
      PROVE  DepositIInv'
  <2>1. PICK n \in Nat : /\ held' = [held EXCEPT ![a] = held[a] + n]
                         /\ received' = [received EXCEPT ![a] = received[a] + n]
    BY <1>3, DepositAssumption DEF Deposit!Fund
  <2>2. UNCHANGED <<deployed, position, earned, taken>>
    BY <1>3 DEF Deposit!Fund
  <2> QED
    BY <1>1, <2>1, <2>2 DEF DepositIInv, DepositTyped
<1>4. ASSUME NEW a \in Deposit!Addresses, Deposit!Sweep(a)
      PROVE  DepositIInv'
  <2>1. /\ a \notin deployed /\ held[a] >= a.fee + 1 /\ deployed' = deployed \union {a}
        /\ earned' = [earned EXCEPT ![a] = earned[a] + a.fee]
        /\ position' = [position EXCEPT ![a] = position[a] + (held[a] - a.fee)]
        /\ held' = [held EXCEPT ![a] = 0]
        /\ UNCHANGED <<taken, received>>
    BY <1>4 DEF Deposit!Sweep, Deposit!LeastBalance
  <2> QED
    BY <1>1, <1>2, <2>1 DEF DepositIInv, DepositTyped
<1>5. ASSUME NEW a \in Deposit!Addresses, Deposit!TakeOut(a)
      PROVE  DepositIInv'
  <2>1. /\ taken' = [taken EXCEPT ![a] = taken[a] + held[a]]
        /\ held' = [held EXCEPT ![a] = 0]
        /\ UNCHANGED <<deployed, position, earned, received>>
    BY <1>5 DEF Deposit!TakeOut
  <2> QED
    BY <1>1, <2>1 DEF DepositIInv, DepositTyped
<1>6. CASE Deposit!Pause \/ UNCHANGED Deposit!vars
  BY <1>6 DEF Deposit!Pause, Deposit!vars, DepositIInv, DepositTyped
<1> QED
  BY <1>3, <1>4, <1>5, <1>6 DEF Deposit!Next

\* yields/deposit.py: whatever is sent to a deposit address is still there, is
\* the owner's, or is the one fee, which a relayer earns only by supplying
\* something for the owner.
THEOREM DepositIsAccounted == Deposit!Spec => []Deposit!DepositAccounted
<1>1. Deposit!Init => DepositIInv
  BY DEF Deposit!Init, DepositIInv, DepositTyped
<1>2. DepositIInv /\ [Deposit!Next]_(Deposit!vars) => DepositIInv'
  BY DepositStep
<1>3. DepositIInv => Deposit!DepositAccounted
  BY DEF DepositIInv, Deposit!DepositAccounted
<1> QED
  BY <1>1, <1>2, <1>3, PTL DEF Deposit!Spec

-----------------------------------------------------------------------------
(* LucidDiscovery.  While the scan goes on, no block above its cursor that  *)
(* was mined before the call has an event.                                 *)

\* The blocks with events that were there when the call began.
Known == Lucid!Relayed({k \in Lucid!InRange : k <= began})

LucidTyped ==
  /\ chain \in Seq(Lucid!Contents)
  /\ ask.from \in Int /\ ask.to \in Int /\ ask.chunk \in Int
  /\ head \in Int /\ cursor \in Int
  /\ began \in Nat /\ began <= Len(chain)

LucidIInv ==
  /\ LucidTyped
  /\ scan = "scan" => ask.chunk >= 1 /\ cursor <= head /\ \A j \in Known : j <= cursor
  /\ Lucid!AdapterIsLatest

LEMMA KnownBlocks ==
  ASSUME LucidTyped, NEW k
  PROVE  /\ k \in Lucid!InRange <=>
              k \in Int /\ 1 <= k /\ k <= Len(chain) /\ ask.from <= k /\ k <= head
         /\ k \in Lucid!Relayed(Lucid!InRange) <=> k \in Lucid!InRange /\ chain[k] # << >>
         /\ k \in Known <=> k \in Lucid!InRange /\ k <= began /\ chain[k] # << >>
<1>1. DOMAIN chain = 1 .. Len(chain) /\ Len(chain) \in Nat
  BY DEF LucidTyped
<1>2. k \in Lucid!InRange <=>
        k \in Int /\ 1 <= k /\ k <= Len(chain) /\ ask.from <= k /\ k <= head
  BY <1>1 DEF Lucid!InRange, LucidTyped
<1> QED
  BY <1>2 DEF Lucid!Relayed, Known

\* The same of the next state.
LEMMA KnownBlocksNext ==
  ASSUME LucidTyped', NEW k
  PROVE  /\ k \in Lucid!InRange' <=>
              k \in Int /\ 1 <= k /\ k <= Len(chain') /\ ask'.from <= k /\ k <= head'
         /\ k \in Lucid!Relayed(Lucid!InRange)' <=> k \in Lucid!InRange' /\ chain'[k] # << >>
         /\ k \in Known' <=> k \in Lucid!InRange' /\ k <= began' /\ chain'[k] # << >>
<1>1. DOMAIN chain' = 1 .. Len(chain') /\ Len(chain') \in Nat
  BY DEF LucidTyped
<1>2. k \in Lucid!InRange' <=>
        k \in Int /\ 1 <= k /\ k <= Len(chain') /\ ask'.from <= k /\ k <= head'
  BY <1>1 DEF Lucid!InRange, LucidTyped
<1> QED
  BY <1>2 DEF Lucid!Relayed, Known

\* Mining adds blocks behind the ones that were there.
LEMMA MineKeeps ==
  ASSUME LucidIInv, Lucid!Mine
  PROVE  LucidIInv'
<1>1. PICK logs \in Lucid!Contents : chain' = Append(chain, logs)
  BY DEF Lucid!Mine
<1>2. UNCHANGED <<ask, scan, head, cursor, adapter, began>>
  BY DEF Lucid!Mine
<1>3. LucidTyped /\ chain \in Seq(Lucid!Contents) /\ Len(chain) \in Nat
  BY DEF LucidIInv, LucidTyped
<1>4. /\ chain' \in Seq(Lucid!Contents) /\ Len(chain') = Len(chain) + 1
      /\ \A k \in 1 .. Len(chain) : chain'[k] = chain[k]
  BY <1>1, <1>3, AppendProperties
<1>5. LucidTyped'
  BY <1>2, <1>3, <1>4 DEF LucidTyped
<1>6. \A k : k \in Lucid!InRange => k \in Lucid!InRange' /\ chain'[k] = chain[k]
  BY <1>2, <1>3, <1>4, <1>5, KnownBlocks, KnownBlocksNext
<1>7. \A k : k \in Known' => k \in Known
  <2> SUFFICES ASSUME NEW k, k \in Known'
               PROVE  k \in Known
    OBVIOUS
  <2>1. k \in Lucid!InRange' /\ k <= began /\ chain'[k] # << >>
    BY <1>2, <1>5, KnownBlocksNext
  <2>2. k \in Int /\ 1 <= k /\ ask.from <= k /\ k <= head
    BY <1>2, <1>5, <2>1, KnownBlocksNext
  <2>3. k <= Len(chain)
    BY <1>3, <2>1, <2>2 DEF LucidTyped
  <2> QED
    BY <1>3, <1>4, <2>1, <2>2, <2>3, KnownBlocks
<1>8. scan = "found" =>
        \E k \in Lucid!Relayed(Lucid!InRange)' :
          (\A j \in Known' : j <= k) /\ adapter = chain'[k][Len(chain'[k])]
  <2> SUFFICES ASSUME scan = "found"
               PROVE  \E k \in Lucid!Relayed(Lucid!InRange)' :
                        (\A j \in Known' : j <= k) /\ adapter = chain'[k][Len(chain'[k])]
    OBVIOUS
  <2>1. PICK k \in Lucid!Relayed(Lucid!InRange) :
          (\A j \in Known : j <= k) /\ adapter = chain[k][Len(chain[k])]
    BY DEF LucidIInv, Lucid!AdapterIsLatest, Known, Lucid!Last
  <2>2. k \in Lucid!Relayed(Lucid!InRange)' /\ chain'[k] = chain[k]
    BY <1>3, <1>5, <1>6, <2>1, KnownBlocks, KnownBlocksNext
  <2> QED
    BY <1>7, <2>1, <2>2
<1>9. scan = "error" /\ ask.chunk >= 1 => Known' = {}
  BY <1>7 DEF LucidIInv, Lucid!AdapterIsLatest, Known
<1> QED
  BY <1>2, <1>5, <1>7, <1>8, <1>9 DEF LucidIInv, Lucid!AdapterIsLatest, Known, Lucid!Last

LEMMA BeginKeeps ==
  ASSUME LucidIInv, Lucid!Begin
  PROVE  LucidIInv'
<1>1. LucidTyped /\ chain \in Seq(Lucid!Contents) /\ Len(chain) \in Nat
  BY DEF LucidIInv, LucidTyped
<1>2. /\ head' \in Int /\ cursor' = head' /\ began' = Len(chain) /\ UNCHANGED <<chain, ask>>
      /\ scan' = IF ask.chunk < 1 THEN "error" ELSE "scan"
  BY <1>1 DEF Lucid!Begin, LucidTyped
<1>3. LucidTyped'
  BY <1>1, <1>2 DEF LucidTyped
<1>4. \A j \in Known' : j <= cursor'
  BY <1>2, <1>3, KnownBlocksNext
<1> QED
  BY <1>1, <1>2, <1>3, <1>4 DEF LucidIInv, Lucid!AdapterIsLatest, LucidTyped

\* One request: its window holds the latest event, or nothing was in it.
LEMMA WindowKeeps ==
  ASSUME LucidIInv, Lucid!Window
  PROVE  LucidIInv'
<1> DEFINE lo == Lucid!AtLeast(ask.from, cursor - ask.chunk + 1)
           logged == Lucid!Logged(lo, cursor)
<1>1. /\ LucidTyped /\ ask.chunk \in Int /\ ask.chunk >= 1 /\ scan = "scan"
      /\ cursor \in Int /\ cursor <= head /\ \A j \in Known : j <= cursor
  BY DEF LucidIInv, LucidTyped, Lucid!Window
<1>2. lo \in Int /\ ask.from <= lo
  BY <1>1 DEF Lucid!AtLeast, LucidTyped
<1>3. UNCHANGED <<chain, ask, head, began>>
  BY DEF Lucid!Window
<1>4. Known' = Known /\ Lucid!Relayed(Lucid!InRange)' = Lucid!Relayed(Lucid!InRange)
  BY <1>3 DEF Known, Lucid!Relayed, Lucid!InRange
<1>5. \A j \in Known : j \in Int /\ ask.from <= j /\ j <= cursor /\ (lo <= j => j \in logged)
  BY <1>1, <1>2, KnownBlocks DEF Lucid!Logged, LucidTyped
<1>6. cursor' \in Int => LucidTyped'
  BY <1>1, <1>3 DEF LucidTyped
<1>7. CASE cursor < ask.from
  <2>1. scan' = "error" /\ cursor' = cursor
    BY <1>7 DEF Lucid!Window
  <2>2. Known = {}
    BY <1>1, <1>5, <1>7 DEF LucidTyped
  <2>3. LucidTyped'
    BY <1>1, <1>6, <2>1
  <2>4. Known' = {} /\ scan' = "error"
    BY <1>4, <2>1, <2>2
  <2>5. Lucid!AdapterIsLatest'
    BY <2>4 DEF Lucid!AdapterIsLatest, Known
  <2> QED
    BY <2>3, <2>4, <2>5 DEF LucidIInv
<1>8. CASE ~(cursor < ask.from) /\ logged # {}
  <2>1. /\ scan' = "found" /\ cursor' = cursor
        /\ \E k \in logged : (\A j \in logged : j <= k) /\ adapter' = Lucid!Last(k)
    BY <1>8 DEF Lucid!Window
  <2>2. PICK k \in logged : (\A j \in logged : j <= k) /\ adapter' = chain[k][Len(chain[k])]
    BY <2>1 DEF Lucid!Last
  <2>3. k \in Lucid!Relayed(Lucid!InRange) /\ k \in Int /\ lo <= k
    <3>1. k \in DOMAIN chain /\ lo <= k /\ k <= cursor /\ chain[k] # << >>
      BY <2>2 DEF Lucid!Logged
    <3> HIDE DEF lo, logged
    <3>2. k \in 1 .. Len(chain) /\ ask.from \in Int /\ head \in Int
      BY <1>1, <3>1 DEF LucidTyped
    <3>3. ask.from <= k /\ k <= head
      BY <1>1, <1>2, <3>1, <3>2
    <3> QED
      BY <1>1, <3>1, <3>2, <3>3, KnownBlocks
  <2>4. \A j \in Known : j <= k
    BY <1>2, <1>5, <2>2, <2>3
  <2> QED
    <3>1. LucidTyped'
      BY <1>1, <1>6, <2>1
    <3>2. k \in Lucid!Relayed(Lucid!InRange)' /\ adapter' = chain'[k][Len(chain'[k])]
      BY <1>3, <1>4, <2>2, <2>3
    <3>3. \A j \in Known' : j <= k
      BY <1>4, <2>4
    <3>4. Lucid!AdapterIsLatest'
      BY <2>1, <3>2, <3>3 DEF Lucid!AdapterIsLatest, Known, Lucid!Last
    <3> QED
      BY <2>1, <3>1, <3>4 DEF LucidIInv
<1>9. CASE ~(cursor < ask.from) /\ logged = {} /\ lo = ask.from
  <2>1. scan' = "error" /\ cursor' = cursor
    BY <1>9 DEF Lucid!Window
  <2>2. Known = {}
    BY <1>5, <1>9
  <2>3. LucidTyped'
    BY <1>1, <1>6, <2>1
  <2>4. Known' = {} /\ scan' = "error"
    BY <1>4, <2>1, <2>2
  <2>5. Lucid!AdapterIsLatest'
    BY <2>4 DEF Lucid!AdapterIsLatest, Known
  <2> QED
    BY <2>3, <2>4, <2>5 DEF LucidIInv
<1>10. CASE ~(cursor < ask.from) /\ logged = {} /\ lo # ask.from
  <2>1. scan' = "scan" /\ cursor' = lo - 1
    BY <1>1, <1>10 DEF Lucid!Window, Lucid!NextCursor
  <2>2. \A j \in Known : j <= lo - 1
    BY <1>2, <1>5, <1>10
  <2>3. lo = cursor - ask.chunk + 1
    BY <1>10 DEF Lucid!AtLeast
  <2>4. lo - 1 <= head
    BY <1>1, <2>3 DEF LucidTyped
  <2> QED
    BY <1>1, <1>2, <1>3, <1>4, <1>6, <2>1, <2>2, <2>4
       DEF LucidIInv, Lucid!AdapterIsLatest
<1> QED
  BY <1>7, <1>8, <1>9, <1>10

\* bridge/lucid.py, discover_adapter: "Picks the most recent match", however
\* the range is cut into windows and the chain grows meanwhile.
THEOREM LatestAdapter == Lucid!Spec => []Lucid!AdapterIsLatest
<1>1. Lucid!Init => LucidIInv
  <2> SUFFICES ASSUME Lucid!Init
               PROVE  LucidIInv
    OBVIOUS
  <2>1. chain = << >> /\ scan = "new" /\ head = 0 /\ cursor = 0 /\ began = 0
        /\ ask \in [from : Froms, to : Tos, chunk : ChunkSizes]
    BY DEF Lucid!Init
  <2>2. ask.from \in Int /\ ask.to \in Int /\ ask.chunk \in Int
    BY <2>1, LucidAssumption
  <2>3. chain \in Seq(Lucid!Contents) /\ Len(chain) = 0
    BY <2>1
  <2>4. LucidTyped
    BY <2>1, <2>2, <2>3 DEF LucidTyped
  <2> QED
    BY <2>1, <2>4 DEF LucidIInv, Lucid!AdapterIsLatest
<1>2. LucidIInv /\ [Lucid!Next]_(Lucid!vars) => LucidIInv'
  <2>1. LucidIInv /\ UNCHANGED Lucid!vars => LucidIInv'
    BY DEF Lucid!vars, LucidIInv, LucidTyped, Known, Lucid!AdapterIsLatest, Lucid!Relayed,
           Lucid!InRange, Lucid!Last
  <2> QED
    BY <2>1, MineKeeps, BeginKeeps, WindowKeeps DEF Lucid!Next
<1>3. LucidIInv => Lucid!AdapterIsLatest
  BY DEF LucidIInv
<1> QED
  BY <1>1, <1>2, <1>3, PTL DEF Lucid!Spec

-----------------------------------------------------------------------------
(* LiquidationScan.  Of a position that stands still every check knows what *)
(* one look at it would tell; the rest is Morpho's arithmetic.             *)

Markets == {"aave_v3", "aave_v4", "compound_v3", "morpho", "unknown"}

MorphoPositions ==
  {p \in [shares : Nat, collateral : Nat, price : Nat \ {0}, assets : Nat, owed : Nat, total : Nat] :
     p.owed >= p.assets /\ (p.shares > 0 => p.collateral > 0)}

Positions(k) ==
  CASE k = "morpho" -> MorphoPositions
    [] k \in {"compound_v3", "unknown"} -> [bad : BOOLEAN, debt : Nat]
    [] OTHER -> [bad : BOOLEAN, debt : Nat, collateral : Nat, enabled : BOOLEAN]

\* The debt, and what get_position makes of the position, at the last accrual.
Debt(p) == Scan!ToAssetsUp(p.shares, p.assets, p.total)
PositionOf(p) ==
  [shares |-> p.shares, collateral |-> p.collateral, price |-> p.price, borrowed |-> Debt(p),
   factor |-> Scan!ComputeHealthFactor(p.collateral, Debt(p), p.price)]

Owed(k, p) ==
  /\ k = "morpho" => ~Scan!Healthy(PositionOf(p).factor)
  /\ k # "morpho" => p.bad
  /\ k \in {"aave_v3", "aave_v4"} => p.debt > 0 /\ p.collateral > 0 /\ p.enabled

CallFor(k, p) ==
  CASE k = "morpho" -> Scan!MaxLiquidation(PositionOf(p))
    [] k = "aave_v3" -> [cover |-> Scan!Everything]
    [] k = "aave_v4" -> [cover |-> p.debt]
    [] OTHER -> [absorb |-> TRUE]

Tipped(p, c) ==
  c.shares > 0 /\ p.owed > p.assets /\ Scan!SeizedFor(p, p.shares) > p.collateral
Within(p, c) ==
  Scan!CeilDiv(c.seized * p.price, Wad) * Wad > (Debt(p) - 1) * Scan!LiquidationIncentiveFactor

ScanTyped ==
  /\ batch \in Seq(Markets)
  /\ at = [i \in DOMAIN batch |-> at[i]] /\ reads = [i \in DOMAIN batch |-> reads[i]]
  /\ \A i \in DOMAIN batch : at[i] \in Positions(batch[i])
  /\ sent \in [DOMAIN batch -> {"no", "landed", "reverted"}]
  /\ sweep \in {"scan", "send"}

Checked(k, r) ==
  /\ r.pc \in {"no_w3", "first", "reads", "none", "found", "failed"}
  /\ r.pc \notin {"no_w3", "failed"} => k # "unknown"
  /\ r.pc = "first" => k # "morpho" /\ r = [pc |-> "first", got |-> << >>]
  /\ r.pc = "reads" => r = [pc |-> "reads", got |-> r.got]

\* What a check knows of a position that has not moved.
AsRead(k, p, r) ==
  /\ r.pc = "reads" =>
       /\ k # "morpho" => p.bad
       /\ \A x \in DOMAIN r.got : x \in Scan!Reads(k) /\ r.got[x] = Scan!Answer(k, x, p)
  /\ r.pc = "none" => ~Owed(k, p)
  /\ r.pc = "found" => Owed(k, p) /\ r.call = CallFor(k, p)

Turned(k, p, r) == k = "morpho" /\ (Tipped(p, r.call) \/ Within(p, r.call))

Reported ==
  /\ sweep = "scan" => found = << >>
  /\ sweep = "send" =>
       /\ \A i \in DOMAIN batch : reads[i].pc \in {"none", "found", "failed"}
       /\ Scan!ToSet(found) = {i \in DOMAIN batch : reads[i].pc = "found"}
  /\ \A j, k \in DOMAIN found : j < k => found[j] < found[k]
  /\ \A i \in DOMAIN batch : sent[i] # "no" => sweep = "send" /\ reads[i].pc = "found"

ScanIInv ==
  /\ ScanTyped /\ Reported
  /\ \A i \in DOMAIN batch : Checked(batch[i], reads[i])
  /\ \A i \in DOMAIN batch \ stirred :
       /\ AsRead(batch[i], at[i], reads[i])
       /\ sent[i] = "reverted" => Turned(batch[i], at[i], reads[i])

-----------------------------------------------------------------------------
(* Division that rounds down or up: it keeps the order, and what rounds up *)
(* is no more than any bound that is whole.                                *)

LEMMA TimesKeeps ==
  ASSUME NEW a \in Nat, NEW b \in Nat, NEW c \in Nat, a <= b
  PROVE  a * c <= b * c /\ c * a <= c * b /\ a * c \in Nat
OBVIOUS

LEMMA DivKeeps ==
  ASSUME NEW a \in Nat, NEW b \in Nat, NEW c \in Nat \ {0}, a <= b
  PROVE  a \div c \in Nat /\ b \div c \in Nat /\ a \div c <= b \div c
OBVIOUS

LEMMA CeilDivFact ==
  ASSUME NEW a \in Nat, NEW c \in Nat \ {0}
  PROVE  /\ Scan!CeilDiv(a, c) \in Nat /\ (Scan!CeilDiv(a, c) - 1) * c < a
         /\ a \div c <= Scan!CeilDiv(a, c)
BY DEF Scan!CeilDiv

LEMMA CeilDivBound ==
  ASSUME NEW a \in Nat, NEW q \in Nat, NEW c \in Nat \ {0}, a <= q * c
  PROVE  Scan!CeilDiv(a, c) <= q
BY DEF Scan!CeilDiv

LEMMA CeilDivKeeps ==
  ASSUME NEW a \in Nat, NEW b \in Nat, NEW c \in Nat \ {0}, a <= b
  PROVE  Scan!CeilDiv(a, c) <= Scan!CeilDiv(b, c)
<1>1. a + c - 1 \in Nat /\ b + c - 1 \in Nat /\ a + c - 1 <= b + c - 1
  OBVIOUS
<1> QED
  BY <1>1, DivKeeps DEF Scan!CeilDiv

\* A collateral quoted at a unit less than the debt is paid with no more
\* shares than the position has, at any later accrual.
LEMMA SharesSuffice ==
  ASSUME NEW s \in Nat, NEW A \in Nat, NEW O \in Nat \ {0}, NEW T \in Nat \ {0},
         NEW L \in Nat \ {0}, NEW Q \in Nat, A <= O,
         Q <= (Scan!CeilDiv(s * A, T) - 1) * L
  PROVE  Scan!CeilDiv(Scan!CeilDiv(Q, L) * T, O) <= s
<1> DEFINE B == Scan!CeilDiv(s * A, T) - 1
           R == Scan!CeilDiv(Q, L)
<1>1. s * A \in Nat /\ s * O \in Nat /\ s * A <= s * O
  BY TimesKeeps
<1>2. B \in Int /\ B * T < s * A
  BY <1>1, CeilDivFact
<1>3. B \in Nat
  <2> SUFFICES ASSUME B < 0 PROVE FALSE
    BY <1>2
  <2>1. Q <= B * L
    OBVIOUS
  <2> HIDE DEF B
  <2>2. B * L < 0 /\ B * L \in Int
    BY <1>2
  <2> QED
    BY <2>1, <2>2
<1>4. R \in Nat /\ R <= B
  BY <1>3, CeilDivFact, CeilDivBound
<1>5. R * T \in Nat /\ R * T <= B * T
  BY <1>3, <1>4, TimesKeeps
<1>6. R * T <= s * O
  <2> HIDE DEF B, R
  <2>1. B * T \in Int
    BY <1>3
  <2> QED
    BY <1>1, <1>2, <1>5, <2>1
<1> QED
  BY <1>5, <1>6, CeilDivBound

\* What a debt is worth in collateral grows with the debt.
LEMMA SeizedKeeps ==
  ASSUME NEW a \in Nat, NEW b \in Nat, NEW L \in Nat, NEW W \in Nat \ {0},
         NEW P \in Nat \ {0}, a <= b
  PROVE  /\ Scan!MulDiv(Scan!MulDiv(a, L, W), W, P) \in Nat
         /\ Scan!MulDiv(Scan!MulDiv(a, L, W), W, P) <= Scan!MulDiv(Scan!MulDiv(b, L, W), W, P)
<1>1. a * L \in Nat /\ b * L \in Nat /\ a * L <= b * L
  BY TimesKeeps
<1>2. (a * L) \div W \in Nat /\ (b * L) \div W \in Nat /\ (a * L) \div W <= (b * L) \div W
  BY <1>1, DivKeeps
<1>3. PICK x \in Nat : x = (a * L) \div W
  BY <1>2
<1>4. PICK y \in Nat : y = (b * L) \div W
  BY <1>2
<1>5. x * W \in Nat /\ y * W \in Nat /\ x * W <= y * W
  BY <1>2, <1>3, <1>4, TimesKeeps
<1>6. (x * W) \div P \in Nat /\ (x * W) \div P <= (y * W) \div P
  BY <1>5, DivKeeps
<1> QED
  BY <1>3, <1>4, <1>6 DEF Scan!MulDiv

-----------------------------------------------------------------------------
(* Morpho's call: what a check at the last accrual finds to be too much    *)
(* debt is, and the call that it builds is accepted until interest tips it *)
(* or where a unit decides.                                                *)

LEMMA MorphoDebt ==
  ASSUME NEW p \in MorphoPositions
  PROVE  /\ p \in [shares : Nat, collateral : Nat, price : Nat \ {0},
                   assets : Nat, owed : Nat, total : Nat]
         /\ p.shares \in Nat /\ p.collateral \in Nat /\ p.price \in Nat \ {0}
         /\ p.assets + VirtualAssets \in Nat \ {0} /\ p.owed + VirtualAssets \in Nat \ {0}
         /\ p.assets + VirtualAssets <= p.owed + VirtualAssets
         /\ p.total + VirtualShares \in Nat \ {0}
         /\ p.shares * (p.assets + VirtualAssets) \in Nat
         /\ p.shares * (p.assets + VirtualAssets) <= p.shares * (p.owed + VirtualAssets)
         /\ p.shares * (p.owed + VirtualAssets) \in Nat
         /\ Debt(p) = Scan!CeilDiv(p.shares * (p.assets + VirtualAssets), p.total + VirtualShares)
         /\ Debt(p) \in Nat
         /\ Scan!ToAssetsUp(p.shares, p.owed, p.total) \in Nat
         /\ Debt(p) <= Scan!ToAssetsUp(p.shares, p.owed, p.total)
<1>1. /\ p \in [shares : Nat, collateral : Nat, price : Nat \ {0},
                assets : Nat, owed : Nat, total : Nat]
      /\ p.shares \in Nat /\ p.collateral \in Nat /\ p.price \in Nat \ {0}
      /\ p.assets \in Nat /\ p.owed \in Nat /\ p.total \in Nat /\ p.assets <= p.owed
  BY DEF MorphoPositions
<1>2. VirtualAssets \in Nat \ {0} /\ VirtualShares \in Nat \ {0}
  BY ScanAssumption
<1>3. /\ p.assets + VirtualAssets \in Nat \ {0} /\ p.owed + VirtualAssets \in Nat \ {0}
      /\ p.assets + VirtualAssets <= p.owed + VirtualAssets
      /\ p.total + VirtualShares \in Nat \ {0}
  BY <1>1, <1>2
<1>4. PICK s \in Nat, a \in Nat, o \in Nat, t \in Nat \ {0} :
        /\ s = p.shares /\ a = p.assets + VirtualAssets /\ o = p.owed + VirtualAssets
        /\ t = p.total + VirtualShares /\ a <= o
  BY <1>1, <1>3
<1>5. s * a \in Nat /\ s * o \in Nat /\ s * a <= s * o
  BY <1>4, TimesKeeps
<1>6. Scan!CeilDiv(s * a, t) \in Nat /\ Scan!CeilDiv(s * o, t) \in Nat
      /\ Scan!CeilDiv(s * a, t) <= Scan!CeilDiv(s * o, t)
  BY <1>4, <1>5, CeilDivFact, CeilDivKeeps
<1> QED
  BY <1>1, <1>3, <1>4, <1>5, <1>6 DEF Debt, Scan!ToAssetsUp

\* Interest only adds to a debt that is too much.
LEMMA StillOwed ==
  ASSUME NEW p \in MorphoPositions, Owed("morpho", p)
  PROVE  Scan!AtMorpho(p) /\ Debt(p) > 0 /\ p.shares > 0 /\ p.collateral > 0
<1> DEFINE M == Scan!MulDiv(Scan!MulDiv(p.collateral, p.price, Wad), Lltv, Wad)
           O == Scan!ToAssetsUp(p.shares, p.owed, p.total)
<1>1. ~(Debt(p) = 0 \/ M >= Debt(p))
  BY DEF Owed, PositionOf, Scan!Healthy, Scan!ComputeHealthFactor
<1>2. Debt(p) \in Nat /\ O \in Nat /\ Debt(p) <= O
  BY MorphoDebt
<1>3. Wad \in Nat \ {0} /\ Lltv \in Nat
  BY ScanAssumption
<1>4. M \in Nat
  <2>1. PICK c \in Nat, r \in Nat, w \in Nat \ {0}, l \in Nat :
          c = p.collateral /\ r = p.price /\ w = Wad /\ l = Lltv
    BY <1>3, MorphoDebt
  <2>2. (c * r) \div w \in Nat
    BY TimesKeeps, DivKeeps
  <2>3. PICK x \in Nat : x = (c * r) \div w
    BY <2>2
  <2>4. x * l \in Nat
    OBVIOUS
  <2>5. (x * l) \div w \in Nat
    BY <2>4, DivKeeps
  <2> QED
    BY <2>1, <2>3, <2>5 DEF Scan!MulDiv
<1>5. ~(O = 0 \/ M >= O) /\ Debt(p) > 0
  BY <1>1, <1>2, <1>4
<1>6. Scan!AtMorpho(p)
  BY <1>5 DEF Scan!AtMorpho, Scan!Healthy, Scan!ComputeHealthFactor
<1>7. p.shares > 0
  <2> SUFFICES ASSUME p.shares = 0 PROVE FALSE
    BY MorphoDebt
  <2>1. p.shares * (p.assets + VirtualAssets) = 0 /\ p.total + VirtualShares \in Nat \ {0}
    BY MorphoDebt
  <2>2. Debt(p) <= 0
    BY <2>1, MorphoDebt, CeilDivBound
  <2> QED
    BY <1>2, <1>5, <2>2
<1> QED
  BY <1>5, <1>6, <1>7 DEF MorphoPositions

LEMMA MorphoCallLands ==
  ASSUME NEW p \in MorphoPositions, Owed("morpho", p),
         NEW c, c = CallFor("morpho", p), ~Scan!Accepts("morpho", p, c)
  PROVE  Tipped(p, c) \/ Within(p, c)
<1> DEFINE L == Scan!LiquidationIncentiveFactor
           Worth(n) == Scan!MulDiv(Scan!MulDiv(n, L, Wad), Wad, p.price)
           full == Worth(Debt(p))
<1>1. /\ Scan!AtMorpho(p) /\ Debt(p) > 0 /\ p.shares > 0 /\ p.collateral > 0
      /\ Debt(p) \in Nat /\ p.price \in Nat \ {0} /\ p.shares \in Nat /\ p.collateral \in Nat
  BY StillOwed, MorphoDebt
<1>2. Wad \in Nat \ {0} /\ L \in Nat \ {0}
  BY ScanAssumption
<1>3. c = IF p.price > 0 /\ full > p.collateral
          THEN [seized |-> p.collateral, shares |-> 0]
          ELSE [seized |-> 0, shares |-> p.shares]
  BY DEF CallFor, PositionOf, Scan!MaxLiquidation
<1>4. ~(/\ c.shares <= p.shares /\ c.seized <= p.collateral
        /\ c.seized > 0 => Scan!SharesFor(p, c.seized) <= p.shares
        /\ c.shares > 0 => Scan!SeizedFor(p, c.shares) <= p.collateral)
  BY <1>1 DEF Scan!Accepts
<1>5. \A a, b \in Nat : a <= b => Worth(a) \in Nat /\ Worth(b) \in Nat /\ Worth(a) <= Worth(b)
  <2>1. PICK l \in Nat \ {0}, w \in Nat \ {0}, r \in Nat \ {0} : l = L /\ w = Wad /\ r = p.price
    BY <1>1, <1>2
  <2>2. \A a, b \in Nat : a <= b =>
          /\ Scan!MulDiv(Scan!MulDiv(a, l, w), w, r) \in Nat
          /\ Scan!MulDiv(Scan!MulDiv(b, l, w), w, r) \in Nat
          /\ Scan!MulDiv(Scan!MulDiv(a, l, w), w, r) <= Scan!MulDiv(Scan!MulDiv(b, l, w), w, r)
    BY SeizedKeeps
  <2> QED
    BY <2>1, <2>2
<1>6. CASE full > p.collateral
  <2>1. c = [seized |-> p.collateral, shares |-> 0]
    BY <1>1, <1>3, <1>6
  <2>2. ~(Scan!SharesFor(p, p.collateral) <= p.shares)
    BY <1>1, <1>4, <2>1
  <2>3. SUFFICES ASSUME ~Within(p, c)
                 PROVE  Scan!SharesFor(p, p.collateral) <= p.shares
    BY <2>2
  <2>4. PICK q \in Nat : q = Scan!CeilDiv(p.collateral * p.price, Wad)
    <3>1. p.collateral * p.price \in Nat
      BY <1>1
    <3> QED
      BY <1>2, <3>1, CeilDivFact
  <2>5. q * Wad \in Nat
    BY <1>2
  <2>6. ~(q * Wad > (Debt(p) - 1) * L)
    BY <2>1, <2>3, <2>4 DEF Within
  <2>7. PICK n \in Nat : n = q * Wad
    BY <2>5
  <2>8. n <= (Debt(p) - 1) * L
    <3> HIDE DEF L
    <3> (Debt(p) - 1) * L \in Int
      BY <1>1, <1>2
    <3> QED
      BY <2>6, <2>7
  <2>9. Scan!CeilDiv(Scan!CeilDiv(n, L) * (p.total + VirtualShares), p.owed + VirtualAssets)
          <= p.shares
    <3> HIDE DEF L
    <3>1. n <= (Scan!CeilDiv(p.shares * (p.assets + VirtualAssets), p.total + VirtualShares) - 1) * L
      BY <2>8, MorphoDebt
    <3> QED
      BY <1>1, <1>2, <3>1, MorphoDebt, SharesSuffice
  <2> QED
    BY <2>4, <2>7, <2>9 DEF Scan!SharesFor
<1>7. CASE ~(full > p.collateral)
  <2>1. c = [seized |-> 0, shares |-> p.shares]
    BY <1>3, <1>7
  <2>2. c.shares = p.shares /\ c.seized = 0
    BY <2>1
  <2>3. ~(Scan!SeizedFor(p, p.shares) <= p.collateral)
    BY <1>1, <1>4, <2>2
  <2>4. PICK m \in Nat : m = Scan!MulDiv(p.shares, p.owed + VirtualAssets, p.total + VirtualShares)
    BY MorphoDebt, DivKeeps DEF Scan!MulDiv
  <2>5. Scan!SeizedFor(p, p.shares) = Worth(m)
    BY <2>4 DEF Scan!SeizedFor
  <2>6. p.owed > p.assets
    <3> SUFFICES ASSUME ~(p.owed > p.assets) PROVE FALSE
      OBVIOUS
    <3>1. p.owed = p.assets
      BY DEF MorphoPositions
    <3>2. m <= Debt(p)
      BY <2>4, <3>1, MorphoDebt, CeilDivFact DEF Scan!MulDiv
    <3>3. full \in Nat /\ Worth(m) \in Nat /\ Worth(m) <= full
      BY <1>1, <2>4, <3>2, <1>5
    <3> HIDE DEF Worth, full
    <3> QED
      BY <1>1, <1>7, <2>3, <2>5, <3>3
  <2>7. Scan!SeizedFor(p, p.shares) > p.collateral
    <3>1. Scan!SeizedFor(p, p.shares) \in Nat
      <4>1. Worth(m) \in Nat
        BY <1>5, <2>4
      <4> QED
        BY <2>5, <4>1
    <3> QED
      BY <1>1, <2>3, <3>1
  <2> QED
    BY <1>1, <2>2, <2>6, <2>7 DEF Tipped
<1> QED
  BY <1>6, <1>7

-----------------------------------------------------------------------------
\* A check that has read a position as it stands tells what it is owed.
LEMMA CheckTells ==
  ASSUME NEW k \in Markets \ {"unknown"}, NEW p \in Positions(k), NEW r,
         \A x \in Scan!Reads(k) : r[x] = Scan!Answer(k, x, p), k # "morpho" => p.bad
  PROVE  Scan!Check(k, r) = IF Owed(k, p) THEN Scan!Opportunity(CallFor(k, p)) ELSE Scan!Nothing
<1>1. CASE k = "morpho"
  <2>1. p \in MorphoPositions
    BY <1>1 DEF Positions
  <2>2. /\ r["position"] = [shares |-> p.shares, collateral |-> p.collateral]
        /\ r["market"] = [assets |-> p.assets, total |-> p.total] /\ r["price"] = p.price
    BY <1>1 DEF Scan!Reads, Scan!Answer
  <2>3. /\ r["position"].shares = p.shares /\ r["position"].collateral = p.collateral
        /\ r["market"].assets = p.assets /\ r["market"].total = p.total /\ r["price"] = p.price
    BY <2>2
  <2>4. Scan!GetPosition(r) = PositionOf(p)
    BY <2>3 DEF Scan!GetPosition, PositionOf, Debt
  <2>5. CallFor(k, p) = Scan!MaxLiquidation(PositionOf(p))
    BY <1>1 DEF CallFor
  <2>6. Owed(k, p) <=> ~Scan!Healthy(PositionOf(p).factor)
    BY <1>1 DEF Owed
  <2>7. Owed(k, p) => Scan!ResolveAssetsShares(CallFor(k, p))
    <3> SUFFICES ASSUME Owed(k, p) PROVE Scan!ResolveAssetsShares(CallFor(k, p))
      OBVIOUS
    <3>1. p.shares > 0 /\ p.collateral > 0
      BY <1>1, <2>1, StillOwed
    <3>2. \/ CallFor(k, p) = [seized |-> p.collateral, shares |-> 0]
          \/ CallFor(k, p) = [seized |-> 0, shares |-> p.shares]
      BY <2>5 DEF Scan!MaxLiquidation, PositionOf
    <3> QED
      BY <3>1, <3>2 DEF Scan!ResolveAssetsShares
  <2>8. Scan!Check(k, r) = Scan!CheckMorpho(r)
    BY <1>1 DEF Scan!Check
  <2> QED
    BY <2>4, <2>5, <2>6, <2>7, <2>8 DEF Scan!CheckMorpho
<1>2. CASE k \in {"aave_v3", "aave_v4"}
  <2>1. p \in [bad : BOOLEAN, debt : Nat, collateral : Nat, enabled : BOOLEAN]
    BY <1>2 DEF Positions
  <2>2. r["debt"] = p.debt /\ r["collateral"] = (p.collateral > 0 /\ p.enabled) /\ p.bad
    BY <1>2 DEF Scan!Reads, Scan!Answer
  <2>3. Owed(k, p) <=> ~(r["debt"] = 0 \/ ~r["collateral"])
    <3>1. Owed(k, p) <=> p.debt > 0 /\ p.collateral > 0 /\ p.enabled
      BY <1>2, <2>2 DEF Owed
    <3>2. r["debt"] = 0 <=> ~(p.debt > 0)
      BY <2>1, <2>2
    <3>3. r["collateral"] <=> p.collateral > 0 /\ p.enabled
      BY <2>2
    <3> QED
      BY <3>1, <3>2, <3>3
  <2> QED
    BY <1>2, <2>2, <2>3
       DEF Scan!Check, Scan!CheckAaveV3, Scan!CheckAaveV4, CallFor, Scan!Everything
<1>3. CASE k = "compound_v3"
  BY <1>3 DEF Owed, CallFor, Scan!Check, Scan!CheckCompoundV3
<1> QED
  BY <1>1, <1>2, <1>3 DEF Markets

\* Whatever a check has read, it finds something or nothing.
LEMMA CheckEnds ==
  ASSUME NEW k \in Markets \ {"unknown"}, NEW r
  PROVE  Checked(k, Scan!Check(k, r)) /\ Scan!Check(k, r).pc \in {"none", "found"}
<1>1. \/ Scan!Check(k, r) = Scan!Nothing
      \/ \E c : Scan!Check(k, r) = Scan!Opportunity(c)
  BY DEF Markets, Scan!Check, Scan!CheckMorpho, Scan!CheckAaveV3, Scan!CheckAaveV4,
         Scan!CheckCompoundV3
<1>2. Scan!Check(k, r).pc \in {"none", "found"}
  BY <1>1 DEF Scan!Nothing, Scan!Opportunity
<1> QED
  BY <1>2 DEF Checked

\* What stands still or moves while it is sent is accepted, but for a Morpho
\* position that interest or a unit turns.
LEMMA FoundIsAccepted ==
  ASSUME NEW k \in Markets \ {"unknown"}, NEW p \in Positions(k), NEW r,
         Owed(k, p), r.call = CallFor(k, p), ~Scan!Accepts(k, p, r.call)
  PROVE  Turned(k, p, r)
<1>1. CASE k = "morpho"
  BY <1>1, MorphoCallLands DEF Positions, Turned
<1>2. CASE k \in {"aave_v3", "aave_v4"}
  <2>1. p.bad /\ p.debt > 0 /\ p.collateral > 0 /\ p.enabled
    BY <1>2 DEF Owed
  <2>2. r.call.cover # 0
    BY <1>2, <2>1 DEF CallFor, Scan!Everything
  <2> QED
    BY <1>2, <2>1, <2>2 DEF Scan!Accepts
<1>3. CASE k = "compound_v3"
  BY <1>3 DEF Scan!Accepts, Owed
<1> QED
  BY <1>1, <1>2, <1>3 DEF Markets

\* Interest changes nothing of what a check reads, and never turns back.
LEMMA InterestKeeps ==
  ASSUME NEW p \in Positions("morpho"), NEW q, q = [p EXCEPT !.owed = p.owed + 1]
  PROVE  /\ q \in Positions("morpho")
         /\ \A r : AsRead("morpho", p, r) => AsRead("morpho", q, r)
         /\ \A r : Turned("morpho", p, r) => Turned("morpho", q, r)
<1>1. /\ p \in MorphoPositions
      /\ p \in [shares : Nat, collateral : Nat, price : Nat \ {0},
                assets : Nat, owed : Nat, total : Nat]
  BY DEF Positions, MorphoPositions
<1>2. /\ q.shares = p.shares /\ q.collateral = p.collateral /\ q.price = p.price
      /\ q.assets = p.assets /\ q.total = p.total /\ q.owed = p.owed + 1
      /\ q \in [shares : Nat, collateral : Nat, price : Nat \ {0},
                assets : Nat, owed : Nat, total : Nat]
  BY <1>1
<1>3. q \in MorphoPositions
  BY <1>1, <1>2 DEF MorphoPositions
<1>4. PositionOf(q) = PositionOf(p) /\ Debt(q) = Debt(p)
  BY <1>2 DEF PositionOf, Debt
<1>5. Owed("morpho", q) = Owed("morpho", p) /\ CallFor("morpho", q) = CallFor("morpho", p)
  BY <1>4 DEF Owed, CallFor
<1>6. \A r, x : AsRead("morpho", p, r) => AsRead("morpho", q, r)
  <2> SUFFICES ASSUME NEW r, AsRead("morpho", p, r) PROVE AsRead("morpho", q, r)
    OBVIOUS
  <2>1. ASSUME r.pc = "reads", NEW x \in DOMAIN r.got
        PROVE  x \in Scan!Reads("morpho") /\ r.got[x] = Scan!Answer("morpho", x, q)
    <3>1. x \in Scan!Reads("morpho") /\ r.got[x] = Scan!Answer("morpho", x, p)
      BY <2>1 DEF AsRead
    <3>2. Scan!Answer("morpho", x, p) = Scan!Answer("morpho", x, q)
      BY <1>2, <3>1 DEF Scan!Answer, Scan!Reads
    <3> QED
      BY <3>1, <3>2
  <2> QED
    BY <1>5, <2>1 DEF AsRead
<1>7. Scan!SeizedFor(p, p.shares) \in Nat /\ Scan!SeizedFor(q, q.shares) \in Nat
      /\ Scan!SeizedFor(p, p.shares) <= Scan!SeizedFor(q, q.shares)
  <2>1. PICK s \in Nat, a \in Nat, b \in Nat, t \in Nat \ {0} :
          /\ s = p.shares /\ a = p.owed + VirtualAssets /\ b = q.owed + VirtualAssets
          /\ t = p.total + VirtualShares /\ a <= b
    <3>1. /\ p.shares \in Nat /\ p.owed + VirtualAssets \in Nat
          /\ q.owed + VirtualAssets \in Nat /\ p.total + VirtualShares \in Nat \ {0}
      BY <1>1, <1>3, MorphoDebt
    <3>2. p.owed + VirtualAssets <= q.owed + VirtualAssets
      <4>1. PICK o \in Nat, v \in Nat : o = p.owed /\ v = VirtualAssets
        BY <1>1, ScanAssumption
      <4>2. o + v <= (o + 1) + v
        OBVIOUS
      <4> QED
        BY <1>2, <4>1, <4>2
    <3> QED
      BY <3>1, <3>2
  <2>2. s * a \in Nat /\ s * b \in Nat /\ s * a <= s * b
    BY <2>1, TimesKeeps
  <2>3. PICK m \in Nat : m = (s * a) \div t
    BY <2>1, <2>2, DivKeeps
  <2>4. PICK n \in Nat : n = (s * b) \div t
    BY <2>1, <2>2, DivKeeps
  <2>5. m <= n
    BY <2>1, <2>2, <2>3, <2>4, DivKeeps
  <2>6. PICK l \in Nat \ {0}, w \in Nat \ {0}, r \in Nat \ {0} :
          l = Scan!LiquidationIncentiveFactor /\ w = Wad /\ r = p.price
    BY <1>1, ScanAssumption
  <2>7. /\ Scan!MulDiv(Scan!MulDiv(m, l, w), w, r) \in Nat
        /\ Scan!MulDiv(Scan!MulDiv(n, l, w), w, r) \in Nat
        /\ Scan!MulDiv(Scan!MulDiv(m, l, w), w, r) <= Scan!MulDiv(Scan!MulDiv(n, l, w), w, r)
    BY <2>5, SeizedKeeps
  <2>8. m = Scan!MulDiv(p.shares, p.owed + VirtualAssets, p.total + VirtualShares)
        /\ n = Scan!MulDiv(q.shares, q.owed + VirtualAssets, q.total + VirtualShares)
    BY <1>2, <2>1, <2>3, <2>4 DEF Scan!MulDiv
  <2> QED
    BY <1>2, <2>6, <2>7, <2>8 DEF Scan!SeizedFor
<1>8. \A r : Tipped(p, r.call) => Tipped(q, r.call)
  BY <1>1, <1>2, <1>7 DEF Tipped
<1>9. \A r : Within(p, r.call) => Within(q, r.call)
  BY <1>2, <1>4 DEF Within
<1> QED
  BY <1>3, <1>6, <1>8, <1>9 DEF Positions, Turned

-----------------------------------------------------------------------------
LEMMA AccountsTyped ==
  ASSUME NEW k \in Markets
  PROVE  Scan!Accounts(k) \subseteq Positions(k)
<1>1. Morpho \subseteq MorphoPositions
  BY ScanAssumption DEF MorphoPositions
<1> QED
  BY <1>1, ScanAssumption DEF Markets, Scan!Accounts, Scan!Unknown, Positions

LEMMA ScanInit == Scan!Init => ScanIInv
<1> SUFFICES ASSUME Scan!Init PROVE ScanIInv
  OBVIOUS
<1>1. batch \in Seq(Markets) /\ \A i \in DOMAIN batch : batch[i] \in Markets
  BY ScanAssumption DEF Scan!Init, Markets
<1>2. at = [i \in DOMAIN batch |-> at[i]]
      /\ \A i \in DOMAIN batch : at[i] \in Scan!Accounts(batch[i])
  BY DEF Scan!Init
<1>3. ScanTyped
  <2>1. \A i \in DOMAIN batch : at[i] \in Positions(batch[i])
    BY <1>1, <1>2, AccountsTyped
  <2> QED
    BY <1>1, <1>2, <2>1 DEF Scan!Init, ScanTyped
<1>4. \A i \in DOMAIN batch : reads[i] = [pc |-> Scan!FirstRead(batch[i]), got |-> << >>]
  BY DEF Scan!Init
<1>5. ASSUME NEW i \in DOMAIN batch
      PROVE  Checked(batch[i], reads[i]) /\ AsRead(batch[i], at[i], reads[i])
  <2>1. reads[i].pc = Scan!FirstRead(batch[i]) /\ reads[i].got = << >>
    <3>1. PICK f : f = Scan!FirstRead(batch[i])
      OBVIOUS
    <3>2. reads[i] = [pc |-> f, got |-> << >>]
      BY <1>4, <3>1
    <3> QED
      BY <3>1, <3>2
  <2>2. Checked(batch[i], reads[i])
    BY <1>4, <2>1 DEF Checked, Scan!FirstRead, Scan!Unknown
  <2>3. AsRead(batch[i], at[i], reads[i])
    BY <2>1 DEF AsRead, Scan!FirstRead, Scan!Unknown
  <2> QED
    BY <2>2, <2>3
<1>6. Reported
  BY DEF Scan!Init, Reported
<1>7. \A i \in DOMAIN batch : sent[i] # "reverted"
  BY DEF Scan!Init
<1> QED
  BY <1>3, <1>5, <1>6, <1>7 DEF ScanIInv

\* A check goes on to r, as its reads say.
LEMMA CheckStep ==
  ASSUME ScanIInv, NEW i \in DOMAIN batch, reads[i].pc \in {"no_w3", "first", "reads"},
         NEW r, reads' = [reads EXCEPT ![i] = r], Checked(batch[i], r),
         i \notin stirred => AsRead(batch[i], at[i], r),
         UNCHANGED <<batch, at, sweep, found, sent, stirred>>
  PROVE  ScanIInv'
<1>1. sweep = "scan" /\ sent[i] = "no"
  BY DEF ScanIInv, ScanTyped, Reported
<1>2. \A j \in DOMAIN batch : reads'[j] = IF j = i THEN r ELSE reads[j]
  BY DEF ScanIInv, ScanTyped
<1>3. ScanTyped'
  BY DEF ScanIInv, ScanTyped
<1>4. Reported'
  BY <1>1, <1>2 DEF ScanIInv, ScanTyped, Reported
<1>5. \A j \in DOMAIN batch : Checked(batch[j], reads'[j])
  BY <1>2 DEF ScanIInv
<1>6. \A j \in DOMAIN batch \ stirred :
        /\ AsRead(batch[j], at[j], reads'[j])
        /\ sent[j] = "reverted" => Turned(batch[j], at[j], reads'[j])
  BY <1>1, <1>2 DEF ScanIInv
<1> QED
  BY <1>3, <1>4, <1>5, <1>6 DEF ScanIInv

LEMMA ReadFirstStep ==
  ASSUME ScanIInv, NEW i \in DOMAIN batch, Scan!ReadFirst(i)
  PROVE  ScanIInv'
<1>1. reads[i].pc = "first" /\ UNCHANGED <<batch, at, sweep, found, sent, stirred>>
  BY DEF Scan!ReadFirst
<1>2. batch[i] # "morpho" /\ reads[i] = [pc |-> "first", got |-> << >>] /\ batch[i] # "unknown"
  BY <1>1 DEF ScanIInv, Checked
<1>3. CASE at[i].bad
  <2> DEFINE r == [pc |-> "reads", got |-> << >>]
  <2>1. reads' = [reads EXCEPT ![i] = r]
    <3>1. reads' = [reads EXCEPT ![i] = [reads[i] EXCEPT !.pc = "reads"]]
      BY <1>3 DEF Scan!ReadFirst, Scan!Answer
    <3>2. [reads[i] EXCEPT !.pc = "reads"] = r
      BY <1>2
    <3> QED
      BY <3>1, <3>2
  <2>2. Checked(batch[i], r) /\ AsRead(batch[i], at[i], r)
    BY <1>2, <1>3 DEF Checked, AsRead
  <2> QED
    BY <1>1, <2>1, <2>2, CheckStep
<1>4. CASE ~at[i].bad
  <2>1. reads' = [reads EXCEPT ![i] = [pc |-> "none"]]
    BY <1>2, <1>4 DEF Scan!ReadFirst, Scan!Answer, Scan!Nothing
  <2>2. Checked(batch[i], [pc |-> "none"]) /\ AsRead(batch[i], at[i], [pc |-> "none"])
    BY <1>2, <1>4 DEF Checked, AsRead, Owed
  <2> QED
    BY <1>1, <2>1, <2>2, CheckStep
<1> QED
  BY <1>3, <1>4

LEMMA ReadStep ==
  ASSUME ScanIInv, NEW i \in DOMAIN batch, Scan!Read(i)
  PROVE  ScanIInv'
<1>1. reads[i].pc = "reads" /\ UNCHANGED <<batch, at, sweep, found, sent, stirred>>
  BY DEF Scan!Read
<1>2. PICK had : had = reads[i].got
  OBVIOUS
<1>3. reads[i] = [pc |-> "reads", got |-> had] /\ batch[i] # "unknown"
  BY <1>1, <1>2 DEF ScanIInv, Checked
<1>4. PICK x \in Scan!Reads(batch[i]) \ DOMAIN reads[i].got :
        LET got == [y \in DOMAIN reads[i].got \union {x} |->
                      IF y = x THEN Scan!Answer(batch[i], x, at[i]) ELSE reads[i].got[y]]
        IN reads' = [reads EXCEPT ![i] = IF DOMAIN got = Scan!Reads(batch[i])
                                         THEN Scan!Check(batch[i], got)
                                         ELSE [@ EXCEPT !.got = got]]
  BY Zenon DEF Scan!Read
<1>5. PICK got : got = [y \in DOMAIN reads[i].got \union {x} |->
                          IF y = x THEN Scan!Answer(batch[i], x, at[i]) ELSE reads[i].got[y]]
  OBVIOUS
<1>6. reads' = [reads EXCEPT ![i] = IF DOMAIN got = Scan!Reads(batch[i])
                                    THEN Scan!Check(batch[i], got)
                                    ELSE [reads[i] EXCEPT !.got = got]]
  BY <1>4, <1>5, Zenon
<1>7. batch[i] \in Markets \ {"unknown"} /\ at[i] \in Positions(batch[i])
  BY <1>3 DEF ScanIInv, ScanTyped
<1>8. i \notin stirred =>
        /\ batch[i] # "morpho" => at[i].bad
        /\ \A y \in DOMAIN got :
             y \in Scan!Reads(batch[i]) /\ got[y] = Scan!Answer(batch[i], y, at[i])
  BY <1>1, <1>2, <1>5 DEF ScanIInv, AsRead
<1>9. CASE DOMAIN got = Scan!Reads(batch[i])
  <2>1. PICK r : r = Scan!Check(batch[i], got)
    OBVIOUS
  <2>2. reads' = [reads EXCEPT ![i] = r]
    BY <1>6, <1>9, <2>1
  <2>3. Checked(batch[i], r) /\ r.pc \in {"none", "found"}
    BY <1>7, <2>1, CheckEnds
  <2>4. ASSUME i \notin stirred PROVE AsRead(batch[i], at[i], r)
    <3>1. r = IF Owed(batch[i], at[i]) THEN Scan!Opportunity(CallFor(batch[i], at[i]))
              ELSE Scan!Nothing
      BY <1>7, <1>8, <1>9, <2>1, <2>4, CheckTells
    <3> QED
      BY <3>1 DEF AsRead, Scan!Opportunity, Scan!Nothing
  <2> QED
    BY <1>1, <2>2, <2>3, <2>4, CheckStep
<1>10. CASE DOMAIN got # Scan!Reads(batch[i])
  <2>1. PICK r : r = [pc |-> "reads", got |-> got]
    OBVIOUS
  <2>2. reads' = [reads EXCEPT ![i] = r]
    <3>1. [reads[i] EXCEPT !.got = got] = r
      BY <1>3, <2>1
    <3> QED
      BY <1>6, <1>10, <3>1
  <2>3. Checked(batch[i], r)
    BY <1>3, <2>1 DEF Checked
  <2>4. i \notin stirred => AsRead(batch[i], at[i], r)
    BY <1>8, <2>1 DEF AsRead
  <2> QED
    BY <1>1, <2>2, <2>3, <2>4, CheckStep
<1> QED
  BY <1>9, <1>10

LEMMA SafeCheckStep ==
  ASSUME ScanIInv, NEW i \in DOMAIN batch, Scan!SafeCheck(i)
  PROVE  ScanIInv'
<1>1. Checked(batch[i], [pc |-> "failed"]) /\ AsRead(batch[i], at[i], [pc |-> "failed"])
  BY DEF Checked, AsRead
<1> QED
  BY <1>1, CheckStep DEF Scan!SafeCheck

LEMMA FindStep ==
  ASSUME ScanIInv, Scan!FindLiquidatablePositions
  PROVE  ScanIInv'
<1>1. /\ Scan!ToSet(found') = {i \in DOMAIN batch : reads[i].pc = "found"}
      /\ \A j, k \in DOMAIN found' : j < k => found'[j] < found'[k]
  BY DEF Scan!FindLiquidatablePositions, Scan!InOrder
<1>2. \A i \in DOMAIN batch : sent[i] = "no"
  BY DEF ScanIInv, ScanTyped, Reported, Scan!FindLiquidatablePositions
<1>3. Reported'
  BY <1>1, <1>2 DEF Reported, Scan!FindLiquidatablePositions, Scan!ToSet
<1>4. ScanTyped'
  BY DEF ScanIInv, ScanTyped, Scan!FindLiquidatablePositions
<1> QED
  BY <1>3, <1>4 DEF ScanIInv, Scan!FindLiquidatablePositions

LEMMA SendStep ==
  ASSUME ScanIInv, NEW i \in DOMAIN batch, Scan!Send(i)
  PROVE  ScanIInv'
<1>1. /\ sweep = "send" /\ i \in Scan!ToSet(found)
      /\ UNCHANGED <<batch, at, reads, sweep, found, stirred>>
  BY DEF Scan!Send
<1>2. reads[i].pc = "found"
  BY <1>1 DEF ScanIInv, Reported
<1>3. PICK v \in {"landed", "reverted"} :
        /\ sent' = [sent EXCEPT ![i] = v]
        /\ v = "reverted" => ~Scan!Accepts(batch[i], at[i], reads[i].call)
  BY DEF Scan!Send
<1>4. \A j \in DOMAIN batch : sent'[j] = IF j = i THEN v ELSE sent[j]
  BY <1>3 DEF ScanIInv, ScanTyped
<1>5. ScanTyped'
  BY <1>1, <1>3 DEF ScanIInv, ScanTyped
<1>6. Reported'
  BY <1>1, <1>2, <1>4 DEF ScanIInv, Reported, Scan!ToSet
<1>7. i \notin stirred /\ v = "reverted" => Turned(batch[i], at[i], reads[i])
  <2>1. batch[i] \in Markets \ {"unknown"} /\ at[i] \in Positions(batch[i])
    BY <1>2 DEF ScanIInv, ScanTyped, Checked
  <2>2. i \notin stirred =>
          Owed(batch[i], at[i]) /\ reads[i].call = CallFor(batch[i], at[i])
    BY <1>2 DEF ScanIInv, AsRead
  <2> QED
    BY <1>3, <2>1, <2>2, FoundIsAccepted
<1>8. \A j \in DOMAIN batch \ stirred :
        sent'[j] = "reverted" => Turned(batch[j], at[j], reads[j])
  BY <1>4, <1>7 DEF ScanIInv
<1> QED
  BY <1>1, <1>5, <1>6, <1>8 DEF ScanIInv

LEMMA MoveStep ==
  ASSUME ScanIInv, NEW i \in DOMAIN batch, Scan!Move(i)
  PROVE  ScanIInv'
<1>1. stirred' = stirred \union {i} /\ UNCHANGED <<batch, reads, sweep, found, sent>>
  BY DEF Scan!Move
<1>2. PICK p \in Scan!Accounts(batch[i]) : at' = [at EXCEPT ![i] = p]
  BY DEF Scan!Move
<1>3. p \in Positions(batch[i])
  BY AccountsTyped DEF ScanIInv, ScanTyped
<1>4. \A j \in DOMAIN batch : at'[j] = IF j = i THEN p ELSE at[j]
  BY <1>2 DEF ScanIInv, ScanTyped
<1>5. ScanTyped'
  BY <1>1, <1>2, <1>3, <1>4 DEF ScanIInv, ScanTyped
<1>6. Reported'
  BY <1>1 DEF ScanIInv, Reported, Scan!ToSet
<1> QED
  BY <1>1, <1>4, <1>5, <1>6 DEF ScanIInv

LEMMA InterestStep ==
  ASSUME ScanIInv, NEW i \in DOMAIN batch, Scan!Interest(i)
  PROVE  ScanIInv'
<1>1. batch[i] = "morpho" /\ UNCHANGED <<batch, reads, sweep, found, sent, stirred>>
  BY DEF Scan!Interest
<1>2. PICK p : p = at[i]
  OBVIOUS
<1>3. PICK q : q = [p EXCEPT !.owed = p.owed + 1]
  OBVIOUS
<1>4. at' = [at EXCEPT ![i] = q]
  BY <1>2, <1>3 DEF Scan!Interest
<1>5. /\ p \in Positions("morpho") /\ q \in Positions("morpho")
      /\ \A r : AsRead("morpho", p, r) => AsRead("morpho", q, r)
      /\ \A r : Turned("morpho", p, r) => Turned("morpho", q, r)
  <2>1. p \in Positions("morpho")
    BY <1>1, <1>2 DEF ScanIInv, ScanTyped
  <2> QED
    BY <1>3, <2>1, InterestKeeps
<1>6. \A j \in DOMAIN batch : at'[j] = IF j = i THEN q ELSE at[j]
  BY <1>4 DEF ScanIInv, ScanTyped
<1>7. ScanTyped'
  BY <1>1, <1>4, <1>5, <1>6 DEF ScanIInv, ScanTyped
<1>8. Reported'
  BY <1>1 DEF ScanIInv, Reported, Scan!ToSet
<1>9. \A j \in DOMAIN batch \ stirred :
        /\ AsRead(batch[j], at'[j], reads[j])
        /\ sent[j] = "reverted" => Turned(batch[j], at'[j], reads[j])
  BY <1>1, <1>2, <1>5, <1>6 DEF ScanIInv
<1> QED
  BY <1>1, <1>7, <1>8, <1>9 DEF ScanIInv

LEMMA ScanStep == ScanIInv /\ [Scan!Next]_(Scan!vars) => ScanIInv'
<1> SUFFICES ASSUME ScanIInv, [Scan!Next]_(Scan!vars) PROVE ScanIInv'
  OBVIOUS
<1>1. CASE UNCHANGED Scan!vars
  <2>1. UNCHANGED <<batch, at, reads, sweep, found, sent, stirred>>
    BY <1>1 DEF Scan!vars
  <2>2. ScanTyped'
    BY <2>1 DEF ScanIInv, ScanTyped
  <2>3. Reported'
    BY <2>1 DEF ScanIInv, Reported, Scan!ToSet
  <2> QED
    BY <2>1, <2>2, <2>3 DEF ScanIInv
<1>2. CASE Scan!FindLiquidatablePositions
  BY <1>2, FindStep
<1>3. ASSUME NEW i \in DOMAIN batch,
             \/ Scan!ReadFirst(i) \/ Scan!Read(i) \/ Scan!SafeCheck(i)
             \/ Scan!Send(i) \/ Scan!Move(i) \/ Scan!Interest(i)
      PROVE  ScanIInv'
  BY <1>3, ReadFirstStep, ReadStep, SafeCheckStep, SendStep, MoveStep, InterestStep
<1> QED
  BY <1>1, <1>2, <1>3 DEF Scan!Next

LEMMA ScanGivesLanded == ScanIInv => LiquidationsLand
<1> SUFFICES ASSUME ScanIInv PROVE LiquidationsLand
  OBVIOUS
<1>1. \A j, k \in DOMAIN found : j < k => found[j] < found[k]
  BY DEF ScanIInv, Reported
<1>2. ASSUME sweep = "send", NEW i \in DOMAIN batch \ stirred, reads[i].pc # "failed"
      PROVE  i \in Scan!ToSet(found) <=> Scan!OwedAtLastAccrual(i)
  <2>1. reads[i].pc \in {"none", "found"} /\ (i \in Scan!ToSet(found) <=> reads[i].pc = "found")
    BY <1>2 DEF ScanIInv, Reported
  <2>2. /\ batch[i] \in Markets \ {"unknown"} /\ at[i] \in Positions(batch[i])
        /\ reads[i].pc = "found" <=> Owed(batch[i], at[i])
    BY <1>2, <2>1 DEF ScanIInv, ScanTyped, Checked, AsRead
  <2>3. Owed(batch[i], at[i]) <=> Scan!OwedAtLastAccrual(i)
    <3>1. CASE batch[i] = "morpho"
      <4>1. PICK p \in MorphoPositions : p = at[i]
        BY <2>2, <3>1 DEF Positions
      <4>2. PICK q : q = [p EXCEPT !.owed = p.assets]
        OBVIOUS
      <4>3. /\ q.owed = p.assets /\ q.shares = p.shares /\ q.collateral = p.collateral
            /\ q.price = p.price /\ q.total = p.total
        BY <4>2 DEF MorphoPositions
      <4>4. Owed("morpho", p) <=> Scan!AtMorpho(q)
        BY <4>3 DEF Owed, PositionOf, Debt, Scan!AtMorpho
      <4> QED
        BY <3>1, <4>1, <4>2, <4>4 DEF Scan!OwedAtLastAccrual
    <3>2. CASE batch[i] # "morpho"
      BY <2>2, <3>2 DEF Markets, Owed, Scan!OwedAtLastAccrual
    <3> QED
      BY <3>1, <3>2
  <2> QED
    BY <2>1, <2>2, <2>3
<1>3. ASSUME NEW i \in DOMAIN batch \ stirred, sent[i] = "reverted"
      PROVE  batch[i] = "morpho" /\ (Scan!TippedByInterest(i) \/ Scan!WithinOneUnit(i))
  BY <1>3 DEF ScanIInv, Turned, Tipped, Within, Debt, Scan!Repaid,
              Scan!TippedByInterest, Scan!WithinOneUnit
<1> QED
  BY <1>1, <1>2, <1>3 DEF LiquidationsLand, Scan!LiquidationsLand

\* Of the positions that stand still, exactly those that may be liquidated are
\* found, whatever the other checks read or fail to, and in the batch's order;
\* and the calls that were built for them are accepted, but for Morpho positions
\* that interest or a unit turns (find_liquidatable_positions and the checkers).
THEOREM FoundAndLanded == Scan!Spec => []LiquidationsLand
<1>1. Scan!Init => ScanIInv
  BY ScanInit
<1>2. ScanIInv /\ [Scan!Next]_(Scan!vars) => ScanIInv'
  BY ScanStep
<1>3. ScanIInv => LiquidationsLand
  BY ScanGivesLanded
<1> QED
  BY <1>1, <1>2, <1>3, PTL DEF Scan!Spec

\* Both scans find what one look at everything would have found, while the
\* chain grows and positions, interest and prices move.
THEOREM ScansFind == Scan!Spec /\ Lucid!Spec => []ScansFindAll
<1>1. LiquidationsLand /\ Lucid!AdapterIsLatest => ScansFindAll
  BY DEF ScansFindAll
<1> QED
  BY <1>1, FoundAndLanded, LatestAdapter, PTL

-----------------------------------------------------------------------------
(* BridgeJourney.  Until something moves, the quote, the transactions and   *)
(* the transfer of an order are those of its costs and rates.              *)

Fleet == Bridge!Clients
By == IF order.kind = "swap" THEN "cctp" ELSE chosen.by
Usdc == Bridge!Swapped(order.amount, "src")

\* The amount that a client promises.
Promised(b, o, c) ==
  CASE b = "across" -> Bridge!Monus(o.amount, Bridge!AcrossFee(o, c))
    [] b = "stargate" -> o.amount - Bridge!StargateFee(o)
    [] b = "cctp" -> Bridge!Monus(o.amount, Bridge!CctpFee(o, c))
    [] b \in {"relay", "gaszip", "mayan"} -> Bridge!SolverOut(o, c)
    [] OTHER -> o.amount

\* A quote that somebody in the fleet gave.
Given(q) ==
  q.by \in Fleet /\ q.out \in Nat /\ (~moved => q.out = Promised(q.by, order, cost[q.by]))

\* The estimate behind the minimum of a program.
Estimate == IF order.kind = "swap" THEN Bridge!Monus(Usdc, Bridge!CctpFee(order, cost["cctp"]))
            ELSE chosen.out
ProgramFits(p) ==
  /\ p \in [swap : {order.destSwap}, min : Nat]
  /\ ~moved => p = Bridge!DestProgram(order, Estimate)

\* A transfer as the client builds it for the fee that was asked for.
BuiltFor(t) ==
  CASE order.kind = "plain" -> t \in Bridge!BuildBridgeTx(chosen.by, order, feeBase)
    [] order.kind = "compose" ->
         \E p : ProgramFits(p) /\ t \in Bridge!ComposeSend(chosen.by, order, feeBase, p)
    [] order.kind = "swap" ->
         /\ t.amount \in Nat /\ ProgramFits(t.program)
         /\ t = Bridge!Transfer("cctp", t.amount, 0, 0, order.maxFee, t.program)

\* CCIP's fee is not paid in the token that a route with a program sends.
FeeApart == \A o \in Orders : o.kind = "compose" => o.feeToken # o.in.addr

ApproveIn == Bridge!ApproveLeg(order.in.addr, order.amount)
ApproveFee == Bridge!ApproveLeg(order.feeToken, feeBase)
InApproved == chosen.by \in {"cctp", "ccip"} => allow[order.in.addr] >= order.amount
FeeApproved == Bridge!ErcFee(order) => allow[order.feeToken] >= feeBase

\* The transactions that are left to send, and the allowances given so far.
LegsFit ==
  \E t : BuiltFor(t) /\
    CASE order.kind = "plain" -> legs = <<t>> /\ \A a \in DOMAIN Price : allow[a] = Allowance
      [] order.kind = "compose" ->
           \/ (FeeApart => InApproved) /\ FeeApproved /\ legs = <<t>>
           \/ chosen.by \in {"cctp", "ccip"} /\ ~Bridge!ErcFee(order) /\ legs = <<ApproveIn, t>>
           \/ Bridge!ErcFee(order) /\ legs = <<ApproveIn, ApproveFee, t>>
           \/ Bridge!ErcFee(order) /\ InApproved /\ legs = <<ApproveFee, t>>
      [] order.kind = "swap" ->
           \E m : legs = <<[fn |-> "execute", burn |-> t, minUsdc |-> m]>>
                  /\ (~moved => m = Bridge!Slip(Usdc, order.slippage))

JourneyTyped ==
  /\ order \in Orders /\ cost \in [Fleet -> Costs] /\ rate \in [{"src", "dst"} -> Rates]
  /\ moved \in BOOLEAN /\ vm = 0 /\ arrived \in Nat /\ allow \in [DOMAIN Price -> Nat]
  /\ answers = [b \in Fleet |-> answers[b]]

Ended == {"unbuildable", "raised", "refused", "refunded", "settled", "supplied"}

PhaseFits ==
  /\ phase \in {"asking", "ranked", "routing", "approvals", "built", "sending", "inflight", "hook"}
               \union Ended
  /\ phase \in {"asking", "ranked", "raised", "built", "unbuildable"} => order.kind # "swap"
  /\ phase = "routing" => order.kind = "swap"
  /\ phase = "approvals" => order.kind = "compose"
  /\ phase = "hook" => order.kind # "plain"

QuotesFit ==
  /\ \A b \in Fleet : answers[b].is = "quote" => Given(answers[b].quote)
  /\ \A k \in DOMAIN ranked : Given(ranked[k].quote)
  /\ order.kind # "swap" /\ phase \notin {"asking", "ranked", "raised"} =>
       Given(chosen) /\ (order.kind = "compose" => chosen.by \in Bridge!Composers)

Asked == phase \in {"sending", "inflight", "hook"} \/ (phase = "built" /\ order.kind = "compose")
BaseFits == Asked => feeBase \in Costs /\ (~moved => feeBase = cost[By])

RouteFits ==
  /\ phase \in {"asking", "ranked"} \/ (phase = "built" /\ order.kind = "plain") => legs = << >>
  /\ phase = "built" /\ order.kind = "plain" => \A a \in DOMAIN Price : allow[a] = Allowance
  /\ phase = "built" /\ order.kind = "compose" =>
       legs = Bridge!Approvals(chosen.by, order, feeBase)
  /\ phase = "sending" => LegsFit

FlightFits ==
  /\ phase \in {"inflight", "hook"} =>
       BuiltFor(flight) /\ (order.kind = "swap" /\ ~moved => flight.amount = Usdc)
  /\ phase = "hook" /\ ~moved => arrived \in Bridge!Arrives(flight)

EndsFit ==
  /\ FeeApart => Bridge!RefusedForReason
  /\ phase = "refunded" => moved
  /\ phase = "settled" =>
       \/ arrived >= Bridge!Slip(chosen.out, order.slippage)
       \/ moved /\ (flight.by # "gaszip" => arrived >= Bridge!Monus(flight.min, ForwardFee))
  /\ phase = "supplied" =>
       supplied >= flight.program.min /\ (moved \/ supplied = Bridge!AtDest(order, arrived))

JourneyIInv ==
  /\ JourneyTyped /\ PhaseFits /\ QuotesFit /\ BaseFits /\ RouteFits /\ FlightFits /\ EndsFit

-----------------------------------------------------------------------------
LEMMA SlipFact ==
  ASSUME NEW x \in Nat, NEW s \in 0 .. MAX_BPS
  PROVE  Bridge!Slip(x, s) \in Nat /\ Bridge!Slip(x, s) <= x
<1>1. PICK w \in Nat \ {0} : w = MAX_BPS
  BY BridgeAssumption
<1>2. PICK r \in Nat : r = w - s /\ r <= w
  BY <1>1
<1>3. x * r \in Nat /\ x * r <= x * w
  BY <1>1, <1>2, TimesKeeps
<1>4. (x * r) \div w \in Nat /\ (x * r) \div w <= (x * w) \div w
  BY <1>1, <1>3, DivKeeps
<1>5. (x * w) \div w = x
  BY <1>1
<1> QED
  BY <1>1, <1>2, <1>4, <1>5 DEF Bridge!Slip

LEMMA MonusFact ==
  ASSUME NEW a \in Nat, NEW b \in Nat
  PROVE  Bridge!Monus(a, b) \in Nat /\ Bridge!Monus(a, b) <= a
BY DEF Bridge!Monus

\* A swap gives no less for more.
LEMMA SwapKeeps ==
  ASSUME JourneyTyped, NEW a \in Nat, NEW b \in Nat, a <= b, NEW w \in {"src", "dst"}
  PROVE  /\ Bridge!Swapped(a, w) \in Nat /\ Bridge!Swapped(b, w) \in Nat
         /\ Bridge!Swapped(a, w) <= Bridge!Swapped(b, w)
<1>1. PICK r \in Nat : r = rate[w]
  BY BridgeAssumption DEF JourneyTyped
<1>2. a * r \in Nat /\ b * r \in Nat /\ a * r <= b * r
  BY TimesKeeps
<1> QED
  BY <1>1, <1>2, DivKeeps DEF Bridge!Swapped

LEMMA DestKeeps ==
  ASSUME JourneyTyped, NEW a \in Nat, NEW b \in Nat, a <= b
  PROVE  /\ Bridge!AtDest(order, a) \in Nat /\ Bridge!AtDest(order, b) \in Nat
         /\ Bridge!AtDest(order, a) <= Bridge!AtDest(order, b)
BY SwapKeeps DEF Bridge!AtDest

\* An order and the fees of its clients.
LEMMA OrderFact ==
  ASSUME JourneyTyped
  PROVE  /\ order.amount \in Nat /\ order.maxFee \in Nat /\ order.slippage \in 0 .. MAX_BPS
         /\ order.buffer \in Nat /\ order.in.addr \in DOMAIN Price /\ order.feeToken \in DOMAIN Price
         /\ order.kind \in {"plain", "compose", "swap"}
         /\ Fleet \subseteq BridgeNames
         /\ order.kind = "swap" => "cctp" \in Fleet
         /\ \A b \in Fleet : cost[b] \in Costs /\ cost[b] \in Nat
         /\ \A c \in Costs : order.amount + c <= Allowance
         /\ ForwardFee \in Nat /\ Costs \subseteq Nat
         /\ order.in.native \in BOOLEAN /\ order.destSwap \in BOOLEAN
<1>1. order \in Orders
  BY DEF JourneyTyped
<1>2. order.fleet \in Seq(BridgeNames)
  BY <1>1, BridgeAssumption
<1>3. Fleet = {order.fleet[k] : k \in DOMAIN order.fleet}
  BY DEF Fleet, Bridge!Clients, Bridge!ToSet
<1>4. Fleet \subseteq BridgeNames
  BY <1>2, <1>3
<1>5. order.kind = "swap" => "cctp" \in Fleet
  BY <1>1, <1>3, BridgeAssumption
<1>6. \A b \in Fleet : cost[b] \in Costs /\ cost[b] \in Nat
  BY BridgeAssumption DEF JourneyTyped
<1> QED
  BY <1>1, <1>4, <1>5, <1>6, BridgeAssumption

-----------------------------------------------------------------------------
\* Stargate's fee is at most the amount.
LEMMA StargateKept ==
  ASSUME JourneyTyped
  PROVE  order.amount - Bridge!StargateFee(order) \in Nat
<1>1. PICK x \in Nat, f \in Nat, w \in Nat \ {0} :
        x = order.amount /\ f = ProtocolFeeBps /\ w = MAX_BPS /\ f <= w
  BY OrderFact, BridgeAssumption
<1>2. x * f \in Nat /\ x * w \in Nat /\ x * f <= x * w
  BY <1>1, TimesKeeps
<1>3. (x * f) \div w \in Nat /\ (x * f) \div w <= (x * w) \div w /\ (x * w) \div w = x
  BY <1>1, <1>2, DivKeeps
<1>4. PICK n \in Nat : n = (x * f) \div w /\ n <= x
  BY <1>3
<1>5. Bridge!StargateFee(order) = n
  BY <1>1, <1>4 DEF Bridge!StargateFee
<1> QED
  BY <1>1, <1>4, <1>5

\* What is promised is not negative.
LEMMA PromisedNat ==
  ASSUME JourneyTyped, NEW b, NEW c \in Nat
  PROVE  Promised(b, order, c) \in Nat
<1>1. order.amount \in Nat /\ ForwardFee \in Nat
  BY OrderFact
<1>2. CASE b = "across"
  <2>1. Bridge!AcrossFee(order, c) \in Nat
    <3>1. PICK a \in Nat, w \in Nat \ {0} : a = order.amount /\ w = FeeScale
      BY <1>1, BridgeAssumption
    <3>2. a * c \in Nat
      OBVIOUS
    <3> QED
      BY <3>1, <3>2, DivKeeps DEF Bridge!AcrossFee
  <2> QED
    BY <1>1, <1>2, <2>1, MonusFact DEF Promised
<1>3. CASE b = "stargate"
  BY <1>1, <1>3, StargateKept DEF Promised
<1>4. CASE b = "cctp"
  <2>1. Bridge!CctpFee(order, c) \in Nat
    BY <1>1 DEF Bridge!CctpFee
  <2> QED
    BY <1>1, <1>4, <2>1, MonusFact DEF Promised
<1>5. CASE b \in {"relay", "gaszip", "mayan"}
  <2>1. Bridge!SolverOut(order, c) \in Nat
    <3>1. PICK n \in Nat : n = Bridge!Monus(order.amount, c)
      BY <1>1, MonusFact
    <3> QED
      BY <3>1 DEF Bridge!SolverOut, Bridge!Worth
  <2> QED
    BY <1>5, <2>1 DEF Promised
<1>6. CASE b \notin {"across", "stargate", "cctp", "relay", "gaszip", "mayan"}
  BY <1>1, <1>6 DEF Promised
<1> QED
  BY <1>2, <1>3, <1>4, <1>5, <1>6

\* The quotes of the clients, asked now or down.
LEMMA QuotesPromise ==
  ASSUME JourneyTyped, NEW b \in Fleet, NEW now \in {cost[b], Bridge!Down},
         NEW q \in Bridge!GetQuote(b, order, now)
  PROVE  q.by = b /\ q.out = Promised(b, order, cost[b])
<1>1. b \in BridgeNames /\ cost[b] \in Nat
  BY OrderFact
<1>2. now # Bridge!Down => now = cost[b]
  OBVIOUS
<1> USE DEF Bridge!GetQuote, Bridge!Quoted, Bridge!Answer, Promised
<1>3. CASE b = "across"
  BY <1>2, <1>3 DEF Bridge!QuoteAcross
<1>4. CASE b = "stargate"
  BY <1>4 DEF Bridge!QuoteStargate
<1>5. CASE b = "oft"
  BY <1>5 DEF Bridge!QuoteOft
<1>6. CASE b = "cctp"
  BY <1>2, <1>6 DEF Bridge!QuoteCctp
<1>7. CASE b = "relay"
  BY <1>2, <1>7 DEF Bridge!QuoteRelay
<1>8. CASE b = "gaszip"
  BY <1>2, <1>8 DEF Bridge!QuoteGasZip
<1>9. CASE b = "mayan"
  BY <1>2, <1>9 DEF Bridge!QuoteMayan
<1>10. CASE b = "lucid"
  BY <1>10 DEF Bridge!QuoteLucid
<1>11. CASE b = "ccip"
  BY <1>11 DEF Bridge!QuoteCcip
<1>12. CASE b = "eureka"
  BY <1>12 DEF Bridge!QuoteEureka
<1> QED
  BY <1>1, <1>3, <1>4, <1>5, <1>6, <1>7, <1>8, <1>9, <1>10, <1>11, <1>12 DEF BridgeNames

-----------------------------------------------------------------------------
\* A client that builds without an answer builds the same with one.
LEMMA BuiltNow ==
  ASSUME JourneyTyped, NEW b \in Fleet, NEW now \in {cost[b], Bridge!Down},
         NEW t \in Bridge!BuildBridgeTx(b, order, now)
  PROVE  t \in Bridge!BuildBridgeTx(b, order, cost[b])
<1>1. CASE now = cost[b]
  BY <1>1
<1>2. CASE now = Bridge!Down
  <2>1. b \in BridgeNames
    BY OrderFact
  <2>2. b \in {"cctp", "gaszip", "eureka"}
    BY <1>2, <2>1 DEF BridgeNames, Bridge!BuildBridgeTx, Bridge!Answer, Bridge!BuildAcross,
       Bridge!BuildStargate, Bridge!BuildOft, Bridge!OftTransfer, Bridge!BuildRelay,
       Bridge!BuildMayan, Bridge!BuildLucid, Bridge!CcipTransfer
  <2> QED
    BY <2>2 DEF Bridge!BuildBridgeTx
<1> QED
  BY <1>1, <1>2

Least(b, o, c) ==
  CASE b \in {"across", "stargate", "oft", "mayan"} -> Bridge!Slip(Promised(b, o, c), o.slippage)
    [] b = "cctp" -> Bridge!Monus(o.amount, o.maxFee)
    [] b = "gaszip" -> 0
    [] OTHER -> Promised(b, o, c)

Valued(b, o, c) ==
  CASE b \in {"stargate", "oft"} -> c [] b = "lucid" -> Bridge!Buffered(o, c)
    [] b = "ccip" -> Bridge!FeeValue(o, c) [] b = "eureka" \/ b = "cctp" -> 0
    [] OTHER -> Bridge!NativeValue(o)

MaxFeeOf(b, o) == IF b = "cctp" THEN o.maxFee ELSE 0

LEMMA TransferBuilt ==
  ASSUME JourneyTyped, NEW b \in Fleet, NEW k \in Costs,
         NEW t \in Bridge!BuildBridgeTx(b, order, k)
  PROVE  t = Bridge!Transfer(b, order.amount, Least(b, order, k), Valued(b, order, k),
                             MaxFeeOf(b, order), Bridge!NoProgram)
<1>1. b \in BridgeNames
  BY OrderFact
<1> USE DEF Bridge!BuildBridgeTx, Bridge!Answer, Least, Valued, MaxFeeOf, Promised
<1>2. CASE b = "across"
  BY <1>2 DEF Bridge!BuildAcross, Bridge!AcrossOutput
<1>3. CASE b = "stargate"
  BY <1>3 DEF Bridge!BuildStargate
<1>4. CASE b = "oft"
  BY <1>4 DEF Bridge!BuildOft, Bridge!OftTransfer
<1>5. CASE b = "cctp"
  BY <1>5 DEF Bridge!CctpTransfer
<1>6. CASE b = "relay"
  BY <1>6 DEF Bridge!BuildRelay
<1>7. CASE b = "gaszip"
  BY <1>7 DEF Bridge!BuildGasZip
<1>8. CASE b = "mayan"
  BY <1>8 DEF Bridge!BuildMayan
<1>9. CASE b = "lucid"
  BY <1>9 DEF Bridge!BuildLucid
<1>10. CASE b = "ccip"
  BY <1>10 DEF Bridge!CcipTransfer
<1>11. CASE b = "eureka"
  BY <1>11 DEF Bridge!BuildEureka
<1> QED
  BY <1>1, <1>2, <1>3, <1>4, <1>5, <1>6, <1>7, <1>8, <1>9, <1>10, <1>11 DEF BridgeNames

LEMMA TransferFields ==
  ASSUME NEW b, NEW a, NEW m, NEW v, NEW f, NEW p, NEW t, t = Bridge!Transfer(b, a, m, v, f, p)
  PROVE  /\ t.fn = "send" /\ t.by = b /\ t.amount = a /\ t.min = m /\ t.value = v
         /\ t.maxFee = f /\ t.program = p
BY DEF Bridge!Transfer

\* What CCTP hands over is what it promised, or more where the fee is higher
\* than the transfer allows, which then goes slowly.
LEMMA CctpArrives ==
  ASSUME JourneyTyped, NEW t, t.by = "cctp", t.amount \in Nat, t.maxFee = order.maxFee,
         NEW c \in Nat, c = cost["cctp"]
  PROVE  \E g \in Nat :
           /\ Bridge!Arrives(t) = {g}
           /\ g >= Bridge!Monus(t.amount, Bridge!CctpFee(order, c))
           /\ g >= Bridge!Monus(Bridge!Monus(t.amount, order.maxFee), ForwardFee)
<1> DEFINE fwd == IF order.dst = HyperCore THEN ForwardFee ELSE 0
           g == Bridge!Monus(t.amount, (IF t.maxFee >= c THEN c ELSE 0) + fwd)
<1>1. fwd \in Nat /\ fwd <= ForwardFee /\ ForwardFee \in Nat /\ order.maxFee \in Nat
  BY OrderFact
<1>2. Bridge!Arrives(t) = {g}
  BY DEF Bridge!Arrives
<1>3. Bridge!CctpFee(order, c) = c + fwd
  BY DEF Bridge!CctpFee
<1> HIDE DEF fwd
<1>4. PICK a \in Nat, x \in Nat : a = t.amount /\ x = order.maxFee
  BY <1>1
<1>5. g = Bridge!Monus(a, (IF x >= c THEN c ELSE 0) + fwd)
  BY <1>4
<1> HIDE DEF g
<1>6. /\ g \in Nat /\ g >= Bridge!Monus(a, c + fwd)
      /\ g >= Bridge!Monus(Bridge!Monus(a, x), ForwardFee)
  BY <1>1, <1>5 DEF Bridge!Monus
<1> QED
  BY <1>2, <1>3, <1>4, <1>6

\* What arrives of a plain transfer.
LEMMA PlainArrives ==
  ASSUME JourneyTyped, NEW b \in Fleet, NEW k \in Costs,
         NEW t \in Bridge!BuildBridgeTx(b, order, k)
  PROVE  /\ \A g \in Bridge!Arrives(t) :
              /\ g \in Nat
              /\ b # "gaszip" => g >= Bridge!Monus(t.min, ForwardFee)
              /\ k = cost[b] => g >= Bridge!Slip(Promised(b, order, k), order.slippage)
         /\ k = cost[b] => Bridge!Arrives(t) # {}
<1> DEFINE P == Promised(b, order, k)
<1>1. /\ t = Bridge!Transfer(b, order.amount, Least(b, order, k), Valued(b, order, k),
                             MaxFeeOf(b, order), Bridge!NoProgram)
      /\ t.by = b /\ t.amount = order.amount /\ t.min = Least(b, order, k)
      /\ t.maxFee = MaxFeeOf(b, order)
  BY TransferBuilt, TransferFields
<1>2. /\ b \in BridgeNames /\ k \in Nat /\ cost[b] \in Nat /\ order.amount \in Nat
      /\ order.slippage \in 0 .. MAX_BPS /\ ForwardFee \in Nat /\ order.maxFee \in Nat
  BY OrderFact
<1>3. P \in Nat /\ Bridge!Slip(P, order.slippage) \in Nat /\ Bridge!Slip(P, order.slippage) <= P
  BY <1>2, PromisedNat, SlipFact
<1>4. Promised(b, order, cost[b]) \in Nat
  BY <1>2, PromisedNat
<1>5. \A m \in Nat : Bridge!Monus(m, ForwardFee) \in Nat /\ Bridge!Monus(m, ForwardFee) <= m
  BY <1>2, MonusFact
<1>6. CASE b = "across"
  <2>1. t.min = Bridge!Slip(P, order.slippage)
    BY <1>1, <1>6 DEF Least
  <2>2. Bridge!Arrives(t) =
          IF t.min <= Promised(b, order, cost[b]) THEN {t.min} ELSE {}
    BY <1>1, <1>6 DEF Bridge!Arrives, Promised
  <2> HIDE DEF P
  <2> QED
    BY <1>3, <1>5, <1>6, <2>1, <2>2 DEF P
<1>7. CASE b = "stargate"
  <2>1. t.min = Bridge!Slip(P, order.slippage)
    BY <1>1, <1>7 DEF Least
  <2>2. Bridge!Arrives(t) = {P}
    BY <1>1, <1>7 DEF Bridge!Arrives, Promised
  <2> HIDE DEF P
  <2> QED
    BY <1>3, <1>5, <2>1, <2>2 DEF P
<1>8. CASE b = "oft"
  <2>1. t.min = Bridge!Slip(P, order.slippage)
    BY <1>1, <1>8 DEF Least
  <2>2. Bridge!Arrives(t) = {P}
    BY <1>1, <1>8 DEF Bridge!Arrives, Promised
  <2> HIDE DEF P
  <2> QED
    BY <1>3, <1>5, <2>1, <2>2 DEF P
<1>9. CASE b = "cctp"
  <2>1. t.min = Bridge!Monus(order.amount, order.maxFee) /\ t.maxFee = order.maxFee
    BY <1>1, <1>9 DEF Least, MaxFeeOf
  <2>2. PICK g \in Nat :
          /\ Bridge!Arrives(t) = {g}
          /\ g >= Bridge!Monus(t.amount, Bridge!CctpFee(order, cost["cctp"]))
          /\ g >= Bridge!Monus(Bridge!Monus(t.amount, order.maxFee), ForwardFee)
    BY <1>1, <1>2, <1>9, <2>1, CctpArrives
  <2>3. P = Bridge!Monus(order.amount, Bridge!CctpFee(order, k))
    BY <1>9 DEF Promised
  <2> HIDE DEF P
  <2> QED
    BY <1>1, <1>3, <1>9, <2>1, <2>2, <2>3 DEF P
<1>10. CASE b = "relay"
  <2>1. t.min = P
    BY <1>1, <1>10 DEF Least
  <2>2. Bridge!Arrives(t) = {P}
    BY <1>1, <1>10, <2>1 DEF Bridge!Arrives
  <2> HIDE DEF P
  <2> QED
    BY <1>3, <1>5, <2>1, <2>2 DEF P
<1>11. CASE b = "gaszip"
  <2>1. Bridge!Arrives(t) = {Promised(b, order, cost[b])}
    BY <1>1, <1>11 DEF Bridge!Arrives, Promised, Bridge!SolverOut
  <2> QED
    BY <1>3, <1>4, <1>11, <2>1
<1>12. CASE b = "mayan"
  <2>1. t.min = Bridge!Slip(P, order.slippage)
    BY <1>1, <1>12 DEF Least
  <2>2. Bridge!Arrives(t) = IF t.min <= Promised(b, order, cost[b])
                            THEN {Promised(b, order, cost[b])} ELSE {}
    BY <1>1, <1>12 DEF Bridge!Arrives, Promised, Bridge!SolverOut
  <2> HIDE DEF P
  <2>3. PICK m \in Nat, n \in Nat : m = t.min /\ n = Promised(b, order, cost[b])
    BY <1>3, <1>4, <2>1
  <2> QED
    BY <1>3, <1>5, <2>1, <2>2, <2>3 DEF P
<1>13. CASE b \in {"lucid", "ccip", "eureka"}
  <2>1. t.min = P /\ P = order.amount
    BY <1>1, <1>13 DEF Least, Promised
  <2>2. Bridge!Arrives(t) = {P}
    BY <1>1, <1>13, <2>1 DEF Bridge!Arrives
  <2> HIDE DEF P
  <2> QED
    BY <1>3, <1>5, <2>1, <2>2 DEF P
<1> QED
  BY <1>2, <1>6, <1>7, <1>8, <1>9, <1>10, <1>11, <1>12, <1>13 DEF BridgeNames

-----------------------------------------------------------------------------
\* What does not look at the answers, the transactions or the chain.
LEMMA SameWorld ==
  ASSUME UNCHANGED <<order, cost, rate, moved>>
  PROVE  /\ Fleet' = Fleet /\ Usdc' = Usdc
         /\ \A q : Given(q)' <=> Given(q)
         /\ chosen' = chosen => \A p : ProgramFits(p)' <=> ProgramFits(p)
         /\ chosen' = chosen /\ feeBase' = feeBase => \A t : BuiltFor(t)' <=> BuiltFor(t)
<1>1. Fleet' = Fleet
  BY DEF Fleet, Bridge!Clients, Bridge!ToSet
<1>2. Usdc' = Usdc
  BY DEF Usdc, Bridge!Swapped
<1>3. \A q : Given(q)' <=> Given(q)
  BY <1>1 DEF Given
<1>4. ASSUME chosen' = chosen, NEW p PROVE ProgramFits(p)' <=> ProgramFits(p)
  <2>1. Estimate' = Estimate
    BY <1>2, <1>4 DEF Estimate
  <2>2. Bridge!DestProgram(order, Estimate)' = Bridge!DestProgram(order, Estimate)
    BY <2>1 DEF Bridge!DestProgram, Bridge!AtDest, Bridge!Swapped
  <2> QED
    BY <2>2 DEF ProgramFits
<1>5. ASSUME chosen' = chosen, feeBase' = feeBase, NEW t PROVE BuiltFor(t)' <=> BuiltFor(t)
  BY <1>4, <1>5 DEF BuiltFor
<1> QED
  BY <1>1, <1>2, <1>3, <1>4, <1>5

LEMMA JourneyInit == Bridge!Init => JourneyIInv
<1> SUFFICES ASSUME Bridge!Init PROVE JourneyIInv
  OBVIOUS
<1>1. JourneyTyped
  BY BridgeAssumption DEF Bridge!Init, JourneyTyped, Fleet, Bridge!Clients
<1>2. phase = (IF order.kind = "swap" THEN "routing" ELSE "asking") /\ legs = << >>
      /\ ranked = << >>
  BY DEF Bridge!Init
<1>3. \A b \in Fleet : answers[b].is # "quote"
  BY DEF Bridge!Init, Fleet, Bridge!Clients
<1>4. PhaseFits /\ QuotesFit /\ BaseFits
  BY <1>2, <1>3 DEF PhaseFits, QuotesFit, BaseFits, Asked
<1>5. RouteFits /\ FlightFits /\ EndsFit
  BY <1>2 DEF RouteFits, FlightFits, EndsFit, Bridge!RefusedForReason
<1> QED
  BY <1>1, <1>4, <1>5 DEF JourneyIInv

LEMMA AskKeeps ==
  ASSUME JourneyIInv, NEW b \in Fleet, Bridge!Ask(b)
  PROVE  JourneyIInv'
<1>1. /\ phase = "asking" /\ UNCHANGED <<ranked, chosen, phase, legs, feeBase>>
      /\ UNCHANGED <<allow, flight, arrived, vm, supplied>> /\ UNCHANGED <<order, cost, rate, moved>>
  BY DEF Bridge!Ask, Bridge!Chain, Bridge!World
<1>2. JourneyTyped
  BY DEF JourneyIInv
<1>3. PICK now \in {cost[b], Bridge!Down} : \E a :
        /\ answers' = [answers EXCEPT ![b] = a]
        /\ a.is = "quote" => a.quote \in Bridge!GetQuote(b, order, now)
  <2>1. PICK now \in {cost[b], Bridge!Down}, raises \in BOOLEAN :
          LET quotes == Bridge!GetQuote(b, order, now) IN
          answers' = [answers EXCEPT ![b] =
            IF raises THEN [is |-> "raised", quote |-> Bridge!NoQuote]
            ELSE IF quotes = {} THEN [is |-> "dropped", quote |-> Bridge!NoQuote]
            ELSE [is |-> "quote", quote |-> CHOOSE q \in quotes : TRUE]]
    BY DEF Bridge!Ask
  <2>2. PICK quotes : quotes = Bridge!GetQuote(b, order, now)
    OBVIOUS
  <2>3. PICK a : a = IF raises THEN [is |-> "raised", quote |-> Bridge!NoQuote]
                     ELSE IF quotes = {} THEN [is |-> "dropped", quote |-> Bridge!NoQuote]
                     ELSE [is |-> "quote", quote |-> CHOOSE q \in quotes : TRUE]
    OBVIOUS
  <2>4. answers' = [answers EXCEPT ![b] = a]
    BY <2>1, <2>2, <2>3
  <2>5. quotes # {} => (CHOOSE q \in quotes : TRUE) \in quotes
    OBVIOUS
  <2>6. a.is = "quote" => a.quote \in quotes
    BY <2>3, <2>5
  <2> QED
    BY <2>2, <2>4, <2>6
<1>4. PICK a :
        /\ answers' = [answers EXCEPT ![b] = a]
        /\ a.is = "quote" => a.quote \in Bridge!GetQuote(b, order, now)
  BY <1>3
<1>5. a.is = "quote" => Given(a.quote)
  <2>1. a.is = "quote" => a.quote.by = b /\ a.quote.out = Promised(b, order, cost[b])
    BY <1>2, <1>4, QuotesPromise
  <2>2. Promised(b, order, cost[b]) \in Nat
    BY <1>2, OrderFact, PromisedNat
  <2> QED
    BY <2>1, <2>2 DEF Given
<1>6. \A d \in Fleet : answers'[d] = IF d = b THEN a ELSE answers[d]
  BY <1>2, <1>4 DEF JourneyTyped
<1>7. Fleet' = Fleet /\ \A q : Given(q)' <=> Given(q)
  BY <1>1, SameWorld
<1>8. JourneyTyped'
  BY <1>1, <1>2, <1>4, <1>7 DEF JourneyTyped
<1>9. QuotesFit'
  BY <1>1, <1>5, <1>6, <1>7 DEF QuotesFit, JourneyIInv
<1>10. PhaseFits' /\ BaseFits' /\ RouteFits' /\ FlightFits' /\ EndsFit'
  BY <1>1
     DEF JourneyIInv, PhaseFits, BaseFits, Asked, RouteFits, FlightFits, EndsFit, Bridge!RefusedForReason
<1> QED
  BY <1>8, <1>9, <1>10 DEF JourneyIInv

LEMMA RankKeeps ==
  ASSUME JourneyIInv, Bridge!Rank
  PROVE  JourneyIInv'
<1>1. /\ phase = "asking" /\ phase' \in {"raised", "ranked"}
      /\ UNCHANGED <<answers, chosen, legs, feeBase>>
      /\ UNCHANGED <<allow, flight, arrived, vm, supplied>> /\ UNCHANGED <<order, cost, rate, moved>>
  BY DEF Bridge!Rank, Bridge!Chain, Bridge!World
<1>2. JourneyTyped /\ QuotesFit /\ order.kind # "swap" /\ legs = << >>
  BY <1>1 DEF JourneyIInv, PhaseFits, RouteFits
<1>3. Fleet' = Fleet /\ \A q : Given(q)' <=> Given(q)
  BY <1>1, SameWorld
<1>4. \A k \in DOMAIN ranked' : Given(ranked'[k].quote)
  <2>1. CASE ranked' = ranked
    BY <1>2, <2>1 DEF QuotesFit
  <2>2. CASE ranked' # ranked
    <3>1. PICK quotes : quotes = [k \in Bridge!Quoting |-> answers[order.fleet[k]].quote]
      OBVIOUS
    <3>2. ranked' \in Bridge!RankBridgeQuotes(quotes, order)
      BY <2>2, <3>1 DEF Bridge!Rank
    <3>3. PICK r : r = [i \in DOMAIN quotes |-> Bridge!Score(quotes[i], order)]
      OBVIOUS
    <3>4. ranked' \in Bridge!Sorted(r)
      BY <3>2, <3>3 DEF Bridge!RankBridgeQuotes
    <3>5. PICK f \in [1 .. Bridge!Cardinality(DOMAIN r) -> DOMAIN r] :
            ranked' = [k \in DOMAIN f |-> r[f[k]]]
      <4> DEFINE S == {p \in [1 .. Bridge!Cardinality(DOMAIN r) -> DOMAIN r] :
                         \A j, k \in DOMAIN p : j < k => Bridge!Precedes(r, p[j], p[k])}
      <4>1. S \subseteq [1 .. Bridge!Cardinality(DOMAIN r) -> DOMAIN r]
        OBVIOUS
      <4>2. Bridge!Sorted(r) = {[k \in DOMAIN f |-> r[f[k]]] : f \in S}
        BY DEF Bridge!Sorted
      <4> HIDE DEF S
      <4>3. \E f \in S : ranked' = [k \in DOMAIN f |-> r[f[k]]]
        BY <3>4, <4>2
      <4> QED
        BY <4>1, <4>3
    <3>6. ASSUME NEW k \in DOMAIN ranked' PROVE Given(ranked'[k].quote)
      <4>1. f[k] \in DOMAIN quotes /\ ranked'[k] = Bridge!Score(quotes[f[k]], order)
        BY <3>3, <3>5, <3>6
      <4>2. ranked'[k].quote = quotes[f[k]]
        BY <4>1 DEF Bridge!Score
      <4>3. PICK j \in DOMAIN order.fleet :
              answers[order.fleet[j]].is = "quote" /\ quotes[f[k]] = answers[order.fleet[j]].quote
        BY <3>1, <4>1 DEF Bridge!Quoting
      <4>4. order.fleet[j] \in Fleet
        BY DEF Fleet, Bridge!Clients, Bridge!ToSet
      <4> QED
        BY <1>2, <4>2, <4>3, <4>4 DEF QuotesFit
    <3> QED
      BY <3>6
  <2> QED
    BY <2>1, <2>2
<1>5. JourneyTyped'
  BY <1>1, <1>2, <1>3 DEF JourneyTyped
<1>6. QuotesFit'
  BY <1>1, <1>2, <1>3, <1>4 DEF QuotesFit
<1>7. PhaseFits' /\ BaseFits' /\ RouteFits' /\ FlightFits' /\ EndsFit'
  BY <1>1, <1>2
     DEF PhaseFits, Ended, BaseFits, Asked, RouteFits, FlightFits, EndsFit, Bridge!RefusedForReason
<1> QED
  BY <1>5, <1>6, <1>7 DEF JourneyIInv

LEMMA ChooseKeeps ==
  ASSUME JourneyIInv, Bridge!Choose
  PROVE  JourneyIInv'
<1>1. /\ phase = "ranked" /\ UNCHANGED <<answers, ranked, legs, feeBase, flight, arrived, vm, supplied>>
      /\ UNCHANGED <<order, cost, rate, moved>>
      /\ phase' = IF order.kind = "plain" THEN "built" ELSE "approvals"
      /\ allow' = IF order.kind = "plain" THEN [t \in DOMAIN allow |-> Allowance] ELSE allow
  BY DEF Bridge!Choose, Bridge!World
<1>2. /\ JourneyTyped /\ QuotesFit /\ order.kind # "swap" /\ legs = << >>
      /\ order.kind \in {"plain", "compose", "swap"}
  BY <1>1, OrderFact DEF JourneyIInv, PhaseFits, RouteFits
<1>3. Fleet' = Fleet /\ \A q : Given(q)' <=> Given(q)
  BY <1>1, SameWorld
<1>4. Given(chosen') /\ (order.kind = "compose" => chosen'.by \in Bridge!Composers)
  <2>1. PICK k \in DOMAIN ranked :
          /\ order.kind = "compose" => ranked[k].quote.by \in Bridge!Composers
          /\ chosen' = ranked[k].quote
    BY DEF Bridge!Choose, Bridge!ToSet
  <2> QED
    BY <1>2, <2>1 DEF QuotesFit
<1>5. DOMAIN allow = DOMAIN Price /\ allow' \in [DOMAIN Price -> Nat]
      /\ (order.kind = "plain" => \A a \in DOMAIN Price : allow'[a] = Allowance)
  BY <1>1, <1>2, BridgeAssumption DEF JourneyTyped
<1>6. JourneyTyped'
  BY <1>1, <1>2, <1>3, <1>5 DEF JourneyTyped
<1>7. Given(chosen)'
  BY <1>1, <1>3, <1>4 DEF Given
<1>8. QuotesFit'
  BY <1>1, <1>2, <1>3, <1>4, <1>7 DEF QuotesFit, Bridge!Composers
<1>9. PhaseFits' /\ BaseFits' /\ RouteFits' /\ FlightFits' /\ EndsFit'
  BY <1>1, <1>2, <1>5
     DEF PhaseFits, Ended, BaseFits, Asked, RouteFits, FlightFits, EndsFit, Bridge!RefusedForReason
<1> QED
  BY <1>6, <1>8, <1>9 DEF JourneyIInv

-----------------------------------------------------------------------------
\* The minimum of a program.
LEMMA ProgramBuilt ==
  ASSUME JourneyTyped, NEW e \in Nat
  PROVE  Bridge!DestProgram(order, e) \in [swap : {order.destSwap}, min : Nat]
BY OrderFact, DestKeeps, SlipFact DEF Bridge!DestProgram

LEMMA EstimateNat ==
  ASSUME JourneyTyped, order.kind # "swap" => Given(chosen)
  PROVE  Usdc \in Nat /\ Estimate \in Nat
<1>1. Usdc \in Nat
  BY OrderFact, SwapKeeps DEF Usdc
<1>2. CASE order.kind = "swap"
  <2>1. cost["cctp"] \in Nat /\ ForwardFee \in Nat
    BY <1>2, OrderFact
  <2>2. Bridge!CctpFee(order, cost["cctp"]) \in Nat
    BY <2>1 DEF Bridge!CctpFee
  <2> QED
    BY <1>1, <1>2, <2>2, MonusFact DEF Estimate
<1>3. CASE order.kind # "swap"
  BY <1>1, <1>3 DEF Estimate, Given
<1> QED
  BY <1>2, <1>3

\* Sequences of a few transactions.
LEMMA FewLegs ==
  ASSUME NEW x, NEW y, NEW z
  PROVE  /\ <<x>> \o << >> = <<x>> /\ <<x>> \o <<y>> = <<x, y>>
         /\ Append(<< >>, x) = <<x>> /\ Append(<<x>>, y) = <<x, y>>
         /\ Head(<<x>>) = x /\ Tail(<<x>>) = << >>
         /\ Head(<<x, y>>) = x /\ Tail(<<x, y>>) = <<y>>
         /\ Head(<<x, y, z>>) = x /\ Tail(<<x, y, z>>) = <<y, z>>
<1> DEFINE S == {x, y, z}
<1>1. <<x>> \in Seq(S) /\ <<y>> \in Seq(S) /\ <<x, y>> \in Seq(S)
      /\ Len(<<x>>) = 1 /\ Len(<<y>>) = 1 /\ Len(<<x, y>>) = 2
  OBVIOUS
<1>2. ASSUME NEW s \in Seq(S), Len(s) = 2, s[1] = x, s[2] = y PROVE s = <<x, y>>
  BY <1>2
<1>3. <<x>> \o << >> = <<x>>
  BY <1>1, ConcatEmptySeq
<1>4. <<x>> \o <<y>> = <<x, y>>
  <2>1. /\ <<x>> \o <<y>> \in Seq(S) /\ Len(<<x>> \o <<y>>) = 2
        /\ \A i \in 1 .. 2 : (<<x>> \o <<y>>)[i] = IF i <= 1 THEN <<x>>[i] ELSE <<y>>[i - 1]
    BY <1>1, ConcatProperties
  <2>2. (<<x>> \o <<y>>)[1] = x /\ (<<x>> \o <<y>>)[2] = y
    BY <2>1
  <2> QED
    BY <1>2, <2>1, <2>2
<1>5. Append(<<x>>, y) = <<x, y>>
  <2>1. /\ Append(<<x>>, y) \in Seq(S) /\ Len(Append(<<x>>, y)) = 2
        /\ Append(<<x>>, y)[1] = x /\ Append(<<x>>, y)[2] = y
    BY <1>1, AppendProperties
  <2> QED
    BY <1>2, <2>1
<1>6. Append(<< >>, x) = <<x>>
  OBVIOUS
<1>7. Head(<<x>>) = x /\ Head(<<x, y>>) = x /\ Head(<<x, y, z>>) = x
  OBVIOUS
<1>8. Tail(<<x>>) = << >>
  OBVIOUS
<1>9. Tail(<<x, y>>) = <<y>>
  OBVIOUS
<1>10. Tail(<<x, y, z>>) = <<y, z>>
  OBVIOUS
<1> QED
  BY <1>3, <1>4, <1>5, <1>6, <1>7, <1>8, <1>9, <1>10

LEMMA ThirdLeg ==
  ASSUME NEW x, NEW y, NEW z
  PROVE  Append(<<x, y>>, z) = <<x, y, z>>
<1> DEFINE S == {x, y, z}
<1>1. <<x, y>> \in Seq(S) /\ Len(<<x, y>>) = 2
  OBVIOUS
<1>2. ASSUME NEW s \in Seq(S), Len(s) = 3, s[1] = x, s[2] = y, s[3] = z PROVE s = <<x, y, z>>
  BY <1>2
<1>3. /\ Append(<<x, y>>, z) \in Seq(S) /\ Len(Append(<<x, y>>, z)) = 3
      /\ Append(<<x, y>>, z)[1] = x /\ Append(<<x, y>>, z)[2] = y
      /\ Append(<<x, y>>, z)[3] = z
  BY <1>1, AppendProperties
<1> QED
  BY <1>2, <1>3

LEMMA BuildApprovalsKeeps ==
  ASSUME JourneyIInv, Bridge!BuildApprovals
  PROVE  JourneyIInv'
<1>1. /\ phase = "approvals" /\ phase' = "built" /\ UNCHANGED <<answers, ranked, chosen>>
      /\ UNCHANGED <<allow, flight, arrived, vm, supplied>> /\ UNCHANGED <<order, cost, rate, moved>>
      /\ feeBase' = cost[chosen.by] /\ legs' = Bridge!Approvals(chosen.by, order, cost[chosen.by])
  BY DEF Bridge!BuildApprovals, Bridge!Chain, Bridge!World
<1>2. /\ JourneyTyped /\ QuotesFit /\ order.kind = "compose" /\ Given(chosen)
      /\ chosen.by \in Bridge!Composers
  BY <1>1 DEF JourneyIInv, PhaseFits, QuotesFit
<1>3. Fleet' = Fleet /\ \A q : Given(q)' <=> Given(q)
  BY <1>1, SameWorld
<1>4. feeBase' \in Costs
  BY <1>1, <1>2, OrderFact DEF Given
<1>5. JourneyTyped'
  BY <1>1, <1>2, <1>3 DEF JourneyTyped
<1>6. QuotesFit'
  BY <1>1, <1>2, <1>3 DEF QuotesFit, Given
<1>7. PhaseFits' /\ RouteFits' /\ FlightFits' /\ EndsFit'
  BY <1>1, <1>2 DEF PhaseFits, Ended, RouteFits, FlightFits, EndsFit, Bridge!RefusedForReason
<1>8. BaseFits'
  BY <1>1, <1>2, <1>4 DEF BaseFits, By
<1> QED
  BY <1>5, <1>6, <1>7, <1>8 DEF JourneyIInv

LEMMA BuildSendKeeps ==
  ASSUME JourneyIInv, Bridge!BuildSend
  PROVE  JourneyIInv'
<1>1. /\ phase = "built" /\ phase' \in {"sending", "unbuildable"} /\ UNCHANGED <<answers, ranked, chosen>>
      /\ UNCHANGED <<allow, flight, arrived, vm, supplied>> /\ UNCHANGED <<order, cost, rate, moved>>
      /\ feeBase' = IF order.kind = "compose" /\ Bridge!ErcFee(order) THEN feeBase ELSE cost[chosen.by]
  BY DEF Bridge!BuildSend, Bridge!Chain, Bridge!World
<1>2. /\ JourneyTyped /\ QuotesFit /\ order.kind \in {"plain", "compose"} /\ Given(chosen)
      /\ order.kind = "compose" => chosen.by \in Bridge!Composers
  BY <1>1, OrderFact DEF JourneyIInv, PhaseFits, QuotesFit
<1>3. Fleet' = Fleet /\ \A q : Given(q)' <=> Given(q)
  BY <1>1, SameWorld
<1>4. chosen.by \in Fleet /\ cost[chosen.by] \in Costs /\ cost[chosen.by] \in Nat
  BY <1>2, OrderFact DEF Given
<1>5. feeBase' \in Costs /\ (~moved => feeBase' = cost[chosen.by])
  BY <1>1, <1>2, <1>4 DEF JourneyIInv, BaseFits, Asked, By
<1>6. JourneyTyped'
  BY <1>1, <1>2, <1>3 DEF JourneyTyped
<1>7. QuotesFit'
  BY <1>1, <1>2, <1>3 DEF QuotesFit, Given
<1>8. PhaseFits' /\ FlightFits' /\ EndsFit'
  BY <1>1, <1>2 DEF PhaseFits, Ended, FlightFits, EndsFit, Bridge!RefusedForReason
<1>9. BaseFits'
  BY <1>1, <1>2, <1>5 DEF BaseFits, By
<1>10. ASSUME phase' = "sending" PROVE LegsFit'
  <2>1. PICK now \in {cost[chosen.by], Bridge!Down} :
          LET sends == IF order.kind = "plain" THEN Bridge!BuildBridgeTx(chosen.by, order, now)
                       ELSE Bridge!ComposeSend(chosen.by, order, now, Bridge!DestProgram(order, chosen.out))
          IN \E t \in sends : legs' = Append(legs, t)
    BY <1>10 DEF Bridge!BuildSend
  <2>2. PICK t \in (IF order.kind = "plain" THEN Bridge!BuildBridgeTx(chosen.by, order, now)
                    ELSE Bridge!ComposeSend(chosen.by, order, now, Bridge!DestProgram(order, chosen.out))) :
          legs' = Append(legs, t)
    BY <2>1
  <2>3. CASE order.kind = "plain"
    <3>1. t \in Bridge!BuildBridgeTx(chosen.by, order, feeBase')
      BY <1>1, <1>2, <1>4, <2>2, <2>3, BuiltNow
    <3>2. BuiltFor(t)'
      BY <1>1, <2>3, <3>1 DEF BuiltFor
    <3>3. legs = << >> /\ \A a \in DOMAIN Price : allow[a] = Allowance
      BY <1>1, <2>3 DEF JourneyIInv, RouteFits
    <3>4. legs' = <<t>>
      BY <2>2, <3>3
    <3> QED
      BY <1>1, <2>3, <3>2, <3>3, <3>4 DEF LegsFit
  <2>4. CASE order.kind = "compose"
    <3>1. PICK p : p = Bridge!DestProgram(order, chosen.out)
      OBVIOUS
    <3>2. ProgramFits(p)
      BY <1>2, <2>4, <3>1, ProgramBuilt DEF ProgramFits, Estimate, Given
    <3>3. t \in Bridge!ComposeSend(chosen.by, order, feeBase', p)
      <4>1. t \in Bridge!ComposeSend(chosen.by, order, now, p)
        BY <2>2, <2>4, <3>1
      <4>2. CASE chosen.by = "cctp"
        BY <4>1, <4>2 DEF Bridge!ComposeSend
      <4>3. CASE chosen.by = "oft"
        <5>1. now = cost[chosen.by]
          BY <2>1, <4>1, <4>3 DEF Bridge!ComposeSend, Bridge!OftTransfer, Bridge!Answer
        <5> QED
          BY <1>1, <4>1, <4>3, <5>1 DEF Bridge!ErcFee
      <4>4. CASE chosen.by = "ccip"
        <5>1. now = cost[chosen.by]
          BY <2>1, <4>1, <4>4 DEF Bridge!ComposeSend, Bridge!CcipTransfer, Bridge!Answer
        <5>2. CASE Bridge!ErcFee(order)
          <6>1. feeBase' # Bridge!Down /\ now # Bridge!Down
            BY <1>4, <1>5, <5>1, BridgeAssumption DEF Bridge!Down
          <6> QED
            BY <4>1, <4>4, <5>2, <6>1

                  DEF Bridge!ComposeSend, Bridge!CcipTransfer, Bridge!Answer, Bridge!FeeValue, Bridge!ErcFee
        <5>3. CASE ~Bridge!ErcFee(order)
          BY <1>1, <4>1, <5>1, <5>3
        <5> QED
          BY <5>2, <5>3
      <4> QED
        BY <1>2, <2>4, <4>2, <4>3, <4>4 DEF Bridge!Composers
    <3>4. BuiltFor(t)'
      <4>1. ProgramFits(p)'
        BY <1>1, <3>2, SameWorld
      <4> QED
        BY <1>1, <2>4, <3>3, <4>1 DEF BuiltFor
    <3>5. legs = Bridge!Approvals(chosen.by, order, feeBase)
      BY <1>1, <2>4 DEF JourneyIInv, RouteFits
    <3>6. CASE chosen.by = "cctp"
      <4>1. legs = <<ApproveIn>>
        BY <3>5, <3>6 DEF Bridge!Approvals, ApproveIn
      <4>2. legs' = <<ApproveIn, t>>
        <5>1. PICK a : a = ApproveIn
          OBVIOUS
        <5>2. <<a>> \o << >> = <<a>> /\ Append(<<a>>, t) = <<a, t>>
          BY FewLegs
        <5> QED
          BY <2>2, <4>1, <5>1, <5>2
      <4>3. ~Bridge!ErcFee(order) /\ ApproveIn' = ApproveIn
        BY <1>1, <3>6 DEF Bridge!ErcFee, ApproveIn
      <4> QED
        BY <1>1, <2>4, <3>4, <3>6, <4>2, <4>3 DEF LegsFit, Bridge!ErcFee
    <3>7. CASE chosen.by = "oft"
      <4>1. legs = << >>
        BY <3>5, <3>7 DEF Bridge!Approvals
      <4>2. legs' = <<t>>
        BY <2>2, <4>1
      <4> QED
        BY <1>1, <2>4, <3>4, <3>7, <4>2 DEF LegsFit, Bridge!ErcFee, InApproved, FeeApproved
    <3>8. CASE chosen.by = "ccip" /\ ~Bridge!ErcFee(order)
      <4>1. legs = <<ApproveIn>> \o << >>
        BY <3>5, <3>8 DEF Bridge!Approvals, ApproveIn, Bridge!ErcFee
      <4>2. legs' = <<ApproveIn, t>>
        <5>1. PICK a : a = ApproveIn
          OBVIOUS
        <5>2. <<a>> \o << >> = <<a>> /\ Append(<<a>>, t) = <<a, t>>
          BY FewLegs
        <5> QED
          BY <2>2, <4>1, <5>1, <5>2
      <4>3. ApproveIn' = ApproveIn
        BY <1>1 DEF ApproveIn
      <4> QED
        BY <1>1, <2>4, <3>4, <3>8, <4>2, <4>3 DEF LegsFit, Bridge!ErcFee
    <3>9. CASE chosen.by = "ccip" /\ Bridge!ErcFee(order)
      <4>1. legs = <<ApproveIn>> \o <<ApproveFee>>
        BY <3>5, <3>9 DEF Bridge!Approvals, ApproveIn, ApproveFee, Bridge!ErcFee
      <4>2. legs' = <<ApproveIn, ApproveFee, t>>
        <5>1. PICK a, f : a = ApproveIn /\ f = ApproveFee
          OBVIOUS
        <5>2. <<a>> \o <<f>> = <<a, f>>
          BY FewLegs
        <5>3. Append(<<a, f>>, t) = <<a, f, t>>
          BY ThirdLeg
        <5> QED
          BY <2>2, <4>1, <5>1, <5>2, <5>3
      <4>3. ApproveIn' = ApproveIn /\ ApproveFee' = ApproveFee
        BY <1>1, <2>4, <3>9 DEF ApproveIn, ApproveFee
      <4> QED
        BY <1>1, <2>4, <3>4, <3>9, <4>2, <4>3 DEF LegsFit, Bridge!ErcFee
    <3> QED
      BY <1>2, <2>4, <3>6, <3>7, <3>8, <3>9 DEF Bridge!Composers
  <2> QED
    BY <1>2, <2>3, <2>4
<1>11. RouteFits'
  BY <1>1, <1>10 DEF RouteFits
<1> QED
  BY <1>6, <1>7, <1>8, <1>9, <1>11 DEF JourneyIInv

LEMMA BuildSwapRouteKeeps ==
  ASSUME JourneyIInv, Bridge!BuildSwapRoute
  PROVE  JourneyIInv'
<1>1. /\ phase = "routing" /\ phase' = "sending" /\ UNCHANGED <<answers, ranked, chosen>>
      /\ UNCHANGED <<allow, flight, arrived, vm, supplied>> /\ UNCHANGED <<order, cost, rate, moved>>
      /\ feeBase' = cost["cctp"]
  BY DEF Bridge!BuildSwapRoute, Bridge!Chain, Bridge!World
<1>2. JourneyTyped /\ QuotesFit /\ order.kind = "swap"
  BY <1>1 DEF JourneyIInv, PhaseFits
<1>3. Fleet' = Fleet /\ Usdc' = Usdc /\ \A q : Given(q)' <=> Given(q)
  BY <1>1, SameWorld
<1>4. feeBase' \in Costs
  BY <1>1, <1>2, OrderFact
<1>5. PICK t \in Bridge!CctpTransfer(order, 0, Bridge!DestProgram(order, Estimate)) :
        legs' = <<[fn |-> "execute", burn |-> t, minUsdc |-> Bridge!Slip(Usdc, order.slippage)]>>
  BY <1>2 DEF Bridge!BuildSwapRoute, Usdc, Estimate
<1>6. PICK p : p = Bridge!DestProgram(order, Estimate)
  OBVIOUS
<1>7. ProgramFits(p)
  BY <1>2, <1>6, ProgramBuilt, EstimateNat DEF ProgramFits
<1>8. t = Bridge!Transfer("cctp", 0, 0, 0, order.maxFee, p)
  <2>1. Bridge!Monus(0, order.maxFee) = 0
    BY <1>2, OrderFact DEF Bridge!Monus
  <2> QED
    BY <1>5, <1>6, <2>1 DEF Bridge!CctpTransfer
<1>9. t.amount = 0 /\ t.program = p
  BY <1>8 DEF Bridge!Transfer
<1>10. BuiltFor(t)'
  <2>1. ProgramFits(t.program)'
    BY <1>1, <1>7, <1>9, SameWorld
  <2> QED
    BY <1>1, <1>2, <1>8, <1>9, <2>1 DEF BuiltFor
<1>11. LegsFit'
  BY <1>1, <1>2, <1>3, <1>5, <1>10 DEF LegsFit
<1>12. JourneyTyped'
  BY <1>1, <1>2, <1>3 DEF JourneyTyped
<1>13. QuotesFit'
  BY <1>1, <1>2, <1>3 DEF QuotesFit
<1>14. PhaseFits' /\ RouteFits' /\ FlightFits' /\ EndsFit'
  BY <1>1, <1>2, <1>11 DEF PhaseFits, Ended, RouteFits, FlightFits, EndsFit, Bridge!RefusedForReason
<1>15. BaseFits'
  BY <1>1, <1>2, <1>4 DEF BaseFits, By
<1> QED
  BY <1>12, <1>13, <1>14, <1>15 DEF JourneyIInv

-----------------------------------------------------------------------------
\* The order's route is chosen, as the steps that follow the choice have it.
Routed ==
  /\ JourneyTyped /\ feeBase \in Costs
  /\ order.kind # "swap" => Given(chosen)
  /\ order.kind = "compose" => chosen.by \in Bridge!Composers

LEMMA BuiltSend ==
  ASSUME Routed, NEW t, BuiltFor(t)
  PROVE  /\ t.fn = "send" /\ t.by = By /\ By \in Fleet /\ t.amount \in Nat
         /\ order.kind # "swap" => t.amount = order.amount /\ t.value = Valued(By, order, feeBase)
         /\ order.kind = "plain" =>
              t.program = Bridge!NoProgram /\ t \in Bridge!BuildBridgeTx(By, order, feeBase)
         /\ order.kind # "plain" =>
              ProgramFits(t.program) /\ t.program # Bridge!NoProgram /\ By \in Bridge!Composers
         /\ By = "cctp" => t.maxFee = order.maxFee
<1>1. /\ order.amount \in Nat /\ order.kind \in {"plain", "compose", "swap"}
      /\ order.kind = "swap" => "cctp" \in Fleet
  BY OrderFact DEF Routed
<1>2. ASSUME NEW p, ProgramFits(p) PROVE p # Bridge!NoProgram
  <2>1. p.min \in Nat
    BY <1>2 DEF ProgramFits
  <2> QED
    BY <2>1 DEF Bridge!NoProgram
<1>3. CASE order.kind = "plain"
  <2>1. By = chosen.by /\ By \in Fleet /\ t \in Bridge!BuildBridgeTx(By, order, feeBase)
    BY <1>3 DEF By, Routed, Given, BuiltFor
  <2>2. t = Bridge!Transfer(By, order.amount, Least(By, order, feeBase), Valued(By, order, feeBase),
                            MaxFeeOf(By, order), Bridge!NoProgram)
    BY <2>1, TransferBuilt DEF Routed
  <2>3. /\ t.fn = "send" /\ t.by = By /\ t.amount = order.amount /\ t.value = Valued(By, order, feeBase)
        /\ t.maxFee = MaxFeeOf(By, order) /\ t.program = Bridge!NoProgram
    BY <2>2, TransferFields
  <2> QED
    BY <1>1, <1>3, <2>1, <2>3 DEF MaxFeeOf
<1>4. CASE order.kind = "compose"
  <2>1. By = chosen.by /\ By \in Fleet /\ By \in Bridge!Composers
    BY <1>4 DEF By, Routed, Given
  <2>2. PICK p : ProgramFits(p) /\ t \in Bridge!ComposeSend(By, order, feeBase, p)
    BY <1>4, <2>1 DEF BuiltFor
  <2>3. \E m : t = Bridge!Transfer(By, order.amount, m, Valued(By, order, feeBase), MaxFeeOf(By, order), p)
    <3>1. CASE By = "cctp"
      BY <2>2, <3>1 DEF Bridge!ComposeSend, Bridge!CctpTransfer, Valued, MaxFeeOf
    <3>2. CASE By = "oft"
      BY <2>2, <3>2 DEF Bridge!ComposeSend, Bridge!OftTransfer, Bridge!Answer, Valued, MaxFeeOf
    <3>3. CASE By = "ccip"
      BY <2>2, <3>3 DEF Bridge!ComposeSend, Bridge!CcipTransfer, Bridge!Answer, Valued, MaxFeeOf
    <3> QED
      BY <2>1, <3>1, <3>2, <3>3 DEF Bridge!Composers
  <2>4. PICK m : t = Bridge!Transfer(By, order.amount, m, Valued(By, order, feeBase), MaxFeeOf(By, order), p)
    BY <2>3
  <2>5. /\ t.fn = "send" /\ t.by = By /\ t.amount = order.amount /\ t.value = Valued(By, order, feeBase)
        /\ t.maxFee = MaxFeeOf(By, order) /\ t.program = p
    BY <2>4, TransferFields
  <2> QED
    BY <1>1, <1>2, <1>4, <2>1, <2>2, <2>5 DEF MaxFeeOf
<1>5. CASE order.kind = "swap"
  <2>1. By = "cctp" /\ By \in Fleet /\ By \in Bridge!Composers
    BY <1>1, <1>5 DEF By, Bridge!Composers
  <2>2. /\ t.amount \in Nat /\ ProgramFits(t.program)
        /\ t = Bridge!Transfer("cctp", t.amount, 0, 0, order.maxFee, t.program)
    BY <1>5 DEF BuiltFor
  <2>3. t.fn = "send" /\ t.by = "cctp" /\ t.maxFee = order.maxFee
    BY <2>2, TransferFields
  <2> QED
    BY <1>2, <1>5, <2>1, <2>2, <2>3
<1> QED
  BY <1>1, <1>3, <1>4, <1>5

\* A transfer is accepted while its fee is at most what it was built for.
LEMMA AcceptedWithinFee ==
  ASSUME Routed, FeeApart, order.kind # "swap", NEW t, BuiltFor(t),
         order.kind = "plain" => \A a \in DOMAIN Price : allow[a] = Allowance,
         order.kind = "compose" => InApproved /\ FeeApproved,
         cost[chosen.by] <= (IF chosen.by = "lucid" THEN Bridge!Buffered(order, feeBase) ELSE feeBase)
  PROVE  Bridge!Accepted(t)
<1>1. /\ t.by = chosen.by /\ chosen.by \in Fleet /\ t.amount = order.amount
      /\ t.value = Valued(chosen.by, order, feeBase)
      /\ order.kind = "compose" => chosen.by \in Bridge!Composers
  BY BuiltSend DEF By, Routed
<1>2. /\ order.amount \in Nat /\ cost[chosen.by] \in Nat /\ feeBase \in Nat /\ Allowance \in Nat
      /\ order.amount + cost[chosen.by] <= Allowance
      /\ order.kind \in {"plain", "compose"} /\ DOMAIN allow = DOMAIN Price
      /\ \A a \in DOMAIN Price : allow[a] \in Nat
      /\ order.in.addr \in DOMAIN Price /\ order.feeToken \in DOMAIN Price
  BY <1>1, OrderFact, BridgeAssumption DEF Routed, JourneyTyped
<1> DEFINE ofIn(a) == IF a = order.in.addr /\ ~order.in.native /\ t.by # "oft" THEN t.amount ELSE 0
           ofFee(a) == IF a = order.feeToken THEN Bridge!FeeInToken(t) ELSE 0
<1>3. ASSUME NEW a \in DOMAIN Price PROVE allow[a] >= ofIn(a) + ofFee(a)
  <2>1. Bridge!FeeInToken(t) = IF chosen.by = "ccip" /\ Bridge!ErcFee(order) THEN cost[chosen.by] ELSE 0
    BY <1>1 DEF Bridge!FeeInToken
  <2>2. CASE order.kind = "plain"
    <3>1. ofIn(a) \in Nat /\ ofIn(a) <= order.amount
      BY <1>1, <1>2
    <3>2. ofFee(a) \in Nat /\ ofFee(a) <= cost[chosen.by]
      BY <1>2, <2>1
    <3> HIDE DEF ofIn, ofFee
    <3> QED
      BY <1>2, <2>2, <3>1, <3>2
  <2>3. CASE order.kind = "compose"
    <3>1. chosen.by \in {"cctp", "oft", "ccip"}
      BY <1>1, <2>3 DEF Bridge!Composers
    <3>2. order.feeToken # order.in.addr
      BY <2>3 DEF FeeApart, Routed, JourneyTyped
    <3>3. ofIn(a) \in Nat /\ ofIn(a) <= allow[a]
      BY <1>1, <1>2, <2>3, <3>1 DEF InApproved
    <3>4. ofFee(a) \in Nat /\ ofFee(a) <= allow[a]
      BY <1>2, <2>1, <2>3, <3>1 DEF FeeApproved
    <3>5. ofIn(a) = 0 \/ ofFee(a) = 0
      BY <3>2
    <3> HIDE DEF ofIn, ofFee
    <3> QED
      BY <1>2, <3>3, <3>4, <3>5
  <2> QED
    BY <1>2, <2>2, <2>3
<1>4. ASSUME t.by \in {"stargate", "oft", "lucid"} \/ (t.by = "ccip" /\ ~Bridge!ErcFee(order))
      PROVE  t.value >= cost[t.by]
  <2>1. CASE t.by \in {"stargate", "oft", "lucid"}
    BY <1>1, <1>2, <2>1 DEF Valued
  <2>2. CASE t.by = "ccip" /\ ~Bridge!ErcFee(order)
    BY <1>1, <1>2, <2>2 DEF Valued, Bridge!FeeValue, Bridge!ErcFee
  <2> QED
    BY <1>4, <2>1, <2>2
<1> QED
  BY <1>2, <1>3, <1>4 DEF Bridge!Accepted

\* What arrives of a transfer with a program.
LEMMA ComposedArrives ==
  ASSUME Routed, order.kind # "plain", NEW t, BuiltFor(t),
         order.kind = "swap" /\ ~moved => t.amount = Usdc
  PROVE  \E g \in Nat : Bridge!Arrives(t) = {g} /\ (~moved => g >= Estimate)
<1>1. /\ t.by = By /\ By \in Fleet /\ By \in {"cctp", "oft", "ccip"} /\ t.amount \in Nat
      /\ order.kind # "swap" => t.amount = order.amount
      /\ By = "cctp" => t.maxFee = order.maxFee
  BY BuiltSend DEF Bridge!Composers
<1>2. order.kind # "swap" /\ ~moved => Estimate = Promised(By, order, cost[By])
  BY DEF Estimate, Routed, Given, By
<1>3. CASE By = "cctp"
  <2>1. PICK c \in Nat : c = cost["cctp"]
    BY <1>1, <1>3, OrderFact DEF Routed
  <2>2. PICK g \in Nat :
          Bridge!Arrives(t) = {g} /\ g >= Bridge!Monus(t.amount, Bridge!CctpFee(order, c))
    BY <1>1, <1>3, <2>1, CctpArrives DEF Routed
  <2>3. ~moved => Estimate = Bridge!Monus(t.amount, Bridge!CctpFee(order, c))
    BY <1>1, <1>2, <1>3, <2>1 DEF Estimate, Promised
  <2> QED
    BY <2>2, <2>3
<1>4. CASE By \in {"oft", "ccip"}
  <2>1. Bridge!Arrives(t) = {t.amount}
    BY <1>1, <1>4 DEF Bridge!Arrives
  <2>2. ~moved => Estimate = t.amount
    BY <1>1, <1>2, <1>4 DEF Promised, By
  <2> QED
    BY <1>1, <2>1, <2>2
<1> QED
  BY <1>1, <1>3, <1>4

-----------------------------------------------------------------------------
LEMMA IsRouted ==
  ASSUME JourneyIInv, phase \in {"sending", "inflight", "hook"}
  PROVE  Routed
BY DEF JourneyIInv, QuotesFit, BaseFits, Asked, Routed

LEMMA SendApproveKeeps ==
  ASSUME JourneyIInv, Bridge!SendApprove
  PROVE  JourneyIInv'
<1>1. /\ phase = "sending" /\ Head(legs).fn = "approve" /\ legs' = Tail(legs)
      /\ allow' = [allow EXCEPT ![Head(legs).token] = Head(legs).amount]
      /\ UNCHANGED <<answers, ranked, chosen, phase, feeBase, flight, arrived, vm, supplied>>
      /\ UNCHANGED <<order, cost, rate, moved>>
  BY DEF Bridge!SendApprove, Bridge!World
<1>2. JourneyTyped /\ QuotesFit /\ Routed
  BY <1>1, IsRouted DEF JourneyIInv
<1>3. /\ order.amount \in Nat /\ feeBase \in Nat /\ DOMAIN allow = DOMAIN Price
      /\ order.in.addr \in DOMAIN Price /\ order.feeToken \in DOMAIN Price
      /\ allow \in [DOMAIN Price -> Nat] /\ order.kind \in {"plain", "compose", "swap"}
  BY <1>2, OrderFact DEF Routed, JourneyTyped
<1>4. PICK t : /\ BuiltFor(t)
               /\ order.kind = "compose"
               /\ \/ legs = <<ApproveIn, t>> /\ ~Bridge!ErcFee(order)
                  \/ legs = <<ApproveIn, ApproveFee, t>> /\ Bridge!ErcFee(order)
                  \/ legs = <<ApproveFee, t>> /\ Bridge!ErcFee(order) /\ InApproved
  <2>1. PICK t : BuiltFor(t) /\
          CASE order.kind = "plain" -> legs = <<t>> /\ \A a \in DOMAIN Price : allow[a] = Allowance
            [] order.kind = "compose" ->
                 \/ (FeeApart => InApproved) /\ FeeApproved /\ legs = <<t>>
                 \/ chosen.by \in {"cctp", "ccip"} /\ ~Bridge!ErcFee(order) /\ legs = <<ApproveIn, t>>
                 \/ Bridge!ErcFee(order) /\ legs = <<ApproveIn, ApproveFee, t>>
                 \/ Bridge!ErcFee(order) /\ InApproved /\ legs = <<ApproveFee, t>>
            [] order.kind = "swap" ->
                 \E m : legs = <<[fn |-> "execute", burn |-> t, minUsdc |-> m]>>
                        /\ (~moved => m = Bridge!Slip(Usdc, order.slippage))
    BY <1>1 DEF JourneyIInv, RouteFits, LegsFit
  <2>2. t.fn = "send"
    BY <1>2, <2>1, BuiltSend
  <2>3. ASSUME order.kind = "swap" PROVE FALSE
    <3>1. PICK m : legs = <<[fn |-> "execute", burn |-> t, minUsdc |-> m]>>
      BY <2>1, <2>3
    <3> QED
      BY <1>1, <3>1
  <2>4. legs # <<t>>
    BY <1>1, <2>2
  <2> QED
    BY <1>3, <2>1, <2>3, <2>4
<1>5. /\ ApproveIn.token = order.in.addr /\ ApproveIn.amount = order.amount
      /\ ApproveFee.token = order.feeToken /\ ApproveFee.amount = feeBase
  BY DEF ApproveIn, ApproveFee, Bridge!ApproveLeg
<1>6. BuiltFor(t)' /\ Fleet' = Fleet /\ \A q : Given(q)' <=> Given(q)
  BY <1>1, <1>4, SameWorld
<1>7. ApproveIn' = ApproveIn /\ ApproveFee' = ApproveFee
      /\ Bridge!ErcFee(order)' = Bridge!ErcFee(order)
  BY <1>1 DEF ApproveIn, ApproveFee, Bridge!ErcFee
<1>8. LegsFit' /\ allow' \in [DOMAIN Price -> Nat]
  <2>1. CASE legs = <<ApproveIn, t>> /\ ~Bridge!ErcFee(order)
    <3>1. PICK a : a = ApproveIn
      OBVIOUS
    <3>2. Head(legs) = a /\ legs' = <<t>>
      BY <1>1, <2>1, <3>1, FewLegs
    <3>3. allow' = [allow EXCEPT ![order.in.addr] = order.amount]
      BY <1>1, <1>5, <3>1, <3>2
    <3>4. InApproved' /\ FeeApproved'
      BY <1>1, <1>3, <1>7, <2>1, <3>3 DEF InApproved, FeeApproved
    <3> QED
      BY <1>1, <1>3, <1>4, <1>6, <3>2, <3>3, <3>4 DEF LegsFit
  <2>2. CASE legs = <<ApproveIn, ApproveFee, t>> /\ Bridge!ErcFee(order)
    <3>1. PICK a, f : a = ApproveIn /\ f = ApproveFee
      OBVIOUS
    <3>2. Head(<<a, f, t>>) = a /\ Tail(<<a, f, t>>) = <<f, t>>
      BY FewLegs
    <3>3. Head(legs) = a /\ legs' = <<f, t>>
      BY <1>1, <2>2, <3>1, <3>2
    <3>4. allow' = [allow EXCEPT ![order.in.addr] = order.amount]
      BY <1>1, <1>5, <3>1, <3>3
    <3>5. InApproved'
      BY <1>1, <1>3, <3>4 DEF InApproved
    <3>6. legs' = <<ApproveFee', t>>
      BY <1>7, <3>1, <3>3
    <3> QED
      BY <1>1, <1>3, <1>4, <1>6, <1>7, <2>2, <3>4, <3>5, <3>6 DEF LegsFit
  <2>3. CASE legs = <<ApproveFee, t>> /\ Bridge!ErcFee(order) /\ InApproved
    <3>1. PICK f : f = ApproveFee
      OBVIOUS
    <3>2. Head(legs) = f /\ legs' = <<t>>
      BY <1>1, <2>3, <3>1, FewLegs
    <3>3. allow' = [allow EXCEPT ![order.feeToken] = feeBase]
      BY <1>1, <1>5, <3>1, <3>2
    <3>4. FeeApproved'
      BY <1>1, <1>3, <3>3 DEF FeeApproved
    <3>5. FeeApart' => InApproved'
      <4>1. FeeApart => order.feeToken # order.in.addr
        BY <1>2, <1>4 DEF FeeApart, JourneyTyped
      <4>2. FeeApart' => FeeApart
        BY DEF FeeApart
      <4> QED
        BY <1>1, <1>3, <2>3, <3>3, <4>1, <4>2 DEF InApproved
    <3> QED
      BY <1>1, <1>3, <1>4, <1>6, <3>2, <3>3, <3>4, <3>5 DEF LegsFit
  <2> QED
    BY <1>4, <2>1, <2>2, <2>3
<1>9. JourneyTyped'
  BY <1>1, <1>2, <1>6, <1>8 DEF JourneyTyped
<1>10. QuotesFit'
  BY <1>1, <1>2, <1>6 DEF QuotesFit, Given
<1>11. PhaseFits' /\ BaseFits' /\ RouteFits' /\ FlightFits' /\ EndsFit'
  BY <1>1, <1>8 DEF JourneyIInv, PhaseFits, BaseFits, Asked, By, RouteFits, FlightFits, EndsFit,
     Bridge!RefusedForReason
<1> QED
  BY <1>9, <1>10, <1>11 DEF JourneyIInv

LEMMA SendTransferKeeps ==
  ASSUME JourneyIInv, Bridge!SendTransfer
  PROVE  JourneyIInv'
<1>1. /\ phase = "sending" /\ Head(legs).fn = "send"
      /\ UNCHANGED <<answers, ranked, chosen, feeBase, allow, arrived, vm, supplied>>
      /\ UNCHANGED <<order, cost, rate, moved>>
  BY DEF Bridge!SendTransfer, Bridge!World
<1>2. JourneyTyped /\ QuotesFit /\ Routed /\ order.kind \in {"plain", "compose", "swap"}
  BY <1>1, IsRouted, OrderFact DEF JourneyIInv
<1>3. PICK t : /\ BuiltFor(t) /\ Head(legs) = t /\ order.kind # "swap"
               /\ order.kind = "plain" => \A a \in DOMAIN Price : allow[a] = Allowance
               /\ order.kind = "compose" => (FeeApart => InApproved) /\ FeeApproved
  <2>1. PICK t : BuiltFor(t) /\
          CASE order.kind = "plain" -> legs = <<t>> /\ \A a \in DOMAIN Price : allow[a] = Allowance
            [] order.kind = "compose" ->
                 \/ (FeeApart => InApproved) /\ FeeApproved /\ legs = <<t>>
                 \/ chosen.by \in {"cctp", "ccip"} /\ ~Bridge!ErcFee(order) /\ legs = <<ApproveIn, t>>
                 \/ Bridge!ErcFee(order) /\ legs = <<ApproveIn, ApproveFee, t>>
                 \/ Bridge!ErcFee(order) /\ InApproved /\ legs = <<ApproveFee, t>>
            [] order.kind = "swap" ->
                 \E m : legs = <<[fn |-> "execute", burn |-> t, minUsdc |-> m]>>
                        /\ (~moved => m = Bridge!Slip(Usdc, order.slippage))
    BY <1>1 DEF JourneyIInv, RouteFits, LegsFit
  <2>2. ASSUME order.kind = "swap" PROVE FALSE
    <3>1. PICK m : legs = <<[fn |-> "execute", burn |-> t, minUsdc |-> m]>>
      BY <2>1, <2>2
    <3> QED
      BY <1>1, <3>1
  <2>3. ApproveIn.fn = "approve" /\ ApproveFee.fn = "approve"
    BY DEF ApproveIn, ApproveFee, Bridge!ApproveLeg
  <2>4. legs # <<ApproveIn, t>> /\ legs # <<ApproveIn, ApproveFee, t>> /\ legs # <<ApproveFee, t>>
    <3>1. PICK a, f : a = ApproveIn /\ f = ApproveFee
      OBVIOUS
    <3>2. Head(<<a, t>>) = a /\ Head(<<a, f, t>>) = a /\ Head(<<f, t>>) = f
      OBVIOUS
    <3> QED
      BY <1>1, <2>3, <3>1, <3>2
  <2>5. legs = <<t>> => Head(legs) = t
    OBVIOUS
  <2> QED
    BY <1>2, <2>1, <2>2, <2>4, <2>5
<1>4. \/ Bridge!Accepted(t) /\ flight' = t /\ phase' = "inflight"
      \/ ~Bridge!Accepted(t) /\ flight' = flight /\ phase' = "refused"
  BY <1>3 DEF Bridge!SendTransfer, Bridge!Sent
<1>5. BuiltFor(t)' /\ Fleet' = Fleet /\ \A q : Given(q)' <=> Given(q)
  BY <1>1, <1>3, SameWorld
<1>6. JourneyTyped'
  BY <1>1, <1>2, <1>5 DEF JourneyTyped
<1>7. QuotesFit'
  BY <1>1, <1>2, <1>4, <1>5 DEF QuotesFit, Given
<1>8. PhaseFits' /\ BaseFits' /\ RouteFits' /\ FlightFits'
  BY <1>1, <1>2, <1>3, <1>4, <1>5
     DEF JourneyIInv, PhaseFits, Ended, BaseFits, Asked, By, RouteFits, FlightFits
<1>9. EndsFit'
  <2>1. CASE phase' = "inflight"
    BY <2>1 DEF EndsFit, Bridge!RefusedForReason
  <2>2. CASE phase' = "refused" /\ ~Bridge!Accepted(t)
    <3>1. FeeApart =>
            cost[chosen.by] > (IF chosen.by = "lucid" THEN Bridge!Buffered(order, feeBase) ELSE feeBase)
      <4> SUFFICES ASSUME FeeApart,
                          ~(cost[chosen.by] > (IF chosen.by = "lucid"
                                               THEN Bridge!Buffered(order, feeBase) ELSE feeBase))
                   PROVE  FALSE
        OBVIOUS
      <4>1. /\ cost[chosen.by] \in Nat /\ feeBase \in Nat
            /\ order.buffer \in Nat /\ MAX_BPS \in Nat \ {0}
        BY <1>2, <1>3, OrderFact, BridgeAssumption DEF Routed, Given
      <4>2. Bridge!Buffered(order, feeBase) \in Nat
        <5>1. PICK f \in Nat, w \in Nat \ {0}, b \in Nat : f = feeBase /\ w = MAX_BPS /\ b = order.buffer
          BY <4>1
        <5>2. f * (w + b) \in Nat
          BY TimesKeeps
        <5> QED
          BY <5>1, <5>2, DivKeeps DEF Bridge!Buffered
      <4>3. cost[chosen.by] <= (IF chosen.by = "lucid" THEN Bridge!Buffered(order, feeBase) ELSE feeBase)
        BY <4>1, <4>2
      <4> QED
        BY <1>2, <1>3, <2>2, <4>3, AcceptedWithinFee
    <3>2. FeeApart' => FeeApart
      BY DEF FeeApart
    <3>3. FeeApart' => Bridge!RefusedForReason'
      BY <1>1, <1>3, <3>1, <3>2 DEF Bridge!RefusedForReason, Bridge!Buffered
    <3> QED
      BY <2>2, <3>3 DEF EndsFit
  <2> QED
    BY <1>4, <2>1, <2>2
<1> QED
  BY <1>6, <1>7, <1>8, <1>9 DEF JourneyIInv

LEMMA SendExecuteKeeps ==
  ASSUME JourneyIInv, Bridge!SendExecute
  PROVE  JourneyIInv'
<1>1. /\ phase = "sending" /\ Head(legs).fn = "execute"
      /\ UNCHANGED <<answers, ranked, chosen, feeBase, allow, arrived, supplied>>
      /\ UNCHANGED <<order, cost, rate, moved>>
  BY DEF Bridge!SendExecute, Bridge!World
<1>2. JourneyTyped /\ QuotesFit /\ Routed /\ order.kind \in {"plain", "compose", "swap"} /\ vm = 0
      /\ order.slippage \in 0 .. MAX_BPS
  BY <1>1, IsRouted, OrderFact DEF JourneyIInv, JourneyTyped
<1>3. Usdc \in Nat
  BY <1>2, EstimateNat DEF Routed
<1>4. PICK t : /\ BuiltFor(t) /\ order.kind = "swap"
               /\ \E m : legs = <<[fn |-> "execute", burn |-> t, minUsdc |-> m]>>
                         /\ (~moved => m = Bridge!Slip(Usdc, order.slippage))
  <2>1. PICK t : BuiltFor(t) /\
          CASE order.kind = "plain" -> legs = <<t>> /\ \A a \in DOMAIN Price : allow[a] = Allowance
            [] order.kind = "compose" ->
                 \/ (FeeApart => InApproved) /\ FeeApproved /\ legs = <<t>>
                 \/ chosen.by \in {"cctp", "ccip"} /\ ~Bridge!ErcFee(order) /\ legs = <<ApproveIn, t>>
                 \/ Bridge!ErcFee(order) /\ legs = <<ApproveIn, ApproveFee, t>>
                 \/ Bridge!ErcFee(order) /\ InApproved /\ legs = <<ApproveFee, t>>
            [] order.kind = "swap" ->
                 \E m : legs = <<[fn |-> "execute", burn |-> t, minUsdc |-> m]>>
                        /\ (~moved => m = Bridge!Slip(Usdc, order.slippage))
    BY <1>1 DEF JourneyIInv, RouteFits, LegsFit
  <2>2. t.fn = "send" /\ ApproveIn.fn = "approve" /\ ApproveFee.fn = "approve"
    BY <1>2, <2>1, BuiltSend DEF ApproveIn, ApproveFee, Bridge!ApproveLeg
  <2>3. /\ legs # <<ApproveIn, t>> /\ legs # <<ApproveIn, ApproveFee, t>>
        /\ legs # <<ApproveFee, t>> /\ legs # <<t>>
    <3>1. PICK a, f : a = ApproveIn /\ f = ApproveFee
      OBVIOUS
    <3>2. Head(<<a, t>>) = a /\ Head(<<a, f, t>>) = a /\ Head(<<f, t>>) = f /\ Head(<<t>>) = t
      OBVIOUS
    <3> QED
      BY <1>1, <2>2, <3>1, <3>2
  <2> QED
    BY <1>2, <2>1, <2>3
<1>5. PICK m : legs = <<[fn |-> "execute", burn |-> t, minUsdc |-> m]>>
               /\ (~moved => m = Bridge!Slip(Usdc, order.slippage))
  BY <1>4
<1>6. Head(legs).burn = t /\ Head(legs).minUsdc = m
  BY <1>5
<1>7. /\ \/ flight' = [t EXCEPT !.amount = Usdc] /\ phase' = "inflight"
         \/ ~(Usdc >= m) /\ flight' = flight /\ phase' = "refused"
      /\ vm' = 0
  BY <1>2, <1>3, <1>6 DEF Bridge!SendExecute, Bridge!Sent, Bridge!BurnAmount, Usdc
<1>8. PICK b : b = [t EXCEPT !.amount = Usdc]
  OBVIOUS
<1>9. BuiltFor(b) /\ b.amount = Usdc
  <2>1. t = Bridge!Transfer("cctp", t.amount, 0, 0, order.maxFee, t.program) /\ ProgramFits(t.program)
    BY <1>4 DEF BuiltFor
  <2>2. PICK n, f, p : n = t.amount /\ f = order.maxFee /\ p = t.program
    OBVIOUS
  <2>3. t = Bridge!Transfer("cctp", n, 0, 0, f, p)
    BY <2>1, <2>2
  <2>4. b = Bridge!Transfer("cctp", Usdc, 0, 0, f, p)
    BY <1>8, <2>3 DEF Bridge!Transfer
  <2>5. b.amount = Usdc /\ b.program = p
    BY <2>4, TransferFields
  <2> QED
    BY <1>3, <1>4, <2>1, <2>2, <2>4, <2>5 DEF BuiltFor
<1>10. BuiltFor(b)' /\ Usdc' = Usdc /\ Fleet' = Fleet /\ \A q : Given(q)' <=> Given(q)
  BY <1>1, <1>9, SameWorld
<1>11. JourneyTyped'
  BY <1>1, <1>2, <1>7, <1>10 DEF JourneyTyped
<1>12. QuotesFit'
  BY <1>1, <1>2, <1>7, <1>10 DEF QuotesFit, Given
<1>13. PhaseFits' /\ BaseFits' /\ RouteFits' /\ FlightFits'
  BY <1>1, <1>2, <1>4, <1>7, <1>8, <1>9, <1>10
     DEF JourneyIInv, PhaseFits, Ended, BaseFits, Asked, By, RouteFits, FlightFits
<1>14. EndsFit'
  <2>1. phase' = "refused" => moved
    BY <1>2, <1>3, <1>5, <1>7, SlipFact
  <2> QED
    BY <1>1, <1>4, <1>7, <2>1 DEF EndsFit, Bridge!RefusedForReason
<1> QED
  BY <1>11, <1>12, <1>13, <1>14 DEF JourneyIInv

LEMMA SettleKeeps ==
  ASSUME JourneyIInv, Bridge!Settle
  PROVE  JourneyIInv'
<1>1. /\ phase = "inflight"
      /\ UNCHANGED <<answers, ranked, chosen, legs, feeBase, allow, flight, vm, supplied>>
      /\ UNCHANGED <<order, cost, rate, moved>>
      /\ \/ Bridge!Arrives(flight) = {} /\ phase' = "refunded" /\ arrived' = arrived
         \/ /\ arrived' \in Bridge!Arrives(flight)
            /\ phase' = IF flight.program = Bridge!NoProgram THEN "settled" ELSE "hook"
  BY DEF Bridge!Settle, Bridge!World
<1>2. /\ JourneyTyped /\ QuotesFit /\ Routed /\ order.kind \in {"plain", "compose", "swap"}
      /\ BuiltFor(flight) /\ (order.kind = "swap" /\ ~moved => flight.amount = Usdc)
      /\ ~moved => feeBase = cost[By]
  BY <1>1, IsRouted, OrderFact DEF JourneyIInv, FlightFits, BaseFits, Asked
<1>3. /\ flight.by = By /\ By \in Fleet
      /\ order.kind = "plain" =>
           flight.program = Bridge!NoProgram /\ flight \in Bridge!BuildBridgeTx(By, order, feeBase)
      /\ order.kind # "plain" => flight.program # Bridge!NoProgram
  BY <1>2, BuiltSend
<1>4. /\ Bridge!Arrives(flight) = {} => moved
      /\ \A g \in Bridge!Arrives(flight) : g \in Nat
  <2>1. CASE order.kind = "plain"
    BY <1>2, <1>3, <2>1, PlainArrives DEF Routed
  <2>2. CASE order.kind # "plain"
    <3>1. PICK g \in Nat : Bridge!Arrives(flight) = {g}
      BY <1>2, <2>2, ComposedArrives
    <3> QED
      BY <3>1
  <2> QED
    BY <2>1, <2>2
<1>5. Bridge!Arrives(flight)' = Bridge!Arrives(flight)
  BY <1>1 DEF Bridge!Arrives, Bridge!Worth, Bridge!Monus, Bridge!AcrossFee, Bridge!StargateFee
<1>6. BuiltFor(flight)' /\ Usdc' = Usdc /\ Fleet' = Fleet /\ \A q : Given(q)' <=> Given(q)
  BY <1>1, <1>2, SameWorld
<1>7. arrived' \in Nat
  BY <1>1, <1>2, <1>4 DEF JourneyTyped
<1>8. JourneyTyped'
  BY <1>1, <1>2, <1>6, <1>7 DEF JourneyTyped
<1>9. QuotesFit'
  BY <1>1, <1>2, <1>6 DEF QuotesFit, Given
<1>10. PhaseFits' /\ BaseFits' /\ RouteFits' /\ FlightFits'
  BY <1>1, <1>2, <1>3, <1>5, <1>6
     DEF JourneyIInv, PhaseFits, Ended, BaseFits, Asked, By, RouteFits, FlightFits
<1>11. phase' = "settled" =>
         \/ arrived' >= Bridge!Slip(chosen.out, order.slippage)
         \/ moved /\ (flight.by # "gaszip" => arrived' >= Bridge!Monus(flight.min, ForwardFee))
  <2> SUFFICES ASSUME phase' = "settled"
               PROVE  \/ arrived' >= Bridge!Slip(chosen.out, order.slippage)
                      \/ moved /\ (flight.by # "gaszip" => arrived' >= Bridge!Monus(flight.min, ForwardFee))
    OBVIOUS
  <2>1. order.kind = "plain" /\ arrived' \in Bridge!Arrives(flight)
    BY <1>1, <1>2, <1>3
  <2>2. By = chosen.by /\ (~moved => chosen.out = Promised(By, order, cost[By]))
    BY <2>1, <1>2 DEF By, Routed, Given
  <2>3. /\ flight.by # "gaszip" => arrived' >= Bridge!Monus(flight.min, ForwardFee)
        /\ feeBase = cost[By] => arrived' >= Bridge!Slip(Promised(By, order, feeBase), order.slippage)
    BY <1>2, <1>3, <2>1, PlainArrives DEF Routed
  <2> QED
    BY <1>2, <2>2, <2>3
<1>12. EndsFit'
  <2>1. phase' = "refunded" => moved
    BY <1>1, <1>4
  <2>2. phase' = "settled" =>
          \/ arrived' >= Bridge!Slip(chosen.out, order.slippage)'
          \/ moved' /\ (flight'.by # "gaszip" => arrived' >= Bridge!Monus(flight.min, ForwardFee)')
    BY <1>1, <1>11 DEF Bridge!Slip, Bridge!Monus
  <2> QED
    BY <1>1, <2>1, <2>2 DEF EndsFit, Bridge!RefusedForReason
<1> QED
  BY <1>8, <1>9, <1>10, <1>12 DEF JourneyIInv

\* The program finds enough to supply until something moves.
LEMMA HookRuns ==
  ASSUME JourneyIInv, phase = "hook"
  PROVE  /\ Bridge!DepositAmount(flight.program) = Bridge!AtDest(order, arrived)
         /\ ~moved => Bridge!ProgramRuns
<1>1. /\ JourneyTyped /\ Routed /\ order.kind # "plain" /\ arrived \in Nat
      /\ BuiltFor(flight) /\ (order.kind = "swap" /\ ~moved => flight.amount = Usdc)
      /\ ~moved => arrived \in Bridge!Arrives(flight)
      /\ order.slippage \in 0 .. MAX_BPS
  BY IsRouted, OrderFact DEF JourneyIInv, PhaseFits, FlightFits, JourneyTyped
<1>2. ProgramFits(flight.program)
  BY <1>1, BuiltSend
<1>3. Bridge!DepositAmount(flight.program) = Bridge!AtDest(order, arrived)
  BY <1>2 DEF ProgramFits, Bridge!DepositAmount, Bridge!AtDest
<1>4. ASSUME ~moved PROVE Bridge!ProgramRuns
  <2>1. arrived >= Estimate /\ Estimate \in Nat
    BY <1>1, <1>4, ComposedArrives, EstimateNat DEF Routed
  <2>2. /\ Bridge!AtDest(order, Estimate) \in Nat /\ Bridge!AtDest(order, arrived) \in Nat
        /\ Bridge!AtDest(order, Estimate) <= Bridge!AtDest(order, arrived)
    BY <1>1, <2>1, DestKeeps
  <2>3. flight.program.min = Bridge!Slip(Bridge!AtDest(order, Estimate), order.slippage)
    BY <1>2, <1>4 DEF ProgramFits, Bridge!DestProgram
  <2>4. flight.program.min \in Nat /\ flight.program.min <= Bridge!AtDest(order, arrived)
    BY <1>1, <2>2, <2>3, SlipFact
  <2>5. Bridge!ProgramRuns <=>
          /\ Bridge!DepositAmount(flight.program) >= Bridge!DepositAmount(flight.program)
          /\ Bridge!DepositAmount(flight.program) >= flight.program.min
    BY DEF Bridge!ProgramRuns, Bridge!DepositAmount
  <2> QED
    BY <1>3, <2>2, <2>4, <2>5
<1> QED
  BY <1>3, <1>4

LEMMA RunDestProgramKeeps ==
  ASSUME JourneyIInv, Bridge!RunDestProgram
  PROVE  JourneyIInv'
<1>1. /\ phase = "hook" /\ phase' = "supplied" /\ supplied' = Bridge!DepositAmount(flight.program)
      /\ Bridge!DepositAmount(flight.program) >= flight.program.min
      /\ UNCHANGED <<answers, ranked, chosen, legs, feeBase, allow, flight, arrived, vm>>
      /\ UNCHANGED <<order, cost, rate, moved>>
  BY DEF Bridge!RunDestProgram, Bridge!ProgramRuns, Bridge!World
<1>2. JourneyTyped /\ QuotesFit /\ order.kind # "plain"
  BY <1>1 DEF JourneyIInv, PhaseFits
<1>3. Bridge!DepositAmount(flight.program) = Bridge!AtDest(order, arrived)
  BY <1>1, HookRuns
<1>4. Bridge!AtDest(order, arrived)' = Bridge!AtDest(order, arrived)
  BY <1>1 DEF Bridge!AtDest, Bridge!Swapped
<1>5. Fleet' = Fleet /\ \A q : Given(q)' <=> Given(q)
  BY <1>1, SameWorld
<1>6. JourneyTyped'
  BY <1>1, <1>2, <1>5 DEF JourneyTyped
<1>7. QuotesFit'
  BY <1>1, <1>2, <1>5 DEF JourneyIInv, QuotesFit, Given
<1>8. PhaseFits' /\ BaseFits' /\ RouteFits' /\ FlightFits'
  BY <1>1, <1>2 DEF PhaseFits, Ended, BaseFits, Asked, RouteFits, FlightFits
<1>9. EndsFit'
  <2>1. supplied' >= flight'.program.min /\ supplied' = Bridge!AtDest(order, arrived)'
    BY <1>1, <1>3, <1>4
  <2> QED
    BY <1>1, <2>1 DEF EndsFit, Bridge!RefusedForReason
<1> QED
  BY <1>6, <1>7, <1>8, <1>9 DEF JourneyIInv

LEMMA MoveKeeps ==
  ASSUME JourneyIInv, Bridge!Move
  PROVE  JourneyIInv'
<1>1. /\ phase \notin {"raised", "settled", "refused", "refunded", "supplied"}
      /\ moved' = TRUE /\ cost' \in [Fleet -> Costs] /\ rate' \in [{"src", "dst"} -> Rates]
      /\ UNCHANGED <<order, answers, ranked, chosen, phase, legs, feeBase>>
      /\ UNCHANGED <<allow, flight, arrived, vm, supplied>>
  <2>1. cost \in [Fleet -> Costs] /\ rate \in [{"src", "dst"} -> Rates]
    BY DEF JourneyIInv, JourneyTyped
  <2>2. cost' \in [Fleet -> Costs] /\ rate' \in [{"src", "dst"} -> Rates]
    BY <2>1 DEF Bridge!Move, Fleet
  <2> QED
    BY <2>2 DEF Bridge!Move, Bridge!Chain
<1>2. JourneyTyped /\ QuotesFit
  BY DEF JourneyIInv
<1>3. Fleet' = Fleet
  BY <1>1 DEF Fleet, Bridge!Clients, Bridge!ToSet
<1>4. ASSUME NEW q, Given(q) PROVE Given(q)'
  BY <1>1, <1>3, <1>4 DEF Given
<1>5. ASSUME NEW p, ProgramFits(p) PROVE ProgramFits(p)'
  BY <1>1, <1>5 DEF ProgramFits
<1>6. ASSUME NEW t, BuiltFor(t) PROVE BuiltFor(t)'
  <2>1. CASE order.kind = "plain"
    BY <1>1, <1>6, <2>1 DEF BuiltFor
  <2>2. CASE order.kind = "compose"
    <3>1. PICK p : ProgramFits(p) /\ t \in Bridge!ComposeSend(chosen.by, order, feeBase, p)
      BY <1>6, <2>2 DEF BuiltFor
    <3> QED
      BY <1>1, <1>5, <2>2, <3>1 DEF BuiltFor
  <2>3. CASE order.kind = "swap"
    BY <1>1, <1>5, <1>6, <2>3 DEF BuiltFor
  <2> QED
    BY <1>2, <2>1, <2>2, <2>3, OrderFact
<1>7. JourneyTyped'
  BY <1>1, <1>2, <1>3 DEF JourneyTyped
<1>8. QuotesFit'
  BY <1>1, <1>2, <1>3, <1>4 DEF QuotesFit
<1>9. ASSUME LegsFit PROVE LegsFit'
  <2>1. PICK t : BuiltFor(t) /\
          CASE order.kind = "plain" -> legs = <<t>> /\ \A a \in DOMAIN Price : allow[a] = Allowance
            [] order.kind = "compose" ->
                 \/ (FeeApart => InApproved) /\ FeeApproved /\ legs = <<t>>
                 \/ chosen.by \in {"cctp", "ccip"} /\ ~Bridge!ErcFee(order) /\ legs = <<ApproveIn, t>>
                 \/ Bridge!ErcFee(order) /\ legs = <<ApproveIn, ApproveFee, t>>
                 \/ Bridge!ErcFee(order) /\ InApproved /\ legs = <<ApproveFee, t>>
            [] order.kind = "swap" ->
                 \E m : legs = <<[fn |-> "execute", burn |-> t, minUsdc |-> m]>>
                        /\ (~moved => m = Bridge!Slip(Usdc, order.slippage))
    BY <1>9 DEF LegsFit
  <2>2. BuiltFor(t)'
    BY <1>6, <2>1
  <2>3. /\ InApproved' = InApproved /\ FeeApproved' = FeeApproved
        /\ ApproveIn' = ApproveIn /\ ApproveFee' = ApproveFee
        /\ Bridge!ErcFee(order)' = Bridge!ErcFee(order) /\ FeeApart' = FeeApart
    BY <1>1 DEF InApproved, FeeApproved, ApproveIn, ApproveFee, Bridge!ErcFee, FeeApart
  <2>4. CASE order.kind = "plain"
    BY <1>1, <2>1, <2>2, <2>4 DEF LegsFit
  <2>5. CASE order.kind = "compose"
    BY <1>1, <2>1, <2>2, <2>3, <2>5 DEF LegsFit
  <2>6. CASE order.kind = "swap"
    <3>1. PICK m : legs = <<[fn |-> "execute", burn |-> t, minUsdc |-> m]>>
      BY <2>1, <2>6
    <3> QED
      BY <1>1, <2>2, <2>6, <3>1 DEF LegsFit
  <2> QED
    BY <1>2, <2>4, <2>5, <2>6, OrderFact
<1>10. PhaseFits' /\ BaseFits' /\ FlightFits'
  BY <1>1, <1>6 DEF JourneyIInv, PhaseFits, BaseFits, Asked, FlightFits
<1>11. RouteFits'
  BY <1>1, <1>9 DEF JourneyIInv, RouteFits
<1>12. EndsFit'
  BY <1>1 DEF EndsFit, Bridge!RefusedForReason
<1> QED
  BY <1>7, <1>8, <1>10, <1>11, <1>12 DEF JourneyIInv

LEMMA JourneyStutters ==
  ASSUME JourneyIInv, UNCHANGED Bridge!vars
  PROVE  JourneyIInv'
<1>1. UNCHANGED <<order, cost, rate, answers, ranked, chosen, phase, legs, feeBase, allow, flight,
                  arrived, vm, supplied, moves, moved>>
  BY DEF Bridge!vars
<1>2. Fleet' = Fleet /\ Usdc' = Usdc /\ (\A q : Given(q)' <=> Given(q)) /\ (\A t : BuiltFor(t)' <=> BuiltFor(t))
  BY <1>1, SameWorld
<1>3. JourneyTyped'
  BY <1>1, <1>2 DEF JourneyIInv, JourneyTyped
<1>4. QuotesFit'
  BY <1>1, <1>2 DEF JourneyIInv, QuotesFit
<1>5. LegsFit => LegsFit'
  BY <1>1, <1>2 DEF LegsFit, InApproved, FeeApproved, ApproveIn, ApproveFee, Bridge!ErcFee, FeeApart
<1>6. /\ Bridge!Arrives(flight)' = Bridge!Arrives(flight)
      /\ Bridge!AtDest(order, arrived)' = Bridge!AtDest(order, arrived)
  BY <1>1 DEF Bridge!Arrives, Bridge!Worth, Bridge!Monus, Bridge!AcrossFee, Bridge!StargateFee,
     Bridge!AtDest, Bridge!Swapped
<1>7. PhaseFits' /\ BaseFits' /\ RouteFits' /\ FlightFits'
  BY <1>1, <1>2, <1>5, <1>6 DEF JourneyIInv, PhaseFits, BaseFits, Asked, By, RouteFits, FlightFits
<1>8. EndsFit'
  BY <1>1, <1>6 DEF JourneyIInv, EndsFit, Bridge!RefusedForReason, FeeApart
<1> QED
  BY <1>3, <1>4, <1>7, <1>8 DEF JourneyIInv

LEMMA JourneyStep ==
  ASSUME JourneyIInv, [Bridge!Next]_(Bridge!vars)
  PROVE  JourneyIInv'
<1>1. CASE Bridge!Next
  BY <1>1, AskKeeps, RankKeeps, ChooseKeeps, BuildApprovalsKeeps, BuildSendKeeps,
     BuildSwapRouteKeeps, SendApproveKeeps, SendTransferKeeps, SendExecuteKeeps, SettleKeeps,
     RunDestProgramKeeps, MoveKeeps DEF Bridge!Next, Fleet
<1> QED
  BY <1>1, JourneyStutters

LEMMA JourneyHolds == Bridge!Spec => []JourneyIInv
<1>1. Bridge!Init => JourneyIInv
  BY JourneyInit
<1>2. JourneyIInv /\ [Bridge!Next]_(Bridge!vars) => JourneyIInv'
  BY JourneyStep
<1> QED
  BY <1>1, <1>2, PTL DEF Bridge!Spec

\* While CCIP's fee is not paid in the token that is sent, a route's
\* transactions are refused only where a fee rose or a price fell, and what
\* settles is what was quoted unless something moved.
THEOREM QuotedIsSettled ==
  ASSUME FeeApart
  PROVE  Bridge!Spec => []SettlesAsQuoted
<1>1. JourneyIInv => SettlesAsQuoted
  BY DEF JourneyIInv, EndsFit, SettlesAsQuoted, Bridge!SettlesAsQuoted
<1> QED
  BY <1>1, JourneyHolds, PTL

\* A transfer's program supplies all that arrived, and a deposit address's
\* owner has what was sent to it, supplied or not.
THEOREM SupplyIsAccounted == Bridge!Spec /\ Deposit!Spec => []SupplyAccounted
<1>1. JourneyIInv => Bridge!ComposeSettles
  <2> SUFFICES ASSUME JourneyIInv PROVE Bridge!ComposeSettles
    OBVIOUS
  <2>1. vm = 0 /\ EndsFit
    BY DEF JourneyIInv, JourneyTyped
  <2>2. phase = "hook" /\ ~moved => Bridge!ProgramRuns
    BY HookRuns
  <2> QED
    BY <2>1, <2>2 DEF EndsFit, Bridge!ComposeSettles
<1>2. JourneyIInv /\ Deposit!DepositAccounted => SupplyAccounted
  BY <1>1 DEF SupplyAccounted
<1> QED
  BY <1>2, JourneyHolds, DepositIsAccounted, PTL

-----------------------------------------------------------------------------
(* The ranking.  Until something moves, every quote is the one its client   *)
(* would give again, and of two ranked ones the first is not the worse.     *)

Fresh(q) == ~moved => q.by \in Fleet /\ q \in Bridge!GetQuote(q.by, order, cost[q.by])

Scored(r) == Fresh(r.quote) /\ r = Bridge!Score(r.quote, order)

Before(a, b) ==
  \/ ~a.unranked /\ b.unranked
  \/ a.unranked = b.unranked /\ (a.unranked \/ a.effective > b.effective \/ a.effective = b.effective)

Ordered == \A j, k \in DOMAIN ranked : j < k => Before(ranked[j], ranked[k])

RankingIInv ==
  /\ JourneyIInv
  /\ \A b \in Fleet : answers[b].is = "quote" => Fresh(answers[b].quote)
  /\ phase = "ranked" =>
       /\ \E n \in Nat : DOMAIN ranked = 1 .. n
       /\ \A k \in DOMAIN ranked : Scored(ranked[k])
       /\ Ordered

\* A quote of an answer that came is a quote of the fee of the moment.
LEMMA AnsweredNow ==
  ASSUME JourneyTyped, NEW b \in Fleet, NEW now \in {cost[b], Bridge!Down},
         NEW q \in Bridge!GetQuote(b, order, now)
  PROVE  q \in Bridge!GetQuote(b, order, cost[b])
<1>1. b \in BridgeNames /\ cost[b] \in Nat
  BY OrderFact
<1>2. CASE now = cost[b]
  BY <1>2
<1>3. CASE now = Bridge!Down
  <2>1. b \in {"stargate", "oft", "eureka"}
    BY <1>1, <1>3 DEF BridgeNames, Bridge!GetQuote, Bridge!Answer, Bridge!QuoteAcross,
       Bridge!QuoteCctp, Bridge!QuoteRelay, Bridge!QuoteGasZip, Bridge!QuoteMayan,
       Bridge!QuoteLucid, Bridge!QuoteCcip
  <2> QED
    BY <2>1 DEF Bridge!GetQuote
<1> QED
  BY <1>2, <1>3

\* Steps after which nothing is ranked, or everything as it was.
LEMMA RankingRests ==
  ASSUME RankingIInv, JourneyIInv', UNCHANGED <<order, cost, moved, answers>>,
         phase' # "ranked" \/ UNCHANGED <<phase, ranked>>
  PROVE  RankingIInv'
<1>1. Fleet' = Fleet
  BY DEF Fleet, Bridge!Clients, Bridge!ToSet
<1>2. (\A b \in Fleet : answers[b].is = "quote" => Fresh(answers[b].quote))'
  BY <1>1 DEF RankingIInv, Fresh
<1>3. CASE phase' # "ranked"
  BY <1>1, <1>2, <1>3 DEF RankingIInv
<1>4. CASE UNCHANGED <<phase, ranked>>
  <2>1. phase = "ranked" => (\A k \in DOMAIN ranked : Scored(ranked[k]))'
    BY <1>1, <1>4 DEF RankingIInv, Scored, Fresh
  <2> QED
    BY <1>1, <1>2, <1>4, <2>1 DEF RankingIInv, Ordered
<1> QED
  BY <1>3, <1>4

LEMMA RankingMoves ==
  ASSUME RankingIInv, JourneyIInv', Bridge!Move
  PROVE  RankingIInv'
<1>1. moved' = TRUE /\ UNCHANGED <<order, answers, ranked, phase>>
  BY DEF Bridge!Move
<1>2. (\A b \in Fleet : answers[b].is = "quote" => Fresh(answers[b].quote))'
  BY <1>1 DEF Fresh
<1>3. phase = "ranked" => (\A k \in DOMAIN ranked : Scored(ranked[k]))'
  BY <1>1 DEF RankingIInv, Scored, Fresh
<1> QED
  BY <1>1, <1>2, <1>3 DEF RankingIInv, Ordered

LEMMA RankingAsks ==
  ASSUME RankingIInv, JourneyIInv', NEW b \in Fleet, Bridge!Ask(b)
  PROVE  RankingIInv'
<1>1. phase = "asking" /\ phase' = phase /\ UNCHANGED <<order, cost, moved>>
  BY DEF Bridge!Ask, Bridge!World
<1>2. JourneyTyped
  BY DEF RankingIInv, JourneyIInv
<1>3. PICK now \in {cost[b], Bridge!Down}, raises \in BOOLEAN :
        LET quotes == Bridge!GetQuote(b, order, now) IN
        answers' = [answers EXCEPT ![b] =
          IF raises THEN [is |-> "raised", quote |-> Bridge!NoQuote]
          ELSE IF quotes = {} THEN [is |-> "dropped", quote |-> Bridge!NoQuote]
          ELSE [is |-> "quote", quote |-> CHOOSE q \in quotes : TRUE]]
  BY DEF Bridge!Ask
<1>4. PICK quotes : quotes = Bridge!GetQuote(b, order, now)
  OBVIOUS
<1>5. PICK a : a = IF raises THEN [is |-> "raised", quote |-> Bridge!NoQuote]
                   ELSE IF quotes = {} THEN [is |-> "dropped", quote |-> Bridge!NoQuote]
                   ELSE [is |-> "quote", quote |-> CHOOSE q \in quotes : TRUE]
  OBVIOUS
<1>6. answers' = [answers EXCEPT ![b] = a]
  BY <1>3, <1>4, <1>5
<1>7. quotes # {} => (CHOOSE q \in quotes : TRUE) \in quotes
  OBVIOUS
<1>8. a.is = "quote" => Fresh(a.quote)
  <2>1. a.is = "quote" => a.quote \in quotes
    BY <1>5, <1>7
  <2>2. a.is = "quote" => a.quote \in Bridge!GetQuote(b, order, cost[b])
    BY <1>2, <1>4, <2>1, AnsweredNow
  <2>3. a.is = "quote" => a.quote.by = b
    BY <1>2, <1>4, <2>1, QuotesPromise
  <2> QED
    BY <2>2, <2>3 DEF Fresh
<1>9. \A d \in Fleet : answers'[d] = IF d = b THEN a ELSE answers[d]
  BY <1>2, <1>6 DEF JourneyTyped
<1>10. Fleet' = Fleet
  BY <1>1 DEF Fleet, Bridge!Clients, Bridge!ToSet
<1>11. (\A d \in Fleet : answers[d].is = "quote" => Fresh(answers[d].quote))'
  BY <1>1, <1>8, <1>9, <1>10 DEF RankingIInv, Fresh
<1> QED
  BY <1>1, <1>10, <1>11 DEF RankingIInv

LEMMA RankingRanks ==
  ASSUME RankingIInv, JourneyIInv', Bridge!Rank
  PROVE  RankingIInv'
<1>1. phase' \in {"raised", "ranked"} /\ UNCHANGED <<order, cost, moved, answers>>
  BY DEF Bridge!Rank, Bridge!World
<1>2. CASE phase' = "raised"
  BY <1>1, <1>2, RankingRests
<1>3. CASE phase' = "ranked"
  <2>1. PICK quotes : quotes = [k \in Bridge!Quoting |-> answers[order.fleet[k]].quote]
    OBVIOUS
  <2>2. ranked' \in Bridge!RankBridgeQuotes(quotes, order)
    BY <1>3, <2>1 DEF Bridge!Rank
  <2>3. PICK r : r = [i \in DOMAIN quotes |-> Bridge!Score(quotes[i], order)]
    OBVIOUS
  <2>4. ranked' \in Bridge!Sorted(r)
    BY <2>2, <2>3 DEF Bridge!RankBridgeQuotes
  <2>5. PICK n : n = Bridge!Cardinality(DOMAIN r)
    OBVIOUS
  <2>6. PICK f \in [1 .. n -> DOMAIN r] :
          /\ ranked' = [k \in DOMAIN f |-> r[f[k]]]
          /\ \A j, k \in DOMAIN f : j < k => Bridge!Precedes(r, f[j], f[k])
    <3> DEFINE S == {p \in [1 .. n -> DOMAIN r] :
                       \A j, k \in DOMAIN p : j < k => Bridge!Precedes(r, p[j], p[k])}
    <3>1. \A f \in S : /\ f \in [1 .. n -> DOMAIN r]
                       /\ \A j, k \in DOMAIN f : j < k => Bridge!Precedes(r, f[j], f[k])
      OBVIOUS
    <3>2. Bridge!Sorted(r) = {[k \in DOMAIN f |-> r[f[k]]] : f \in S}
      BY <2>5 DEF Bridge!Sorted
    <3> HIDE DEF S
    <3>3. \E f \in S : ranked' = [k \in DOMAIN f |-> r[f[k]]]
      BY <2>4, <3>2
    <3> QED
      BY <3>1, <3>3
  <2>7. n \in Nat
    <3>1. order.fleet \in Seq(BridgeNames)
      BY BridgeAssumption DEF RankingIInv, JourneyIInv, JourneyTyped
    <3>2. DOMAIN order.fleet = 1 .. Len(order.fleet) /\ Len(order.fleet) \in Nat
      BY <3>1
    <3>3. DOMAIN r \subseteq DOMAIN order.fleet
      BY <2>1, <2>3 DEF Bridge!Quoting
    <3>4. PICK m \in Int : m = Len(order.fleet) /\ IsFiniteSet(1 .. m)
      BY <3>2, FS_Interval
    <3>5. IsFiniteSet(DOMAIN r)
      BY <3>2, <3>3, <3>4, FS_Subset
    <3>6. Bridge!Cardinality(DOMAIN r) = Cardinality(DOMAIN r)
      BY DEF Bridge!Cardinality, Cardinality
    <3> QED
      BY <2>5, <3>5, <3>6, FS_CardinalityType
  <2>8. DOMAIN ranked' = 1 .. n
    BY <2>6
  <2>9. ASSUME NEW k \in DOMAIN ranked' PROVE Scored(ranked'[k])
    <3>1. f[k] \in DOMAIN quotes /\ ranked'[k] = Bridge!Score(quotes[f[k]], order)
      BY <2>3, <2>6, <2>9
    <3>2. ranked'[k].quote = quotes[f[k]]
      BY <3>1 DEF Bridge!Score
    <3>3. PICK j \in DOMAIN order.fleet :
            answers[order.fleet[j]].is = "quote" /\ quotes[f[k]] = answers[order.fleet[j]].quote
      BY <2>1, <3>1 DEF Bridge!Quoting
    <3>4. order.fleet[j] \in Fleet
      BY DEF Fleet, Bridge!Clients, Bridge!ToSet
    <3>5. Fresh(quotes[f[k]])
      BY <3>3, <3>4 DEF RankingIInv
    <3> QED
      BY <3>1, <3>2, <3>5 DEF Scored
  <2>10. ASSUME NEW j \in DOMAIN ranked', NEW k \in DOMAIN ranked', j < k
         PROVE  Before(ranked'[j], ranked'[k])
    <3>1. Bridge!Precedes(r, f[j], f[k]) /\ ranked'[j] = r[f[j]] /\ ranked'[k] = r[f[k]]
      BY <2>6, <2>10
    <3>2. r[f[j]] = Bridge!Score(quotes[f[j]], order) /\ r[f[k]] = Bridge!Score(quotes[f[k]], order)
      BY <2>3, <2>6, <2>10
    <3>3. r[f[j]].unranked \in BOOLEAN /\ r[f[k]].unranked \in BOOLEAN
      BY <3>2 DEF Bridge!Score
    <3> QED
      BY <3>1, <3>3 DEF Bridge!Precedes, Before
  <2>11. Fleet' = Fleet
    BY <1>1 DEF Fleet, Bridge!Clients, Bridge!ToSet
  <2>12. (\A b \in Fleet : answers[b].is = "quote" => Fresh(answers[b].quote))'
    BY <1>1, <2>11 DEF RankingIInv, Fresh
  <2>13. (\A k \in DOMAIN ranked : Scored(ranked[k]))'
    BY <1>1, <2>9, <2>11 DEF Scored, Fresh
  <2> QED
    BY <1>1, <2>7, <2>8, <2>10, <2>11, <2>12, <2>13 DEF RankingIInv, Ordered
<1> QED
  BY <1>1, <1>2, <1>3

LEMMA RankingStep ==
  ASSUME RankingIInv, [Bridge!Next]_(Bridge!vars)
  PROVE  RankingIInv'
<1>1. JourneyIInv'
  BY JourneyStep DEF RankingIInv
<1>2. CASE \E b \in Fleet : Bridge!Ask(b)
  BY <1>1, <1>2, RankingAsks
<1>3. CASE Bridge!Rank
  BY <1>1, <1>3, RankingRanks
<1>4. CASE Bridge!Move
  BY <1>1, <1>4, RankingMoves
<1>5. CASE Bridge!Choose
  <2>1. phase' # "ranked" /\ UNCHANGED <<order, cost, moved, answers>>
    BY <1>5 DEF Bridge!Choose, Bridge!World
  <2> QED
    BY <1>1, <2>1, RankingRests
<1>6. CASE Bridge!BuildApprovals \/ Bridge!BuildSend \/ Bridge!BuildSwapRoute
  <2>1. phase' # "ranked" /\ UNCHANGED <<order, cost, moved, answers>>
    BY <1>6 DEF Bridge!BuildApprovals, Bridge!BuildSend, Bridge!BuildSwapRoute, Bridge!World
  <2> QED
    BY <1>1, <2>1, RankingRests
<1>7. CASE Bridge!SendApprove \/ Bridge!SendTransfer \/ Bridge!SendExecute
  <2>1. phase' # "ranked" /\ UNCHANGED <<order, cost, moved, answers>>
    BY <1>7 DEF Bridge!SendApprove, Bridge!SendTransfer, Bridge!SendExecute, Bridge!Sent, Bridge!World
  <2> QED
    BY <1>1, <2>1, RankingRests
<1>8. CASE Bridge!Settle \/ Bridge!RunDestProgram
  <2>1. phase' # "ranked" /\ UNCHANGED <<order, cost, moved, answers>>
    BY <1>8 DEF Bridge!Settle, Bridge!RunDestProgram, Bridge!World
  <2> QED
    BY <1>1, <2>1, RankingRests
<1>9. CASE UNCHANGED Bridge!vars
  <2>1. UNCHANGED <<order, cost, moved, answers, phase, ranked>>
    BY <1>9 DEF Bridge!vars
  <2> QED
    BY <1>1, <2>1, RankingRests
<1> QED
  BY <1>2, <1>3, <1>4, <1>5, <1>6, <1>7, <1>8, <1>9 DEF Bridge!Next, Fleet

LEMMA RankingHolds == Bridge!Spec => []RankingIInv
<1>1. Bridge!Init => RankingIInv
  <2> SUFFICES ASSUME Bridge!Init PROVE RankingIInv
    OBVIOUS
  <2>1. JourneyIInv
    BY JourneyInit
  <2>2. phase # "ranked"
    BY DEF Bridge!Init
  <2>3. \A b \in Fleet : answers[b].is # "quote"
    BY DEF Bridge!Init, Fleet, Bridge!Clients
  <2> QED
    BY <2>1, <2>2, <2>3 DEF RankingIInv
<1>2. RankingIInv /\ [Bridge!Next]_(Bridge!vars) => RankingIInv'
  BY RankingStep
<1> QED
  BY <1>1, <1>2, PTL DEF Bridge!Spec

-----------------------------------------------------------------------------
\* What a client's fee is worth where it is paid on top of the amount and
\* quoted, and what its quote then promises.
Separately(b, c) ==
  CASE b = "ccip" -> c * Price[order.feeToken]
    [] b = "lucid" -> c * Price[Bridge!NativeAddr]
    [] OTHER -> 0

Effective(b) == Promised(b, order, cost[b]) - Separately(b, cost[b])

\* The transfers keep to the quotes: CCTP's fee is within the one the transfer
\* allows, so that it goes fast and pays it; a fee on top is worth no more than
\* the amount; Lucid's buffer on top of its fee is within the slippage.
FeesFit ==
  /\ "cctp" \in Fleet => cost["cctp"] <= order.maxFee
  /\ \A b \in Fleet : Separately(b, cost[b]) <= order.amount
  /\ "lucid" \in Fleet =>
       order.amount - Bridge!Buffered(order, cost["lucid"]) * Price[Bridge!NativeAddr]
         >= Bridge!Slip(Effective("lucid"), order.slippage)

LEMMA SlipKeeps ==
  ASSUME NEW x \in Int, NEW y \in Int, x <= y, NEW s \in 0 .. MAX_BPS
  PROVE  /\ Bridge!Slip(x, s) \in Int /\ Bridge!Slip(y, s) \in Int
         /\ Bridge!Slip(x, s) <= Bridge!Slip(y, s)
<1>1. PICK w \in Nat \ {0} : w = MAX_BPS
  BY BridgeAssumption
<1>2. PICK r \in Nat : r = w - s
  BY <1>1
<1>3. PICK a \in Int, b \in Int : a = x * r /\ b = y * r
  OBVIOUS
<1>4. a <= b
  BY <1>3
<1>5. a \div w \in Int /\ b \div w \in Int /\ a \div w <= b \div w
  BY <1>4
<1> QED
  BY <1>1, <1>2, <1>3, <1>5 DEF Bridge!Slip

LEMMA WorthFact ==
  ASSUME JourneyTyped, NEW b \in Fleet
  PROVE  /\ cost[b] \in Nat /\ Price[order.feeToken] \in Nat /\ Price[Bridge!NativeAddr] \in Nat
         /\ Separately(b, cost[b]) \in Nat /\ Promised(b, order, cost[b]) \in Nat
         /\ Effective(b) \in Int /\ order.amount \in Nat
<1>1. /\ cost[b] \in Nat /\ Price[order.feeToken] \in Nat /\ Price[Bridge!NativeAddr] \in Nat
      /\ order.amount \in Nat
  BY OrderFact, BridgeAssumption
<1>2. PICK c \in Nat, p \in Nat, n \in Nat :
        c = cost[b] /\ p = Price[order.feeToken] /\ n = Price[Bridge!NativeAddr]
  BY <1>1
<1>3. c * p \in Nat /\ c * n \in Nat
  OBVIOUS
<1>4. Separately(b, cost[b]) \in Nat
  BY <1>2, <1>3 DEF Separately
<1>5. Promised(b, order, cost[b]) \in Nat
  BY <1>1, PromisedNat
<1> QED
  BY <1>1, <1>4, <1>5 DEF Effective

\* A quote is ranked by what it promises less the fee that is paid on top.
LEMMA ScoredEffective ==
  ASSUME JourneyTyped, NEW b \in Fleet, NEW q \in Bridge!GetQuote(b, order, cost[b]),
         ~Bridge!Score(q, order).unranked
  PROVE  Bridge!Score(q, order).effective = Effective(b)
<1>1. q.by = b /\ q.out = Promised(b, order, cost[b]) /\ q.out \in Nat
  BY QuotesPromise, WorthFact
<1>2. CASE b \in {"ccip", "lucid"}
  <2> DEFINE token == IF b = "ccip" THEN order.feeToken ELSE Bridge!NativeAddr
  <2>1. PICK c \in Nat, p \in Nat : c = cost[b] /\ p = Price[token]
    BY WorthFact
  <2>2. q.in = order.amount /\ q.out = order.amount /\ q.feeToken = token /\ q.fee = c
    BY <1>2, <2>1 DEF Bridge!GetQuote, Bridge!Quoted, Bridge!Answer, Bridge!QuoteCcip, Bridge!QuoteLucid
  <2>3. Effective(b) = q.out - c * p
    BY <1>1, <1>2, <2>1 DEF Effective, Separately
  <2>4. CASE Bridge!Netted(q, order)
    <3>1. c = 0
      BY <1>1, <2>2, <2>4 DEF Bridge!Netted
    <3> QED
      BY <1>1, <2>3, <2>4, <3>1 DEF Bridge!Score
  <2>5. CASE ~Bridge!Netted(q, order)
    <3>1. Bridge!Converted(q) # {}
      BY <2>5 DEF Bridge!Score
    <3>2. Bridge!Converted(q) = {c * p}
      BY <2>1, <2>2, <3>1 DEF Bridge!Converted
    <3> QED
      BY <2>3, <2>5, <3>2 DEF Bridge!Score
  <2> QED
    BY <2>4, <2>5
<1>3. CASE b \notin {"ccip", "lucid"}
  <2>1. Bridge!Converted(q) = {}
    BY <1>1, <1>3 DEF Bridge!Converted
  <2>2. Bridge!Score(q, order).effective = q.out
    BY <2>1 DEF Bridge!Score
  <2> QED
    BY <1>1, <1>3, <2>2 DEF Effective, Separately
<1> QED
  BY <1>2, <1>3

\* No transfer delivers more than its client promises, and what CCIP and Lucid
\* deliver is the amount.
LEMMA AtMostPromised ==
  ASSUME JourneyTyped, FeesFit, NEW b \in Fleet,
         NEW t \in Bridge!BuildBridgeTx(b, order, cost[b]), NEW g \in Bridge!Arrives(t)
  PROVE  g <= Promised(b, order, cost[b]) /\ (b \in {"ccip", "lucid"} => g = order.amount)
<1> DEFINE P == Promised(b, order, cost[b])
<1>1. /\ t.by = b /\ t.amount = order.amount /\ t.min = Least(b, order, cost[b])
      /\ t.maxFee = MaxFeeOf(b, order)
  BY TransferBuilt, TransferFields, OrderFact
<1>2. b \in BridgeNames /\ order.slippage \in 0 .. MAX_BPS
  BY OrderFact
<1>3. P \in Nat /\ Bridge!Slip(P, order.slippage) <= P
  BY <1>2, WorthFact, SlipFact
<1>4. CASE b = "across"
  <2>1. t.min = Bridge!Slip(P, order.slippage)
    BY <1>1, <1>4 DEF Least
  <2>2. g = t.min
    BY <1>1, <1>4 DEF Bridge!Arrives
  <2> QED
    BY <1>3, <1>4, <2>1, <2>2
<1>5. CASE b \in {"stargate", "oft", "relay", "lucid", "ccip", "eureka"}
  <2>1. g = P
    BY <1>1, <1>5 DEF Bridge!Arrives, Promised, Least
  <2>2. b \in {"ccip", "lucid"} => P = order.amount
    BY DEF Promised
  <2> QED
    BY <1>3, <2>1, <2>2
<1>6. CASE b = "cctp"
  <2>1. t.maxFee >= cost["cctp"]
    BY <1>1, <1>6 DEF FeesFit, MaxFeeOf
  <2>2. g = P
    BY <1>1, <1>6, <2>1 DEF Bridge!Arrives, Promised, Bridge!CctpFee
  <2> QED
    BY <1>3, <1>6, <2>2
<1>7. CASE b \in {"gaszip", "mayan"}
  <2>1. g = P
    BY <1>1, <1>7 DEF Bridge!Arrives, Promised, Bridge!SolverOut
  <2> QED
    BY <1>3, <1>7, <2>1
<1> QED
  BY <1>2, <1>4, <1>5, <1>6, <1>7 DEF BridgeNames

\* Lucid's buffer is on top of the fee.
LEMMA BufferedFact ==
  ASSUME JourneyTyped, NEW c \in Nat
  PROVE  Bridge!Buffered(order, c) \in Nat /\ c <= Bridge!Buffered(order, c)
<1>1. PICK w \in Nat \ {0}, u \in Nat : w = MAX_BPS /\ u = order.buffer
  BY BridgeAssumption, OrderFact
<1>2. c * w \in Nat /\ c * (w + u) \in Nat /\ c * w <= c * (w + u)
  BY TimesKeeps
<1>3. (c * w) \div w <= (c * (w + u)) \div w /\ (c * (w + u)) \div w \in Nat
  BY <1>2, DivKeeps
<1>4. (c * w) \div w = c
  OBVIOUS
<1> QED
  BY <1>1, <1>3, <1>4 DEF Bridge!Buffered

\* What a client nets lies between its quote and its quote less the slippage,
\* below it only where the quote does not name a message's fee.
LEMMA NetFact ==
  ASSUME JourneyTyped, FeesFit, NEW b \in Fleet, Bridge!Buildable(b)
  PROVE  /\ Bridge!Net(b) \in Int /\ Bridge!Net(b) <= Effective(b)
         /\ Bridge!PriceNamed(b) => Bridge!Net(b) >= Bridge!Slip(Effective(b), order.slippage)
<1>1. PICK t : t = CHOOSE x \in Bridge!BuildBridgeTx(b, order, cost[b]) : TRUE
  OBVIOUS
<1>2. t \in Bridge!BuildBridgeTx(b, order, cost[b])
  BY <1>1 DEF Bridge!Buildable
<1>3. PICK g : g = CHOOSE x \in Bridge!Arrives(t) : TRUE
  OBVIOUS
<1>4. cost[b] \in Costs /\ order.slippage \in 0 .. MAX_BPS
  BY OrderFact
<1>5. Bridge!Arrives(t) # {} /\ g \in Bridge!Arrives(t)
  BY <1>2, <1>3, <1>4, PlainArrives
<1>6. g \in Nat /\ g >= Bridge!Slip(Promised(b, order, cost[b]), order.slippage)
  BY <1>2, <1>4, <1>5, PlainArrives
<1>7. g <= Promised(b, order, cost[b]) /\ (b \in {"ccip", "lucid"} => g = order.amount)
  BY <1>2, <1>5, AtMostPromised
<1>8. t.value = Valued(b, order, cost[b])
  BY <1>2, <1>4, TransferBuilt, TransferFields
<1> DEFINE apart == IF b = "ccip" THEN cost[b] * Price[order.feeToken]
                    ELSE IF b \in {"stargate", "oft", "lucid"} THEN t.value * Price[Bridge!NativeAddr]
                    ELSE 0
<1>9. Bridge!Net(b) = g - apart
  BY <1>1, <1>3, <1>5 DEF Bridge!Net
<1>10. PICK c \in Nat, n \in Nat, e \in Int :
         c = cost[b] /\ n = Price[Bridge!NativeAddr] /\ e = Effective(b)
  BY WorthFact
<1>11. c * n \in Nat
  OBVIOUS
<1>12. CASE b = "ccip"
  <2>1. apart = Separately(b, cost[b])
    BY <1>12 DEF Separately
  <2>2. PICK s \in Nat : s = apart /\ s <= order.amount
    BY <2>1, WorthFact DEF FeesFit
  <2>3. e = g - s /\ e \in Nat
    BY <1>6, <1>7, <1>10, <1>12, <2>1, <2>2 DEF Effective, Promised
  <2> QED
    BY <1>4, <1>9, <1>10, <2>2, <2>3, SlipFact
<1>13. CASE b = "lucid"
  <2>1. PICK v \in Nat : v = Bridge!Buffered(order, c) /\ c <= v
    BY BufferedFact
  <2>2. v * n \in Nat /\ c * n <= v * n
    BY <2>1, TimesKeeps
  <2>3. apart = v * n
    BY <1>8, <1>10, <1>13, <2>1 DEF Valued
  <2>4. e = g - c * n
    BY <1>7, <1>10, <1>13 DEF Effective, Promised, Separately
  <2>5. g - v * n >= Bridge!Slip(Effective(b), order.slippage)
    BY <1>7, <1>10, <1>13, <2>1 DEF FeesFit
  <2> QED
    BY <1>6, <1>9, <1>10, <1>11, <2>2, <2>3, <2>4, <2>5
<1>14. CASE b \in {"stargate", "oft"}
  <2>1. apart = c * n
    BY <1>8, <1>10, <1>14 DEF Valued
  <2>2. e = Promised(b, order, cost[b])
    BY <1>10, <1>14, WorthFact DEF Effective, Separately
  <2>3. Bridge!PriceNamed(b) => c * n = 0
    BY <1>10, <1>14 DEF Bridge!PriceNamed
  <2> QED
    BY <1>6, <1>7, <1>9, <1>10, <1>11, <2>1, <2>2, <2>3
<1>15. CASE b \notin {"ccip", "lucid", "stargate", "oft"}
  <2>1. apart = 0
    BY <1>15
  <2>2. e = Promised(b, order, cost[b])
    BY <1>10, <1>15, WorthFact DEF Effective, Separately
  <2> QED
    BY <1>6, <1>7, <1>9, <1>10, <2>1, <2>2
<1> QED
  BY <1>12, <1>13, <1>14, <1>15

\* Wherever the fees fit the quotes, the first of the ranked quotes leaves the
\* recipient with the most, up to the slippage: for any fleet, order, costs and
\* prices.
THEOREM FirstIsTheBest == Bridge!Spec => [](FeesFit => FirstIsBest)
<1>1. RankingIInv /\ FeesFit => FirstIsBest
  <2> SUFFICES ASSUME RankingIInv, FeesFit, phase = "ranked", ~moved, NEW r \in Bridge!ToSet(ranked)
               PROVE  LET first == ranked[1].quote.by IN
                      /\ ranked[1].unranked => r.unranked
                      /\ ~ranked[1].unranked /\ Bridge!Buildable(first) /\ Bridge!PriceNamed(first) =>
                           (~r.unranked /\ Bridge!Buildable(r.quote.by) =>
                              Bridge!Net(first) >= Bridge!Slip(Bridge!Net(r.quote.by), order.slippage))
    BY DEF FirstIsBest, Bridge!FirstIsBest
  <2>1. JourneyTyped /\ order.slippage \in 0 .. MAX_BPS
    BY OrderFact DEF RankingIInv, JourneyIInv
  <2>2. PICK k \in DOMAIN ranked : r = ranked[k]
    BY DEF Bridge!ToSet
  <2>3. 1 \in DOMAIN ranked /\ (k # 1 => 1 < k)
    BY DEF RankingIInv
  <2>4. PICK f : f = ranked[1]
    OBVIOUS
  <2>5. r = f \/ Before(f, r)
    BY <2>2, <2>3, <2>4 DEF RankingIInv, Ordered
  <2>6. Scored(f) /\ Scored(r)
    BY <2>2, <2>3, <2>4 DEF RankingIInv
  <2>7. f.unranked => r.unranked
    BY <2>5 DEF Before
  <2>8. ASSUME ~f.unranked, Bridge!Buildable(f.quote.by), Bridge!PriceNamed(f.quote.by),
               ~r.unranked, Bridge!Buildable(r.quote.by)
        PROVE  Bridge!Net(f.quote.by) >= Bridge!Slip(Bridge!Net(r.quote.by), order.slippage)
    <3>1. PICK a \in Fleet, b \in Fleet : a = f.quote.by /\ b = r.quote.by
      BY <2>6 DEF Scored, Fresh
    <3>2. f.effective = Effective(a)
      BY <2>1, <2>6, <2>8, <3>1, ScoredEffective DEF Scored, Fresh
    <3>3. r.effective = Effective(b)
      BY <2>1, <2>6, <2>8, <3>1, ScoredEffective DEF Scored, Fresh
    <3>4. PICK x \in Int, y \in Int : x = Effective(a) /\ y = Effective(b) /\ y <= x
      BY <2>1, <2>5, <2>8, <3>2, <3>3, WorthFact DEF Before
    <3>5. Bridge!Net(a) \in Int /\ Bridge!Net(a) >= Bridge!Slip(x, order.slippage)
      BY <2>1, <2>8, <3>1, <3>4, NetFact
    <3>6. PICK z \in Int : z = Bridge!Net(b) /\ z <= y
      BY <2>1, <2>8, <3>1, <3>4, NetFact
    <3>7. z <= x
      BY <3>4, <3>6
    <3>8. Bridge!Slip(z, order.slippage) <= Bridge!Slip(x, order.slippage)
          /\ Bridge!Slip(z, order.slippage) \in Int /\ Bridge!Slip(x, order.slippage) \in Int
      BY <2>1, <3>7, SlipKeeps
    <3> QED
      BY <3>1, <3>5, <3>6, <3>8
  <2> QED
    BY <2>4, <2>7, <2>8
<1> QED
  BY <1>1, RankingHolds, PTL

-----------------------------------------------------------------------------
(* UniversalRouter.  A transaction is a chain of legs: each spends what the *)
(* leg before it has brought into the router, and only the first may take   *)
(* from the user, only the last pays the recipient.                         *)

Accounts == {"user", "payee", "router"}
Wallets == [Coins -> Int]
Routes == {p \in Seq(Coins \ {Ether}) :
             Len(p) >= 2 /\ \A j, k \in DOMAIN p : p[j] = p[k] => j = k}
LastOf(p) == p[Len(p)]

RouterTyped ==
  /\ bal \in [Accounts -> Wallets] /\ delta \in Wallets /\ dry \in BOOLEAN
  /\ tx \in [pc : {"idle", "sent"}, n : Nat, exact : {"in", "out"}, in : Coins, out : Coins,
             amount : Nat, limit : Nat, byUser : BOOLEAN,
             before : [bal : [Accounts -> Wallets], dry : BOOLEAN]]

\* How a first leg pays for its swap in the PoolManager: the user up to a
\* limit, or the router what is owed, or x.
Bill(t, l, b) ==
  IF b THEN Router!SettleAll(t, l) ELSE Router!Settle(t, Router!OPEN_DELTA, FALSE)
Pays(t, x, b) ==
  IF b THEN {Router!SettleAll(t, x)}
  ELSE {Router!Settle(t, Router!OPEN_DELTA, FALSE), Router!Settle(t, x, FALSE)}

\* The V4_SWAP of a first leg, and of a later one.
SwapPayTake(p, x, min, pay, to) ==
  Router!V4Swap(<<Router!V4In(p, x, min), pay, Router!TakeTo(LastOf(p), to, Router!OPEN_DELTA)>>)
PaySwapTake(p, min, to) ==
  Router!V4Swap(<<Router!Settle(p[1], Router!CONTRACT_BALANCE, FALSE),
                  Router!V4In(p, Router!OPEN_DELTA, min),
                  Router!TakeTo(LastOf(p), to, Router!OPEN_DELTA)>>)

\* The V4_SWAP of an exact output.
SwapOutPayTake(p, x, max, b) ==
  Router!V4Swap(<<Router!V4Out(p, x, max), Bill(p[1], max, b),
                  Router!TakeTo(LastOf(p), "payee", Router!OPEN_DELTA)>>)

\* Command c takes path p, spends x of its first token (all that the router
\* holds of it when x is CONTRACT_BALANCE) and brings min or more to `to`.
IsLeg(c, p, to, min, x, b) ==
  \/ c = Router!V2SwapIn(to, x, min, p, b)
  \/ c = Router!V3SwapIn(to, x, min, p, b)
  \/ x \in Nat /\ \E pay \in Pays(p[1], x, b) : c = SwapPayTake(p, x, min, pay, to)
  \/ x = Router!CONTRACT_BALANCE /\ ~b /\ c = PaySwapTake(p, min, to)

PathOf(c) ==
  IF c.op # "v4" THEN c.path
  ELSE IF c.actions[1].op = "v4in" THEN c.actions[1].path ELSE c.actions[2].path

\* The commands s are legs, each from where the one before it ends, to the end
\* of the order; the first one spends x, of the user's if b.
Legs(s, x, b, o) ==
  /\ s \in Seq({s[k] : k \in DOMAIN s}) /\ s # << >>
  /\ \A k \in 1 .. Len(s) :
       /\ PathOf(s[k]) \in Routes
       /\ IsLeg(s[k], PathOf(s[k]), IF k = Len(s) THEN "payee" ELSE "router",
                IF k = Len(s) THEN o.limit ELSE 0,
                IF k = 1 THEN x ELSE Router!CONTRACT_BALANCE, k = 1 /\ b)
       /\ LastOf(PathOf(s[k])) = IF k = Len(s) THEN o.out ELSE PathOf(s[k + 1])[1]

\* A leg that brings min of token u to `to` has the commands s after it.
Remains(s, u, to, min, o) ==
  \/ s = << >> /\ u = o.out /\ to = "payee" /\ min = o.limit
  \/ /\ Legs(s, Router!CONTRACT_BALANCE, FALSE, o) /\ u = PathOf(s[1])[1]
     /\ to = "router" /\ min = 0

\* Of balances w: the user has spent m of the input at most, and nothing else.
Spent(w, m) ==
  \A t \in Coins :
    IF t = tx.in
    THEN w["user"][t] \in tx.before.bal["user"][t] - m .. tx.before.bal["user"][t]
    ELSE w["user"][t] = tx.before.bal["user"][t]
\* The recipient has what they had.
PayeeKept(w) == \A t \in Coins : w["payee"][t] = tx.before.bal["payee"][t]
\* The router holds nothing, unless a pool ran dry.
HoldsNothing(w, d) == ~d => \A t \in Coins : w["router"][t] = 0

\* The recipient has what was ordered, and nothing else.
PaidOut ==
  \A t \in Coins :
    IF t # tx.out THEN bal["payee"][t] = tx.before.bal["payee"][t]
    ELSE IF tx.exact = "in" THEN bal["payee"][t] >= tx.before.bal["payee"][t] + tx.limit
    ELSE bal["payee"][t] = tx.before.bal["payee"][t] + tx.amount

\* The router holds nothing but token t, and no more of it than x.
HoldsOnly(t, x, b) ==
  ~dry => \A u \in Coins :
            IF u # t THEN bal["router"][u] = 0
            ELSE /\ bal["router"][u] \in Nat
                 /\ x >= 0 => bal["router"][u] <= IF b THEN 0 ELSE x

\* Before a leg has spent x of token t.
Ready(t, x, b) ==
  /\ tx.exact = "in" /\ (b => t = tx.in /\ x = tx.amount)
  /\ Spent(bal, IF b THEN 0 ELSE tx.amount) /\ PayeeKept(bal) /\ HoldsOnly(t, x, b)

\* After it.
Underway(w, d) == tx.exact = "in" /\ Spent(w, tx.amount) /\ PayeeKept(w) /\ HoldsNothing(w, d)

\* All is paid.
Settled ==
  /\ Spent(bal, IF tx.exact = "in" THEN tx.amount ELSE tx.limit)
  /\ PaidOut /\ HoldsNothing(bal, dry)

AtLegs(s) ==
  \E x \in Nat \union {Router!CONTRACT_BALANCE}, b \in BOOLEAN :
    Legs(s, x, b, tx) /\ Ready(PathOf(s[1])[1], x, b)

\* Between two commands.
FormLegs == acts = << >> /\ delta = Router!Nothing /\ AtLegs(todo)
FormWrap ==
  /\ acts = << >> /\ delta = Router!Nothing
  /\ todo \in Seq({todo[k] : k \in DOMAIN todo}) /\ Len(todo) > 1
  /\ Head(todo) = Router!WrapEth("router", tx.amount)
  /\ Legs(Tail(todo), tx.amount, FALSE, tx) /\ PathOf(Tail(todo)[1])[1] = WrappedEther
  /\ Ready(Ether, tx.amount, FALSE)
FormDone == acts = << >> /\ todo = << >> /\ delta = Router!Nothing /\ Settled
FormOut ==
  /\ acts = << >> /\ delta = Router!Nothing
  /\ tx.exact = "out" /\ Spent(bal, 0) /\ PayeeKept(bal) /\ HoldsNothing(bal, dry)
  /\ \E p \in Routes, b \in BOOLEAN :
       /\ p[1] = tx.in /\ LastOf(p) = tx.out
       /\ \/ todo = <<Router!V2SwapOut("payee", tx.amount, tx.limit, p, b)>>
          \/ Len(p) = 2 /\ todo = <<Router!V3SwapOut("payee", tx.amount, tx.limit, <<p[2], p[1]>>, b)>>
          \/ todo = <<SwapOutPayTake(p, tx.amount, tx.limit, b)>>

\* Within a V4_SWAP: the actions that are left, and what the PoolManager is
\* owed for the input (-delta) and owes for what has been brought.
Lock == [op |-> "lock"]
Owes(t, x) == -delta[t] \in 0 .. x /\ (~dry => -delta[t] = x)
NoOther(S) == ~dry => \A t \in Coins \ S : delta[t] = 0
Unvisited(p) == \A k \in 2 .. Len(p) : delta[p[k]] = 0

FormSwapThenPay ==
  \E p \in Routes, y \in Nat, min \in Nat, to \in {"router", "payee"}, t \in Coins,
     x \in Nat, b \in BOOLEAN :
    \E s \in Pays(t, x, b) :
      /\ acts = <<Router!V4In(p, y, min), s, Router!TakeTo(LastOf(p), to, Router!OPEN_DELTA), Lock>>
      /\ Remains(todo, LastOf(p), to, min, tx) /\ Ready(t, x, b)
      /\ \/ y = x /\ t = p[1] /\ delta = Router!Nothing
         \/ /\ \A k \in 1 .. Len(p) : p[k] # t
            /\ y > 0 /\ delta[p[1]] = y /\ Owes(t, x) /\ Unvisited(p) /\ NoOther({t, p[1]})
FormPay ==
  \E u \in Coins, min \in Nat, to \in {"router", "payee"}, t \in Coins,
     x \in Nat, b \in BOOLEAN :
    \E s \in Pays(t, x, b) :
      /\ acts = <<s, Router!TakeTo(u, to, Router!OPEN_DELTA), Lock>>
      /\ Remains(todo, u, to, min, tx) /\ Ready(t, x, b)
      /\ t # u /\ delta[u] >= min /\ Owes(t, x) /\ NoOther({t, u})
FormFund ==
  \E p \in Routes, min \in Nat, to \in {"router", "payee"} :
    /\ acts = <<Router!Settle(p[1], Router!CONTRACT_BALANCE, FALSE),
                Router!V4In(p, Router!OPEN_DELTA, min),
                Router!TakeTo(LastOf(p), to, Router!OPEN_DELTA), Lock>>
    /\ delta = Router!Nothing
    /\ Remains(todo, LastOf(p), to, min, tx) /\ Ready(p[1], Router!CONTRACT_BALANCE, FALSE)
FormSwap ==
  \E p \in Routes, y \in Nat, min \in Nat, to \in {"router", "payee"} :
    /\ acts = <<Router!V4In(p, y, min), Router!TakeTo(LastOf(p), to, Router!OPEN_DELTA), Lock>>
    /\ Remains(todo, LastOf(p), to, min, tx) /\ Underway(bal, dry)
    /\ y \in {0, delta[p[1]]} /\ Unvisited(p) /\ NoOther({p[1]})
FormTake ==
  \E u \in Coins, min \in Nat, to \in {"router", "payee"} :
    /\ acts = <<Router!TakeTo(u, to, Router!OPEN_DELTA), Lock>>
    /\ Remains(todo, u, to, min, tx) /\ Underway(bal, dry)
    /\ delta[u] >= min /\ NoOther({u})
FormLock ==
  /\ acts = <<Lock>>
  /\ (todo = << >> /\ Settled) \/ AtLegs(todo)

\* Of an exact output.
Unpaid == tx.exact = "out" /\ todo = << >> /\ Spent(bal, 0) /\ PayeeKept(bal) /\ HoldsNothing(bal, dry)
FormSwapOut ==
  \E p \in Routes, y \in Nat, b \in BOOLEAN :
    /\ acts = <<Router!V4Out(p, y, tx.limit), Bill(p[1], tx.limit, b),
                Router!TakeTo(tx.out, "payee", Router!OPEN_DELTA), Lock>>
    /\ Unpaid /\ p[1] = tx.in
    /\ \/ y = tx.amount /\ LastOf(p) = tx.out /\ delta = Router!Nothing
       \/ /\ \A k \in 1 .. Len(p) : p[k] # tx.out
          /\ delta = [t \in Coins |-> IF t = tx.out THEN tx.amount
                                     ELSE IF t = LastOf(p) THEN -y ELSE 0]
FormPayOut ==
  \E b \in BOOLEAN, w \in 0 .. tx.limit :
    /\ acts = <<Bill(tx.in, tx.limit, b), Router!TakeTo(tx.out, "payee", Router!OPEN_DELTA), Lock>>
    /\ Unpaid /\ tx.in # tx.out
    /\ delta = [t \in Coins |-> IF t = tx.out THEN tx.amount ELSE IF t = tx.in THEN -w ELSE 0]
FormTakeOut ==
  /\ acts = <<Router!TakeTo(tx.out, "payee", Router!OPEN_DELTA), Lock>>
  /\ tx.exact = "out" /\ todo = << >> /\ Spent(bal, tx.limit) /\ PayeeKept(bal)
  /\ HoldsNothing(bal, dry)
  /\ delta = [t \in Coins |-> IF t = tx.out THEN tx.amount ELSE 0]

SentForm ==
  \/ FormLegs \/ FormWrap \/ FormDone \/ FormOut
  \/ FormSwapThenPay \/ FormPay \/ FormFund \/ FormSwap \/ FormTake \/ FormLock
  \/ FormSwapOut \/ FormPayOut \/ FormTakeOut

RouterIInv ==
  /\ RouterTyped
  /\ HoldsNothing(tx.before.bal, tx.before.dry)
  /\ tx.pc = "idle" =>
       todo = << >> /\ acts = << >> /\ delta = Router!Nothing /\ Router!OrderIsWhole
  /\ tx.pc = "sent" => SentForm

-----------------------------------------------------------------------------
\* The sequences of commands and actions.
LEMMA OneOf == ASSUME NEW a PROVE <<a>> # << >> /\ Head(<<a>>) = a /\ Tail(<<a>>) = << >> /\ Len(<<a>>) = 1
  OBVIOUS
LEMMA TwoOf ==
  ASSUME NEW a, NEW b
  PROVE  <<a, b>> # << >> /\ Head(<<a, b>>) = a /\ Tail(<<a, b>>) = <<b>>
  OBVIOUS
LEMMA ThreeOf ==
  ASSUME NEW a, NEW b, NEW c
  PROVE  <<a, b, c>> # << >> /\ Head(<<a, b, c>>) = a /\ Tail(<<a, b, c>>) = <<b, c>>
  OBVIOUS
LEMMA FourOf ==
  ASSUME NEW a, NEW b, NEW c, NEW d
  PROVE  <<a, b, c, d>> # << >> /\ Head(<<a, b, c, d>>) = a /\ Tail(<<a, b, c, d>>) = <<b, c, d>>
  OBVIOUS
LEMMA PutOne == ASSUME NEW a, NEW b PROVE <<a>> \o <<b>> = <<a, b>>
<1> DEFINE S == {a, b}
<1>1. <<a>> \in Seq(S) /\ <<b>> \in Seq(S) /\ <<a, b>> \in Seq(S)
  OBVIOUS
<1>2. Len(<<a>>) = 1 /\ Len(<<b>>) = 1 /\ Len(<<a, b>>) = 2
  OBVIOUS
<1>3. <<a>> \o <<b>> \in Seq(S) /\ Len(<<a>> \o <<b>>) = 2
  BY <1>1, <1>2, ConcatProperties
<1>4. \A k \in 1 .. 2 : (<<a>> \o <<b>>)[k] = <<a, b>>[k]
  BY <1>1, <1>2, ConcatProperties
<1> HIDE DEF S
<1> QED
  BY <1>1, <1>2, <1>3, <1>4, SeqEqual
LEMMA PutTwo == ASSUME NEW a, NEW b, NEW c PROVE <<a>> \o <<b, c>> = <<a, b, c>>
<1> DEFINE S == {a, b, c}
<1>1. <<a>> \in Seq(S) /\ <<b, c>> \in Seq(S) /\ <<a, b, c>> \in Seq(S)
  OBVIOUS
<1>2. Len(<<a>>) = 1 /\ Len(<<b, c>>) = 2 /\ Len(<<a, b, c>>) = 3
  OBVIOUS
<1>3. <<a>> \o <<b, c>> \in Seq(S) /\ Len(<<a>> \o <<b, c>>) = 3
  BY <1>1, <1>2, ConcatProperties
<1>4. \A k \in 1 .. 3 : (<<a>> \o <<b, c>>)[k] = <<a, b, c>>[k]
  BY <1>1, <1>2, ConcatProperties
<1> HIDE DEF S
<1> QED
  BY <1>1, <1>2, <1>3, <1>4, SeqEqual
LEMMA PutThree ==
  ASSUME NEW a, NEW b, NEW c, NEW d
  PROVE  <<a>> \o <<b, c, d>> = <<a, b, c, d>>
<1> DEFINE S == {a, b, c, d}
<1>1. <<a>> \in Seq(S) /\ <<b, c, d>> \in Seq(S) /\ <<a, b, c, d>> \in Seq(S)
  OBVIOUS
<1>2. Len(<<a>>) = 1 /\ Len(<<b, c, d>>) = 3 /\ Len(<<a, b, c, d>>) = 4
  OBVIOUS
<1>3. <<a>> \o <<b, c, d>> \in Seq(S) /\ Len(<<a>> \o <<b, c, d>>) = 4
  BY <1>1, <1>2, ConcatProperties
<1>4. \A k \in 1 .. 4 : (<<a>> \o <<b, c, d>>)[k] = <<a, b, c, d>>[k]
  BY <1>1, <1>2, ConcatProperties
<1> HIDE DEF S
<1> QED
  BY <1>1, <1>2, <1>3, <1>4, SeqEqual
LEMMA AddFourth ==
  ASSUME NEW a, NEW b, NEW c, NEW d
  PROVE  Append(<<a, b, c>>, d) = <<a, b, c, d>>
<1> DEFINE S == {a, b, c, d}  r == Append(<<a, b, c>>, d)
<1>1. <<a, b, c>> \in Seq(S) /\ d \in S /\ <<a, b, c, d>> \in Seq(S)
  OBVIOUS
<1>2. Len(<<a, b, c>>) = 3 /\ Len(<<a, b, c, d>>) = 4
  OBVIOUS
<1>3. r \in Seq(S) /\ Len(r) = 4 /\ r[4] = d /\ \A k \in 1 .. 3 : r[k] = <<a, b, c>>[k]
  BY <1>1, <1>2, AppendProperties
<1>4. r[1] = a /\ r[2] = b /\ r[3] = c /\ r[4] = d
  BY <1>3
<1>5. \A k \in 1 .. 4 : r[k] = <<a, b, c, d>>[k]
  BY <1>4
<1>6. r = <<a, b, c, d>>
  <2> HIDE DEF S, r
  <2> QED
    BY <1>1, <1>2, <1>3, <1>5, SeqEqual
<1> QED
  BY <1>6

\* A sequence of length 0 is the empty one.
LEMMA Shortest ==
  ASSUME NEW S, NEW s \in Seq(S), NEW n \in Nat, n = Len(s)
  PROVE  n = 0 <=> s = << >>
<1>1. s # << >> => Len(s) \in Nat \ {0}
  BY EmptySeq
<1>2. s = << >> => Len(s) = 0
  BY EmptySeq
<1>3. n # 0 => s # << >>
  BY <1>2
<1> QED
  BY <1>1, <1>3

\* A sequence is one over its own elements.
LEMMA OfItself ==
  ASSUME NEW S, NEW s \in Seq(S)
  PROVE  s \in Seq({s[k] : k \in DOMAIN s})
<1> DEFINE R == {s[k] : k \in DOMAIN s}
<1>1. Len(s) \in Nat /\ s \in [1 .. Len(s) -> S] /\ DOMAIN s = 1 .. Len(s)
  BY LenProperties
<1>2. s \in [1 .. Len(s) -> R]
  BY <1>1
<1>3. s \in UNION {[1 .. n -> R] : n \in Nat}
  BY <1>1, <1>2
<1> QED
  BY <1>3, SeqDef

\* The ends of a route differ, and so do its first two tokens.
LEMMA RouteFact ==
  ASSUME NEW p \in Routes
  PROVE  /\ p \in Seq(Coins) /\ Len(p) \in Nat /\ Len(p) >= 2
         /\ \A k \in 1 .. Len(p) : p[k] \in Coins
         /\ LastOf(p) \in Coins /\ p[1] # LastOf(p) /\ p[1] # p[2]
         /\ p[1] # Ether
         /\ \A j, k \in 1 .. Len(p) : p[j] = p[k] => j = k
  BY DEF Routes, LastOf

LEMMA ARoute ==
  ASSUME NEW q \in Seq(Coins \ {Ether}), Len(q) >= 2, \A j, k \in DOMAIN q : q[j] = q[k] => j = k
  PROVE  q \in Routes
  BY DEF Routes

LEMMA RouteLength == ASSUME NEW p \in Routes PROVE Len(p) = 2 \/ Len(p) > 2
<1>1. PICK n \in Nat : n = Len(p)
  BY RouteFact
<1> QED
  BY <1>1, RouteFact

\* What is left of a path when a hop is taken off is a path.
LEMMA RouteTail ==
  ASSUME NEW p \in Routes, Len(p) > 2
  PROVE  /\ Tail(p) \in Routes /\ Tail(p)[1] = p[2] /\ LastOf(Tail(p)) = LastOf(p)
         /\ Len(Tail(p)) = Len(p) - 1 /\ \A k \in 1 .. Len(p) - 1 : Tail(p)[k] = p[k + 1]
<1>1. PICK n \in Nat : n = Len(p) /\ n > 2
  BY RouteFact
<1>2. /\ p \in Seq(Coins \ {Ether}) /\ Tail(p) \in Seq(Coins \ {Ether}) /\ Len(Tail(p)) = n - 1
      /\ \A k \in 1 .. n - 1 : Tail(p)[k] = p[k + 1]
  BY <1>1, HeadTailProperties, EmptySeq DEF Routes
<1>3. DOMAIN Tail(p) = 1 .. n - 1 /\ DOMAIN p = 1 .. n
  BY <1>1, <1>2, LenProperties
<1>4. \A j, k \in DOMAIN Tail(p) : Tail(p)[j] = Tail(p)[k] => j = k
  BY <1>1, <1>2, <1>3 DEF Routes
<1>5. Tail(p) \in Routes
  <2>1. n - 1 >= 2
    BY <1>1
  <2> QED
    BY <1>2, <1>4, <2>1, ARoute
<1>6. LastOf(Tail(p)) = LastOf(p) /\ Tail(p)[1] = p[2]
  BY <1>1, <1>2 DEF LastOf
<1> QED
  BY <1>1, <1>2, <1>5, <1>6

LEMMA RouteFront ==
  ASSUME NEW p \in Routes, Len(p) > 2
  PROVE  /\ SubSeq(p, 1, Len(p) - 1) \in Routes /\ SubSeq(p, 1, Len(p) - 1)[1] = p[1]
         /\ LastOf(SubSeq(p, 1, Len(p) - 1)) = p[Len(p) - 1]
         /\ Len(SubSeq(p, 1, Len(p) - 1)) = Len(p) - 1
         /\ \A k \in 1 .. Len(p) - 1 : SubSeq(p, 1, Len(p) - 1)[k] = p[k]
<1>1. PICK n \in Nat : n = Len(p) /\ n > 2
  BY RouteFact
<1> DEFINE q == SubSeq(p, 1, n - 1)
<1>2. /\ p \in Seq(Coins \ {Ether}) /\ q \in Seq(Coins \ {Ether}) /\ Len(q) = n - 1
      /\ \A k \in 1 .. n - 1 : q[k] = p[k]
  BY <1>1 DEF Routes
<1>3. DOMAIN q = 1 .. n - 1 /\ DOMAIN p = 1 .. n
  BY <1>1, <1>2, LenProperties
<1>4. \A j, k \in DOMAIN q : q[j] = q[k] => j = k
  BY <1>1, <1>2, <1>3 DEF Routes
<1>5. q \in Routes
  <2>1. n - 1 >= 2
    BY <1>1
  <2> QED
    BY <1>2, <1>4, <2>1, ARoute
<1>6. LastOf(q) = p[n - 1] /\ q[1] = p[1]
  BY <1>1, <1>2 DEF LastOf
<1> QED
  BY <1>1, <1>2, <1>5, <1>6

\* A leg is a swap command, and its path can be read from it.
LEMMA LegPath ==
  ASSUME NEW c, NEW p, NEW to, NEW min, NEW x, NEW b, IsLeg(c, p, to, min, x, b)
  PROVE  PathOf(c) = p /\ c.op \in {"v2in", "v3in", "v4"}
<1>1. CASE c = Router!V2SwapIn(to, x, min, p, b)
  BY <1>1 DEF PathOf, Router!V2SwapIn
<1>2. CASE c = Router!V3SwapIn(to, x, min, p, b)
  BY <1>2 DEF PathOf, Router!V3SwapIn
<1>3. ASSUME NEW pay, c = SwapPayTake(p, x, min, pay, to)
      PROVE  PathOf(c) = p /\ c.op \in {"v2in", "v3in", "v4"}
  BY <1>3 DEF PathOf, SwapPayTake, Router!V4Swap, Router!V4In
<1>4. CASE c = PaySwapTake(p, min, to)
  BY <1>4 DEF PathOf, PaySwapTake, Router!V4Swap, Router!V4In, Router!Settle
<1> QED
  BY <1>1, <1>2, <1>3, <1>4 DEF IsLeg

\* The first of some legs, and what remains after it.
LEMMA LegsHead ==
  ASSUME NEW s, NEW x, NEW b \in BOOLEAN, NEW o, Legs(s, x, b, o)
  PROVE  /\ s # << >> /\ Head(s) = s[1] /\ PathOf(s[1]) \in Routes
         /\ \E to \in {"router", "payee"}, min \in {0, o.limit} :
              /\ IsLeg(s[1], PathOf(s[1]), to, min, x, b)
              /\ Remains(Tail(s), LastOf(PathOf(s[1])), to, min, o)
<1> DEFINE S == {s[k] : k \in DOMAIN s}
<1>0. s \in Seq(S) /\ s # << >>
  BY DEF Legs
<1> HIDE DEF S
<1>1. PICK n \in Nat : n = Len(s) /\ n > 0 /\ s \in Seq(S) /\ Head(s) = s[1]
  BY <1>0, EmptySeq
<1>2. Tail(s) \in Seq(S) /\ Len(Tail(s)) = n - 1 /\ \A k \in 1 .. n - 1 : Tail(s)[k] = s[k + 1]
  BY <1>1
<1>3. CASE n = 1
  <2>1. Tail(s) = << >>
    <3>1. PICK m \in Nat : m = Len(Tail(s)) /\ m = 0
      BY <1>1, <1>2, <1>3
    <3> QED
      BY <1>2, <3>1, Shortest
  <2>2. /\ PathOf(s[1]) \in Routes /\ IsLeg(s[1], PathOf(s[1]), "payee", o.limit, x, b)
        /\ LastOf(PathOf(s[1])) = o.out
    BY <1>1, <1>3 DEF Legs
  <2> QED
    BY <1>0, <1>1, <2>1, <2>2 DEF Remains
<1>4. CASE n # 1
  <2>1. Tail(s) # << >>
    <3>1. PICK m \in Nat : m = Len(Tail(s)) /\ m # 0
      BY <1>1, <1>2, <1>4
    <3> QED
      BY <1>2, <3>1, Shortest
  <2>2. Tail(s) \in Seq({Tail(s)[k] : k \in DOMAIN Tail(s)})
    BY <1>2, OfItself
  <2>3. Legs(Tail(s), Router!CONTRACT_BALANCE, FALSE, o)
    <3> DEFINE t == Tail(s)
    <3>1. ASSUME NEW k \in 1 .. n - 1
          PROVE  /\ PathOf(t[k]) \in Routes
                 /\ IsLeg(t[k], PathOf(t[k]), IF k = n - 1 THEN "payee" ELSE "router",
                          IF k = n - 1 THEN o.limit ELSE 0,
                          IF k = 1 THEN Router!CONTRACT_BALANCE ELSE Router!CONTRACT_BALANCE,
                          k = 1 /\ FALSE)
                 /\ LastOf(PathOf(t[k])) = IF k = n - 1 THEN o.out ELSE PathOf(t[k + 1])[1]
      <4>1. k + 1 \in 1 .. n /\ k + 1 # 1 /\ (k + 1 = n <=> k = n - 1)
        BY <1>1
      <4>2. t[k] = s[k + 1] /\ (k # n - 1 => t[k + 1] = s[k + 1 + 1])
        BY <1>1, <1>2
      <4>3. /\ PathOf(s[k + 1]) \in Routes
            /\ IsLeg(s[k + 1], PathOf(s[k + 1]), IF k + 1 = n THEN "payee" ELSE "router",
                     IF k + 1 = n THEN o.limit ELSE 0,
                     IF k + 1 = 1 THEN x ELSE Router!CONTRACT_BALANCE, k + 1 = 1 /\ b)
            /\ LastOf(PathOf(s[k + 1])) = IF k + 1 = n THEN o.out ELSE PathOf(s[k + 1 + 1])[1]
        BY <1>1, <4>1 DEF Legs
      <4> HIDE DEF t
      <4> QED
        BY <4>1, <4>2, <4>3
    <3> HIDE DEF t
    <3> QED
      BY <1>1, <1>2, <2>1, <2>2, <3>1 DEF Legs, t
  <2>4. /\ PathOf(s[1]) \in Routes /\ IsLeg(s[1], PathOf(s[1]), "router", 0, x, b)
        /\ LastOf(PathOf(s[1])) = PathOf(s[1 + 1])[1]
    BY <1>1, <1>4 DEF Legs
  <2>5. Tail(s)[1] = s[1 + 1]
    BY <1>1, <1>2, <1>4
  <2> QED
    BY <1>0, <1>1, <2>3, <2>4, <2>5 DEF Remains
<1> QED
  BY <1>1, <1>3, <1>4 DEF Legs

\* A leg before what remains makes legs.
LEMMA LegsCons ==
  ASSUME NEW c, NEW s, NEW to, NEW min, NEW x, NEW b \in BOOLEAN, NEW o,
         PathOf(c) \in Routes, IsLeg(c, PathOf(c), to, min, x, b),
         Remains(s, LastOf(PathOf(c)), to, min, o)
  PROVE  Legs(<<c>> \o s, x, b, o) /\ (<<c>> \o s)[1] = c
<1> DEFINE r == <<c>> \o s
<1>1. CASE s = << >>
  <2>1. r = <<c>>
    BY <1>1
  <2>2. to = "payee" /\ min = o.limit /\ LastOf(PathOf(c)) = o.out
    BY <1>1 DEF Remains, Legs
  <2>3. /\ <<c>> # << >> /\ Len(<<c>>) = 1 /\ DOMAIN <<c>> = {1} /\ <<c>>[1] = c
        /\ <<c>> \in Seq({c}) /\ {<<c>>[k] : k \in DOMAIN <<c>>} = {c} /\ 1 .. 1 = {1}
    OBVIOUS
  <2>4. \A k \in 1 .. Len(r) : k = 1 /\ k = Len(r) /\ r[k] = c
    BY <2>1, <2>3
  <2>5. r \in Seq({r[k] : k \in DOMAIN r}) /\ r # << >>
    <3> HIDE DEF r
    <3> QED
      BY <2>1, <2>3, OfItself
  <2>6. \A k \in 1 .. Len(r) :
          /\ PathOf(r[k]) \in Routes
          /\ IsLeg(r[k], PathOf(r[k]), IF k = Len(r) THEN "payee" ELSE "router",
                   IF k = Len(r) THEN o.limit ELSE 0,
                   IF k = 1 THEN x ELSE Router!CONTRACT_BALANCE, k = 1 /\ b)
          /\ LastOf(PathOf(r[k])) = IF k = Len(r) THEN o.out ELSE PathOf(r[k + 1])[1]
    BY <2>2, <2>4
  <2> QED
    BY <2>1, <2>3, <2>5, <2>6 DEF Legs
<1>2. CASE s # << >>
  <2>1. /\ Legs(s, Router!CONTRACT_BALANCE, FALSE, o) /\ LastOf(PathOf(c)) = PathOf(s[1])[1]
        /\ to = "router" /\ min = 0
    BY <1>2 DEF Remains
  <2>2. s \in Seq({s[k] : k \in DOMAIN s}) /\ Len(s) \in Nat /\ Len(s) > 0
    BY <1>2, <2>1, EmptySeq DEF Legs
  <2>3. Len(r) = Len(s) + 1 /\ r[1] = c /\ \A k \in 1 .. Len(s) : r[k + 1] = s[k]
    BY <2>2
  <2>4. r \in Seq({r[k] : k \in DOMAIN r}) /\ r # << >>
    <3> DEFINE T == {s[k] : k \in DOMAIN s} \union {c}
    <3>1. s \in Seq(T) /\ <<c>> \in Seq(T)
      BY <2>2
    <3> HIDE DEF T
    <3>2. r \in Seq(T)
      BY <3>1, ConcatProperties
    <3>3. PICK n \in Nat : n = Len(r) /\ n # 0
      BY <2>2, <2>3
    <3> HIDE DEF r
    <3> QED
      BY <3>2, <3>3, OfItself, Shortest
  <2>5. ASSUME NEW k \in 1 .. Len(r)
        PROVE  /\ PathOf(r[k]) \in Routes
               /\ IsLeg(r[k], PathOf(r[k]), IF k = Len(r) THEN "payee" ELSE "router",
                        IF k = Len(r) THEN o.limit ELSE 0,
                        IF k = 1 THEN x ELSE Router!CONTRACT_BALANCE, k = 1 /\ b)
               /\ LastOf(PathOf(r[k])) = IF k = Len(r) THEN o.out ELSE PathOf(r[k + 1])[1]
    <3>1. CASE k = 1
      BY <2>1, <2>2, <2>3, <3>1
    <3>2. CASE k # 1
      <4>1. k - 1 \in 1 .. Len(s) /\ r[k] = s[k - 1] /\ (k - 1 = Len(s) <=> k = Len(r))
        BY <2>2, <2>3, <3>2
      <4>2. k # Len(r) => r[k + 1] = s[k]
        BY <2>2, <2>3, <3>2
      <4> QED
        BY <2>1, <2>2, <3>2, <4>1, <4>2 DEF Legs
    <3> QED
      BY <3>1, <3>2
  <2> QED
    BY <2>3, <2>4, <2>5 DEF Legs
<1> QED
  BY <1>1, <1>2

-----------------------------------------------------------------------------
(* The steps.                                                              *)

\* While a transaction runs, only its form is to be shown.
LEMMA StaysSent ==
  ASSUME RouterIInv, tx.pc = "sent", tx' = tx,
         bal' \in [Accounts -> Wallets], delta' \in Wallets, dry' \in BOOLEAN, SentForm'
  PROVE  RouterIInv'
  BY DEF RouterIInv, RouterTyped, HoldsNothing

\* Which forms a command or an action is found in.
LEMMA RunningForms ==
  ASSUME RouterIInv, tx.pc = "sent", acts = << >>
  PROVE  /\ todo = << >> => FormDone
         /\ todo # << >> /\ Head(todo).op = "wrap" => FormWrap
         /\ todo # << >> /\ Head(todo).op \in {"v2in", "v3in"} => FormLegs
         /\ todo # << >> /\ Head(todo).op \in {"v2out", "v3out"} => FormOut
         /\ todo # << >> /\ Head(todo).op = "v4" => FormLegs \/ FormOut
<1>1. FormLegs => todo # << >> /\ Head(todo).op \in {"v2in", "v3in", "v4"}
  <2> SUFFICES ASSUME NEW x, NEW b \in BOOLEAN, Legs(todo, x, b, tx)
               PROVE  todo # << >> /\ Head(todo).op \in {"v2in", "v3in", "v4"}
    BY DEF FormLegs, AtLegs
  <2> QED
    BY LegsHead, LegPath
<1>2. FormWrap => todo # << >> /\ Head(todo).op = "wrap"
  <2> SUFFICES ASSUME FormWrap PROVE todo # << >>
    BY DEF FormWrap, Router!WrapEth
  <2>1. PICK n \in Nat : n = Len(todo) /\ n # 0
    BY LenProperties DEF FormWrap
  <2> QED
    BY <2>1, Shortest DEF FormWrap
<1>3. FormOut => todo # << >> /\ Head(todo).op \in {"v2out", "v3out", "v4"}
  BY OneOf DEF FormOut, Router!V2SwapOut, Router!V3SwapOut, SwapOutPayTake, Router!V4Swap
<1>4. ~FormSwapThenPay /\ ~FormFund
  BY FourOf DEF FormSwapThenPay, FormFund
<1>5. ~FormPay /\ ~FormSwap /\ ~FormPayOut
  BY ThreeOf DEF FormPay, FormSwap, FormPayOut
<1>6. ~FormTake /\ ~FormTakeOut /\ ~FormLock
  BY OneOf, TwoOf DEF FormTake, FormTakeOut, FormLock
<1>7. ~FormSwapOut
  BY FourOf DEF FormSwapOut
<1>8. FormDone => todo = << >>
  BY DEF FormDone
<1> QED
  BY <1>1, <1>2, <1>3, <1>4, <1>5, <1>6, <1>7, <1>8 DEF RouterIInv, SentForm

LEMMA ActingForms ==
  ASSUME RouterIInv, tx.pc = "sent", acts # << >>
  PROVE  /\ Head(acts).op = "v4in" => FormSwapThenPay \/ FormSwap
         /\ Head(acts).op = "v4out" => FormSwapOut
         /\ Head(acts).op \in {"settleAll", "settle"} => FormPay \/ FormFund \/ FormPayOut
         /\ Head(acts).op = "take" => FormTake \/ FormTakeOut
         /\ Head(acts).op = "lock" => FormLock
<1>1. FormSwapThenPay => Head(acts).op = "v4in"
  BY FourOf DEF FormSwapThenPay, Router!V4In
<1>2. FormSwapOut => Head(acts).op = "v4out"
  BY FourOf DEF FormSwapOut, Router!V4Out
<1>3. FormFund => Head(acts).op = "settle"
  BY FourOf DEF FormFund, Router!Settle
<1>4. FormPay => Head(acts).op \in {"settleAll", "settle"}
  BY ThreeOf DEF FormPay, Pays, Router!Settle, Router!SettleAll
<1>5. FormPayOut => Head(acts).op \in {"settleAll", "settle"}
  BY ThreeOf DEF FormPayOut, Bill, Router!Settle, Router!SettleAll
<1>6. FormSwap => Head(acts).op = "v4in"
  BY ThreeOf DEF FormSwap, Router!V4In
<1>7. FormTake \/ FormTakeOut => Head(acts).op = "take"
  <2>1. FormTake => Head(acts).op = "take"
    BY TwoOf DEF FormTake, Router!TakeTo
  <2>2. FormTakeOut => Head(acts).op = "take"
    BY TwoOf DEF FormTakeOut, Router!TakeTo
  <2> QED
    BY <2>1, <2>2
<1>8. FormLock => Head(acts).op = "lock"
  BY OneOf DEF FormLock, Lock
<1>9. ~FormLegs /\ ~FormWrap /\ ~FormDone /\ ~FormOut
  BY DEF FormLegs, FormWrap, FormDone, FormOut
<1> QED
  BY <1>1, <1>2, <1>3, <1>4, <1>5, <1>6, <1>7, <1>8, <1>9 DEF RouterIInv, SentForm

\* Balances w are those after a has paid x of t, and r after e has got y of u.
HasPaid(w, a, t, x) ==
  /\ w \in [Accounts -> Wallets]
  /\ \A f \in Accounts, v \in Coins : w[f][v] = IF f = a /\ v = t THEN bal[f][v] - x ELSE bal[f][v]
HasGot(r, w, e, u, y) ==
  /\ r \in [Accounts -> Wallets]
  /\ \A f \in Accounts, v \in Coins : r[f][v] = IF f = e /\ v = u THEN w[f][v] + y ELSE w[f][v]

LEMMA PaidFact ==
  ASSUME RouterTyped, NEW a \in Accounts, NEW t \in Coins, NEW x, x \in Int
  PROVE  HasPaid([bal EXCEPT ![a][t] = @ - x], a, t, x)
<1>1. bal \in [Accounts -> Wallets] /\ bal[a] \in Wallets /\ bal[a][t] - x \in Int
  BY DEF RouterTyped, Wallets
<1>2. [bal[a] EXCEPT ![t] = @ - x] \in Wallets
  BY <1>1 DEF Wallets
<1> QED
  BY <1>1, <1>2 DEF Wallets, HasPaid

\* What Moves does to each balance.
LEMMA MovesFact ==
  ASSUME RouterTyped, NEW a \in Accounts, NEW t \in Coins, NEW x, x \in Int,
         NEW e \in Accounts, NEW u \in Coins, NEW y, y \in Int
  PROVE  \E w : HasPaid(w, a, t, x) /\ HasGot(Router!Moves(a, t, x, e, u, y), w, e, u, y)
<1> DEFINE w == [bal EXCEPT ![a][t] = @ - x]  r == [w EXCEPT ![e][u] = @ + y]
<1>1. HasPaid(w, a, t, x)
  BY PaidFact
<1>2. r = Router!Moves(a, t, x, e, u, y)
  BY DEF Router!Moves
<1> HIDE DEF w
<1>3. w \in [Accounts -> Wallets] /\ w[e] \in Wallets /\ w[e][u] + y \in Int
  BY <1>1 DEF Wallets, HasPaid
<1>4. [w[e] EXCEPT ![u] = @ + y] \in Wallets
  BY <1>3 DEF Wallets
<1>5. HasGot(r, w, e, u, y)
  BY <1>3, <1>4 DEF Wallets, HasGot
<1> HIDE DEF r
<1> QED
  BY <1>1, <1>2, <1>5

\* A leg that has spent what was its to spend leaves nothing behind.
LEMMA LegSpends ==
  ASSUME RouterTyped, NEW t \in Coins, NEW x \in Nat \union {-1}, NEW b \in BOOLEAN, Ready(t, x, b),
         NEW y, y \in Int, y = IF x = -1 THEN bal["router"][t] ELSE x, y > 0,
         NEW used, used \in {y, y - 1}, Router!CanPay(Router!Payer(b), t, used),
         NEW w, HasPaid(w, Router!Payer(b), t, used)
  PROVE  Underway(w, dry \/ used < y)
<1> Router!Payer(b) \in Accounts /\ used \in Int /\ Router!Payer(b) = IF b THEN "user" ELSE "router"
  BY DEF Router!Payer, Accounts
<1>1. \A f \in Accounts, v \in Coins :
        w[f][v] = IF f = Router!Payer(b) /\ v = t THEN bal[f][v] - used ELSE bal[f][v]
  BY DEF HasPaid
<1>2. \A f \in Accounts, v \in Coins : bal[f][v] \in Int /\ tx.before.bal[f][v] \in Int
  BY DEF RouterTyped, Wallets
<1>3. tx.amount \in Nat
  BY DEF RouterTyped
<1>4. Spent(w, tx.amount)
  <2>1. CASE b
    BY <1>1, <1>2, <1>3, <2>1 DEF Spent, Ready, Accounts
  <2>2. CASE ~b
    BY <1>1, <1>2, <1>3, <2>2 DEF Spent, Ready, Accounts
  <2> QED
    BY <2>1, <2>2
<1>5. PayeeKept(w)
  BY <1>1 DEF PayeeKept, Ready, Accounts
<1>6. HoldsNothing(w, dry \/ used < y)
  <2> SUFFICES ASSUME ~dry, used = y, NEW v \in Coins PROVE w["router"][v] = 0
    BY DEF HoldsNothing
  <2>1. CASE v # t
    BY <1>1, <2>1 DEF Ready, HoldsOnly, Accounts
  <2>2. CASE v = t /\ b
    BY <1>1, <1>2, <1>3, <2>2 DEF Ready, HoldsOnly, Accounts
  <2>3. CASE v = t /\ ~b
    BY <1>1, <1>2, <2>3 DEF Ready, HoldsOnly, Accounts, Router!CanPay
  <2> QED
    BY <2>1, <2>2, <2>3
<1> QED
  BY <1>4, <1>5, <1>6 DEF Underway, Ready

\* What a leg brings is the recipient's, or the next leg's to spend.
LEMMA LegBrings ==
  ASSUME RouterTyped, tx' = tx, NEW w \in [Accounts -> Wallets], Underway(w, dry'),
         NEW s, NEW u \in Coins, NEW to, NEW min, Remains(s, u, to, min, tx),
         NEW y, y \in Nat, y >= min, todo' = s, HasGot(bal', w, to, u, y)
  PROVE  (todo = << >> /\ Settled)' \/ AtLegs(todo)'
<1>1. to \in Accounts
  BY DEF Remains, Accounts
<1>2. \A f \in Accounts, v \in Coins :
        bal'[f][v] = IF f = to /\ v = u THEN w[f][v] + y ELSE w[f][v]
  BY DEF HasGot
<1>3. \A f \in Accounts, v \in Coins : w[f][v] \in Int /\ tx.before.bal[f][v] \in Int
  BY DEF RouterTyped, Wallets
<1>4. tx.amount \in Nat /\ tx.limit \in Nat
  BY DEF RouterTyped
<1>5. Spent(bal, tx.amount)'
  BY <1>1, <1>2, <1>3 DEF Spent, Underway, Accounts, Remains
<1>6. CASE s = << >>
  <2>1. u = tx.out /\ to = "payee" /\ min = tx.limit
    BY <1>6 DEF Remains, Legs
  <2>2. PaidOut'
    BY <1>2, <1>3, <1>4, <2>1 DEF PaidOut, Underway, PayeeKept, Accounts
  <2>3. HoldsNothing(bal, dry)'
    BY <1>2, <2>1 DEF HoldsNothing, Underway, Accounts
  <2> QED
    BY <1>5, <1>6, <2>2, <2>3 DEF Settled, Underway
<1>7. CASE s # << >>
  <2>1. /\ Legs(s, Router!CONTRACT_BALANCE, FALSE, tx) /\ u = PathOf(s[1])[1] /\ to = "router"
    BY <1>7 DEF Remains
  <2>2. PayeeKept(bal)'
    BY <1>2, <2>1 DEF PayeeKept, Underway, Accounts
  <2>3. HoldsOnly(u, -1, FALSE)'
    BY <1>2, <1>3, <2>1 DEF HoldsOnly, HoldsNothing, Underway, Accounts
  <2>4. Ready(u, -1, FALSE)'
    BY <1>5, <2>2, <2>3 DEF Ready, Underway
  <2>5. Router!CONTRACT_BALANCE = -1
    BY DEF Router!CONTRACT_BALANCE
  <2> QED
    BY <2>1, <2>4, <2>5 DEF AtLegs
<1> QED
  BY <1>6, <1>7

\* Wrapped ether pays for the first leg.
LEMMA WrapStep == ASSUME RouterIInv, Router!Wrap PROVE RouterIInv'
<1>1. FormWrap /\ tx.pc = "sent" /\ acts = << >> /\ tx' = tx
  BY RunningForms DEF Router!Wrap, Router!Running
<1> DEFINE x == tx.amount
<1>2. /\ Head(todo) = Router!WrapEth("router", x) /\ Ready(Ether, x, FALSE) /\ RouterTyped /\ x \in Nat
      /\ Legs(Tail(todo), x, FALSE, tx) /\ PathOf(Tail(todo)[1])[1] = WrappedEther
  BY <1>1 DEF FormWrap, RouterIInv, RouterTyped
<1>3. /\ bal["router"][Ether] >= x
      /\ bal' = Router!Moves("router", Ether, x, "router", WrappedEther, x)
      /\ todo' = Tail(todo) /\ delta' = delta /\ acts' = acts /\ dry' = dry
  BY <1>2 DEF Router!Wrap, Router!WrapEth
<1>5. Ether \in Coins /\ WrappedEther \in Coins /\ Ether # WrappedEther
  BY <1>2, RouterAssumption, LegsHead, RouteFact
<1>6. /\ bal' \in [Accounts -> Wallets]
      /\ \A f \in Accounts, v \in Coins :
           bal'[f][v] = IF f = "router" /\ v = WrappedEther THEN bal[f][v] + x
                        ELSE IF f = "router" /\ v = Ether THEN bal[f][v] - x ELSE bal[f][v]
  <2>1. "router" \in Accounts /\ x \in Int
    BY <1>2 DEF Accounts
  <2> HIDE DEF x
  <2>2. PICK w : /\ HasPaid(w, "router", Ether, x)
                 /\ HasGot(bal', w, "router", WrappedEther, x)
    BY <1>2, <1>3, <1>5, <2>1, MovesFact
  <2> QED
    BY <1>5, <2>2 DEF HasPaid, HasGot
<1>7. Ready(WrappedEther, x, FALSE)'
  <2>1. Spent(bal, tx.amount)' /\ PayeeKept(bal)'
    BY <1>1, <1>2, <1>6 DEF Ready, Spent, PayeeKept, Accounts
  <2>2. HoldsOnly(WrappedEther, x, FALSE)'
    BY <1>1, <1>2, <1>3, <1>5, <1>6 DEF Ready, HoldsOnly, Accounts
  <2> QED
    BY <1>1, <1>2, <2>1, <2>2 DEF Ready
<1>8. FormLegs'
  <2>1. Legs(todo', x, FALSE, tx')
    BY <1>1, <1>2, <1>3
  <2>2. Ready(PathOf(todo[1])[1], x, FALSE)'
    BY <1>2, <1>3, <1>7
  <2> QED
    BY <1>1, <1>2, <1>3, <2>1, <2>2 DEF FormLegs, FormWrap, AtLegs
<1> QED
  BY <1>1, <1>2, <1>3, <1>6, <1>8, StaysSent DEF SentForm, RouterTyped

\* A leg that is through, in the last of its commands.
LEMMA LegEnds ==
  ASSUME RouterIInv, tx.pc = "sent", tx' = tx, acts = << >>, acts' = acts, delta' = delta, delta = Router!Nothing,
         todo' = Tail(todo), NEW x \in Nat \union {-1}, NEW b \in BOOLEAN, NEW t \in Coins, Ready(t, x, b),
         NEW u \in Coins, NEW to, NEW min, Remains(Tail(todo), u, to, min, tx),
         NEW y, y \in Int, y = Router!Resolved(x, t), y > 0,
         NEW used, used \in {y, y - 1}, Router!CanPay(Router!Payer(b), t, used), dry' = (dry \/ used < y),
         NEW out, out \in Nat, out >= min, bal' = Router!Moves(Router!Payer(b), t, used, to, u, out)
  PROVE  RouterIInv'
<1> RouterTyped
  BY DEF RouterIInv
<1>1. Router!Payer(b) \in Accounts /\ to \in Accounts /\ used \in Int /\ out \in Int
  <2>1. used \in Int /\ out \in Int
    OBVIOUS
  <2>2. to \in {"router", "payee"}
    BY DEF Remains
  <2> QED
    BY <2>1, <2>2 DEF Router!Payer, Accounts
<1>2. PICK w : HasPaid(w, Router!Payer(b), t, used) /\ HasGot(bal', w, to, u, out)
  BY <1>1, MovesFact
<1>3. w \in [Accounts -> Wallets] /\ bal' \in [Accounts -> Wallets]
  BY <1>2 DEF HasPaid, HasGot
<1>4. Underway(w, dry')
  BY <1>2, LegSpends DEF Router!Resolved, Router!CONTRACT_BALANCE
<1>5. (todo = << >> /\ Settled)' \/ AtLegs(todo)'
  BY <1>2, <1>3, <1>4, LegBrings
<1>6. SentForm'
  BY <1>5 DEF SentForm, FormDone, FormLegs
<1> QED
  BY <1>3, <1>6, StaysSent DEF RouterTyped

\* Which command a leg is tells how it was made.
LEMMA LegOp ==
  ASSUME NEW c, NEW p, NEW to, NEW min, NEW x, NEW b, IsLeg(c, p, to, min, x, b)
  PROVE  /\ c.op = "v2in" => c = Router!V2SwapIn(to, x, min, p, b)
         /\ c.op = "v3in" => c = Router!V3SwapIn(to, x, min, p, b)
         /\ c.op = "v4" =>
              \/ x \in Nat /\ \E pay \in Pays(p[1], x, b) : c = SwapPayTake(p, x, min, pay, to)
              \/ x = Router!CONTRACT_BALANCE /\ ~b /\ c = PaySwapTake(p, min, to)
<1>1. Router!V2SwapIn(to, x, min, p, b).op = "v2in" /\ Router!V3SwapIn(to, x, min, p, b).op = "v3in"
  BY DEF Router!V2SwapIn, Router!V3SwapIn
<1>2. (\A pay : SwapPayTake(p, x, min, pay, to).op = "v4") /\ PaySwapTake(p, min, to).op = "v4"
  BY DEF Router!V4Swap, SwapPayTake, PaySwapTake
<1> QED
  BY <1>1, <1>2 DEF IsLeg

\* A leg of V2 spends what it was to spend, and brings its minimum.
LEMMA V2InStep == ASSUME RouterIInv, Router!SwapV2In PROVE RouterIInv'
<1>1. FormLegs /\ tx.pc = "sent" /\ acts = << >> /\ todo # << >> /\ Head(todo).op = "v2in"
  BY RunningForms DEF Router!SwapV2In, Router!Running
<1>2. PICK x \in Nat \union {-1}, b \in BOOLEAN :
        Legs(todo, x, b, tx) /\ Ready(PathOf(todo[1])[1], x, b)
  BY <1>1 DEF FormLegs, AtLegs, Router!CONTRACT_BALANCE
<1> DEFINE c == todo[1]  p == PathOf(c)
<1>3. PICK to \in {"router", "payee"}, min \in {0, tx.limit} :
        /\ IsLeg(c, p, to, min, x, b) /\ Remains(Tail(todo), LastOf(p), to, min, tx)
        /\ Head(todo) = c /\ p \in Routes
  BY <1>2, LegsHead
<1>4. c = Router!V2SwapIn(to, x, min, p, b)
  <2>1. c.op = "v2in"
    BY <1>1, <1>3
  <2> HIDE DEF c, p
  <2> QED
    BY <1>3, <2>1, LegOp
<1>5. /\ c.path = p /\ c.amount = x /\ c.byUser = b /\ c.to = to /\ c.limit = min
  BY <1>4 DEF Router!V2SwapIn
<1> DEFINE y == Router!Resolved(x, p[1])
<1>6. PICK out \in 1 .. MaxPrice :
        /\ y > 0 /\ Router!CanPay(Router!Payer(b), p[1], y) /\ out >= min
        /\ bal' = Router!Moves(Router!Payer(b), p[1], y, to, LastOf(p), out)
  BY <1>3, <1>5 DEF Router!SwapV2In, Router!Last, LastOf
<1>7. /\ p[1] \in Coins /\ LastOf(p) \in Coins /\ out \in Nat /\ y \in Int
  <2>1. p[1] \in Coins /\ LastOf(p) \in Coins
    <3> HIDE DEF p
    <3> QED
      BY <1>3, RouteFact
  <2>2. \A v \in Coins : bal["router"][v] \in Int
    BY DEF RouterIInv, RouterTyped, Wallets, Accounts
  <2>3. y \in Int
    BY <2>1, <2>2 DEF Router!Resolved
  <2> QED
    BY <2>1, <2>3, RouterAssumption
<1>8. todo' = Tail(todo) /\ tx' = tx /\ acts' = acts /\ delta' = delta /\ dry' = dry
  BY DEF Router!SwapV2In
<1>9. dry' = (dry \/ y < y)
  BY <1>7, <1>8 DEF RouterIInv, RouterTyped
<1> HIDE DEF c, p, y
<1> QED
  BY <1>1, <1>2, <1>3, <1>6, <1>7, <1>8, <1>9, LegEnds DEF FormLegs, c, p, y

\* A hop within a path leaves what it brought in the router.
LEMMA HopEnds ==
  ASSUME RouterTyped, tx' = tx, NEW x \in Nat \union {-1}, NEW b \in BOOLEAN, NEW t \in Coins, Ready(t, x, b),
         NEW u \in Coins, NEW y, y \in Int, y = Router!Resolved(x, t), y > 0,
         NEW used, used \in {y, y - 1}, Router!CanPay(Router!Payer(b), t, used), dry' = (dry \/ used < y),
         NEW out, out \in Nat, bal' = Router!Moves(Router!Payer(b), t, used, "router", u, out)
  PROVE  bal' \in [Accounts -> Wallets] /\ Ready(u, out, FALSE)'
<1>1. Router!Payer(b) \in Accounts /\ "router" \in Accounts /\ used \in Int /\ out \in Int
  BY DEF Router!Payer, Accounts
<1>2. PICK w : HasPaid(w, Router!Payer(b), t, used) /\ HasGot(bal', w, "router", u, out)
  BY <1>1, MovesFact
<1>3. /\ w \in [Accounts -> Wallets] /\ bal' \in [Accounts -> Wallets]
      /\ \A f \in Accounts, v \in Coins :
           bal'[f][v] = IF f = "router" /\ v = u THEN w[f][v] + out ELSE w[f][v]
  BY <1>2 DEF HasPaid, HasGot
<1>4. Underway(w, dry')
  BY <1>2, LegSpends DEF Router!Resolved, Router!CONTRACT_BALANCE
<1>5. \A f \in Accounts, v \in Coins : w[f][v] \in Int
  BY <1>3 DEF Wallets
<1>6. Spent(bal, tx.amount)' /\ PayeeKept(bal)' /\ HoldsOnly(u, out, FALSE)'
  <2>1. Spent(bal, tx.amount)' /\ PayeeKept(bal)'
    BY <1>3, <1>4 DEF Underway, Spent, PayeeKept, Accounts
  <2>2. HoldsOnly(u, out, FALSE)'
    BY <1>3, <1>4, <1>5 DEF Underway, HoldsNothing, HoldsOnly, Accounts
  <2> QED
    BY <2>1, <2>2
<1> QED
  BY <1>3, <1>4, <1>6 DEF Ready, Underway

\* So does the last swap of a leg of V3; one before leaves the rest of the leg.
LEMMA V3InStep == ASSUME RouterIInv, Router!SwapV3In PROVE RouterIInv'
<1>1. FormLegs /\ tx.pc = "sent" /\ acts = << >> /\ todo # << >> /\ Head(todo).op = "v3in" /\ RouterTyped
  BY RunningForms DEF Router!SwapV3In, Router!Running, RouterIInv
<1>2. PICK x \in Nat \union {-1}, b \in BOOLEAN :
        Legs(todo, x, b, tx) /\ Ready(PathOf(todo[1])[1], x, b)
  BY <1>1 DEF FormLegs, AtLegs, Router!CONTRACT_BALANCE
<1>21. PICK c, p : c = todo[1] /\ p = PathOf(c)
  OBVIOUS
<1>3. PICK to \in {"router", "payee"}, min \in {0, tx.limit} :
        /\ IsLeg(c, p, to, min, x, b) /\ Remains(Tail(todo), LastOf(p), to, min, tx)
        /\ Head(todo) = c /\ p \in Routes
  BY <1>2, <1>21, LegsHead
<1>4. c = Router!V3SwapIn(to, x, min, p, b)
  <2>1. c.op = "v3in"
    BY <1>1, <1>3
  <2> QED
    BY <1>3, <2>1, LegOp
<1>5. /\ c.path = p /\ c.amount = x /\ c.byUser = b /\ c.to = to /\ c.limit = min
  BY <1>4 DEF Router!V3SwapIn
<1> DEFINE y == Router!Resolved(x, p[1])  final == Len(p) = 2
           next(z) == Router!V3SwapIn(to, z, min, Tail(p), FALSE)
<1>6. PICK used \in {y, y - 1}, out \in 0 .. MaxPrice :
        /\ y > 0 /\ Router!CanPay(Router!Payer(b), p[1], used) /\ (final => out >= min)
        /\ bal' = Router!Moves(Router!Payer(b), p[1], used, IF final THEN to ELSE "router", p[2], out)
        /\ dry' = (dry \/ used < y)
        /\ todo' = IF final THEN Tail(todo) ELSE <<next(out)>> \o Tail(todo)
  BY <1>3, <1>5 DEF Router!SwapV3In
<1>7. /\ p[1] \in Coins /\ p[2] \in Coins /\ out \in Nat /\ y \in Int
      /\ final => p[2] = LastOf(p)
  <2>1. p[1] \in Coins /\ p[2] \in Coins /\ (Len(p) = 2 => p[2] = LastOf(p))
    <3> QED
      BY <1>3, RouteFact DEF LastOf
  <2>2. \A v \in Coins : bal["router"][v] \in Int
    BY DEF RouterIInv, RouterTyped, Wallets, Accounts
  <2>3. y \in Int
    BY <2>1, <2>2 DEF Router!Resolved
  <2> QED
    BY <2>1, <2>3, RouterAssumption
<1>8. tx' = tx /\ acts' = acts /\ delta' = delta
  BY DEF Router!SwapV3In
<1>9. CASE final
  <2> HIDE DEF y
  <2> QED
    BY <1>1, <1>2, <1>3, <1>6, <1>7, <1>8, <1>9, LegEnds, <1>21 DEF FormLegs, y
<1>10. CASE ~final
  <2>1. /\ Tail(p) \in Routes /\ Tail(p)[1] = p[2] /\ LastOf(Tail(p)) = LastOf(p)
    BY <1>3, <1>10, RouteLength, RouteTail
  <2>2. IsLeg(next(out), Tail(p), to, min, out, FALSE)
    BY DEF IsLeg
  <2>3. PathOf(next(out)) = Tail(p)
    <3> HIDE DEF next
    <3> QED
      BY <2>2, LegPath
  <2>4. Legs(todo', out, FALSE, tx) /\ todo'[1] = next(out)
    <3> HIDE DEF next
    <3>1. FALSE \in BOOLEAN
      OBVIOUS
    <3> QED
      BY <1>3, <1>6, <1>10, <2>1, <2>2, <2>3, <3>1, LegsCons
  <2>5. bal' \in [Accounts -> Wallets] /\ Ready(p[2], out, FALSE)'
    <3> HIDE DEF y
    <3> QED
      BY <1>1, <1>2, <1>6, <1>7, <1>8, <1>10, HopEnds, <1>21, ZenonT(40) DEF y
  <2>6. FormLegs'
    <3>1. Legs(todo, out, FALSE, tx)'
      BY <1>8, <2>4
    <3>2. Ready(PathOf(todo[1])[1], out, FALSE)'
      BY <2>1, <2>3, <2>4, <2>5
    <3> HIDE DEF next, y
    <3> QED
      BY <1>1, <1>7, <1>8, <3>1, <3>2 DEF FormLegs, AtLegs
  <2>7. dry' \in BOOLEAN
    BY <1>6
  <2> QED
    BY <1>1, <1>8, <2>5, <2>6, <2>7, StaysSent DEF SentForm, RouterTyped
<1> QED
  BY <1>9, <1>10

LEMMA BackAgain ==
  ASSUME NEW a, NEW b
  PROVE  Router!Reverse(<<a, b>>)[1] = b /\ Router!Last(Router!Reverse(<<a, b>>)) = a
<1> DEFINE r == Router!Reverse(<<a, b>>)
<1>1. Len(<<a, b>>) = 2 /\ <<a, b>>[1] = a /\ <<a, b>>[2] = b
  OBVIOUS
<1>2. r = [i \in 1 .. 2 |-> <<a, b>>[2 - i + 1]]
  BY <1>1 DEF Router!Reverse
<1>3. r \in [1 .. 2 -> {a, b}] /\ r[1] = b /\ r[2] = a
  BY <1>1, <1>2
<1> HIDE DEF r
<1>4. r \in Seq({a, b}) /\ Len(r) = 2
  <2>1. r \in UNION {[1 .. n -> {a, b}] : n \in Nat}
    BY <1>3
  <2>2. r \in Seq({a, b}) /\ DOMAIN r = 1 .. 2
    BY <1>3, <2>1, SeqDef
  <2>3. Len(r) \in Nat /\ 1 .. Len(r) = 1 .. 2
    BY <2>2, LenProperties
  <2> QED
    BY <2>2, <2>3
<1> USE DEF r
<1> QED
  BY <1>3, <1>4 DEF Router!Last

\* An exact output is paid at once, from the user or the router.
LEMMA OutStep == ASSUME RouterIInv, Router!SwapOut PROVE RouterIInv'
<1>1. FormOut /\ tx.pc = "sent" /\ acts = << >> /\ todo # << >> /\ RouterTyped
      /\ Head(todo).op \in {"v2out", "v3out"}
  BY RunningForms DEF Router!SwapOut, Router!Running, RouterIInv
<1>2. PICK p \in Routes, b \in BOOLEAN :
       /\ p[1] = tx.in /\ LastOf(p) = tx.out
       /\ \/ todo = <<Router!V2SwapOut("payee", tx.amount, tx.limit, p, b)>>
          \/ Len(p) = 2 /\ todo = <<Router!V3SwapOut("payee", tx.amount, tx.limit, <<p[2], p[1]>>, b)>>
  <2>1. PICK p \in Routes, b \in BOOLEAN :
          /\ p[1] = tx.in /\ LastOf(p) = tx.out
          /\ \/ todo = <<Router!V2SwapOut("payee", tx.amount, tx.limit, p, b)>>
             \/ Len(p) = 2 /\ todo = <<Router!V3SwapOut("payee", tx.amount, tx.limit, <<p[2], p[1]>>, b)>>
             \/ todo = <<SwapOutPayTake(p, tx.amount, tx.limit, b)>>
    BY <1>1 DEF FormOut
  <2>2. todo # <<SwapOutPayTake(p, tx.amount, tx.limit, b)>>
    <3>1. SwapOutPayTake(p, tx.amount, tx.limit, b).op = "v4"
      BY DEF SwapOutPayTake, Router!V4Swap
    <3> QED
      BY <1>1, <3>1, OneOf
  <2> QED
    BY <2>1, <2>2
<1>3. PICK c : c = Head(todo) /\ todo = <<c>> /\ Tail(todo) = << >>
  BY <1>2, OneOf
<1>4. /\ c.to = "payee" /\ c.amount = tx.amount /\ c.limit = tx.limit /\ c.byUser = b
      /\ \/ c.op = "v2out" /\ c.path = p
         \/ c.op = "v3out" /\ c.path = <<p[2], p[1]>> /\ Len(p) = 2
  BY <1>2, <1>3, OneOf DEF Router!V2SwapOut, Router!V3SwapOut
<1>5. PICK q : q = IF c.op = "v3out" THEN Router!Reverse(c.path) ELSE c.path
  OBVIOUS
<1>6. q[1] = tx.in /\ Router!Last(q) = tx.out
  BY <1>2, <1>4, <1>5, BackAgain DEF LastOf, Router!Last
<1>7. PICK in \in 1 .. MaxPrice :
        /\ in <= tx.limit /\ Router!CanPay(Router!Payer(b), tx.in, in)
        /\ bal' = Router!Moves(Router!Payer(b), tx.in, in, "payee", tx.out, tx.amount)
  BY <1>3, <1>4, <1>5, <1>6 DEF Router!SwapOut
<1>8. /\ tx' = tx /\ acts' = acts /\ delta' = delta /\ dry' = dry /\ todo' = << >>
  BY <1>3 DEF Router!SwapOut
<1>9. /\ tx.in \in Coins /\ tx.out \in Coins /\ tx.in # tx.out /\ tx.limit \in Nat /\ tx.amount \in Nat /\ in \in Nat /\ in > 0
  BY <1>1, <1>2, RouteFact, RouterAssumption DEF RouterTyped
<1>10. PICK w : HasPaid(w, Router!Payer(b), tx.in, in) /\ HasGot(bal', w, "payee", tx.out, tx.amount)
  <2>1. Router!Payer(b) \in Accounts /\ "payee" \in Accounts /\ in \in Int /\ tx.amount \in Int
    BY <1>9 DEF Router!Payer, Accounts
  <2> QED
    BY <1>1, <1>7, <1>9, <2>1, MovesFact
<1>11. /\ bal' \in [Accounts -> Wallets]
       /\ \A f \in Accounts, v \in Coins :
            /\ w[f][v] = IF f = (IF b THEN "user" ELSE "router") /\ v = tx.in THEN bal[f][v] - in ELSE bal[f][v]
            /\ bal'[f][v] = IF f = "payee" /\ v = tx.out THEN w[f][v] + tx.amount ELSE w[f][v]
            /\ bal[f][v] \in Int /\ tx.before.bal[f][v] \in Int
  <2>1. \A f \in Accounts, v \in Coins : bal[f][v] \in Int /\ tx.before.bal[f][v] \in Int
    BY <1>1 DEF RouterTyped, Wallets
  <2>2. Router!Payer(b) = IF b THEN "user" ELSE "router"
    BY DEF Router!Payer
  <2>3. \A f \in Accounts, v \in Coins :
          w[f][v] = IF f = (IF b THEN "user" ELSE "router") /\ v = tx.in THEN bal[f][v] - in ELSE bal[f][v]
    BY <1>10, <2>2 DEF HasPaid
  <2>4. /\ bal' \in [Accounts -> Wallets]
        /\ \A f \in Accounts, v \in Coins :
             bal'[f][v] = IF f = "payee" /\ v = tx.out THEN w[f][v] + tx.amount ELSE w[f][v]
    BY <1>10 DEF HasGot
  <2> QED
    BY <2>1, <2>3, <2>4
<1>12. tx.exact = "out" /\ Spent(bal, 0) /\ PayeeKept(bal) /\ HoldsNothing(bal, dry)
  BY <1>1 DEF FormOut
<1>13. Settled'
  <2>1. Spent(bal, tx.limit)'
    BY <1>7, <1>8, <1>9, <1>11, <1>12 DEF Spent, Accounts
  <2>2. PaidOut'
    BY <1>8, <1>9, <1>11, <1>12 DEF PaidOut, PayeeKept, Accounts
  <2>3. HoldsNothing(bal, dry)'
    <3> SUFFICES ASSUME ~dry, NEW v \in Coins PROVE bal'["router"][v] = 0
      BY <1>8 DEF HoldsNothing
    <3>1. bal["router"][v] = 0 /\ bal["router"][tx.in] = 0
      BY <1>9, <1>12 DEF HoldsNothing
    <3>2. b
      BY <1>7, <1>9, <3>1 DEF Router!CanPay, Router!Payer
    <3> QED
      BY <1>11, <3>1, <3>2 DEF Accounts
  <2> QED
    BY <1>8, <1>12, <2>1, <2>2, <2>3 DEF Settled
<1>14. FormDone'
  BY <1>1, <1>8, <1>13 DEF FormDone, FormOut
<1> QED
  BY <1>1, <1>8, <1>11, <1>14, StaysSent DEF SentForm, RouterTyped

\* When no command is left, all is as ordered.
LEMMA SucceedStep == ASSUME RouterIInv, Router!Succeed PROVE RouterIInv'
<1>1. FormDone /\ tx.pc = "sent" /\ RouterTyped
  BY RunningForms DEF Router!Succeed, RouterIInv
<1>2. /\ tx' = [tx EXCEPT !.pc = "idle"]
      /\ bal' = bal /\ delta' = delta /\ todo' = << >> /\ acts' = << >> /\ dry' = dry
  BY DEF Router!Succeed
<1>3. /\ tx'.pc = "idle" /\ tx'.n = tx.n /\ tx'.exact = tx.exact /\ tx'.in = tx.in /\ tx'.out = tx.out
      /\ tx'.amount = tx.amount /\ tx'.limit = tx.limit /\ tx'.byUser = tx.byUser /\ tx'.before = tx.before
      /\ RouterTyped'
  BY <1>1, <1>2 DEF RouterTyped
<1>4. \A f \in Accounts, v \in Coins : bal[f][v] \in Int /\ tx.before.bal[f][v] \in Int
  BY <1>1 DEF RouterTyped, Wallets
<1>5. Router!SettledAsOrdered'
  <2> DEFINE spent(t) == tx.before.bal["user"][t] - bal["user"][t]
             got(t) == bal["payee"][t] - tx.before.bal["payee"][t]
  <2>1. tx.in \in Coins /\ tx.out \in Coins /\ tx.amount \in Nat /\ tx.limit \in Nat /\ tx.exact \in {"in", "out"}
    BY <1>1 DEF RouterTyped
  <2>2. \A t \in Coins : (t # tx.in => spent(t) = 0) /\ (t # tx.out => got(t) = 0)
    BY <1>1, <1>4 DEF FormDone, Settled, Spent, PaidOut, Accounts
  <2>3. IF tx.exact = "in" THEN spent(tx.in) <= tx.amount /\ got(tx.out) >= tx.limit
        ELSE spent(tx.in) <= tx.limit /\ got(tx.out) = tx.amount
    <3>1. /\ bal["user"][tx.in] \in Int /\ tx.before.bal["user"][tx.in] \in Int
          /\ bal["payee"][tx.out] \in Int /\ tx.before.bal["payee"][tx.out] \in Int
      BY <1>4, <2>1 DEF Accounts
    <3>2. CASE tx.exact = "in"
      <4>1. bal["user"][tx.in] \in tx.before.bal["user"][tx.in] - tx.amount .. tx.before.bal["user"][tx.in]
        BY <1>1, <2>1, <3>2 DEF FormDone, Settled, Spent
      <4>2. bal["payee"][tx.out] >= tx.before.bal["payee"][tx.out] + tx.limit
        BY <1>1, <2>1, <3>2 DEF FormDone, Settled, PaidOut
      <4> QED
        BY <2>1, <3>1, <3>2, <4>1, <4>2
    <3>3. CASE tx.exact = "out"
      <4>1. bal["user"][tx.in] \in tx.before.bal["user"][tx.in] - tx.limit .. tx.before.bal["user"][tx.in]
        BY <1>1, <2>1, <3>3 DEF FormDone, Settled, Spent
      <4>2. bal["payee"][tx.out] = tx.before.bal["payee"][tx.out] + tx.amount
        BY <1>1, <2>1, <3>3 DEF FormDone, Settled, PaidOut
      <4> QED
        BY <2>1, <3>1, <3>3, <4>1, <4>2
    <3> QED
      BY <2>1, <3>2, <3>3
  <2> QED
    BY <1>2, <1>3, <2>2, <2>3 DEF Router!SettledAsOrdered
<1>6. Router!NothingLeftBehind'
  <2> SUFFICES ASSUME ~dry PROVE bal["router"] = Router!Nothing
    BY <1>2 DEF Router!NothingLeftBehind
  <2>1. bal["router"] \in Wallets /\ \A t \in Coins : bal["router"][t] = 0
    BY <1>1 DEF FormDone, Settled, HoldsNothing, RouterTyped, Accounts
  <2> QED
    BY <2>1 DEF Wallets, Router!Nothing
<1>7. HoldsNothing(tx.before.bal, tx.before.dry)' /\ delta' = Router!Nothing
  BY <1>1, <1>2, <1>3 DEF HoldsNothing, RouterIInv, FormDone
<1> QED
  BY <1>2, <1>3, <1>5, <1>6, <1>7 DEF RouterIInv, Router!OrderIsWhole

\* A transaction that reverts has changed nothing.
LEMMA RevertStep == ASSUME RouterIInv, Router!Revert PROVE RouterIInv'
<1>1. tx.pc = "sent" /\ RouterTyped /\ HoldsNothing(tx.before.bal, tx.before.dry)
  BY DEF Router!Revert, RouterIInv
<1>2. /\ tx' = [tx EXCEPT !.pc = "idle", !.amount = 0]
      /\ bal' = tx.before.bal /\ dry' = tx.before.dry
      /\ delta' = Router!Nothing /\ todo' = << >> /\ acts' = << >>
  BY DEF Router!Revert
<1>3. tx'.pc = "idle" /\ tx'.amount = 0 /\ tx'.before = tx.before
  BY <1>1, <1>2 DEF RouterTyped
<1>4. RouterTyped'
  <2>1. Router!Nothing \in Wallets
    BY DEF Router!Nothing, Wallets
  <2> QED
    BY <1>1, <1>2, <2>1 DEF RouterTyped
<1>5. Router!NothingLeftBehind'
  <2> SUFFICES ASSUME ~dry' PROVE bal'["router"] = Router!Nothing
    BY DEF Router!NothingLeftBehind
  <2>1. bal'["router"] \in Wallets /\ \A t \in Coins : bal'["router"][t] = 0
    BY <1>1, <1>2 DEF HoldsNothing, RouterTyped, Accounts
  <2> QED
    BY <2>1 DEF Wallets, Router!Nothing
<1>6. HoldsNothing(tx.before.bal, tx.before.dry)'
  BY <1>1, <1>3 DEF HoldsNothing
<1>7. Router!SettledAsOrdered'
  BY <1>3 DEF Router!SettledAsOrdered
<1> QED
  BY <1>2, <1>3, <1>4, <1>5, <1>6, <1>7 DEF RouterIInv, Router!OrderIsWhole

LEMMA SweepStep == ASSUME RouterIInv, Router!Sweep PROVE RouterIInv'
<1>1. tx.pc = "idle" /\ RouterTyped /\ HoldsNothing(tx.before.bal, tx.before.dry) /\ delta = Router!Nothing
      /\ Router!SettledAsOrdered
  BY DEF Router!Sweep, RouterIInv, Router!OrderIsWhole
<1>2. /\ tx' = tx /\ delta' = delta /\ todo' = todo /\ acts' = acts /\ dry' = FALSE
      /\ bal' = [bal EXCEPT !["router"] = Router!Nothing]
  BY DEF Router!Sweep
<1>3. Router!Nothing \in Wallets
  BY DEF Router!Nothing, Wallets
<1>4. /\ bal' \in [Accounts -> Wallets] /\ bal'["router"] = Router!Nothing
      /\ bal'["user"] = bal["user"] /\ bal'["payee"] = bal["payee"]
  BY <1>1, <1>2, <1>3 DEF RouterTyped, Accounts
<1>5. RouterTyped' /\ HoldsNothing(tx.before.bal, tx.before.dry)'
  BY <1>1, <1>2, <1>4 DEF RouterTyped, HoldsNothing
<1>6. Router!OrderIsWhole'
  BY <1>1, <1>2, <1>4 DEF Router!OrderIsWhole, Router!SettledAsOrdered, Router!NothingLeftBehind
<1> QED
  BY <1>1, <1>2, <1>5, <1>6 DEF RouterIInv

LEMMA BalancesKept ==
  ASSUME bal' = bal, tx' = tx, dry => dry'
  PROVE  /\ \A t, x, b : Ready(t, x, b) => Ready(t, x, b)'
         /\ Underway(bal, dry) => Underway(bal, dry)'
         /\ Settled => Settled'
         /\ Unpaid /\ todo' = todo => Unpaid'
         /\ Spent(bal, 0) => Spent(bal, 0)'
         /\ Spent(bal, tx.limit) => Spent(bal, tx.limit)'
         /\ PayeeKept(bal) => PayeeKept(bal)'
         /\ HoldsNothing(bal, dry) => HoldsNothing(bal, dry)'
<1>1. ASSUME NEW t, NEW x, NEW b, Ready(t, x, b) PROVE Ready(t, x, b)'
  BY <1>1 DEF Ready, Spent, PayeeKept, HoldsOnly
<1>2. Underway(bal, dry) => Underway(bal, dry)'
  BY DEF Underway, Spent, PayeeKept, HoldsNothing
<1>3. Settled => Settled'
  BY DEF Settled, Spent, PaidOut, HoldsNothing
<1>4. Unpaid /\ todo' = todo => Unpaid'
  BY DEF Unpaid, Spent, PayeeKept, HoldsNothing
<1>5. /\ Spent(bal, 0) => Spent(bal, 0)'
      /\ Spent(bal, tx.limit) => Spent(bal, tx.limit)'
      /\ PayeeKept(bal) => PayeeKept(bal)'
      /\ HoldsNothing(bal, dry) => HoldsNothing(bal, dry)'
  BY DEF Spent, PayeeKept, HoldsNothing
<1> QED
  BY <1>1, <1>2, <1>3, <1>4, <1>5

\* A V4_SWAP starts with its first action, nobody owing anything.
LEMMA UnlockStep == ASSUME RouterIInv, Router!Unlock PROVE RouterIInv'
<1>1. (FormLegs \/ FormOut) /\ tx.pc = "sent" /\ acts = << >> /\ todo # << >> /\ RouterTyped
      /\ Head(todo).op = "v4"
  BY RunningForms DEF Router!Unlock, Router!Running, RouterIInv
<1>2. /\ acts' = Append(Head(todo).actions, Lock) /\ todo' = Tail(todo)
      /\ bal' = bal /\ delta' = delta /\ tx' = tx /\ dry' = dry
  BY DEF Router!Unlock, Lock
<1>3. CASE FormLegs
  <2>1. PICK x \in Nat \union {-1}, b \in BOOLEAN :
          Legs(todo, x, b, tx) /\ Ready(PathOf(todo[1])[1], x, b)
    BY <1>3 DEF FormLegs, AtLegs, Router!CONTRACT_BALANCE
  <2>2. PICK c, p : c = todo[1] /\ p = PathOf(c)
    OBVIOUS
  <2>3. PICK to \in {"router", "payee"}, min \in {0, tx.limit} :
          /\ IsLeg(c, p, to, min, x, b) /\ Remains(Tail(todo), LastOf(p), to, min, tx)
          /\ Head(todo) = c /\ p \in Routes
    BY <2>1, <2>2, LegsHead
  <2>4. /\ min \in Nat /\ p[1] \in Coins /\ Ready(p[1], x, b)' /\ delta' = Router!Nothing
        /\ Remains(todo', LastOf(p), to, min, tx')
    BY <1>1, <1>2, <1>3, <2>1, <2>2, <2>3, RouteFact, BalancesKept DEF RouterTyped, FormLegs
  <2>5. \/ x \in Nat /\ \E pay \in Pays(p[1], x, b) : c = SwapPayTake(p, x, min, pay, to)
        \/ x = Router!CONTRACT_BALANCE /\ ~b /\ c = PaySwapTake(p, min, to)
    BY <1>1, <2>3, LegOp
  <2>6. CASE x \in Nat /\ \E pay \in Pays(p[1], x, b) : c = SwapPayTake(p, x, min, pay, to)
    <3>1. PICK pay \in Pays(p[1], x, b) : c = SwapPayTake(p, x, min, pay, to)
      BY <2>6
    <3>2. acts' = <<Router!V4In(p, x, min), pay, Router!TakeTo(LastOf(p), to, Router!OPEN_DELTA), Lock>>
      <4>1. c.actions = <<Router!V4In(p, x, min), pay, Router!TakeTo(LastOf(p), to, Router!OPEN_DELTA)>>
        BY <3>1 DEF SwapPayTake, Router!V4Swap
      <4> QED
        BY <1>2, <2>3, <4>1, AddFourth
    <3>3. FormSwapThenPay'
      BY <2>3, <2>4, <2>6, <3>2 DEF FormSwapThenPay
    <3> QED
      BY <1>1, <1>2, <3>3, StaysSent DEF SentForm, RouterTyped
  <2>7. CASE x = Router!CONTRACT_BALANCE /\ ~b /\ c = PaySwapTake(p, min, to)
    <3>1. acts' = <<Router!Settle(p[1], Router!CONTRACT_BALANCE, FALSE),
                    Router!V4In(p, Router!OPEN_DELTA, min),
                    Router!TakeTo(LastOf(p), to, Router!OPEN_DELTA), Lock>>
      <4>1. c.actions = <<Router!Settle(p[1], Router!CONTRACT_BALANCE, FALSE),
                          Router!V4In(p, Router!OPEN_DELTA, min),
                          Router!TakeTo(LastOf(p), to, Router!OPEN_DELTA)>>
        BY <2>7 DEF PaySwapTake, Router!V4Swap
      <4> QED
        BY <1>2, <2>3, <4>1, AddFourth
    <3>2. FormFund'
      BY <2>3, <2>4, <2>7, <3>1 DEF FormFund
    <3> QED
      BY <1>1, <1>2, <3>2, StaysSent DEF SentForm, RouterTyped
  <2> QED
    BY <2>5, <2>6, <2>7
<1>4. CASE FormOut
  <2>1. PICK p \in Routes, b \in BOOLEAN :
          p[1] = tx.in /\ LastOf(p) = tx.out /\ todo = <<SwapOutPayTake(p, tx.amount, tx.limit, b)>>
    <3>1. /\ \A p, b : Router!V2SwapOut("payee", tx.amount, tx.limit, p, b).op = "v2out"
          /\ \A p, b : Router!V3SwapOut("payee", tx.amount, tx.limit, p, b).op = "v3out"
      BY DEF Router!V2SwapOut, Router!V3SwapOut
    <3> QED
      BY <1>1, <1>4, <3>1, OneOf DEF FormOut
  <2>2. acts' = <<Router!V4Out(p, tx.amount, tx.limit), Bill(p[1], tx.limit, b),
                  Router!TakeTo(tx.out, "payee", Router!OPEN_DELTA), Lock>>
    <3>1. Head(todo).actions = <<Router!V4Out(p, tx.amount, tx.limit), Bill(p[1], tx.limit, b),
                                 Router!TakeTo(tx.out, "payee", Router!OPEN_DELTA)>>
      BY <2>1, OneOf DEF SwapOutPayTake, Router!V4Swap
    <3> QED
      BY <1>2, <3>1, AddFourth
  <2>3. todo' = << >> /\ Unpaid' /\ delta' = Router!Nothing
    <3>1. todo' = << >>
      BY <1>2, <2>1, OneOf
    <3> QED
      BY <1>2, <1>4, <3>1, BalancesKept DEF FormOut, Unpaid
  <2>4. FormSwapOut'
    <3>1. tx.amount \in Nat
      BY <1>1 DEF RouterTyped
    <3> QED
      BY <1>2, <2>1, <2>2, <2>3, <3>1 DEF FormSwapOut, Bill
  <2> QED
    BY <1>1, <1>2, <2>4, StaysSent DEF SentForm, RouterTyped
<1> QED
  BY <1>1, <1>3, <1>4

\* It ends when nobody owes anything, with the legs that remain.
LEMMA LockStep == ASSUME RouterIInv, Router!Lock PROVE RouterIInv'
<1>1. FormLock /\ tx.pc = "sent" /\ RouterTyped /\ delta = Router!Nothing
  BY ActingForms DEF Router!Lock, Router!Acting, RouterIInv
<1>2. /\ acts' = << >> /\ todo' = todo
      /\ bal' = bal /\ delta' = delta /\ tx' = tx /\ dry' = dry
  BY <1>1, OneOf DEF Router!Lock, FormLock
<1>3. CASE todo = << >> /\ Settled
  <2>1. FormDone'
    BY <1>1, <1>2, <1>3, BalancesKept DEF FormDone
  <2> QED
    BY <1>1, <1>2, <2>1, StaysSent DEF SentForm, RouterTyped
<1>4. CASE AtLegs(todo)
  <2>1. AtLegs(todo)'
    <3>1. PICK x \in Nat \union {Router!CONTRACT_BALANCE}, b \in BOOLEAN :
            Legs(todo, x, b, tx) /\ Ready(PathOf(todo[1])[1], x, b)
      BY <1>4 DEF AtLegs
    <3>2. PICK t : t = PathOf(todo[1])[1]
      OBVIOUS
    <3>3. Ready(t, x, b)'
      BY <1>2, <3>1, <3>2, BalancesKept
    <3> QED
      BY <1>2, <3>1, <3>2, <3>3 DEF AtLegs, Router!CONTRACT_BALANCE
  <2>2. FormLegs'
    BY <1>1, <1>2, <2>1 DEF FormLegs
  <2> QED
    BY <1>1, <1>2, <2>2, StaysSent DEF SentForm, RouterTyped
<1> QED
  BY <1>1, <1>3, <1>4 DEF FormLock

\* The PoolManager is owed used of t more, and owes out of u more.
Swapped(d, t, used, u, out) ==
  /\ d \in Wallets
  /\ \A v \in Coins : d[v] = IF v = t THEN delta[v] - used ELSE IF v = u THEN delta[v] + out ELSE delta[v]

\* The first hop of path p swaps x for out, or a pool that runs dry takes less.
Hopped(p, x, min, used, out) ==
  /\ x > 0 /\ x \in Int /\ used \in {x, x - 1} /\ out \in Nat
  /\ (Len(p) = 2 => out >= min) /\ (Len(p) = 2 \/ out > 0)
  /\ Swapped(delta', p[1], used, p[2], out)
  /\ dry' \in BOOLEAN /\ (dry => dry') /\ (~dry' => used = x)
  /\ acts' = IF Len(p) = 2 THEN Tail(acts) ELSE <<Router!V4In(Tail(p), out, min)>> \o Tail(acts)

\* What a swap in the PoolManager does to each debt.
LEMMA SwappedFact ==
  ASSUME RouterTyped, NEW t \in Coins, NEW u \in Coins, t # u, NEW x, x \in Int, NEW y, y \in Int
  PROVE  /\ Swapped([delta EXCEPT ![t] = @ - x, ![u] = @ + y], t, x, u, y)
         /\ Swapped([delta EXCEPT ![u] = @ + y, ![t] = @ - x], t, x, u, y)
<1>1. delta \in Wallets /\ delta[t] \in Int /\ delta[u] \in Int /\ delta[t] - x \in Int /\ delta[u] + y \in Int
  BY DEF RouterTyped, Wallets
<1> QED
  BY <1>1 DEF Wallets, Swapped

\* A swap in the PoolManager owes what it used, and is owed what it brought.
LEMMA V4InStep == ASSUME RouterIInv, Router!SwapV4In PROVE RouterIInv'
<1>1. (FormSwapThenPay \/ FormSwap) /\ tx.pc = "sent" /\ acts # << >> /\ RouterTyped
  BY ActingForms DEF Router!SwapV4In, Router!Acting, RouterIInv
<1>2. bal' = bal /\ todo' = todo /\ tx' = tx
  BY DEF Router!SwapV4In
<1>3. ASSUME NEW p \in Routes, NEW y \in Nat, NEW min \in Nat, Head(acts) = Router!V4In(p, y, min),
             NEW x0, x0 = IF y = 0 THEN delta[p[1]] ELSE y
      PROVE  \E used, out : Hopped(p, x0, min, used, out)
  <2>1. PICK c : c = Head(acts) /\ c.path = p /\ c.amount = y /\ c.limit = min
    BY <1>3 DEF Router!V4In
  <2>2. PICK used \in {x0, x0 - 1}, out \in 0 .. MaxPrice :
          /\ x0 > 0
          /\ (Len(p) = 2 => out >= min) /\ (Len(p) = 2 \/ out > 0)
          /\ delta' = [delta EXCEPT ![p[1]] = @ - used, ![p[2]] = @ + out]
          /\ dry' = (dry \/ used < x0)
          /\ acts' = IF Len(p) = 2 THEN Tail(acts) ELSE <<Router!V4In(Tail(p), out, min)>> \o Tail(acts)
    BY <1>3, <2>1 DEF Router!SwapV4In, Router!OPEN_DELTA
  <2>3. p[1] \in Coins /\ p[2] \in Coins /\ p[1] # p[2] /\ x0 \in Int /\ used \in Int /\ out \in Int /\ out \in Nat /\ out <= MaxPrice
    <3>1. p[1] \in Coins /\ p[2] \in Coins /\ p[1] # p[2]
      BY RouteFact
    <3>2. x0 \in Int
      BY <1>1, <1>3, <3>1 DEF RouterTyped, Wallets
    <3> QED
      BY <3>1, <3>2, RouterAssumption
  <2>4. Swapped(delta', p[1], used, p[2], out)
    BY <1>1, <2>2, <2>3, SwappedFact
  <2>5. dry' \in BOOLEAN /\ (dry => dry') /\ (~dry' => used = x0)
    <3>1. CASE used < x0
      BY <2>2, <3>1
    <3>2. CASE ~(used < x0)
      <4>1. used = x0
        BY <2>2, <2>3, <3>2
      <4> QED
        BY <1>1, <2>2, <3>2, <4>1 DEF RouterTyped
    <3> QED
      BY <3>1, <3>2
  <2> QED
    BY <2>2, <2>3, <2>4, <2>5 DEF Hopped
<1>4. CASE FormSwapThenPay
  <2>1. PICK p \in Routes, y \in Nat, min \in Nat, to \in {"router", "payee"}, t \in Coins,
             x \in Nat, b \in BOOLEAN :
          \E s \in Pays(t, x, b) :
            /\ acts = <<Router!V4In(p, y, min), s, Router!TakeTo(LastOf(p), to, Router!OPEN_DELTA), Lock>>
            /\ Remains(todo, LastOf(p), to, min, tx) /\ Ready(t, x, b)
            /\ \/ y = x /\ t = p[1] /\ delta = Router!Nothing
               \/ /\ \A k \in 1 .. Len(p) : p[k] # t
                  /\ y > 0 /\ delta[p[1]] = y /\ Owes(t, x) /\ Unvisited(p) /\ NoOther({t, p[1]})
    BY <1>4 DEF FormSwapThenPay
  <2>2. PICK s \in Pays(t, x, b) :
          /\ acts = <<Router!V4In(p, y, min), s, Router!TakeTo(LastOf(p), to, Router!OPEN_DELTA), Lock>>
          /\ Remains(todo, LastOf(p), to, min, tx) /\ Ready(t, x, b)
          /\ \/ y = x /\ t = p[1] /\ delta = Router!Nothing
             \/ /\ \A k \in 1 .. Len(p) : p[k] # t
                /\ y > 0 /\ delta[p[1]] = y /\ Owes(t, x) /\ Unvisited(p) /\ NoOther({t, p[1]})
    BY <2>1
  <2>3. /\ Head(acts) = Router!V4In(p, y, min)
        /\ Tail(acts) = <<s, Router!TakeTo(LastOf(p), to, Router!OPEN_DELTA), Lock>>
    BY <2>2, FourOf
  <2>4. /\ p[1] \in Coins /\ p[2] \in Coins /\ p[1] # p[2] /\ 1 \in 1 .. Len(p) /\ 2 \in 1 .. Len(p)
        /\ \A k \in 1 .. Len(p) : p[k] \in Coins /\ (p[k] = p[1] => k = 1) /\ (p[k] = p[2] => k = 2)
    BY RouteFact
  <2>5. \A v \in Coins : delta[v] \in Int /\ (delta = Router!Nothing => delta[v] = 0)
    BY <1>1 DEF RouterTyped, Wallets, Router!Nothing
  <2>6. PICK x0 : x0 = IF y = 0 THEN delta[p[1]] ELSE y
    OBVIOUS
  <2>61. PICK used, out : Hopped(p, x0, min, used, out)
    BY <1>3, <2>3, <2>6
  <2>7. /\ x0 > 0 /\ x0 \in Int /\ used \in {x0, x0 - 1} /\ out \in Nat
        /\ (Len(p) = 2 => out >= min) /\ (Len(p) = 2 \/ out > 0)
        /\ Swapped(delta', p[1], used, p[2], out)
        /\ dry' \in BOOLEAN /\ (dry => dry') /\ (~dry' => used = x0)
        /\ acts' = IF Len(p) = 2 THEN Tail(acts) ELSE <<Router!V4In(Tail(p), out, min)>> \o Tail(acts)
    BY <2>61 DEF Hopped
  <2>8. x0 = y
    BY <2>2, <2>4, <2>5, <2>6, <2>7
  <2>9. /\ delta' \in Wallets /\ dry' \in BOOLEAN
        /\ \A v \in Coins : delta'[v] = IF v = p[1] THEN delta[v] - used
                                       ELSE IF v = p[2] THEN delta[v] + out ELSE delta[v]
    BY <1>1, <2>7 DEF Swapped, RouterTyped
  <2>10. t # p[2] /\ delta'[p[2]] = out
    <3>1. 2 \in 2 .. Len(p)
      BY RouteFact
    <3>2. t # p[2] /\ delta[p[2]] = 0
      BY <2>2, <2>4, <2>5, <3>1 DEF Unvisited
    <3> QED
      BY <2>4, <2>7, <2>9, <3>2
  <2>11. Owes(t, x)'
    <3>1. CASE y = x /\ t = p[1] /\ delta = Router!Nothing
      <4>1. delta'[t] = 0 - used
        BY <2>4, <2>5, <2>9, <3>1
      <4> QED
        BY <2>7, <2>8, <3>1, <4>1 DEF Owes
    <3>2. CASE /\ \A k \in 1 .. Len(p) : p[k] # t
               /\ y > 0 /\ delta[p[1]] = y /\ Owes(t, x) /\ Unvisited(p) /\ NoOther({t, p[1]})
      <4>1. t # p[1] /\ t # p[2] /\ Owes(t, x)
        BY <2>4, <3>2
      <4>2. delta'[t] = delta[t]
        BY <2>9, <4>1
      <4> QED
        BY <2>7, <4>1, <4>2 DEF Owes
    <3> QED
      BY <2>2, <3>1, <3>2
  <2>12. NoOther({t, p[2]})'
    <3> SUFFICES ASSUME ~dry', NEW v \in Coins, v # t, v # p[2] PROVE delta'[v] = 0
      BY DEF NoOther
    <3>1. ~dry /\ used = x0
      BY <2>7
    <3> QED
      BY <2>2, <2>4, <2>5, <2>7, <2>8, <2>9, <3>1 DEF NoOther
  <2>13. Ready(t, x, b)' /\ Remains(todo', LastOf(p), to, min, tx')
    BY <1>2, <2>2, <2>7, BalancesKept
  <2>14. CASE Len(p) = 2
    <3>1. FormPay'
      <4>1. LastOf(p) = p[2] /\ LastOf(p) \in Coins
        BY <2>4, <2>14 DEF LastOf
      <4>2. acts' = <<s, Router!TakeTo(LastOf(p), to, Router!OPEN_DELTA), Lock>>
        BY <2>3, <2>7, <2>14
      <4> QED
        BY <2>7, <2>10, <2>11, <2>12, <2>13, <2>14, <4>1, <4>2 DEF FormPay
    <3> QED
      BY <1>1, <1>2, <2>9, <3>1, StaysSent DEF SentForm, RouterTyped
  <2>15. CASE Len(p) # 2
    <3>1. /\ Tail(p) \in Routes /\ Tail(p)[1] = p[2] /\ LastOf(Tail(p)) = LastOf(p)
          /\ Len(Tail(p)) = Len(p) - 1 /\ \A k \in 1 .. Len(p) - 1 : Tail(p)[k] = p[k + 1]
          /\ Len(p) \in Nat
      BY <2>15, RouteLength, RouteTail, RouteFact
    <3>2. \A k \in 1 .. Len(Tail(p)) : Tail(p)[k] # t
      BY <2>2, <2>4, <3>1
    <3>3. Unvisited(Tail(p))'
      <4> SUFFICES ASSUME NEW k \in 2 .. Len(Tail(p)) PROVE delta'[Tail(p)[k]] = 0
        BY <1>2 DEF Unvisited
      <4>1. k + 1 \in 2 .. Len(p) /\ k + 1 # 2 /\ Tail(p)[k] = p[k + 1]
        BY <3>1
      <4> QED
        BY <2>2, <2>4, <2>5, <2>9, <4>1 DEF Unvisited
    <3>4. acts' = <<Router!V4In(Tail(p), out, min), s, Router!TakeTo(LastOf(p), to, Router!OPEN_DELTA), Lock>>
      BY <2>3, <2>7, <2>15, PutThree
    <3>5. FormSwapThenPay'
      <4> DEFINE q == Tail(p)
      <4>1. q \in Routes /\ q[1] = p[2] /\ LastOf(q) = LastOf(p) /\ \A k \in 1 .. Len(q) : q[k] # t
        BY <3>1, <3>2
      <4>2. acts' = <<Router!V4In(q, out, min), s, Router!TakeTo(LastOf(q), to, Router!OPEN_DELTA), Lock>>
        BY <3>1, <3>4
      <4>3. Unvisited(q)'
        BY <3>3
      <4> HIDE DEF q
      <4> QED
        <5>1. Remains(todo', LastOf(q), to, min, tx')
          BY <2>13, <4>1
        <5>2. out > 0 /\ out \in Nat /\ delta'[q[1]] = out
          BY <2>7, <2>10, <2>15, <4>1
        <5>3. NoOther({t, q[1]})'
          BY <2>12, <4>1 DEF NoOther
        <5> QED
          BY <2>11, <2>13, <4>1, <4>2, <4>3, <5>1, <5>2, <5>3, ZenonT(40) DEF FormSwapThenPay
    <3> QED
      BY <1>1, <1>2, <2>9, <3>5, StaysSent DEF SentForm, RouterTyped
  <2> QED
    BY <2>14, <2>15
<1>5. CASE FormSwap
  <2>1. PICK p \in Routes, y \in Nat, min \in Nat, to \in {"router", "payee"} :
          /\ acts = <<Router!V4In(p, y, min), Router!TakeTo(LastOf(p), to, Router!OPEN_DELTA), Lock>>
          /\ Remains(todo, LastOf(p), to, min, tx) /\ Underway(bal, dry)
          /\ y \in {0, delta[p[1]]} /\ Unvisited(p) /\ NoOther({p[1]})
    BY <1>5 DEF FormSwap
  <2>3. /\ Head(acts) = Router!V4In(p, y, min)
        /\ Tail(acts) = <<Router!TakeTo(LastOf(p), to, Router!OPEN_DELTA), Lock>>
    BY <2>1, ThreeOf
  <2>4. /\ p[1] \in Coins /\ p[2] \in Coins /\ p[1] # p[2] /\ 1 \in 1 .. Len(p) /\ 2 \in 2 .. Len(p)
        /\ \A k \in 1 .. Len(p) : p[k] \in Coins /\ (p[k] = p[1] => k = 1) /\ (p[k] = p[2] => k = 2)
    BY RouteFact
  <2>5. \A v \in Coins : delta[v] \in Int
    BY <1>1 DEF RouterTyped, Wallets
  <2>6. PICK x0 : x0 = IF y = 0 THEN delta[p[1]] ELSE y
    OBVIOUS
  <2>61. PICK used, out : Hopped(p, x0, min, used, out)
    BY <1>3, <2>3, <2>6
  <2>7. /\ x0 > 0 /\ x0 \in Int /\ used \in {x0, x0 - 1} /\ out \in Nat
        /\ (Len(p) = 2 => out >= min) /\ (Len(p) = 2 \/ out > 0)
        /\ Swapped(delta', p[1], used, p[2], out)
        /\ dry' \in BOOLEAN /\ (dry => dry') /\ (~dry' => used = x0)
        /\ acts' = IF Len(p) = 2 THEN Tail(acts) ELSE <<Router!V4In(Tail(p), out, min)>> \o Tail(acts)
    BY <2>61 DEF Hopped
  <2>8. x0 = delta[p[1]]
    BY <2>1, <2>6
  <2>9. /\ delta' \in Wallets /\ dry' \in BOOLEAN
        /\ \A v \in Coins : delta'[v] = IF v = p[1] THEN delta[v] - used
                                       ELSE IF v = p[2] THEN delta[v] + out ELSE delta[v]
    BY <1>1, <2>7 DEF Swapped, RouterTyped
  <2>10. delta'[p[2]] = out
    <3>1. delta[p[2]] = 0
      BY <2>1, <2>4 DEF Unvisited
    <3> QED
      BY <2>4, <2>7, <2>9, <3>1
  <2>12. NoOther({p[2]})'
    <3> SUFFICES ASSUME ~dry', NEW v \in Coins, v # p[2] PROVE delta'[v] = 0
      BY DEF NoOther
    <3>1. ~dry /\ used = x0
      BY <2>7
    <3> QED
      BY <2>1, <2>4, <2>5, <2>7, <2>8, <2>9, <3>1 DEF NoOther
  <2>13. Underway(bal, dry)' /\ Remains(todo', LastOf(p), to, min, tx')
    BY <1>2, <2>1, <2>7, BalancesKept
  <2>14. CASE Len(p) = 2
    <3>1. FormTake'
      <4>1. LastOf(p) = p[2] /\ LastOf(p) \in Coins
        BY <2>4, <2>14 DEF LastOf
      <4>2. acts' = <<Router!TakeTo(LastOf(p), to, Router!OPEN_DELTA), Lock>>
        BY <2>3, <2>7, <2>14
      <4> QED
        BY <2>7, <2>10, <2>12, <2>13, <2>14, <4>1, <4>2 DEF FormTake
    <3> QED
      BY <1>1, <1>2, <2>9, <3>1, StaysSent DEF SentForm, RouterTyped
  <2>15. CASE Len(p) # 2
    <3>1. /\ Tail(p) \in Routes /\ Tail(p)[1] = p[2] /\ LastOf(Tail(p)) = LastOf(p)
          /\ Len(Tail(p)) = Len(p) - 1 /\ \A k \in 1 .. Len(p) - 1 : Tail(p)[k] = p[k + 1]
          /\ Len(p) \in Nat
      BY <2>15, RouteLength, RouteTail, RouteFact
    <3>3. Unvisited(Tail(p))'
      <4> SUFFICES ASSUME NEW k \in 2 .. Len(Tail(p)) PROVE delta'[Tail(p)[k]] = 0
        BY <1>2 DEF Unvisited
      <4>1. k + 1 \in 2 .. Len(p) /\ k + 1 # 2 /\ Tail(p)[k] = p[k + 1]
        BY <3>1
      <4> QED
        BY <2>1, <2>4, <2>5, <2>9, <4>1 DEF Unvisited
    <3>4. acts' = <<Router!V4In(Tail(p), out, min), Router!TakeTo(LastOf(p), to, Router!OPEN_DELTA), Lock>>
      BY <2>3, <2>7, <2>15, PutTwo
    <3>5. FormSwap'
      <4> DEFINE q == Tail(p)
      <4>1. q \in Routes /\ q[1] = p[2] /\ LastOf(q) = LastOf(p)
        BY <3>1
      <4>2. acts' = <<Router!V4In(q, out, min), Router!TakeTo(LastOf(q), to, Router!OPEN_DELTA), Lock>>
        BY <3>1, <3>4
      <4>3. Unvisited(q)'
        BY <3>3
      <4> HIDE DEF q
      <4> QED
        <5>1. Remains(todo', LastOf(q), to, min, tx')
          BY <2>13, <4>1
        <5>2. out \in Nat /\ delta'[q[1]] = out
          BY <2>7, <2>10, <4>1
        <5>3. NoOther({q[1]})'
          BY <2>12, <4>1 DEF NoOther
        <5> QED
          BY <2>13, <4>1, <4>2, <4>3, <5>1, <5>2, <5>3 DEF FormSwap
    <3> QED
      BY <1>1, <1>2, <2>9, <3>5, StaysSent DEF SentForm, RouterTyped
  <2> QED
    BY <2>14, <2>15
<1> QED
  BY <1>1, <1>4, <1>5

\* From the last pool back to the first, the debt moves to the input.
LEMMA V4OutStep == ASSUME RouterIInv, Router!SwapV4Out PROVE RouterIInv'
<1>1. FormSwapOut /\ tx.pc = "sent" /\ acts # << >> /\ RouterTyped
  BY ActingForms DEF Router!SwapV4Out, Router!Acting, RouterIInv
<1>2. bal' = bal /\ todo' = todo /\ tx' = tx /\ dry' = dry
  BY DEF Router!SwapV4Out
<1>3. PICK p \in Routes, y \in Nat, b \in BOOLEAN :
        /\ acts = <<Router!V4Out(p, y, tx.limit), Bill(p[1], tx.limit, b),
                    Router!TakeTo(tx.out, "payee", Router!OPEN_DELTA), Lock>>
        /\ Unpaid /\ p[1] = tx.in
        /\ \/ y = tx.amount /\ LastOf(p) = tx.out /\ delta = Router!Nothing
           \/ /\ \A k \in 1 .. Len(p) : p[k] # tx.out
              /\ delta = [t \in Coins |-> IF t = tx.out THEN tx.amount
                                         ELSE IF t = LastOf(p) THEN -y ELSE 0]
  BY <1>1 DEF FormSwapOut
<1>4. PICK n \in Nat : n = Len(p) /\ n >= 2
  BY RouteFact
<1>5. /\ Head(acts) = Router!V4Out(p, y, tx.limit)
      /\ Tail(acts) = <<Bill(p[1], tx.limit, b), Router!TakeTo(tx.out, "payee", Router!OPEN_DELTA), Lock>>
  BY <1>3, FourOf
<1>6. PICK in \in 1 .. MaxPrice :
        /\ n = 2 => in <= tx.limit
        /\ delta' = [delta EXCEPT ![p[n]] = @ + y, ![p[n - 1]] = @ - in]
        /\ acts' = IF n = 2 THEN Tail(acts) ELSE <<Router!V4Out(Router!Front(p), in, tx.limit)>> \o Tail(acts)
  <2>1. PICK c : c = Head(acts) /\ c.path = p /\ c.amount = y /\ c.limit = tx.limit
    BY <1>5 DEF Router!V4Out
  <2> QED
    BY <1>4, <2>1 DEF Router!SwapV4Out
<1>7. /\ 1 \in 1 .. n /\ n - 1 \in 1 .. n /\ n \in 1 .. n /\ n - 1 # n
      /\ \A j, k \in 1 .. n : p[j] \in Coins /\ (p[j] = p[k] => j = k)
      /\ LastOf(p) = p[n] /\ in \in Int /\ in \in Nat /\ y \in Int
  <2>1. \A j, k \in 1 .. n : p[j] \in Coins /\ (p[j] = p[k] => j = k)
    BY <1>4, RouteFact
  <2> QED
    BY <1>4, <2>1, RouterAssumption DEF LastOf
<1>8. /\ delta' \in Wallets
      /\ \A v \in Coins : delta'[v] = IF v = p[n - 1] THEN delta[v] - in
                                     ELSE IF v = p[n] THEN delta[v] + y ELSE delta[v]
  <2>1. p[n - 1] \in Coins /\ p[n] \in Coins /\ p[n - 1] # p[n]
    BY <1>7
  <2>2. Swapped(delta', p[n - 1], in, p[n], y)
    BY <1>1, <1>6, <1>7, <2>1, SwappedFact
  <2> QED
    BY <2>2 DEF Swapped
<1>9. Unpaid' /\ tx.out \in Coins /\ tx.in \in Coins /\ tx.amount \in Nat /\ tx.limit \in Nat
  BY <1>1, <1>2, <1>3, BalancesKept DEF RouterTyped
<1>10. delta' = [t \in Coins |-> IF t = tx.out THEN tx.amount ELSE IF t = p[n - 1] THEN -in ELSE 0]
       /\ p[n - 1] # tx.out
  <2>1. CASE LastOf(p) = tx.out /\ y = tx.amount /\ delta = Router!Nothing
    <3>1. \A v \in Coins : delta[v] = 0
      BY <2>1 DEF Router!Nothing
    <3>2. p[n - 1] # tx.out /\ p[n] = tx.out
      BY <1>7, <2>1
    <3>3. \A v \in Coins : delta'[v] = IF v = tx.out THEN tx.amount ELSE IF v = p[n - 1] THEN -in ELSE 0
      BY <1>7, <1>8, <1>9, <2>1, <3>1, <3>2
    <3> QED
      BY <1>8, <3>2, <3>3 DEF Wallets
  <2>2. CASE /\ \A k \in 1 .. Len(p) : p[k] # tx.out
             /\ delta = [t \in Coins |-> IF t = tx.out THEN tx.amount
                                        ELSE IF t = LastOf(p) THEN -y ELSE 0]
    <3>1. \A v \in Coins : delta[v] = IF v = tx.out THEN tx.amount ELSE IF v = p[n] THEN -y ELSE 0
      BY <1>7, <2>2
    <3>2. p[n - 1] # tx.out /\ p[n] # tx.out /\ p[n - 1] # p[n]
      BY <1>4, <1>7, <2>2
    <3>3. \A v \in Coins : delta'[v] = IF v = tx.out THEN tx.amount ELSE IF v = p[n - 1] THEN -in ELSE 0
      BY <1>7, <1>8, <1>9, <3>1, <3>2
    <3> QED
      BY <1>8, <3>2, <3>3 DEF Wallets
  <2> QED
    BY <1>3, <2>1, <2>2
<1>11. CASE n = 2
  <2>1. p[n - 1] = tx.in /\ in \in 0 .. tx.limit
    BY <1>3, <1>6, <1>7, <1>9, <1>11
  <2>2. acts' = <<Bill(tx.in, tx.limit, b), Router!TakeTo(tx.out, "payee", Router!OPEN_DELTA), Lock>>
    BY <1>3, <1>5, <1>6, <1>11
  <2>3. acts' = <<Bill(tx'.in, tx'.limit, b), Router!TakeTo(tx'.out, "payee", Router!OPEN_DELTA), Lock>>
    BY <1>2, <2>2
  <2>4. delta' = [t \in Coins |-> IF t = tx'.out THEN tx'.amount ELSE IF t = tx'.in THEN -in ELSE 0]
    BY <1>2, <1>10, <2>1
  <2>5. FormPayOut'
    BY <1>2, <1>9, <1>10, <2>1, <2>3, <2>4 DEF FormPayOut
  <2> QED
    BY <1>1, <1>2, <1>8, <2>5, StaysSent DEF SentForm, RouterTyped
<1>12. CASE n # 2
  <2>1. PICK q : q = Router!Front(p)
    OBVIOUS
  <2>2. /\ q \in Routes /\ q[1] = p[1] /\ LastOf(q) = p[n - 1] /\ Len(q) = n - 1
        /\ \A k \in 1 .. n - 1 : q[k] = p[k]
    BY <1>4, <1>12, <2>1, RouteFront, RouteLength DEF Router!Front
  <2>3. acts' = <<Router!V4Out(q, in, tx'.limit), Bill(q[1], tx'.limit, b), Router!TakeTo(tx'.out, "payee", Router!OPEN_DELTA), Lock>>
    <3>1. acts' = <<Router!V4Out(q, in, tx.limit), Bill(q[1], tx.limit, b), Router!TakeTo(tx.out, "payee", Router!OPEN_DELTA), Lock>>
      <4>1. acts' = <<Router!V4Out(q, in, tx.limit)>> \o Tail(acts)
        BY <1>6, <1>12, <2>1
      <4>2. Tail(acts) = <<Bill(q[1], tx.limit, b), Router!TakeTo(tx.out, "payee", Router!OPEN_DELTA), Lock>>
        BY <1>5, <2>2
      <4> QED
        BY <4>1, <4>2, PutThree
    <3> QED
      BY <1>2, <3>1
  <2>4. \A k \in 1 .. Len(q) : q[k] # tx'.out
    <3>1. ASSUME NEW k \in 1 .. n - 1 PROVE p[k] # tx.out
      <4>1. k \in 1 .. n /\ k # n
        BY <3>1
      <4> QED
        BY <1>3, <1>4, <1>7, <4>1
    <3> QED
      BY <1>2, <2>2, <3>1
  <2>5. delta' = [t \in Coins |-> IF t = tx'.out THEN tx'.amount ELSE IF t = LastOf(q) THEN -in ELSE 0]
    BY <1>2, <1>10, <2>2
  <2>6. FormSwapOut'
    BY <1>2, <1>3, <1>7, <1>9, <2>2, <2>3, <2>4, <2>5 DEF FormSwapOut
  <2> QED
    BY <1>1, <1>2, <1>8, <2>6, StaysSent DEF SentForm, RouterTyped
<1> QED
  BY <1>11, <1>12

\* The user or the router hands m of token t to the PoolManager.
HandsOver(b, t, m) ==
  /\ Router!CanPay(Router!Payer(b), t, m)
  /\ HasPaid(bal', Router!Payer(b), t, m)
  /\ delta' \in Wallets /\ \A v \in Coins : delta'[v] = IF v = t THEN delta[v] + m ELSE delta[v]
  /\ acts' = Tail(acts) /\ todo' = todo /\ tx' = tx /\ dry' = dry

\* What Pay does to the balances and the debts.
LEMMA PayFact ==
  ASSUME RouterTyped, NEW b \in BOOLEAN, NEW t \in Coins, NEW m, m \in Int, Router!Pay(b, t, m)
  PROVE  HandsOver(b, t, m)
<1>1. /\ Router!CanPay(Router!Payer(b), t, m)
      /\ bal' = [bal EXCEPT ![Router!Payer(b)][t] = @ - m]
      /\ delta' = [delta EXCEPT ![t] = @ + m]
      /\ acts' = Tail(acts) /\ todo' = todo /\ tx' = tx /\ dry' = dry
  BY DEF Router!Pay
<1>2. HasPaid([bal EXCEPT ![Router!Payer(b)][t] = @ - m], Router!Payer(b), t, m)
  <2>1. Router!Payer(b) \in Accounts
    BY DEF Router!Payer, Accounts
  <2> QED
    BY <2>1, PaidFact
<1>3. delta \in Wallets /\ delta[t] + m \in Int
  BY DEF RouterTyped, Wallets
<1>4. delta' \in Wallets /\ \A v \in Coins : delta'[v] = IF v = t THEN delta[v] + m ELSE delta[v]
  BY <1>1, <1>3 DEF Wallets
<1> QED
  BY <1>1, <1>2, <1>4 DEF HandsOver

LEMMA SettleAllFact ==
  ASSUME RouterTyped, Router!PayDebt, NEW t \in Coins, NEW x, Head(acts) = Router!SettleAll(t, x)
  PROVE  -delta[t] \in 0 .. x /\ HandsOver(TRUE, t, -delta[t])
<1>1. PICK c : c = Head(acts) /\ c.op = "settleAll" /\ c.token = t /\ c.limit = x
  BY DEF Router!SettleAll
<1>2. -delta[t] \in 0 .. x /\ Router!Pay(TRUE, t, -delta[t])
  BY <1>1 DEF Router!PayDebt, Router!Acting
<1>3. -delta[t] \in Int /\ TRUE \in BOOLEAN
  BY DEF RouterTyped, Wallets
<1>4. PICK m : m = -delta[t]
  OBVIOUS
<1> QED
  BY <1>2, <1>3, <1>4, PayFact

\* What a settle of amount x of token t hands over.
SettleFact(t, x) ==
  IF x = 0 THEN delta[t] <= 0 /\ HandsOver(FALSE, t, -delta[t])
  ELSE HandsOver(FALSE, t, Router!Resolved(x, t))

LEMMA OfSettle ==
  ASSUME RouterTyped, Router!PayDebt, NEW t \in Coins, NEW x \in Nat \union {-1},
         Head(acts) = Router!Settle(t, x, FALSE)
  PROVE  SettleFact(t, x)
<1>1. PICK c : c = Head(acts) /\ c.op = "settle" /\ c.token = t /\ c.amount = x /\ c.byUser = FALSE
  BY DEF Router!Settle
<1>2. IF x = 0 THEN delta[t] <= 0 /\ Router!Pay(FALSE, t, -delta[t])
      ELSE Router!Pay(FALSE, t, Router!Resolved(x, t))
  BY <1>1 DEF Router!PayDebt, Router!Acting, Router!OPEN_DELTA
<1>3. -delta[t] \in Int /\ bal["router"][t] \in Int /\ FALSE \in BOOLEAN
  BY DEF RouterTyped, Wallets, Accounts
<1>4. PICK m : m = IF x = 0 THEN -delta[t] ELSE Router!Resolved(x, t)
  OBVIOUS
<1>5. m \in Int
  BY <1>3, <1>4 DEF Router!Resolved
<1>6. Router!Pay(FALSE, t, m)
  BY <1>2, <1>4
<1>7. HandsOver(FALSE, t, m)
  BY <1>3, <1>5, <1>6, PayFact
<1> QED
  BY <1>2, <1>4, <1>7 DEF SettleFact

\* A leg that has paid what it owes leaves nothing behind.
LEMMA LegPays ==
  ASSUME RouterTyped, NEW t \in Coins, NEW x \in Nat, NEW b \in BOOLEAN, Ready(t, x, b),
         NEW m, m \in 0 .. x, ~dry => m = x, HandsOver(b, t, m)
  PROVE  Underway(bal, dry)'
<1>1. \A f \in Accounts, v \in Coins :
        /\ bal'[f][v] = IF f = (IF b THEN "user" ELSE "router") /\ v = t THEN bal[f][v] - m ELSE bal[f][v]
        /\ bal[f][v] \in Int /\ tx.before.bal[f][v] \in Int
  <2>1. \A f \in Accounts, v \in Coins : bal[f][v] \in Int /\ tx.before.bal[f][v] \in Int
    BY DEF RouterTyped, Wallets
  <2>2. Router!Payer(b) = IF b THEN "user" ELSE "router"
    BY DEF Router!Payer
  <2> QED
    BY <2>1, <2>2 DEF HandsOver, HasPaid
<1>2. tx' = tx /\ dry' = dry /\ tx.amount \in Nat /\ m \in Int
  BY DEF HandsOver, RouterTyped
<1>3. Spent(bal, tx.amount)'
  <2>1. CASE b
    BY <1>1, <1>2, <2>1 DEF Spent, Ready, Accounts
  <2>2. CASE ~b
    BY <1>1, <1>2, <2>2 DEF Spent, Ready, Accounts
  <2> QED
    BY <2>1, <2>2
<1>4. PayeeKept(bal)'
  BY <1>1, <1>2 DEF PayeeKept, Ready, Accounts
<1>5. HoldsNothing(bal, dry)'
  <2> SUFFICES ASSUME ~dry, NEW v \in Coins PROVE bal'["router"][v] = 0
    BY <1>2 DEF HoldsNothing
  <2>1. CASE v # t
    BY <1>1, <2>1 DEF Ready, HoldsOnly, Accounts
  <2>2. CASE v = t /\ b
    BY <1>1, <2>2 DEF Ready, HoldsOnly, Accounts
  <2>3. CASE v = t /\ ~b
    BY <1>1, <1>2, <2>3 DEF Ready, HoldsOnly, Accounts, HandsOver, Router!CanPay, Router!Payer
  <2> QED
    BY <2>1, <2>2, <2>3
<1> QED
  BY <1>2, <1>3, <1>4, <1>5 DEF Underway, Ready

\* The input of a first leg is paid.
LEMMA PayStep ==
  ASSUME RouterIInv, Router!PayDebt, FormPay, tx.pc = "sent"
  PROVE  RouterIInv'
<1> RouterTyped
  BY DEF RouterIInv
<1>1. PICK u \in Coins, min \in Nat, to \in {"router", "payee"}, t \in Coins, x \in Nat, b \in BOOLEAN :
        \E s \in Pays(t, x, b) :
          /\ acts = <<s, Router!TakeTo(u, to, Router!OPEN_DELTA), Lock>>
          /\ Remains(todo, u, to, min, tx) /\ Ready(t, x, b)
          /\ t # u /\ delta[u] >= min /\ Owes(t, x) /\ NoOther({t, u})
  BY DEF FormPay
<1>2. PICK s \in Pays(t, x, b) :
        /\ acts = <<s, Router!TakeTo(u, to, Router!OPEN_DELTA), Lock>>
        /\ Remains(todo, u, to, min, tx) /\ Ready(t, x, b)
        /\ t # u /\ delta[u] >= min /\ Owes(t, x) /\ NoOther({t, u})
  BY <1>1
<1>3. Head(acts) = s /\ Tail(acts) = <<Router!TakeTo(u, to, Router!OPEN_DELTA), Lock>>
  BY <1>2, ThreeOf
<1>4. -delta[t] \in 0 .. x /\ (~dry => -delta[t] = x) /\ \A v \in Coins : delta[v] \in Int
  BY <1>2 DEF Owes, RouterTyped, Wallets
<1>5. \E m : m \in 0 .. x /\ (~dry => m = x) /\ HandsOver(b, t, m)
  <2>1. CASE b
    <3>1. HandsOver(TRUE, t, -delta[t])
      BY <1>2, <1>3, <2>1, SettleAllFact DEF Pays
    <3>2. PICK m : m = -delta[t]
      OBVIOUS
    <3>3. HandsOver(b, t, m)
      BY <2>1, <3>1, <3>2
    <3> QED
      BY <1>4, <3>2, <3>3
  <2>2. CASE ~b
    <3>1. SettleFact(t, 0) \/ SettleFact(t, x)
      BY <1>2, <1>3, <2>2, OfSettle DEF Pays, Router!OPEN_DELTA
    <3>2. CASE SettleFact(t, 0)
      <4>1. PICK m : m = -delta[t]
        OBVIOUS
      <4>2. HandsOver(b, t, m)
        BY <2>2, <3>2, <4>1 DEF SettleFact
      <4> QED
        BY <1>4, <4>1, <4>2
    <3>3. CASE x # 0 /\ SettleFact(t, x)
      <4>1. HandsOver(b, t, x)
        <5>1. PICK z : z = Router!Resolved(x, t) /\ HandsOver(FALSE, t, z)
          BY <3>3 DEF SettleFact
        <5>2. z = x
          BY <5>1 DEF Router!Resolved, Router!CONTRACT_BALANCE
        <5> QED
          BY <2>2, <5>1, <5>2
      <4>2. x \in 0 .. x
        OBVIOUS
      <4> QED
        BY <4>1, <4>2
    <3> QED
      BY <3>1, <3>2, <3>3
  <2> QED
    BY <2>1, <2>2
<1>6. PICK m : m \in 0 .. x /\ (~dry => m = x) /\ HandsOver(b, t, m)
  BY <1>5
<1>7. Underway(bal, dry)'
  BY <1>2, <1>6, LegPays
<1>8. /\ delta' \in Wallets /\ \A v \in Coins : delta'[v] = IF v = t THEN delta[v] + m ELSE delta[v]
      /\ acts' = Tail(acts) /\ todo' = todo /\ tx' = tx /\ dry' = dry /\ bal' \in [Accounts -> Wallets]
  BY <1>6 DEF HandsOver, HasPaid
<1>9. delta'[u] >= min /\ NoOther({u})'
  BY <1>2, <1>4, <1>6, <1>8 DEF NoOther
<1>10. FormTake'
  BY <1>2, <1>3, <1>7, <1>8, <1>9 DEF FormTake
<1> QED
  BY <1>8, <1>10, StaysSent DEF SentForm, RouterTyped

\* The router hands over all that it holds of a later leg's input.
LEMMA FundStep ==
  ASSUME RouterIInv, Router!PayDebt, FormFund, tx.pc = "sent"
  PROVE  RouterIInv'
<1> RouterTyped
  BY DEF RouterIInv
<1>1. PICK p \in Routes, min \in Nat, to \in {"router", "payee"} :
        /\ acts = <<Router!Settle(p[1], Router!CONTRACT_BALANCE, FALSE),
                    Router!V4In(p, Router!OPEN_DELTA, min),
                    Router!TakeTo(LastOf(p), to, Router!OPEN_DELTA), Lock>>
        /\ delta = Router!Nothing
        /\ Remains(todo, LastOf(p), to, min, tx) /\ Ready(p[1], Router!CONTRACT_BALANCE, FALSE)
  BY DEF FormFund
<1>2. /\ Head(acts) = Router!Settle(p[1], Router!CONTRACT_BALANCE, FALSE)
      /\ Tail(acts) = <<Router!V4In(p, Router!OPEN_DELTA, min),
                        Router!TakeTo(LastOf(p), to, Router!OPEN_DELTA), Lock>>
  BY <1>1, FourOf
<1>3. p[1] \in Coins /\ \A k \in 2 .. Len(p) : p[k] \in Coins /\ p[k] # p[1]
  BY RouteFact
<1>4. PICK x : x = -1 /\ SettleFact(p[1], x)
  BY <1>2, <1>3, OfSettle DEF Router!CONTRACT_BALANCE
<1>5. PICK m : m = bal["router"][p[1]] /\ HandsOver(FALSE, p[1], m)
  <2>1. PICK m : m = Router!Resolved(x, p[1]) /\ HandsOver(FALSE, p[1], m)
    <3>1. x # 0 /\ SettleFact(p[1], x)
      BY <1>4
    <3>2. HandsOver(FALSE, p[1], Router!Resolved(x, p[1]))
      BY <3>1, Zenon DEF SettleFact
    <3> QED
      BY <3>2
  <2>2. m = bal["router"][p[1]]
    BY <1>4, <2>1 DEF Router!Resolved, Router!CONTRACT_BALANCE
  <2> QED
    BY <2>1, <2>2
<1>6. \A f \in Accounts, v \in Coins :
        /\ bal'[f][v] = IF f = "router" /\ v = p[1] THEN bal[f][v] - m ELSE bal[f][v]
        /\ bal[f][v] \in Int
  <2>1. \A f \in Accounts, v \in Coins : bal[f][v] \in Int
    BY DEF RouterTyped, Wallets
  <2> QED
    BY <1>5, <2>1 DEF HandsOver, HasPaid, Router!Payer
<1>7. /\ delta' \in Wallets /\ \A v \in Coins : delta'[v] = IF v = p[1] THEN delta[v] + m ELSE delta[v]
      /\ acts' = Tail(acts) /\ todo' = todo /\ tx' = tx /\ dry' = dry /\ bal' \in [Accounts -> Wallets]
  BY <1>5 DEF HandsOver, HasPaid
<1>8. \A v \in Coins : v # p[1] => delta'[v] = 0
  BY <1>1, <1>7 DEF Router!Nothing
<1>9. Underway(bal, dry)'
  <2>1. Spent(bal, tx.amount)' /\ PayeeKept(bal)'
    BY <1>1, <1>6, <1>7 DEF Ready, Spent, PayeeKept, Accounts
  <2>2. HoldsNothing(bal, dry)'
    <3> SUFFICES ASSUME ~dry, NEW v \in Coins PROVE bal'["router"][v] = 0
      BY <1>7 DEF HoldsNothing
    <3>1. CASE v # p[1]
      BY <1>1, <1>6, <3>1 DEF Ready, HoldsOnly, Accounts
    <3>2. CASE v = p[1]
      BY <1>5, <1>6, <3>2 DEF Accounts
    <3> QED
      BY <3>1, <3>2
  <2> QED
    BY <1>1, <1>7, <2>1, <2>2 DEF Ready, Underway
<1>10. FormSwap'
  <2>1. Unvisited(p)' /\ NoOther({p[1]})'
    BY <1>3, <1>8 DEF Unvisited, NoOther
  <2>2. acts' = <<Router!V4In(p, 0, min), Router!TakeTo(LastOf(p), to, Router!OPEN_DELTA), Lock>>
    BY <1>2, <1>7 DEF Router!OPEN_DELTA
  <2>3. Remains(todo', LastOf(p), to, min, tx') /\ 0 \in Nat
    BY <1>1, <1>7
  <2> QED
    BY <1>9, <2>1, <2>2, <2>3 DEF FormSwap
<1> QED
  BY <1>7, <1>10, StaysSent DEF SentForm, RouterTyped

\* The input of an exact output is paid, within the limit.
LEMMA PayOutStep ==
  ASSUME RouterIInv, Router!PayDebt, FormPayOut, tx.pc = "sent"
  PROVE  RouterIInv'
<1> RouterTyped
  BY DEF RouterIInv
<1>1. PICK b \in BOOLEAN, w \in 0 .. tx.limit :
        /\ acts = <<Bill(tx.in, tx.limit, b), Router!TakeTo(tx.out, "payee", Router!OPEN_DELTA), Lock>>
        /\ Unpaid /\ tx.in # tx.out
        /\ delta = [t \in Coins |-> IF t = tx.out THEN tx.amount ELSE IF t = tx.in THEN -w ELSE 0]
  BY DEF FormPayOut
<1>2. /\ Head(acts) = Bill(tx.in, tx.limit, b)
      /\ Tail(acts) = <<Router!TakeTo(tx.out, "payee", Router!OPEN_DELTA), Lock>>
  BY <1>1, ThreeOf
<1>3. tx.in \in Coins /\ tx.out \in Coins /\ tx.limit \in Nat /\ w \in Int /\ w \in Nat /\ tx.amount \in Nat
  BY DEF RouterTyped
<1>4. HandsOver(b, tx.in, w)
  <2>1. PICK m : m = -delta[tx.in]
    OBVIOUS
  <2>2. m = w
    BY <1>1, <1>3, <2>1
  <2>3. CASE b
    <3>1. HandsOver(TRUE, tx.in, -delta[tx.in])
      BY <1>2, <1>3, <2>3, SettleAllFact DEF Bill
    <3> QED
      BY <2>1, <2>2, <2>3, <3>1
  <2>4. CASE ~b
    <3>1. SettleFact(tx.in, 0)
      BY <1>2, <1>3, <2>4, OfSettle DEF Bill, Router!OPEN_DELTA
    <3> QED
      BY <2>1, <2>2, <2>4, <3>1 DEF SettleFact
  <2> QED
    BY <2>3, <2>4
<1>5. \A f \in Accounts, v \in Coins :
        /\ bal'[f][v] = IF f = (IF b THEN "user" ELSE "router") /\ v = tx.in THEN bal[f][v] - w ELSE bal[f][v]
        /\ bal[f][v] \in Int /\ tx.before.bal[f][v] \in Int
  <2>1. \A f \in Accounts, v \in Coins : bal[f][v] \in Int /\ tx.before.bal[f][v] \in Int
    BY DEF RouterTyped, Wallets
  <2>2. Router!Payer(b) = IF b THEN "user" ELSE "router"
    BY DEF Router!Payer
  <2> QED
    BY <1>4, <2>1, <2>2 DEF HandsOver, HasPaid
<1>6. /\ delta' \in Wallets /\ \A v \in Coins : delta'[v] = IF v = tx.in THEN delta[v] + w ELSE delta[v]
      /\ acts' = Tail(acts) /\ todo' = todo /\ tx' = tx /\ dry' = dry /\ bal' \in [Accounts -> Wallets]
  BY <1>4 DEF HandsOver, HasPaid
<1>7. tx.exact = "out" /\ todo = << >> /\ Spent(bal, 0) /\ PayeeKept(bal) /\ HoldsNothing(bal, dry)
  BY <1>1 DEF Unpaid
<1>8. Spent(bal, tx.limit)' /\ PayeeKept(bal)'
  <2>1. CASE b
    BY <1>3, <1>5, <1>6, <1>7, <2>1, SMTT(30) DEF Spent, PayeeKept, Accounts
  <2>2. CASE ~b
    BY <1>3, <1>5, <1>6, <1>7, <2>2 DEF Spent, PayeeKept, Accounts
  <2> QED
    BY <2>1, <2>2
<1>9. HoldsNothing(bal, dry)'
  <2> SUFFICES ASSUME ~dry, NEW v \in Coins PROVE bal'["router"][v] = 0
    BY <1>6 DEF HoldsNothing
  <2>1. bal["router"][v] = 0 /\ bal["router"][tx.in] = 0
    BY <1>3, <1>7 DEF HoldsNothing
  <2>2. b \/ w = 0
    BY <1>3, <1>4, <2>1 DEF HandsOver, Router!CanPay, Router!Payer
  <2> QED
    BY <1>3, <1>5, <2>1, <2>2 DEF Accounts
<1>10. delta' = [t \in Coins |-> IF t = tx.out THEN tx.amount ELSE 0]
  <2>1. \A v \in Coins : delta[v] = IF v = tx.out THEN tx.amount ELSE IF v = tx.in THEN -w ELSE 0
    BY <1>1
  <2>2. \A v \in Coins : delta'[v] = IF v = tx.out THEN tx.amount ELSE 0
    BY <1>1, <1>3, <1>6, <2>1
  <2> QED
    BY <1>6, <2>2 DEF Wallets
<1>11. FormTakeOut'
  BY <1>2, <1>6, <1>7, <1>8, <1>9, <1>10 DEF FormTakeOut
<1> QED
  BY <1>6, <1>11, StaysSent DEF SentForm, RouterTyped

LEMMA PayDebtStep == ASSUME RouterIInv, Router!PayDebt PROVE RouterIInv'
<1>1. (FormPay \/ FormFund \/ FormPayOut) /\ tx.pc = "sent"
  BY ActingForms DEF Router!PayDebt, Router!Acting
<1> QED
  BY <1>1, PayStep, FundStep, PayOutStep

\* What the PoolManager owes is taken by the next leg or the recipient.
LEMMA CollectStep == ASSUME RouterIInv, Router!Take PROVE RouterIInv'
<1>1. (FormTake \/ FormTakeOut) /\ tx.pc = "sent" /\ acts # << >> /\ RouterTyped
  BY ActingForms DEF Router!Take, Router!Acting, RouterIInv
<1>2. acts' = Tail(acts) /\ todo' = todo /\ tx' = tx /\ dry' = dry
  BY DEF Router!Take
<1>3. ASSUME NEW u \in Coins, NEW to \in {"router", "payee"},
             acts = <<Router!TakeTo(u, to, Router!OPEN_DELTA), Lock>>
      PROVE  /\ acts' = <<Lock>> /\ delta[u] \in Nat /\ HasGot(bal', bal, to, u, delta[u])
             /\ delta' \in Wallets
  <2>1. Head(acts) = Router!TakeTo(u, to, Router!OPEN_DELTA) /\ Tail(acts) = <<Lock>>
    BY <1>3, TwoOf
  <2>2. PICK c : c = Head(acts) /\ c.token = u /\ c.to = to
    BY <2>1 DEF Router!TakeTo
  <2>3. /\ delta[u] >= 0
        /\ bal' = [bal EXCEPT ![to][u] = @ + delta[u]]
        /\ delta' = [delta EXCEPT ![u] = 0]
    BY <2>2 DEF Router!Take
  <2>4. /\ delta \in Wallets /\ delta[u] \in Int /\ bal \in [Accounts -> Wallets] /\ to \in Accounts
        /\ bal[to] \in Wallets /\ bal[to][u] + delta[u] \in Int
    <3>1. delta \in Wallets /\ bal \in [Accounts -> Wallets] /\ to \in Accounts
      BY <1>1 DEF RouterTyped, Accounts
    <3>2. bal[to] \in Wallets
      BY <3>1
    <3>3. delta[u] \in Int /\ bal[to][u] \in Int
      BY <3>1, <3>2 DEF Wallets
    <3> QED
      BY <3>1, <3>2, <3>3
  <2>5. [bal[to] EXCEPT ![u] = @ + delta[u]] \in Wallets
    BY <2>4 DEF Wallets
  <2>6. HasGot(bal', bal, to, u, delta[u])
    BY <2>3, <2>4, <2>5 DEF HasGot, Wallets
  <2>7. delta' \in Wallets
    BY <2>3, <2>4 DEF Wallets
  <2> QED
    BY <1>2, <2>1, <2>3, <2>4, <2>6, <2>7
<1>4. CASE FormTake
  <2>1. PICK u \in Coins, min \in Nat, to \in {"router", "payee"} :
          /\ acts = <<Router!TakeTo(u, to, Router!OPEN_DELTA), Lock>>
          /\ Remains(todo, u, to, min, tx) /\ Underway(bal, dry) /\ delta[u] >= min
    BY <1>4 DEF FormTake
  <2>2. PICK y : y = delta[u]
    OBVIOUS
  <2>3. acts' = <<Lock>> /\ y \in Nat /\ HasGot(bal', bal, to, u, y) /\ delta' \in Wallets
    BY <1>3, <2>1, <2>2
  <2>4. (todo = << >> /\ Settled)' \/ AtLegs(todo)'
    <3>1. bal \in [Accounts -> Wallets] /\ Underway(bal, dry')
      BY <1>1, <1>2, <2>1 DEF RouterTyped
    <3> QED
      BY <1>1, <1>2, <2>1, <2>2, <2>3, <3>1, LegBrings
  <2>5. FormLock'
    BY <2>3, <2>4 DEF FormLock
  <2> QED
    BY <1>1, <1>2, <2>3, <2>5, StaysSent DEF SentForm, RouterTyped, HasGot
<1>5. CASE FormTakeOut
  <2>1. /\ acts = <<Router!TakeTo(tx.out, "payee", Router!OPEN_DELTA), Lock>>
        /\ tx.exact = "out" /\ todo = << >> /\ Spent(bal, tx.limit) /\ PayeeKept(bal)
        /\ HoldsNothing(bal, dry) /\ tx.out \in Coins /\ tx.amount \in Nat
        /\ delta = [t \in Coins |-> IF t = tx.out THEN tx.amount ELSE 0]
    BY <1>1, <1>5 DEF FormTakeOut, RouterTyped
  <2>2. PICK u \in Coins, y \in Int : u = tx.out /\ y = delta[u] /\ y = tx.amount
    BY <2>1
  <2>3. acts' = <<Lock>> /\ HasGot(bal', bal, "payee", u, y) /\ delta' \in Wallets
    BY <1>3, <2>1, <2>2
  <2>4. /\ bal' \in [Accounts -> Wallets]
        /\ \A f \in Accounts, v \in Coins :
             bal'[f][v] = IF f = "payee" /\ v = u THEN bal[f][v] + y ELSE bal[f][v]
    BY <2>3 DEF HasGot
  <2>5. Settled'
    <3>1. Spent(bal, tx.limit)'
      BY <1>2, <2>1, <2>4 DEF Spent, Accounts
    <3>2. PaidOut'
      BY <1>2, <2>1, <2>2, <2>4 DEF PaidOut, PayeeKept, Accounts
    <3>3. HoldsNothing(bal, dry)'
      BY <1>2, <2>1, <2>4 DEF HoldsNothing, Accounts
    <3> QED
      BY <1>2, <2>1, <3>1, <3>2, <3>3 DEF Settled
  <2>6. FormLock'
    BY <1>2, <2>1, <2>3, <2>5 DEF FormLock
  <2> QED
    BY <1>1, <1>2, <2>3, <2>4, <2>6, StaysSent DEF SentForm, RouterTyped
<1> QED
  BY <1>1, <1>4, <1>5

\* The length of a function that is a sequence.
LEMMA LengthIs ==
  ASSUME NEW S, NEW n \in Nat, NEW s \in [1 .. n -> S]
  PROVE  s \in Seq(S) /\ Len(s) = n /\ DOMAIN s = 1 .. n
<1>1. s \in UNION {[1 .. m -> S] : m \in Nat}
  OBVIOUS
<1>2. s \in Seq(S) /\ DOMAIN s = 1 .. n
  BY <1>1, SeqDef
<1>3. Len(s) \in Nat /\ 1 .. Len(s) = 1 .. n
  BY <1>2, LenProperties
<1>4. PICK m \in Nat : m = Len(s)
  BY <1>3
<1>5. m = n
  <2>1. m <= n
    <3> SUFFICES ASSUME m > n PROVE FALSE
      OBVIOUS
    <3>1. m \in 1 .. m /\ m \notin 1 .. n
      OBVIOUS
    <3> QED
      BY <1>3, <1>4, <3>1
  <2>2. n <= m
    <3> SUFFICES ASSUME n > m PROVE FALSE
      OBVIOUS
    <3>1. n \in 1 .. n /\ n \notin 1 .. m
      OBVIOUS
    <3> QED
      BY <1>3, <1>4, <3>1
  <2> QED
    BY <2>1, <2>2
<1> QED
  BY <1>2, <1>4, <1>5

LEMMA OneLeg ==
  ASSUME NEW c, NEW p \in Routes, NEW o, NEW x, NEW b \in BOOLEAN,
         IsLeg(c, p, "payee", o.limit, x, b), LastOf(p) = o.out
  PROVE  Legs(<<c>>, x, b, o) /\ PathOf(<<c>>[1]) = p
<1>1. PathOf(c) = p
  BY LegPath
<1>2. Remains(<< >>, LastOf(PathOf(c)), "payee", o.limit, o)
  BY <1>1 DEF Remains
<1>3. <<c>> \o << >> = <<c>> /\ <<c>>[1] = c
  OBVIOUS
<1>4. PathOf(c) \in Routes /\ IsLeg(c, PathOf(c), "payee", o.limit, x, b)
  BY <1>1
<1>5. Legs(<<c>> \o << >>, x, b, o)
  BY <1>2, <1>4, LegsCons, ZenonT(40)
<1> QED
  BY <1>1, <1>3, <1>5

\* A transaction that is sent: with ether v the balances are these.
SentWith(v) ==
  \A f \in Accounts, u \in Coins :
    bal'[f][u] = IF f = "user" /\ u = Ether THEN bal[f][u] - v
                 ELSE IF f = "router" /\ u = Ether THEN bal[f][u] + v ELSE bal[f][u]

\* plan is sent as the order of these, with ether v.
Sends(plan, exact, in, out, x, l, v) ==
  /\ tx'.pc = "sent" /\ tx'.exact = exact /\ tx'.in = in /\ tx'.out = out /\ tx'.amount = x
  /\ tx'.limit = l /\ tx'.before = [bal |-> bal, dry |-> dry]
  /\ todo' = plan.commands /\ acts' = << >> /\ delta' = Router!Nothing /\ dry' = dry
  /\ RouterTyped' /\ HoldsNothing(tx.before.bal, tx.before.dry)'
  /\ SentWith(v)

LEMMA SendFact ==
  ASSUME RouterIInv, Router!Idle, NEW plan, NEW exact \in {"in", "out"}, NEW in \in Coins, NEW out \in Coins,
         NEW x \in Nat, NEW l \in Nat, NEW b \in BOOLEAN, NEW v, v = plan.value, v \in Nat,
         Router!Send(plan, exact, in, out, x, l, b)
  PROVE  Sends(plan, exact, in, out, x, l, v)
<1>1. /\ tx' = [pc |-> "sent", n |-> tx.n + 1, exact |-> exact, in |-> in, out |-> out,
                amount |-> x, limit |-> l, byUser |-> b, before |-> [bal |-> bal, dry |-> dry]]
      /\ todo' = plan.commands
      /\ bal' = [bal EXCEPT !["user"][Ether] = @ - v, !["router"][Ether] = @ + v]
      /\ delta' = delta /\ acts' = acts /\ dry' = dry
  BY DEF Router!Send
<1>2. RouterTyped /\ tx.pc = "idle" /\ acts = << >> /\ delta = Router!Nothing /\ Router!NothingLeftBehind
  BY DEF Router!Idle, RouterIInv, Router!OrderIsWhole
<1>3. Ether \in Coins
  BY RouterAssumption
<1>4. /\ bal \in [Accounts -> Wallets] /\ bal["user"] \in Wallets /\ bal["router"] \in Wallets
      /\ bal["user"][Ether] \in Int /\ bal["router"][Ether] \in Int
  <2>1. bal \in [Accounts -> Wallets]
    BY <1>2 DEF RouterTyped
  <2>2. bal["user"] \in Wallets /\ bal["router"] \in Wallets
    BY <2>1 DEF Accounts
  <2> QED
    BY <1>3, <2>1, <2>2 DEF Wallets
<1>5. PICK w \in [Accounts -> Wallets] :
        /\ w = [bal EXCEPT !["user"] = [bal["user"] EXCEPT ![Ether] = @ - v]]
        /\ \A f \in Accounts, u \in Coins :
             w[f][u] = IF f = "user" /\ u = Ether THEN bal[f][u] - v ELSE bal[f][u]
  <2> DEFINE g == [bal["user"] EXCEPT ![Ether] = @ - v]  w == [bal EXCEPT !["user"] = g]
  <2>1. /\ g \in Wallets
        /\ \A u \in Coins : g[u] = IF u = Ether THEN bal["user"][u] - v ELSE bal["user"][u]
    BY <1>3, <1>4 DEF Wallets
  <2> HIDE DEF g
  <2>2. w \in [Accounts -> Wallets] /\ \A f \in Accounts : w[f] = IF f = "user" THEN g ELSE bal[f]
    BY <1>4, <2>1
  <2>3. \A f \in Accounts, u \in Coins :
          w[f][u] = IF f = "user" /\ u = Ether THEN bal[f][u] - v ELSE bal[f][u]
    <3> HIDE DEF w
    <3> QED
      BY <2>1, <2>2
  <2> HIDE DEF w
  <2>4. w = [bal EXCEPT !["user"] = [bal["user"] EXCEPT ![Ether] = @ - v]]
    BY DEF w, g
  <2> QED
    BY <2>2, <2>3, <2>4
<1>6. /\ bal' \in [Accounts -> Wallets]
      /\ \A f \in Accounts, u \in Coins :
           bal'[f][u] = IF f = "router" /\ u = Ether THEN w[f][u] + v ELSE w[f][u]
  <2>1. bal' = [w EXCEPT !["router"] = [w["router"] EXCEPT ![Ether] = @ + v]]
    BY <1>1, <1>4, <1>5
  <2>2. w["router"] \in Wallets /\ w["router"][Ether] \in Int
    BY <1>3, <1>5 DEF Wallets, Accounts
  <2>3. [w["router"] EXCEPT ![Ether] = @ + v] \in Wallets
    BY <1>3, <2>2 DEF Wallets
  <2> QED
    BY <1>3, <1>5, <2>1, <2>2, <2>3 DEF Wallets, Accounts
<1>7. RouterTyped'
  BY <1>1, <1>2, <1>6 DEF RouterTyped
<1>8. HoldsNothing(tx.before.bal, tx.before.dry)'
  BY <1>1, <1>2 DEF HoldsNothing, Router!NothingLeftBehind, Router!Nothing
<1> QED
  BY <1>1, <1>2, <1>5, <1>6, <1>7, <1>8 DEF Sends, SentWith

\* Before an order that brings no ether, nobody has spent anything.
LEMMA SendsNothing ==
  ASSUME RouterIInv, Router!Idle, NEW plan, NEW exact \in {"in", "out"}, NEW in \in Coins, NEW out \in Coins,
         NEW x \in Nat, NEW l \in Nat, NEW b \in BOOLEAN, plan.value = 0,
         Router!Send(plan, exact, in, out, x, l, b)
  PROVE  /\ bal' \in [Accounts -> Wallets] /\ delta' \in Wallets /\ dry' \in BOOLEAN
         /\ Spent(bal, 0)' /\ PayeeKept(bal)' /\ HoldsNothing(bal, dry)'
<1>1. /\ tx'.before = [bal |-> bal, dry |-> dry] /\ RouterTyped' /\ HoldsNothing(tx.before.bal, tx.before.dry)'
      /\ dry' = dry
      /\ \A f \in Accounts, u \in Coins :
           bal'[f][u] = IF f = "user" /\ u = Ether THEN bal[f][u] - 0
                        ELSE IF f = "router" /\ u = Ether THEN bal[f][u] + 0 ELSE bal[f][u]
  <2>1. PICK v : v = 0
    OBVIOUS
  <2>2. /\ tx'.before = [bal |-> bal, dry |-> dry] /\ RouterTyped'
        /\ HoldsNothing(tx.before.bal, tx.before.dry)' /\ dry' = dry /\ SentWith(v)
    <3>1. Sends(plan, exact, in, out, x, l, v)
      BY <2>1, SendFact
    <3> QED
      BY <3>1 DEF Sends
  <2> QED
    BY <2>1, <2>2 DEF SentWith
<1>2. \A f \in Accounts, u \in Coins : bal[f][u] \in Int
  BY DEF RouterIInv, RouterTyped, Wallets
<1>3. \A f \in Accounts, u \in Coins : bal'[f][u] = bal[f][u]
  BY <1>1, <1>2
<1>4. Spent(bal, 0)' /\ PayeeKept(bal)'
  BY <1>1, <1>2, <1>3 DEF Spent, PayeeKept, Accounts
<1>5. HoldsNothing(bal, dry)'
  BY <1>1, <1>3 DEF HoldsNothing, Accounts
<1> QED
  BY <1>1, <1>4, <1>5 DEF RouterTyped

\* A transaction that is sent in one of the forms keeps the invariant.
LEMMA SentFact ==
  ASSUME RouterIInv, Router!Idle, NEW plan, NEW exact \in {"in", "out"}, NEW in \in Coins, NEW out \in Coins,
         NEW x \in Nat, NEW l \in Nat, NEW b \in BOOLEAN, plan.value \in Nat,
         Router!Send(plan, exact, in, out, x, l, b), SentForm'
  PROVE  RouterIInv'
<1>1. tx'.pc = "sent" /\ RouterTyped' /\ HoldsNothing(tx.before.bal, tx.before.dry)'
  <2>1. PICK v : v = plan.value
    OBVIOUS
  <2>2. Sends(plan, exact, in, out, x, l, v)
    BY <2>1, SendFact
  <2> QED
    BY <2>2 DEF Sends
<1> QED
  BY <1>1 DEF RouterIInv

\* The commands s are the legs of an order of l or more of token out.
LegsOf(s, x, b, out, l) == \A o : o.out = out /\ o.limit = l => Legs(s, x, b, o)

\* One that consists of legs does,
LEMMA SendLegs ==
  ASSUME RouterIInv, Router!Idle, NEW plan, NEW in \in Coins, NEW out \in Coins,
         NEW x \in Nat, NEW l \in Nat, NEW ub \in BOOLEAN, plan.value = 0,
         Router!Send(plan, "in", in, out, x, l, ub), NEW b \in BOOLEAN,
         LegsOf(plan.commands, x, b, out, l),
         PathOf(plan.commands[1])[1] = in
  PROVE  RouterIInv'
<1>1. /\ tx'.exact = "in" /\ tx'.in = in /\ tx'.out = out /\ tx'.amount = x /\ tx'.limit = l
      /\ todo' = plan.commands /\ acts' = << >> /\ delta' = Router!Nothing
  <2>1. PICK v : v = plan.value /\ v \in Nat
    OBVIOUS
  <2>2. Sends(plan, "in", in, out, x, l, v)
    BY <2>1, SendFact
  <2> QED
    BY <2>2 DEF Sends
<1>2. /\ bal' \in [Accounts -> Wallets]
      /\ Spent(bal, 0)' /\ PayeeKept(bal)' /\ HoldsNothing(bal, dry)'
  BY SendsNothing
<1>3. RouterTyped'
  <2>1. PICK v : v = plan.value /\ v \in Nat
    OBVIOUS
  <2>2. Sends(plan, "in", in, out, x, l, v)
    BY <2>1, SendFact
  <2> QED
    BY <2>2 DEF Sends
<1>4. \A f \in Accounts, u \in Coins : bal'[f][u] \in Int /\ tx'.before.bal[f][u] \in Int
  BY <1>3 DEF RouterTyped, Wallets
<1>5. Ready(in, x, b)'
  <2>1. Spent(bal, tx.amount)'
    BY <1>1, <1>2, <1>4 DEF Spent, Accounts
  <2>2. HoldsOnly(in, x, b)'
    BY <1>2 DEF HoldsNothing, HoldsOnly
  <2> QED
    BY <1>1, <1>2, <2>1, <2>2 DEF Ready
<1>6. Legs(todo', x, b, tx')
  BY <1>1 DEF LegsOf
<1>7. FormLegs'
  <2>1. Ready(PathOf(todo[1])[1], x, b)'
    BY <1>1, <1>5
  <2> QED
    BY <1>1, <1>6, <2>1 DEF FormLegs, AtLegs
<1> QED
  BY <1>7, SentFact DEF SentForm

\* and one that wraps ether for its legs,
LEMMA SendWrap ==
  ASSUME RouterIInv, Router!Idle, NEW plan, NEW out \in Coins,
         NEW x \in Nat, NEW l \in Nat, NEW ub \in BOOLEAN, plan.value = x,
         Router!Send(plan, "in", Ether, out, x, l, ub),
         NEW s, plan.commands = <<Router!WrapEth("router", x)>> \o s,
         LegsOf(s, x, FALSE, out, l),
         PathOf(s[1])[1] = WrappedEther
  PROVE  RouterIInv'
<1>0. Ether \in Coins /\ plan.value \in Nat
  BY RouterAssumption
<1>1. /\ tx'.exact = "in" /\ tx'.in = Ether /\ tx'.out = out /\ tx'.amount = x /\ tx'.limit = l
      /\ todo' = plan.commands /\ acts' = << >> /\ delta' = Router!Nothing /\ dry' = dry
      /\ tx'.before = [bal |-> bal, dry |-> dry] /\ RouterTyped'
      /\ HoldsNothing(tx.before.bal, tx.before.dry)'
      /\ SentWith(x)
  <2>1. PICK v : v = plan.value /\ v \in Nat /\ v = x
    OBVIOUS
  <2>2. Sends(plan, "in", Ether, out, x, l, v)
    BY <1>0, <2>1, SendFact
  <2> QED
    BY <2>1, <2>2 DEF Sends
<1>2. \A f \in Accounts, u \in Coins : bal'[f][u] \in Int /\ bal[f][u] \in Int
  BY <1>1 DEF RouterTyped, Wallets, RouterIInv
<1>21. \A f \in Accounts, u \in Coins :
         bal'[f][u] = IF f = "user" /\ u = Ether THEN bal[f][u] - x
                      ELSE IF f = "router" /\ u = Ether THEN bal[f][u] + x ELSE bal[f][u]
  BY <1>1 DEF SentWith
<1>22. HoldsNothing(bal, dry)
  BY <1>1 DEF HoldsNothing
<1>3. Ready(Ether, x, FALSE)'
  <2>1. Spent(bal, tx.amount)' /\ PayeeKept(bal)'
    BY <1>0, <1>1, <1>2, <1>21 DEF Spent, PayeeKept, Accounts
  <2>2. HoldsOnly(Ether, x, FALSE)'
    BY <1>0, <1>1, <1>2, <1>21, <1>22 DEF HoldsNothing, HoldsOnly, Accounts
  <2> QED
    BY <1>1, <2>1, <2>2 DEF Ready
<1>4. Legs(s, x, FALSE, tx')
  BY <1>1 DEF LegsOf
<1>5. PICK w : w = Router!WrapEth("router", x)
  OBVIOUS
<1>6. s \in Seq({s[k] : k \in DOMAIN s}) /\ s # << >> /\ todo' = <<w>> \o s
  BY <1>1, <1>4, <1>5 DEF Legs
<1>7. PICK S : s \in Seq(S) /\ w \in S
  <2> DEFINE S == {s[k] : k \in DOMAIN s} \union {w}
  <2>1. s \in Seq(S) /\ w \in S
    BY <1>6
  <2> HIDE DEF S
  <2> QED
    BY <2>1
<1>8. PICK r : r = todo'
  OBVIOUS
<1>9. PICK n \in Nat : n = Len(s) /\ n > 0
  <2>1. Len(s) \in Nat
    BY <1>7, LenProperties
  <2>2. Len(s) # 0
    BY <1>6, <1>7, <2>1, Shortest
  <2> QED
    BY <2>1, <2>2
<1>10. <<w>> \in Seq(S) /\ Len(<<w>>) = 1 /\ <<w>>[1] = w
  BY <1>7
<1>11. r \in Seq(S) /\ Len(r) = n + 1 /\ r[1] = w /\ \A k \in 1 .. n : r[k + 1] = s[k]
  <2>1. r = <<w>> \o s
    BY <1>6, <1>8
  <2> QED
    BY <1>7, <1>9, <1>10, <2>1, ConcatProperties
<1>12. r \in Seq({r[k] : k \in DOMAIN r}) /\ Len(r) > 1 /\ Head(r) = w /\ Tail(r) = s
  <2>1. r \in Seq({r[k] : k \in DOMAIN r}) /\ Len(r) > 1
    <3>1. n + 1 > 1
      BY <1>9
    <3> QED
      BY <1>9, <1>11, <3>1, OfItself
  <2>2. r # << >>
    BY <1>9, <1>11, Shortest
  <2>3. Head(r) = w /\ Tail(r) \in Seq(S) /\ Len(Tail(r)) = n /\ \A k \in 1 .. n : Tail(r)[k] = r[k + 1]
    BY <1>9, <1>11, <2>2, HeadTailProperties
  <2>4. Tail(r) = s
    BY <1>7, <1>9, <1>11, <2>3, SeqEqual
  <2> QED
    BY <2>1, <2>3, <2>4
<1>13. FormWrap'
  <2>1. PathOf(Tail(todo')[1])[1] = WrappedEther /\ Legs(Tail(todo'), tx'.amount, FALSE, tx')
    BY <1>1, <1>4, <1>8, <1>12
  <2>2. Head(todo') = Router!WrapEth("router", tx'.amount)
    BY <1>1, <1>5, <1>8, <1>12
  <2>3. Ready(Ether, tx.amount, FALSE)'
    BY <1>1, <1>3
  <2>4. todo' \in Seq({todo'[k] : k \in DOMAIN todo'}) /\ Len(todo') > 1
    BY <1>8, <1>12
  <2> QED
    BY <1>1, <2>1, <2>2, <2>3, <2>4 DEF FormWrap
<1> QED
  BY <1>0, <1>13, SentFact DEF SentForm

\* and one for an exact output.
LEMMA SendOut ==
  ASSUME RouterIInv, Router!Idle, NEW plan, NEW p \in Routes,
         NEW x \in Nat, NEW l \in Nat, NEW ub \in BOOLEAN, plan.value = 0,
         Router!Send(plan, "out", p[1], LastOf(p), x, l, ub), NEW b \in BOOLEAN,
         \/ plan.commands = <<Router!V2SwapOut("payee", x, l, p, b)>>
         \/ Len(p) = 2 /\ plan.commands = <<Router!V3SwapOut("payee", x, l, <<p[2], p[1]>>, b)>>
         \/ plan.commands = <<SwapOutPayTake(p, x, l, b)>>
  PROVE  RouterIInv'
<1>0. p[1] \in Coins /\ LastOf(p) \in Coins
  BY RouteFact
<1>1. /\ tx'.exact = "out" /\ tx'.in = p[1] /\ tx'.out = LastOf(p) /\ tx'.amount = x /\ tx'.limit = l
      /\ todo' = plan.commands /\ acts' = << >> /\ delta' = Router!Nothing
  <2>1. PICK v : v = plan.value /\ v \in Nat
    OBVIOUS
  <2>2. Sends(plan, "out", p[1], LastOf(p), x, l, v)
    BY <1>0, <2>1, SendFact
  <2> QED
    BY <2>2 DEF Sends
<1>2. Spent(bal, 0)' /\ PayeeKept(bal)' /\ HoldsNothing(bal, dry)'
  BY <1>0, SendsNothing
<1>3. FormOut'
  BY <1>1, <1>2 DEF FormOut
<1> QED
  BY <1>0, <1>3, SentFact DEF SentForm

LEMMA OneLegOf ==
  ASSUME NEW c, NEW p \in Routes, NEW x, NEW b \in BOOLEAN, NEW l, IsLeg(c, p, "payee", l, x, b)
  PROVE  LegsOf(<<c>>, x, b, LastOf(p), l) /\ PathOf(<<c>>[1]) = p
<1>1. ASSUME NEW o, o.out = LastOf(p), o.limit = l
      PROVE  Legs(<<c>>, x, b, o)
  BY <1>1, OneLeg
<1>2. PathOf(<<c>>[1]) = p
  BY LegPath
<1> QED
  BY <1>1, <1>2 DEF LegsOf

LEMMA PairOf ==
  ASSUME NEW p \in Routes, Len(p) = 2
  PROVE  p = <<p[1], p[2]>> /\ LastOf(p) = p[2]
<1>1. p \in Seq(Coins) /\ p[1] \in Coins /\ p[2] \in Coins
  BY RouteFact
<1>2. <<p[1], p[2]>> \in Seq(Coins) /\ Len(<<p[1], p[2]>>) = 2
  BY <1>1
<1>3. \A k \in 1 .. 2 : <<p[1], p[2]>>[k] = p[k]
  OBVIOUS
<1> QED
  BY <1>1, <1>2, <1>3, SeqEqual DEF LastOf

LEMMA Swap ==
  ASSUME NEW a, NEW b
  PROVE  Router!Reverse(<<a, b>>) = <<b, a>>
<1> DEFINE r == Router!Reverse(<<a, b>>)
<1>1. Len(<<a, b>>) = 2 /\ <<a, b>>[1] = a /\ <<a, b>>[2] = b
  OBVIOUS
<1>2. r = [i \in 1 .. 2 |-> <<a, b>>[2 - i + 1]]
  BY <1>1 DEF Router!Reverse
<1>3. r \in [1 .. 2 -> {a, b}] /\ r[1] = b /\ r[2] = a
  BY <1>1, <1>2
<1> HIDE DEF r
<1>4. r \in Seq({a, b}) /\ Len(r) = 2
  BY <1>3, LengthIs
<1>5. <<b, a>> \in Seq({a, b}) /\ Len(<<b, a>>) = 2 /\ \A k \in 1 .. 2 : <<b, a>>[k] = IF k = 1 THEN b ELSE a
  OBVIOUS
<1>6. \A k \in 1 .. 2 : r[k] = <<b, a>>[k]
  BY <1>3, <1>5
<1>7. r = <<b, a>>
  <2> DEFINE q == <<b, a>>
  <2>1. q \in Seq({a, b}) /\ Len(q) = 2 /\ \A k \in 1 .. 2 : r[k] = q[k]
    BY <1>5, <1>6
  <2> HIDE DEF q
  <2>2. r = q
    BY <1>4, <2>1, SeqEqual
  <2> QED
    BY <2>2 DEF q
<1> QED
  BY <1>7 DEF r

\* The key of a single pool and the direction are the pair in order of use.
LEMMA ByKey ==
  ASSUME NEW in \in Int, NEW out \in Int, in # out
  PROVE  LET key == Router!SortCurrencies(in, out)
         IN (IF in = key[1] THEN key ELSE Router!Reverse(key)) = <<in, out>>
<1>1. CASE in < out
  <2>1. Router!SortCurrencies(in, out) = <<in, out>>
    BY <1>1 DEF Router!SortCurrencies
  <2>2. <<in, out>>[1] = in
    OBVIOUS
  <2> QED
    BY <2>1, <2>2
<1>2. CASE ~(in < out)
  <2>1. Router!SortCurrencies(in, out) = <<out, in>>
    BY <1>2 DEF Router!SortCurrencies
  <2>2. <<out, in>>[1] = out
    OBVIOUS
  <2> QED
    BY <2>1, <2>2, Swap
<1> QED
  BY <1>1, <1>2

\* What each builder puts together is of these: those of one pool,
LEMMA SendOneStep == ASSUME RouterIInv, Router!SendOne PROVE RouterIInv'
<1>1. Router!Idle
  BY DEF Router!SendOne
<1>2. PICK p \in {q \in Paths : Len(q) = 2}, x \in Amounts, l \in Limits, b \in BOOLEAN :
        \/ \E plan \in {Router!BuildV4InSingle(p[1], p[2], x, l)} :
             Router!Send(plan, "in", p[1], p[2], x, l, TRUE)
        \/ \E plan \in {Router!BuildV3Out(p[1], p[2], x, l, b)} :
             Router!Send(plan, "out", p[1], p[2], x, l, b)
        \/ \E plan \in {Router!BuildV4OutSingle(p[1], p[2], x, l)} :
             Router!Send(plan, "out", p[1], p[2], x, l, TRUE)
        \/ /\ p[1] = WrappedEther
           /\ \E plan \in {Router!BuildWrapV3(p[2], x, l), Router!BuildWrapV4(p[2], x, l)} :
                Router!Send(plan, "in", Ether, p[2], x, l, TRUE)
  BY DEF Router!SendOne
<1>3. p \in Routes /\ Len(p) = 2 /\ x \in Nat /\ l \in Nat
  BY RouterAssumption DEF Routes
<1>4. p = <<p[1], p[2]>> /\ LastOf(p) = p[2] /\ p[1] \in Coins /\ p[2] \in Coins /\ p[1] # p[2]
      /\ p[1] \in Int /\ p[2] \in Int /\ TRUE \in BOOLEAN /\ FALSE \in BOOLEAN
  BY <1>3, PairOf, RouteFact, RouterAssumption
<1>5. LET key == Router!SortCurrencies(p[1], p[2])
      IN (IF p[1] = key[1] THEN key ELSE Router!Reverse(key)) = p
  BY <1>4, ByKey
<1>6. CASE \E plan \in {Router!BuildV4InSingle(p[1], p[2], x, l)} :
             Router!Send(plan, "in", p[1], p[2], x, l, TRUE)
  <2>1. PICK plan : plan = Router!BuildV4InSingle(p[1], p[2], x, l)
                    /\ Router!Send(plan, "in", p[1], p[2], x, l, TRUE)
    BY <1>6
  <2>2. PICK c : c = SwapPayTake(p, x, l, Router!SettleAll(p[1], x), "payee")
    OBVIOUS
  <2>3. plan.commands = <<c>> /\ plan.value = 0
    BY <1>4, <1>5, <2>1, <2>2
       DEF Router!BuildV4InSingle, Router!Execute, Router!V4InSingle, Router!V4In, SwapPayTake
  <2>4. IsLeg(c, p, "payee", l, x, TRUE)
    BY <1>3, <2>2 DEF IsLeg, Pays
  <2>5. LegsOf(plan.commands, x, TRUE, p[2], l) /\ PathOf(plan.commands[1]) = p
    <3>1. LegsOf(<<c>>, x, TRUE, p[2], l) /\ PathOf(<<c>>[1]) = p
      BY <1>3, <1>4, <2>4, OneLegOf
    <3> QED
      BY <2>3, <3>1
  <2> QED
    BY <1>1, <1>3, <1>4, <2>1, <2>3, <2>5, SendLegs
<1>7. CASE \E plan \in {Router!BuildV3Out(p[1], p[2], x, l, b)} :
             Router!Send(plan, "out", p[1], p[2], x, l, b)
  <2>1. PICK plan : plan = Router!BuildV3Out(p[1], p[2], x, l, b)
                    /\ Router!Send(plan, "out", p[1], p[2], x, l, b)
    BY <1>7
  <2>2. plan.commands = <<Router!V3SwapOut("payee", x, l, <<p[2], p[1]>>, b)>> /\ plan.value = 0
    BY <2>1 DEF Router!BuildV3Out, Router!Execute
  <2> QED
    BY <1>1, <1>3, <1>4, <2>1, <2>2, SendOut
<1>8. CASE \E plan \in {Router!BuildV4OutSingle(p[1], p[2], x, l)} :
             Router!Send(plan, "out", p[1], p[2], x, l, TRUE)
  <2>1. PICK plan : plan = Router!BuildV4OutSingle(p[1], p[2], x, l)
                    /\ Router!Send(plan, "out", p[1], p[2], x, l, TRUE)
    BY <1>8
  <2>2. plan.commands = <<SwapOutPayTake(p, x, l, TRUE)>> /\ plan.value = 0
    BY <1>4, <1>5, <2>1
       DEF Router!BuildV4OutSingle, Router!Execute, Router!V4OutSingle, Router!V4Out, SwapOutPayTake, Bill
  <2> QED
    BY <1>1, <1>3, <1>4, <2>1, <2>2, SendOut
<1>9. CASE /\ p[1] = WrappedEther
           /\ \E plan \in {Router!BuildWrapV3(p[2], x, l), Router!BuildWrapV4(p[2], x, l)} :
                Router!Send(plan, "in", Ether, p[2], x, l, TRUE)
  <2>1. PICK plan : plan \in {Router!BuildWrapV3(p[2], x, l), Router!BuildWrapV4(p[2], x, l)}
                    /\ Router!Send(plan, "in", Ether, p[2], x, l, TRUE)
    BY <1>9
  <2>2. \E c : /\ plan.commands = <<Router!WrapEth("router", x), c>> /\ plan.value = x
               /\ IsLeg(c, p, "payee", l, x, FALSE)
    <3>1. CASE plan = Router!BuildWrapV3(p[2], x, l)
      <4>1. PICK c : c = Router!V3SwapIn("payee", x, l, p, FALSE)
        OBVIOUS
      <4>2. plan.commands = <<Router!WrapEth("router", x), c>> /\ plan.value = x
        BY <1>4, <1>9, <3>1, <4>1 DEF Router!BuildWrapV3, Router!Execute
      <4> QED
        BY <4>1, <4>2 DEF IsLeg
    <3>2. CASE plan = Router!BuildWrapV4(p[2], x, l)
      <4>1. PICK c : c = SwapPayTake(p, x, l, Router!Settle(p[1], x, FALSE), "payee")
        OBVIOUS
      <4>2. plan.commands = <<Router!WrapEth("router", x), c>> /\ plan.value = x
        BY <1>4, <1>5, <1>9, <3>2, <4>1
           DEF Router!BuildWrapV4, Router!Execute, Router!V4InSingle, Router!V4In, SwapPayTake
      <4> QED
        BY <1>3, <4>1, <4>2 DEF IsLeg, Pays
    <3> QED
      BY <2>1, <3>1, <3>2
  <2>3. PICK c : /\ plan.commands = <<Router!WrapEth("router", x), c>> /\ plan.value = x
                 /\ IsLeg(c, p, "payee", l, x, FALSE)
    BY <2>2
  <2>4. PICK s : s = <<c>>
    OBVIOUS
  <2>5. plan.commands = <<Router!WrapEth("router", x)>> \o s
    BY <2>3, <2>4, PutOne
  <2>6. LegsOf(s, x, FALSE, p[2], l) /\ PathOf(s[1])[1] = WrappedEther
    <3>1. LegsOf(<<c>>, x, FALSE, p[2], l) /\ PathOf(<<c>>[1]) = p
      BY <1>3, <1>4, <2>3, OneLegOf
    <3> QED
      BY <1>9, <2>4, <3>1
  <2> QED
    BY <1>1, <1>3, <1>4, <2>1, <2>3, <2>5, <2>6, SendWrap
<1> QED
  BY <1>2, <1>6, <1>7, <1>8, <1>9

\* those of one pool version,
LEMMA SendPathStep == ASSUME RouterIInv, Router!SendPath PROVE RouterIInv'
<1>1. Router!Idle
  BY DEF Router!SendPath
<1>2. PICK p \in Paths, x \in Amounts, l \in Limits, b \in BOOLEAN :
        \/ \E plan \in {Router!BuildV3In(p, x, l, b), Router!BuildV2In(p, x, l, b), Router!BuildV4In(p, x, l, b)} :
             Router!Send(plan, "in", p[1], Router!Last(p), x, l, b)
        \/ \E plan \in {Router!BuildV2Out(p, x, l, b), Router!BuildV4Out(p, x, l, b)} :
             Router!Send(plan, "out", p[1], Router!Last(p), x, l, b)
        \/ /\ p[1] = WrappedEther
           /\ Router!Send(Router!BuildWrapV4Multihop(p, x, l), "in", Ether, Router!Last(p), x, l, TRUE)
  BY DEF Router!SendPath
<1>3. p \in Routes /\ x \in Nat /\ l \in Nat
  BY RouterAssumption DEF Routes
<1>4. /\ p[1] \in Coins /\ LastOf(p) \in Coins /\ Router!Last(p) = LastOf(p)
      /\ TRUE \in BOOLEAN /\ FALSE \in BOOLEAN
  BY <1>3, RouteFact DEF LastOf, Router!Last
<1>5. CASE \E plan \in {Router!BuildV3In(p, x, l, b), Router!BuildV2In(p, x, l, b), Router!BuildV4In(p, x, l, b)} :
             Router!Send(plan, "in", p[1], Router!Last(p), x, l, b)
  <2>1. PICK plan : /\ \/ plan = Router!BuildV3In(p, x, l, b)
                       \/ plan = Router!BuildV2In(p, x, l, b)
                       \/ plan = Router!BuildV4In(p, x, l, b)
                    /\ Router!Send(plan, "in", p[1], LastOf(p), x, l, b)
    BY <1>4, <1>5
  <2>2. \E c : plan.commands = <<c>> /\ plan.value = 0 /\ IsLeg(c, p, "payee", l, x, b)
    <3>1. CASE plan = Router!BuildV3In(p, x, l, b)
      <4>1. PICK c : c = Router!V3SwapIn("payee", x, l, p, b)
        OBVIOUS
      <4>2. plan.commands = <<c>> /\ plan.value = 0
        BY <3>1, <4>1 DEF Router!BuildV3In, Router!Execute
      <4> QED
        BY <4>1, <4>2 DEF IsLeg
    <3>2. CASE plan = Router!BuildV2In(p, x, l, b)
      <4>1. PICK c : c = Router!V2SwapIn("payee", x, l, p, b)
        OBVIOUS
      <4>2. plan.commands = <<c>> /\ plan.value = 0
        BY <3>2, <4>1 DEF Router!BuildV2In, Router!Execute
      <4> QED
        BY <4>1, <4>2 DEF IsLeg
    <3>3. CASE plan = Router!BuildV4In(p, x, l, b)
      <4>1. PICK pay, c : /\ pay = IF b THEN Router!SettleAll(p[1], x)
                                   ELSE Router!Settle(p[1], Router!OPEN_DELTA, FALSE)
                          /\ c = SwapPayTake(p, x, l, pay, "payee")
        OBVIOUS
      <4>2. plan.commands = <<c>> /\ plan.value = 0
        BY <1>4, <3>3, <4>1 DEF Router!BuildV4In, Router!Execute, SwapPayTake
      <4>3. pay \in Pays(p[1], x, b)
        BY <4>1 DEF Pays
      <4> QED
        BY <1>3, <4>1, <4>2, <4>3 DEF IsLeg
    <3> QED
      BY <2>1, <3>1, <3>2, <3>3
  <2>3. PICK c : plan.commands = <<c>> /\ plan.value = 0 /\ IsLeg(c, p, "payee", l, x, b)
    BY <2>2
  <2>4. LegsOf(plan.commands, x, b, LastOf(p), l) /\ PathOf(plan.commands[1]) = p
    <3>1. LegsOf(<<c>>, x, b, LastOf(p), l) /\ PathOf(<<c>>[1]) = p
      BY <1>3, <2>3, OneLegOf
    <3> QED
      BY <2>3, <3>1
  <2> QED
    BY <1>1, <1>3, <1>4, <2>1, <2>3, <2>4, SendLegs, ZenonT(40)
<1>6. CASE \E plan \in {Router!BuildV2Out(p, x, l, b), Router!BuildV4Out(p, x, l, b)} :
             Router!Send(plan, "out", p[1], Router!Last(p), x, l, b)
  <2>1. PICK plan : /\ plan = Router!BuildV2Out(p, x, l, b) \/ plan = Router!BuildV4Out(p, x, l, b)
                    /\ Router!Send(plan, "out", p[1], LastOf(p), x, l, b)
    BY <1>4, <1>6
  <2>2. CASE plan = Router!BuildV2Out(p, x, l, b)
    <3>1. plan.commands = <<Router!V2SwapOut("payee", x, l, p, b)>> /\ plan.value = 0
      BY <2>2 DEF Router!BuildV2Out, Router!Execute
    <3> QED
      BY <1>1, <1>3, <2>1, <3>1, SendOut
  <2>3. CASE plan = Router!BuildV4Out(p, x, l, b)
    <3>1. plan.commands = <<SwapOutPayTake(p, x, l, b)>> /\ plan.value = 0
      <4>1. PICK pay : pay = Bill(p[1], l, b)
        OBVIOUS
      <4>2. pay = IF b THEN Router!SettleAll(p[1], l) ELSE Router!Settle(p[1], Router!OPEN_DELTA, FALSE)
        BY <4>1 DEF Bill
      <4> QED
        BY <1>4, <2>3, <4>1, <4>2 DEF Router!BuildV4Out, Router!Execute, SwapOutPayTake
    <3> QED
      BY <1>1, <1>3, <2>1, <3>1, SendOut
  <2> QED
    BY <2>1, <2>2, <2>3
<1>7. CASE /\ p[1] = WrappedEther
           /\ Router!Send(Router!BuildWrapV4Multihop(p, x, l), "in", Ether, Router!Last(p), x, l, TRUE)
  <2>1. PICK plan : /\ plan = Router!BuildWrapV4Multihop(p, x, l)
                    /\ Router!Send(plan, "in", Ether, LastOf(p), x, l, TRUE)
    BY <1>4, <1>7
  <2>2. PICK c : c = SwapPayTake(p, x, l, Router!Settle(p[1], Router!OPEN_DELTA, FALSE), "payee")
    OBVIOUS
  <2>3. plan.commands = <<Router!WrapEth("router", x), c>> /\ plan.value = x
    BY <1>4, <1>7, <2>1, <2>2 DEF Router!BuildWrapV4Multihop, Router!Execute, SwapPayTake
  <2>4. IsLeg(c, p, "payee", l, x, FALSE)
    BY <1>3, <2>2 DEF IsLeg, Pays
  <2>5. PICK s : s = <<c>>
    OBVIOUS
  <2>6. plan.commands = <<Router!WrapEth("router", x)>> \o s
    BY <2>3, <2>5, PutOne
  <2>7. LegsOf(s, x, FALSE, LastOf(p), l) /\ PathOf(s[1])[1] = WrappedEther
    <3>1. LegsOf(<<c>>, x, FALSE, LastOf(p), l) /\ PathOf(<<c>>[1]) = p
      BY <1>3, <1>4, <2>4, OneLegOf
    <3> QED
      BY <1>7, <2>5, <3>1
  <2> QED
    BY <1>1, <1>3, <1>4, <2>1, <2>3, <2>6, <2>7, SendWrap
<1> QED
  BY <1>2, <1>5, <1>6, <1>7

\* h is the hops of path p, of m + 1 tokens.
AreHops(h, p, m) ==
  /\ m \in Nat /\ m >= 1 /\ m = Len(p) - 1 /\ Len(h) = m /\ DOMAIN h = 1 .. m
  /\ h \in Seq({h[k] : k \in DOMAIN h})
  /\ \A k \in 1 .. m : h[k].in = p[k] /\ h[k].out = p[k + 1]

\* The hops of a route, one less than its tokens.
LEMMA HopsFact ==
  ASSUME NEW p \in Routes, NEW kinds
  PROVE  \E m : AreHops(Router!HopsOf(p, kinds), p, m)
<1>0. PICK m \in Nat : m = Len(p) - 1
  <2>1. Len(p) \in Nat /\ Len(p) >= 2
    BY RouteFact
  <2>2. Len(p) - 1 \in Nat
    BY <2>1
  <2> QED
    BY <2>2
<1>01. PICK h : h = Router!HopsOf(p, kinds)
  OBVIOUS
<1>1. Len(p) \in Nat /\ Len(p) >= 2
  BY RouteFact
<1>2. h = [k \in 1 .. m |-> [kind |-> kinds[k], in |-> p[k], out |-> p[k + 1]]]
  BY <1>0, <1>01 DEF Router!HopsOf
<1> DEFINE H == {[kind |-> kinds[k], in |-> p[k], out |-> p[k + 1]] : k \in 1 .. m}
<1>3. h \in [1 .. m -> H]
  BY <1>2
<1> HIDE DEF H
<1>4. h \in Seq(H) /\ Len(h) = m /\ DOMAIN h = 1 .. m
  BY <1>3, LengthIs
<1>5. h \in Seq({h[k] : k \in DOMAIN h})
  BY <1>4, OfItself
<1>6. \A k \in 1 .. m : h[k].in = p[k] /\ h[k].out = p[k + 1]
  BY <1>2
<1> QED
  <2>1. m >= 1
    BY <1>0, <1>1
  <2> QED
    BY <1>0, <1>01, <1>4, <1>5, <1>6, <2>1, ZenonT(40) DEF AreHops

\* The segments start with the first hop.
LEMMA CutFact ==
  ASSUME NEW h, NEW m \in Nat, m >= 1, DOMAIN h = 1 .. m, Len(h) = m, NEW f \in Router!Cuts(h)
  PROVE  \E n \in Nat : /\ n >= 1 /\ DOMAIN f = 1 .. n /\ Len(f) = n /\ f \in [1 .. n -> 1 .. m] /\ f[1] = 1
                        /\ \A j, k \in 1 .. n : j < k => f[j] < f[k]
<1>1. PICK n \in 1 .. m : f \in [1 .. n -> Router!Starts(h)]
  BY DEF Router!Cuts
<1>2. /\ \A j, k \in DOMAIN f : j < k => f[j] < f[k]
      /\ \A s \in Router!Starts(h) : \E k \in DOMAIN f : f[k] = s
  BY DEF Router!Cuts
<1>3. Router!Starts(h) \subseteq 1 .. m /\ 1 \in Router!Starts(h)
  BY DEF Router!Starts
<1>4. n \in Nat /\ n >= 1
  OBVIOUS
<1>5. f \in [1 .. n -> 1 .. m] /\ DOMAIN f = 1 .. n
  BY <1>1, <1>3
<1>6. Len(f) = n
  BY <1>4, <1>5, LengthIs
<1>7. PICK k \in 1 .. n : f[k] = 1
  BY <1>2, <1>3, <1>5
<1>8. f[1] = 1
  <2>1. 1 \in 1 .. n /\ f[1] \in 1 .. m
    BY <1>4, <1>5
  <2>2. k = 1 \/ 1 < k
    OBVIOUS
  <2>3. 1 < k => f[1] < f[k]
    BY <1>2, <1>5, <2>1
  <2> QED
    BY <1>7, <2>1, <2>2, <2>3
<1> QED
  BY <1>2, <1>4, <1>5, <1>6, <1>8

\* The path that segment seg takes.
Piece(seg) == <<seg[1].in>> \o [j \in DOMAIN seg |-> seg[j].out]

\* It is the part of route p that the hops a to e cover.
Covers(path, seg, p, a, e) ==
  path \in Routes /\ path[1] = p[a] /\ path[1] = seg[1].in /\ LastOf(path) = p[e + 1]

LEMMA PieceFact ==
  ASSUME NEW p \in Routes, NEW h, NEW m \in Nat, AreHops(h, p, m), NEW a \in 1 .. m, NEW e \in a .. m, NEW seg, seg = SubSeq(h, a, e),
         NEW path, path = Piece(seg)
  PROVE  Covers(path, seg, p, a, e)
<1>1. /\ m >= 1 /\ Len(h) = m /\ DOMAIN h = 1 .. m
      /\ h \in Seq({h[k] : k \in DOMAIN h})
      /\ \A k \in 1 .. m : h[k].in = p[k] /\ h[k].out = p[k + 1]
  BY DEF AreHops
<1>2. PICK H : H = {h[k] : k \in DOMAIN h}
  OBVIOUS
<1>3. PICK r \in Nat : r = e - a + 1 /\ r >= 1
  OBVIOUS
<1>4. seg \in Seq(H) /\ Len(seg) = r /\ \A j \in 1 .. r : seg[j] = h[a + j - 1]
  <2>1. h \in Seq(H) /\ a \in 1 .. Len(h) /\ e \in a .. Len(h)
    BY <1>1, <1>2
  <2> QED
    BY <1>3, <2>1, SubSeqProperties
<1>5. DOMAIN seg = 1 .. r
  BY <1>4, LenProperties
<1>6. PICK outs : outs = [j \in 1 .. r |-> seg[j].out]
  OBVIOUS
<1>7. /\ p \in Seq(Coins \ {Ether}) /\ Len(p) = m + 1 /\ \A k \in 1 .. m + 1 : p[k] \in Coins \ {Ether}
      /\ \A j, k \in 1 .. m + 1 : p[j] = p[k] => j = k
  <2>1. Len(p) \in Nat
    BY RouteFact
  <2>2. Len(p) = m + 1
    BY <2>1 DEF AreHops
  <2>3. p \in Seq(Coins \ {Ether})
    BY DEF Routes
  <2>4. DOMAIN p = 1 .. m + 1 /\ \A k \in 1 .. m + 1 : p[k] \in Coins \ {Ether}
    BY <2>2, <2>3, LenProperties, ElementOfSeq
  <2>5. \A j, k \in DOMAIN p : p[j] = p[k] => j = k
    BY DEF Routes
  <2> QED
    BY <2>2, <2>3, <2>4, <2>5
<1>8. \A j \in 1 .. r : a + j - 1 \in 1 .. m /\ a + j \in 1 .. m + 1 /\ a + j - 1 + 1 = a + j
  BY <1>3
<1>9. \A j \in 1 .. r : outs[j] = p[a + j] /\ outs[j] \in Coins \ {Ether}
  <2> SUFFICES ASSUME NEW j \in 1 .. r
               PROVE  outs[j] = p[a + j] /\ outs[j] \in Coins \ {Ether}
    OBVIOUS
  <2>1. PICK i : i = a + j - 1 /\ i \in 1 .. m /\ i + 1 = a + j /\ a + j \in 1 .. m + 1
    BY <1>8
  <2>2. outs[j] = h[i].out /\ h[i].out = p[i + 1]
    BY <1>1, <1>4, <1>6, <2>1
  <2>3. outs[j] = p[a + j]
    BY <2>1, <2>2
  <2> QED
    BY <1>7, <2>1, <2>3
<1>10. outs \in [1 .. r -> Coins \ {Ether}]
  BY <1>6, <1>9
<1>11. outs \in Seq(Coins \ {Ether}) /\ Len(outs) = r
  BY <1>10, LengthIs
<1>12. PICK in : in = seg[1].in /\ in = p[a] /\ in \in Coins \ {Ether}
  <2>1. 1 \in 1 .. r /\ a + 1 - 1 = a /\ a \in 1 .. m + 1
    BY <1>3
  <2> QED
    BY <1>1, <1>4, <1>7, <2>1
<1>13. path = <<in>> \o outs
  BY <1>5, <1>6, <1>12 DEF Piece
<1>14. <<in>> \in Seq(Coins \ {Ether}) /\ Len(<<in>>) = 1 /\ <<in>>[1] = in
  BY <1>12
<1>15. /\ path \in Seq(Coins \ {Ether}) /\ Len(path) = r + 1 /\ path[1] = in
       /\ \A j \in 1 .. r : path[j + 1] = outs[j]
  <2>1. PICK S : S = Coins \ {Ether}
    OBVIOUS
  <2>2. PICK q : q = path
    OBVIOUS
  <2>3. outs \in Seq(S) /\ <<in>> \in Seq(S) /\ q = <<in>> \o outs
    BY <1>11, <1>13, <1>14, <2>1, <2>2
  <2>4. q \in Seq(S) /\ Len(q) = r + 1 /\ q[1] = in /\ \A j \in 1 .. r : q[j + 1] = outs[j]
    <3>1. PICK i : i = <<in>> /\ i \in Seq(S) /\ Len(i) = 1 /\ i[1] = in /\ q = i \o outs
      BY <1>14, <2>3
    <3>2. q \in Seq(S) /\ Len(q) = Len(i) + Len(outs)
      BY <2>3, <3>1, ConcatProperties
    <3>3. q[1] = i[1]
      BY <2>3, <3>1, ConcatProperties
    <3>4. Len(outs) = r
      BY <1>11
    <3>5. \A j \in 1 .. r : q[j + 1] = outs[j]
      <4> SUFFICES ASSUME NEW j \in 1 .. r PROVE q[j + 1] = outs[j]
        OBVIOUS
      <4>1. PICK k : k = j + 1 /\ k \in 1 .. 1 + r /\ k > 1 /\ k - 1 = j
        BY <1>3
      <4>2. k \in 1 .. Len(i) + Len(outs) /\ k > Len(i)
        BY <3>1, <3>4, <4>1
      <4>3. q[k] = outs[k - Len(i)]
        BY <2>3, <3>1, <4>2, ConcatProperties
      <4> QED
        BY <3>1, <4>1, <4>3
    <3> QED
      BY <1>3, <3>1, <3>2, <3>3, <3>4, <3>5
  <2> QED
    BY <2>1, <2>2, <2>4
<1>16. \A k \in 1 .. r + 1 : path[k] = p[a + k - 1] /\ a + k - 1 \in 1 .. m + 1
  <2> SUFFICES ASSUME NEW k \in 1 .. r + 1
               PROVE  path[k] = p[a + k - 1] /\ a + k - 1 \in 1 .. m + 1
    OBVIOUS
  <2>1. CASE k = 1
    <3>1. a + k - 1 = a /\ a \in 1 .. m + 1
      BY <2>1
    <3> QED
      BY <1>12, <1>15, <2>1, <3>1
  <2>2. CASE k # 1
    <3>1. PICK j \in 1 .. r : j = k - 1
      BY <1>3, <2>2
    <3>2. k = j + 1 /\ a + k - 1 = a + j
      BY <3>1
    <3> QED
      BY <1>8, <1>9, <1>15, <3>1, <3>2
  <2> QED
    BY <2>1, <2>2
<1>17. \A j, k \in DOMAIN path : path[j] = path[k] => j = k
  <2>0. r + 1 \in Nat
    BY <1>3
  <2>1. DOMAIN path = 1 .. r + 1
    BY <1>15, <2>0, LenProperties
  <2>2. ASSUME NEW j \in 1 .. r + 1, NEW k \in 1 .. r + 1, path[j] = path[k] PROVE j = k
    <3>1. PICK i, g : i = a + j - 1 /\ g = a + k - 1 /\ i \in 1 .. m + 1 /\ g \in 1 .. m + 1
      BY <1>16
    <3>2. p[i] = p[g]
      BY <1>16, <2>2, <3>1
    <3>3. i = g
      BY <1>7, <3>1, <3>2
    <3> QED
      BY <3>1, <3>3
  <2>3. PICK D : D = DOMAIN path
    OBVIOUS
  <2>4. D = 1 .. r + 1
    BY <2>1, <2>3
  <2>5. \A j, k \in D : path[j] = path[k] => j = k
    BY <2>2, <2>4
  <2> QED
    BY <2>3, <2>5
<1>18. path \in Routes
  <2>1. Len(path) >= 2
    BY <1>3, <1>15
  <2> QED
    BY <1>15, <1>17, <2>1, ARoute
<1>19. LastOf(path) = p[e + 1]
  <2>1. r + 1 \in 1 .. r + 1 /\ a + (r + 1) - 1 = e + 1
    BY <1>3
  <2>2. path[r + 1] = p[a + (r + 1) - 1]
    BY <1>16, <2>1
  <2> QED
    BY <1>15, <2>1, <2>2 DEF LastOf
<1> QED
  BY <1>12, <1>15, <1>18, <1>19 DEF Covers

\* What a segment is made into is a leg.
LEMMA SegmentFact ==
  ASSUME NEW seg, NEW k, NEW n, NEW x \in Nat, NEW l, NEW u \in BOOLEAN,
         NEW path, path = Piece(seg), path[1] = seg[1].in
  PROVE  IsLeg(Router!Segment(seg, k, n, x, l, u), path, IF k = n THEN "payee" ELSE "router",
               IF k = n THEN l ELSE 0, IF k = 1 THEN x ELSE Router!CONTRACT_BALANCE, k = 1 /\ u)
<1>1. PICK c : c = Router!Segment(seg, k, n, x, l, u)
  OBVIOUS
<1>2. PICK to, min, b, y : /\ to = IF k = n THEN "payee" ELSE "router"
                           /\ min = IF k = n THEN l ELSE 0
                           /\ b = (k = 1 /\ u)
                           /\ y = IF k = 1 THEN x ELSE Router!CONTRACT_BALANCE
  OBVIOUS
<1>3. b \in BOOLEAN /\ (k # 1 => ~b)
  BY <1>2
<1>4. \/ c = Router!V2SwapIn(to, y, min, path, b)
      \/ c = Router!V3SwapIn(to, y, min, path, b)
      \/ k = 1 /\ c = SwapPayTake(path, x, min, IF b THEN Router!SettleAll(path[1], x)
                                               ELSE Router!Settle(path[1], Router!OPEN_DELTA, FALSE), to)
      \/ k # 1 /\ c = PaySwapTake(path, min, to)
  BY <1>1, <1>2 DEF Piece, Router!Segment, Router!SegmentAmount, Router!SegmentMinimum, SwapPayTake, PaySwapTake,
                    Router!Last, LastOf
<1>5. IsLeg(c, path, to, min, y, b)
  <2>1. CASE c = Router!V2SwapIn(to, y, min, path, b) \/ c = Router!V3SwapIn(to, y, min, path, b)
    BY <2>1 DEF IsLeg
  <2>2. CASE k = 1 /\ c = SwapPayTake(path, x, min, IF b THEN Router!SettleAll(path[1], x)
                                               ELSE Router!Settle(path[1], Router!OPEN_DELTA, FALSE), to)
    <3>1. PICK pay : pay = (IF b THEN Router!SettleAll(path[1], x)
                            ELSE Router!Settle(path[1], Router!OPEN_DELTA, FALSE))
      OBVIOUS
    <3>2. pay \in Pays(path[1], x, b) /\ c = SwapPayTake(path, x, min, pay, to) /\ y = x
      BY <1>2, <1>3, <2>2, <3>1 DEF Pays
    <3> QED
      BY <3>2 DEF IsLeg
  <2>3. CASE k # 1 /\ c = PaySwapTake(path, min, to)
    BY <1>2, <1>3, <2>3 DEF IsLeg
  <2> QED
    BY <1>4, <2>1, <2>2, <2>3
<1> QED
  BY <1>1, <1>2, <1>5

\* Segment k of n is made into a leg of its own path.
IsStep(c, q, k, n, x, l, u) ==
  IsLeg(c, q, IF k = n THEN "payee" ELSE "router", IF k = n THEN l ELSE 0,
        IF k = 1 THEN x ELSE Router!CONTRACT_BALANCE, k = 1 /\ u)

\* n legs that hand over to each other.
Chain(r, n, x, l, u, out) ==
  \A k \in 1 .. n :
    /\ PathOf(r[k]) \in Routes /\ IsStep(r[k], PathOf(r[k]), k, n, x, l, u)
    /\ LastOf(PathOf(r[k])) = IF k = n THEN out ELSE PathOf(r[k + 1])[1]

\* n legs that hand over to each other are the legs of an order.
LEMMA ChainFact ==
  ASSUME NEW n \in Nat, n >= 1, NEW S, NEW r \in [1 .. n -> S], NEW x, NEW l, NEW u \in BOOLEAN, NEW out,
         Chain(r, n, x, l, u, out)
  PROVE  LegsOf(r, x, u, out, l)
<1>1. r \in Seq(S) /\ Len(r) = n
  BY LengthIs
<1>2. r \in Seq({r[k] : k \in DOMAIN r})
  BY <1>1, OfItself
<1>3. r # << >>
  BY <1>1, Shortest
<1>4. ASSUME NEW o, o.out = out, o.limit = l
      PROVE  Legs(r, x, u, o)
  BY <1>1, <1>2, <1>3, <1>4 DEF Legs, Chain, IsStep
<1> QED
  BY <1>4 DEF LegsOf

\* The n segments s take the routes q, which make up route p.
ArePieces(q, s, n, p) ==
  /\ n >= 1 /\ q = [k \in 1 .. n |-> Piece(s[k])]
  /\ \A k \in 1 .. n :
       /\ q[k] \in Routes /\ q[k][1] = s[k][1].in
       /\ LastOf(q[k]) = IF k = n THEN LastOf(p) ELSE q[k + 1][1]
  /\ q[1][1] = p[1]

LEMMA SegmentsFact ==
  ASSUME NEW p \in Routes, NEW h, NEW m, AreHops(h, p, m), NEW s \in Router!Segments(h)
  PROVE  \E n \in Nat : \E q, S : s \in [1 .. n -> S] /\ ArePieces(q, s, n, p)
<1>1. /\ m \in Nat /\ m >= 1 /\ m = Len(p) - 1 /\ Len(h) = m /\ DOMAIN h = 1 .. m
  BY DEF AreHops
<1>2. PICK f \in Router!Cuts(h) :
        s = [k \in DOMAIN f |-> SubSeq(h, f[k], IF k = Len(f) THEN Len(h) ELSE f[k + 1] - 1)]
  BY DEF Router!Segments
<1>3. PICK n \in Nat : /\ n >= 1 /\ DOMAIN f = 1 .. n /\ Len(f) = n /\ f \in [1 .. n -> 1 .. m] /\ f[1] = 1
                       /\ \A j, k \in 1 .. n : j < k => f[j] < f[k]
  BY <1>1, CutFact
<1>4. PICK end : end = [k \in 1 .. n |-> IF k = n THEN m ELSE f[k + 1] - 1]
  OBVIOUS
<1>5. \A k \in 1 .. n : /\ f[k] \in 1 .. m /\ end[k] \in f[k] .. m
                        /\ k # n => k + 1 \in 1 .. n /\ end[k] + 1 = f[k + 1]
  <2> SUFFICES ASSUME NEW k \in 1 .. n
               PROVE  /\ f[k] \in 1 .. m /\ end[k] \in f[k] .. m
                      /\ k # n => k + 1 \in 1 .. n /\ end[k] + 1 = f[k + 1]
    OBVIOUS
  <2>1. f[k] \in 1 .. m
    BY <1>3
  <2>2. CASE k = n
    BY <1>1, <1>4, <2>1, <2>2
  <2>3. CASE k # n
    <3>1. PICK j \in 1 .. n : j = k + 1 /\ k < j
      BY <2>3
    <3>2. f[k] < f[j] /\ f[j] \in 1 .. m
      BY <1>3, <3>1
    <3>3. end[k] = f[j] - 1
      BY <1>4, <2>3, <3>1
    <3> QED
      BY <1>1, <2>1, <3>1, <3>2, <3>3
  <2> QED
    BY <2>2, <2>3
<1>6. s = [k \in 1 .. n |-> SubSeq(h, f[k], end[k])]
  BY <1>1, <1>2, <1>3, <1>4
<1>7. PICK S : s \in [1 .. n -> S]
  <2>1. s \in [1 .. n -> {SubSeq(h, f[k], end[k]) : k \in 1 .. n}]
    BY <1>6
  <2> QED
    BY <2>1
<1>8. PICK q : q = [k \in 1 .. n |-> Piece(s[k])]
  OBVIOUS
<1>9. \A k \in 1 .. n : /\ q[k] \in Routes /\ q[k][1] = p[f[k]] /\ q[k][1] = s[k][1].in
                        /\ LastOf(q[k]) = p[end[k] + 1]
  <2> SUFFICES ASSUME NEW k \in 1 .. n
               PROVE  /\ q[k] \in Routes /\ q[k][1] = p[f[k]] /\ q[k][1] = s[k][1].in
                      /\ LastOf(q[k]) = p[end[k] + 1]
    OBVIOUS
  <2>1. PICK a, e, seg, path :
          /\ a = f[k] /\ e = end[k] /\ seg = s[k] /\ path = q[k]
          /\ a \in 1 .. m /\ e \in a .. m
    BY <1>5
  <2>2. seg = SubSeq(h, a, e)
    BY <1>6, <2>1
  <2>3. path = Piece(seg)
    BY <1>8, <2>1
  <2>4. Covers(path, seg, p, a, e)
    BY <1>1, <2>1, <2>2, <2>3, PieceFact
  <2> QED
    BY <2>1, <2>4 DEF Covers
<1>10. \A k \in 1 .. n : LastOf(q[k]) = IF k = n THEN LastOf(p) ELSE q[k + 1][1]
  <2> SUFFICES ASSUME NEW k \in 1 .. n
               PROVE  LastOf(q[k]) = IF k = n THEN LastOf(p) ELSE q[k + 1][1]
    OBVIOUS
  <2>1. CASE k = n
    <3>1. end[k] = m
      BY <1>4, <2>1
    <3>2. Len(p) = m + 1
      BY <1>1, RouteFact
    <3> QED
      BY <1>9, <2>1, <3>1, <3>2 DEF LastOf
  <2>2. CASE k # n
    <3>1. PICK j \in 1 .. n : j = k + 1 /\ end[k] + 1 = f[j]
      BY <1>5, <2>2
    <3>2. q[j][1] = p[f[j]]
      BY <1>9
    <3> QED
      BY <1>9, <2>2, <3>1, <3>2
  <2> QED
    BY <2>1, <2>2
<1>11. q[1][1] = p[1]
  BY <1>3, <1>9
<1>12. ArePieces(q, s, n, p)
  BY <1>3, <1>8, <1>9, <1>10, <1>11 DEF ArePieces
<1> QED
  BY <1>7, <1>12

\* The segments of a route become legs that start and end with it.
LegsAlong(r, x, u, p, l) == LegsOf(r, x, u, LastOf(p), l) /\ PathOf(r[1])[1] = p[1]

LEMMA MultihopFact ==
  ASSUME NEW p \in Routes, NEW h, NEW m, AreHops(h, p, m), NEW s \in Router!Segments(h),
         NEW x \in Nat, NEW l, NEW u \in BOOLEAN, NEW r, r = Router!MultihopCommands(s, x, l, u)
  PROVE  LegsAlong(r, x, u, p, l)
<1>00. PICK n \in Nat : \E q, S : s \in [1 .. n -> S] /\ ArePieces(q, s, n, p)
  BY SegmentsFact
<1>0. PICK q, S : s \in [1 .. n -> S] /\ ArePieces(q, s, n, p)
  BY <1>00
<1>1. /\ n >= 1 /\ s \in [1 .. n -> S] /\ q = [k \in 1 .. n |-> Piece(s[k])]
      /\ \A k \in 1 .. n :
           /\ q[k] \in Routes /\ q[k][1] = s[k][1].in
           /\ LastOf(q[k]) = IF k = n THEN LastOf(p) ELSE q[k + 1][1]
      /\ q[1][1] = p[1]
  BY <1>0 DEF ArePieces
<1>2. Len(s) = n /\ DOMAIN s = 1 .. n
  BY <1>1, LengthIs
<1>4. r = [k \in 1 .. n |-> Router!Segment(s[k], k, n, x, l, u)]
  BY <1>2 DEF Router!MultihopCommands
<1>5. PICK R : r \in [1 .. n -> R]
  <2>1. r \in [1 .. n -> {r[k] : k \in 1 .. n}]
    BY <1>4
  <2> QED
    BY <2>1
<1>6. ASSUME NEW k \in 1 .. n
      PROVE  PathOf(r[k]) = q[k] /\ IsStep(r[k], q[k], k, n, x, l, u)
  <2>1. PICK seg, path, c : seg = s[k] /\ path = q[k] /\ c = r[k]
    OBVIOUS
  <2>2. c = Router!Segment(seg, k, n, x, l, u)
    BY <1>4, <2>1
  <2>3. path = Piece(seg) /\ path[1] = seg[1].in /\ path \in Routes
    BY <1>1, <2>1
  <2>4. IsLeg(c, path, IF k = n THEN "payee" ELSE "router", IF k = n THEN l ELSE 0,
              IF k = 1 THEN x ELSE Router!CONTRACT_BALANCE, k = 1 /\ u)
    BY <2>2, <2>3, SegmentFact
  <2>5. PathOf(c) = path
    BY <2>3, <2>4, LegPath
  <2> QED
    BY <2>1, <2>4, <2>5 DEF IsStep
<1>7. Chain(r, n, x, l, u, LastOf(p))
  <2> SUFFICES ASSUME NEW k \in 1 .. n
               PROVE  /\ PathOf(r[k]) \in Routes /\ IsStep(r[k], PathOf(r[k]), k, n, x, l, u)
                      /\ LastOf(PathOf(r[k])) = IF k = n THEN LastOf(p) ELSE PathOf(r[k + 1])[1]
    BY DEF Chain
  <2>1. PathOf(r[k]) = q[k] /\ IsStep(r[k], q[k], k, n, x, l, u) /\ q[k] \in Routes
    BY <1>1, <1>6
  <2>2. k # n => PathOf(r[k + 1]) = q[k + 1]
    <3>1. k # n => k + 1 \in 1 .. n
      OBVIOUS
    <3> QED
      BY <1>6, <3>1
  <2> QED
    BY <1>1, <2>1, <2>2
<1>8. LegsOf(r, x, u, LastOf(p), l)
  BY <1>1, <1>5, <1>7, ChainFact
<1>9. PathOf(r[1])[1] = p[1]
  BY <1>1, <1>6
<1> QED
  BY <1>8, <1>9 DEF LegsAlong

\* and those of several.
LEMMA SendMultihopStep == ASSUME RouterIInv, Router!SendMultihop PROVE RouterIInv'
<1>1. Router!Idle
  BY DEF Router!SendMultihop
<1>2. PICK p \in Paths, x \in Amounts, l \in Limits :
        \E kinds \in [1 .. Len(p) - 1 -> Kinds] :
          \/ \E plan \in Router!BuildMultihop(Router!HopsOf(p, kinds), x, l) :
               Router!Send(plan, "in", p[1], Router!Last(p), x, l, TRUE)
          \/ /\ p[1] = WrappedEther
             /\ \E plan \in Router!BuildWrapMultihop(Router!HopsOf(p, kinds), x, l) :
                  Router!Send(plan, "in", Ether, Router!Last(p), x, l, TRUE)
  BY <1>1 DEF Router!SendMultihop
<1>3. p \in Routes /\ x \in Nat /\ l \in Nat
  BY RouterAssumption DEF Routes
<1>4. /\ p[1] \in Coins /\ LastOf(p) \in Coins /\ Router!Last(p) = LastOf(p)
      /\ TRUE \in BOOLEAN /\ FALSE \in BOOLEAN
  BY <1>3, RouteFact DEF LastOf, Router!Last
<1>5. PICK kinds :
        \/ \E plan \in Router!BuildMultihop(Router!HopsOf(p, kinds), x, l) :
             Router!Send(plan, "in", p[1], LastOf(p), x, l, TRUE)
        \/ /\ p[1] = WrappedEther
           /\ \E plan \in Router!BuildWrapMultihop(Router!HopsOf(p, kinds), x, l) :
                Router!Send(plan, "in", Ether, LastOf(p), x, l, TRUE)
  BY <1>2, <1>4
<1>6. PICK h : h = Router!HopsOf(p, kinds)
  OBVIOUS
<1>7. PICK m : AreHops(h, p, m)
  BY <1>3, <1>6, HopsFact
<1>8. CASE \E plan \in Router!BuildMultihop(h, x, l) : Router!Send(plan, "in", p[1], LastOf(p), x, l, TRUE)
  <2>1. PICK plan \in Router!BuildMultihop(h, x, l) : Router!Send(plan, "in", p[1], LastOf(p), x, l, TRUE)
    BY <1>8
  <2>2. PICK s \in Router!Segments(h) : plan = Router!Execute(Router!MultihopCommands(s, x, l, TRUE), 0)
    BY DEF Router!BuildMultihop
  <2>3. PICK r : r = Router!MultihopCommands(s, x, l, TRUE)
    OBVIOUS
  <2>4. plan.commands = r /\ plan.value = 0
    BY <2>2, <2>3 DEF Router!Execute
  <2>5. LegsOf(r, x, TRUE, LastOf(p), l) /\ PathOf(r[1])[1] = p[1]
    <3>1. PICK u \in BOOLEAN : u = TRUE /\ r = Router!MultihopCommands(s, x, l, u)
      BY <2>3
    <3>2. LegsAlong(r, x, u, p, l)
      BY <1>3, <1>7, <3>1, MultihopFact
    <3> QED
      BY <3>1, <3>2 DEF LegsAlong
  <2> QED
    BY <1>1, <1>3, <1>4, <2>1, <2>4, <2>5, SendLegs
<1>9. CASE /\ p[1] = WrappedEther
           /\ \E plan \in Router!BuildWrapMultihop(h, x, l) :
                Router!Send(plan, "in", Ether, LastOf(p), x, l, TRUE)
  <2>1. PICK plan \in Router!BuildWrapMultihop(h, x, l) :
          Router!Send(plan, "in", Ether, LastOf(p), x, l, TRUE)
    BY <1>9
  <2>2. PICK s \in Router!Segments(h) :
          plan = Router!Execute(<<Router!WrapEth("router", x)>> \o Router!MultihopCommands(s, x, l, FALSE), x)
    BY DEF Router!BuildWrapMultihop
  <2>3. PICK r : r = Router!MultihopCommands(s, x, l, FALSE)
    OBVIOUS
  <2>4. plan.commands = <<Router!WrapEth("router", x)>> \o r /\ plan.value = x
    BY <2>2, <2>3 DEF Router!Execute
  <2>5. LegsOf(r, x, FALSE, LastOf(p), l) /\ PathOf(r[1])[1] = p[1]
    <3>1. PICK u \in BOOLEAN : u = FALSE /\ r = Router!MultihopCommands(s, x, l, u)
      BY <2>3
    <3>2. LegsAlong(r, x, u, p, l)
      BY <1>3, <1>7, <3>1, MultihopFact
    <3> QED
      BY <3>1, <3>2 DEF LegsAlong
  <2>6. PathOf(r[1])[1] = WrappedEther
    BY <1>9, <2>5
  <2> QED
    BY <1>1, <1>3, <1>4, <2>1, <2>4, <2>5, <2>6, SendWrap
<1> QED
  BY <1>5, <1>6, <1>8, <1>9

\* The invariant holds at first, and while nothing changes.
LEMMA RouterStarts == Router!Init => RouterIInv
<1> SUFFICES ASSUME Router!Init PROVE RouterIInv
  OBVIOUS
<1>1. /\ bal = [a \in Accounts |-> Router!Nothing]
      /\ delta = Router!Nothing /\ todo = << >> /\ acts = << >> /\ dry = FALSE
      /\ tx = [pc |-> "idle", n |-> 0, exact |-> "in", in |-> WrappedEther, out |-> WrappedEther, amount |-> 0,
               limit |-> 0, byUser |-> TRUE, before |-> [bal |-> bal, dry |-> dry]]
  BY DEF Router!Init, Accounts
<1>2. Router!Nothing \in Wallets /\ \A t \in Coins : Router!Nothing[t] = 0
  BY DEF Router!Nothing, Wallets
<1>3. bal \in [Accounts -> Wallets] /\ bal["router"] = Router!Nothing
  BY <1>1, <1>2 DEF Accounts
<1>4. /\ tx.pc = "idle" /\ tx.amount = 0 /\ tx.before.bal = bal /\ tx.before.dry = dry
  BY <1>1
<1>5. RouterTyped
  BY <1>1, <1>2, <1>3, RouterAssumption DEF RouterTyped
<1>6. HoldsNothing(tx.before.bal, tx.before.dry)
  BY <1>2, <1>3, <1>4 DEF HoldsNothing
<1>7. Router!OrderIsWhole
  BY <1>3, <1>4 DEF Router!OrderIsWhole, Router!SettledAsOrdered, Router!NothingLeftBehind
<1> QED
  BY <1>1, <1>4, <1>5, <1>6, <1>7 DEF RouterIInv

LEMMA StillSwaps ==
  ASSUME NEW p \in Routes, NEW y \in Nat, NEW min \in Nat, NEW to \in {"router", "payee"}, NEW t \in Coins,
         NEW x \in Nat, NEW b \in BOOLEAN, NEW s \in Pays(t, x, b),
         acts' = <<Router!V4In(p, y, min), s, Router!TakeTo(LastOf(p), to, Router!OPEN_DELTA), Lock>>,
         Remains(todo', LastOf(p), to, min, tx'), Ready(t, x, b)',
         \A k \in 1 .. Len(p) : p[k] # t,
         y > 0, delta'[p[1]] = y, Owes(t, x)', Unvisited(p)', NoOther({t, p[1]})'
  PROVE  FormSwapThenPay'
  BY ZenonT(60) DEF FormSwapThenPay

LEMMA RouterStays == ASSUME RouterIInv, UNCHANGED Router!vars PROVE RouterIInv'
<1>1. bal' = bal /\ delta' = delta /\ todo' = todo /\ acts' = acts /\ tx' = tx /\ dry' = dry
  BY DEF Router!vars
<1>2. RouterTyped' /\ HoldsNothing(tx.before.bal, tx.before.dry)'
  BY <1>1 DEF RouterIInv, RouterTyped, HoldsNothing
<1>3. tx'.pc = "idle" => todo' = << >> /\ acts' = << >> /\ delta' = Router!Nothing /\ Router!OrderIsWhole'
  BY <1>1 DEF RouterIInv, Router!OrderIsWhole, Router!SettledAsOrdered, Router!NothingLeftBehind
<1>4. tx'.pc = "sent" => SentForm'
  <2> SUFFICES ASSUME tx'.pc = "sent" PROVE SentForm'
    OBVIOUS
  <2>1. SentForm
    BY <1>1 DEF RouterIInv
  <2>2. ASSUME NEW x, NEW b, Ready(PathOf(todo[1])[1], x, b)
        PROVE  Ready(PathOf(todo[1])[1], x, b)'
    BY <1>1, <2>2 DEF Ready, Spent, PayeeKept, HoldsOnly
  <2>3. ASSUME NEW t, NEW x, NEW b, Ready(t, x, b)
        PROVE  Ready(t, x, b)'
    BY <1>1, <2>3 DEF Ready, Spent, PayeeKept, HoldsOnly
  <2>4. /\ Underway(bal, dry) => Underway(bal, dry)'
        /\ Settled => Settled'
    BY <1>1 DEF Underway, Settled, PaidOut, Spent, PayeeKept, HoldsNothing
  <2>5. AtLegs(todo) => AtLegs(todo)'
    <3> SUFFICES ASSUME NEW x \in Nat \union {Router!CONTRACT_BALANCE}, NEW b \in BOOLEAN,
                        Legs(todo, x, b, tx), Ready(PathOf(todo[1])[1], x, b)
                 PROVE  AtLegs(todo)'
      BY DEF AtLegs
    <3>1. Ready(PathOf(todo[1])[1], x, b)' /\ Legs(todo, x, b, tx)'
      BY <1>1, <2>2
    <3> QED
      BY <3>1 DEF AtLegs
  <2>6. ASSUME NEW S, NoOther(S) PROVE NoOther(S)'
    BY <1>1, <2>6 DEF NoOther
  <2>7. ASSUME NEW p, Unvisited(p) PROVE Unvisited(p)'
    BY <1>1, <2>7 DEF Unvisited
  <2>8. ASSUME NEW t, NEW x, Owes(t, x) PROVE Owes(t, x)'
    BY <1>1, <2>8 DEF Owes
  <2>9. FormLegs => FormLegs'
    BY <1>1, <2>5 DEF FormLegs
  <2>10. FormWrap => FormWrap'
    BY <1>1, <2>3 DEF FormWrap
  <2>11. FormDone => FormDone'
    BY <1>1, <2>4 DEF FormDone
  <2>12. FormOut => FormOut'
    BY <1>1 DEF FormOut, Spent, PayeeKept, HoldsNothing
  <2>13. FormSwapThenPay => FormSwapThenPay'
    <3> SUFFICES ASSUME FormSwapThenPay PROVE FormSwapThenPay'
      OBVIOUS
    <3>1. PICK p \in Routes, y \in Nat, min \in Nat, to \in {"router", "payee"}, t \in Coins, x \in Nat, b \in BOOLEAN :
            \E s \in Pays(t, x, b) :
              /\ acts = <<Router!V4In(p, y, min), s, Router!TakeTo(LastOf(p), to, Router!OPEN_DELTA), Lock>>
              /\ Remains(todo, LastOf(p), to, min, tx) /\ Ready(t, x, b)
              /\ \/ y = x /\ t = p[1] /\ delta = Router!Nothing
                 \/ /\ \A k \in 1 .. Len(p) : p[k] # t
                    /\ y > 0 /\ delta[p[1]] = y /\ Owes(t, x) /\ Unvisited(p) /\ NoOther({t, p[1]})
      BY DEF FormSwapThenPay
    <3>2. Ready(t, x, b)' /\ (Owes(t, x) => Owes(t, x)') /\ (Unvisited(p) => Unvisited(p)')
          /\ (NoOther({t, p[1]}) => NoOther({t, p[1]})')
      BY <2>3, <2>6, <2>7, <2>8, <3>1
    <3>3. PICK s \in Pays(t, x, b) :
            /\ acts = <<Router!V4In(p, y, min), s, Router!TakeTo(LastOf(p), to, Router!OPEN_DELTA), Lock>>
            /\ Remains(todo, LastOf(p), to, min, tx)
            /\ \/ y = x /\ t = p[1] /\ delta = Router!Nothing
               \/ /\ \A k \in 1 .. Len(p) : p[k] # t
                  /\ y > 0 /\ delta[p[1]] = y /\ Owes(t, x) /\ Unvisited(p) /\ NoOther({t, p[1]})
      BY <3>1
    <3>4. acts' = <<Router!V4In(p, y, min), s, Router!TakeTo(LastOf(p), to, Router!OPEN_DELTA), Lock>>
          /\ Remains(todo, LastOf(p), to, min, tx)'
      BY <1>1, <3>3
    <3>5. CASE y = x /\ t = p[1] /\ delta = Router!Nothing
      <4>1. delta' = Router!Nothing
        BY <1>1, <3>5
      <4> QED
        BY <3>2, <3>4, <3>5, <4>1 DEF FormSwapThenPay
    <3>6. CASE /\ \A k \in 1 .. Len(p) : p[k] # t
               /\ y > 0 /\ delta[p[1]] = y /\ Owes(t, x) /\ Unvisited(p) /\ NoOther({t, p[1]})
      <4>1. delta'[p[1]] = y /\ Owes(t, x)' /\ Unvisited(p)' /\ NoOther({t, p[1]})'
        BY <1>1, <3>2, <3>6
      <4>2. Ready(t, x, b)' /\ y > 0 /\ \A k \in 1 .. Len(p) : p[k] # t
        BY <3>2, <3>6
      <4> QED
        BY <3>4, <4>1, <4>2, StillSwaps
    <3> QED
      BY <3>3, <3>5, <3>6
  <2>14. FormPay => FormPay'
    <3> SUFFICES ASSUME FormPay PROVE FormPay'
      OBVIOUS
    <3>1. PICK u \in Coins, min \in Nat, to \in {"router", "payee"}, t \in Coins, x \in Nat, b \in BOOLEAN :
            \E s \in Pays(t, x, b) :
              /\ acts = <<s, Router!TakeTo(u, to, Router!OPEN_DELTA), Lock>>
              /\ Remains(todo, u, to, min, tx) /\ Ready(t, x, b)
              /\ t # u /\ delta[u] >= min /\ Owes(t, x) /\ NoOther({t, u})
      BY DEF FormPay
    <3>2. Ready(t, x, b)' /\ Owes(t, x)' /\ NoOther({t, u})'
      BY <2>3, <2>6, <2>8, <3>1
    <3> QED
      BY <1>1, <3>1, <3>2 DEF FormPay
  <2>15. FormFund => FormFund'
    BY <1>1, <2>3 DEF FormFund
  <2>16. FormSwap => FormSwap'
    BY <1>1, <2>4, <2>6, <2>7 DEF FormSwap
  <2>17. FormTake => FormTake'
    BY <1>1, <2>4, <2>6 DEF FormTake
  <2>18. FormLock => FormLock'
    BY <1>1, <2>4, <2>5 DEF FormLock
  <2>19. FormSwapOut => FormSwapOut'
    BY <1>1 DEF FormSwapOut, Unpaid, Spent, PayeeKept, HoldsNothing
  <2>20. FormPayOut => FormPayOut'
    BY <1>1 DEF FormPayOut, Unpaid, Spent, PayeeKept, HoldsNothing
  <2>21. FormTakeOut => FormTakeOut'
    BY <1>1 DEF FormTakeOut, Spent, PayeeKept, HoldsNothing
  <2> QED
    BY <2>1, <2>9, <2>10, <2>11, <2>12, <2>13, <2>14, <2>15, <2>16, <2>17, <2>18, <2>19, <2>20, <2>21 DEF SentForm
<1> QED
  BY <1>2, <1>3, <1>4 DEF RouterIInv

\* Whatever the builders of amm/universal_router.py put together, and whatever
\* the pools pay: a transaction that does not revert has cost the user and
\* paid the recipient what was ordered, within the limits and nothing else, and
\* has left nothing in the router unless a pool ran dry.
THEOREM OrdersWhole == Router!Spec => []OrderIsWhole
<1>1. RouterIInv /\ [Router!Next]_(Router!vars) => RouterIInv'
  <2> SUFFICES ASSUME RouterIInv, [Router!Next]_(Router!vars) PROVE RouterIInv'
    OBVIOUS
  <2>1. CASE UNCHANGED Router!vars
    BY <2>1, RouterStays
  <2>2. CASE Router!SendOne \/ Router!SendPath \/ Router!SendMultihop
    BY <2>2, SendOneStep, SendPathStep, SendMultihopStep
  <2>3. CASE Router!Wrap \/ Router!SwapV2In \/ Router!SwapV3In \/ Router!SwapOut
    BY <2>3, WrapStep, V2InStep, V3InStep, OutStep
  <2>4. CASE Router!SwapV4In \/ Router!SwapV4Out \/ Router!PayDebt \/ Router!Take
    BY <2>4, V4InStep, V4OutStep, PayDebtStep, CollectStep
  <2>5. CASE Router!Unlock \/ Router!Lock \/ Router!Succeed \/ Router!Revert \/ Router!Sweep
    BY <2>5, UnlockStep, LockStep, SucceedStep, RevertStep, SweepStep
  <2> QED
    BY <2>1, <2>2, <2>3, <2>4, <2>5 DEF Router!Next
<1>2. RouterIInv => OrderIsWhole
  <2> SUFFICES ASSUME RouterIInv PROVE OrderIsWhole
    OBVIOUS
  <2>1. CASE tx.pc = "idle"
    BY <2>1 DEF RouterIInv, OrderIsWhole
  <2>2. CASE tx.pc # "idle"
    BY <2>2 DEF OrderIsWhole, Router!OrderIsWhole, Router!SettledAsOrdered, Router!NothingLeftBehind
  <2> QED
    BY <2>1, <2>2
<1> QED
  BY <1>1, <1>2, RouterStarts, PTL DEF Router!Spec
=============================================================================
