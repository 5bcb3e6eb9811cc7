-------------------------- MODULE Composers_proofs --------------------------
(***************************************************************************)
(* ApproveProxy, EurekaComposer, DeFiVM, OFTComposer and CCIPComposer, as  *)
(* the behaviours of Composers in which `which` names them: for every set  *)
(* of calls, users, packets, signatures, messages and lanes, every depth   *)
(* of the call stack and any number of transactions.                       *)
(***************************************************************************)
EXTENDS Composers, EvmFrames_proofs, Sums_proofs

-----------------------------------------------------------------------------
(* ApproveProxy.  Between calls no user's tokens are unaccounted for and the *)
(* parameter slots are zero; while a call runs, the deposits it has pulled  *)
(* so far are its own.                                                      *)

\* The instance's stack is that of EvmFrames.
LEMMA ProxyStack ==
  /\ Proxy!Idle <=> Idle
  /\ Proxy!Top = Top
  /\ Proxy!Revert <=> Revert
  /\ Proxy!EndTx <=> Len(frames) = 1 /\ Leave(Discarded(world))
  /\ \A s : Proxy!BeginTx(s) <=> BeginTx(s)
  /\ \A w : Proxy!Leave(w) <=> Leave(w)
  /\ \A at, arg, w : Proxy!Enter(at, arg, w) <=> Enter(at, arg, w)
BY DEF Proxy!Idle, Idle, Proxy!Top, Top, Proxy!Revert, Revert, Proxy!EndTx,
       Proxy!Discarded, Discarded, Proxy!CleanSlots, CleanSlots, Proxy!BeginTx, BeginTx,
       Proxy!Leave, Leave, Proxy!Callers, Callers, Proxy!Enter, Enter, Proxy!Frame, Frame

LEMMA CallFields ==
  ASSUME NEW c \in Calls
  PROVE  /\ Call[c].deposits \in Seq(Nat) /\ Call[c].params \in Seq(Nat)
         /\ Len(Call[c].deposits) \in Nat /\ Len(Call[c].params) \in Nat
         /\ Call[c].deposits \in [1 .. Len(Call[c].deposits) -> Nat]
BY ProxyAssumption

LEMMA TotalIsPrefix ==
  ASSUME NEW c \in Calls
  PROVE  /\ Proxy!Total(c) = Prefix(Call[c].deposits, Len(Call[c].deposits))
         /\ Proxy!Total(c) \in Nat
<1> DEFINE d == Call[c].deposits
<1>1. d \in Seq(Nat) /\ Len(d) \in Nat
  BY CallFields
<1>2. Proxy!Total(c) = SumFunctionOnSet(d, DOMAIN d)
  BY DEF Proxy!Total, Proxy!FoldSeq, Proxy!FoldFunction, Proxy!FoldFunctionOnSet,
         Proxy!MapThenFoldSet, SumFunctionOnSet, FoldFunctionOnSet, MapThenFoldSet
<1> HIDE DEF d
<1>3. Len(d) <= Len(d)
  BY <1>1
<1> QED
  BY <1>1, <1>2, <1>3, SequenceSum, PrefixNat DEF d
ProxyFrame ==
  [at : {"batch"}, arg : Users, snap : Proxy!World]
    \union [at : {"deposit", "staged", "program"},
            arg : [call : Calls, i : Nat, user : Users], snap : Proxy!World]

\* What a user has given up by the deposits that a running call has pulled.
Given(arg, u) == IF u = arg.user THEN Prefix(Call[arg.call].deposits, arg.i - 1) ELSE 0

\* The parameter slots while nobody uses them, and as a call stages them.
SlotsZero(w) == \A i \in 0 .. MaxParams - 1 : w.slot[i] = 0
SlotsStaged(w, params) ==
  \A i \in 0 .. MaxParams - 1 : w.slot[i] = (IF i < Len(params) THEN params[i + 1] ELSE 0)

ProxyRest ==
  {w \in Proxy!World :
     /\ ~w.locked /\ SlotsZero(w)
     /\ \A u \in Users : w.wallet[u] + w.spent[u] = Wallet0[u]}

ProxyRunning(w, f) ==
  /\ w.locked /\ f.at # "batch"
  /\ f.arg.i \in 1 .. Len(Call[f.arg.call].deposits) + 1
  /\ Len(Call[f.arg.call].params) <= MaxParams
  /\ f.at = "deposit" => SlotsZero(w)
  /\ f.at = "staged" => SlotsStaged(w, Call[f.arg.call].params)
  /\ f.at # "deposit" => f.arg.i = Len(Call[f.arg.call].deposits) + 1
  /\ \A u \in Users : w.wallet[u] + w.spent[u] + Given(f.arg, u) = Wallet0[u]

ProxyRun == {p \in Proxy!World \X ProxyFrame : ProxyRunning(p[1], p[2])}

ProxyIInv == Nested(ProxyFrame, ProxyRest, ProxyRun)

LEMMA ProxyRunDef ==
  ASSUME NEW w, NEW f
  PROVE  <<w, f>> \in ProxyRun <=> w \in Proxy!World /\ f \in ProxyFrame /\ ProxyRunning(w, f)
BY DEF ProxyRun

LEMMA ProxyWorldFields ==
  ASSUME NEW w \in Proxy!World
  PROVE  /\ w.locked \in BOOLEAN /\ w.slot \in [Slots -> Nat]
         /\ w.wallet \in [Users -> Nat] /\ w.spent \in [Users -> Nat]
         /\ w.bal \in Nat /\ w.paid \in Nat /\ w.out \in Nat
BY DEF Proxy!World

LEMMA ProxyFrameFields ==
  ASSUME NEW f \in ProxyFrame
  PROVE  /\ f.snap \in Proxy!World
         /\ \/ f.at = "batch" /\ f.arg \in Users
            \/ /\ f.at \in {"deposit", "staged", "program"}
               /\ f.arg \in [call : Calls, i : Nat, user : Users]
               /\ f.arg.call \in Calls /\ f.arg.i \in Nat /\ f.arg.user \in Users
BY DEF ProxyFrame

\* Where a step of Proxy finds itself.
LEMMA ProxyAt ==
  ASSUME ProxyIInv, NEW step, Proxy!At(step), step # "batch"
  PROVE  /\ ~Idle /\ Len(frames) = 2 /\ Top = frames[2] /\ frames[2].at = step
         /\ world \in Proxy!World /\ frames[2] \in ProxyFrame
         /\ ProxyRunning(world, frames[2])
         /\ frames[2].arg \in [call : Calls, i : Nat, user : Users]
<1>1. ~Idle /\ Top.at = step
  BY ProxyStack DEF Proxy!At
<1>2. Len(frames) = 2 /\ Top = frames[2] /\ <<world, frames[2]>> \in ProxyRun
  BY <1>1, NestedTop DEF ProxyIInv
<1>3. world \in Proxy!World /\ frames[2] \in ProxyFrame /\ ProxyRunning(world, frames[2])
  BY <1>2, ProxyRunDef
<1>4. frames[2].at # "batch"
  BY <1>1, <1>2
<1> QED
  BY <1>1, <1>2, <1>3, <1>4, ProxyFrameFields

LEMMA ProxyExecute ==
  ASSUME ProxyIInv, NEW c \in Calls, Proxy!Execute(c)
  PROVE  ProxyIInv'
<1> DEFINE arg == [call |-> c, i |-> 1, user |-> frames[1].arg]
           v == [world EXCEPT !.locked = TRUE]
           f == Frame("deposit", arg)
<1>1. /\ ~Idle /\ ~world.locked /\ Len(Call[c].params) <= MaxParams
      /\ Enter("deposit", arg, v)
  BY ProxyStack DEF Proxy!Execute, Proxy!External, Proxy!NonReentrant, Proxy!FewEnough,
                    Proxy!Sender
<1>2. Len(frames) = 1 /\ world \in ProxyRest
  <2>1. Top.at = "batch"
    <3> SUFFICES ASSUME Top.at # "batch" PROVE FALSE
      OBVIOUS
    <3>1. <<world, Top>> \in ProxyRun
      BY <1>1, NestedTop DEF ProxyIInv
    <3> QED
      BY <1>1, <3>1, ProxyRunDef DEF ProxyRunning
  <2> QED
    BY <1>1, <2>1, NestedTop DEF ProxyIInv
<1>3. frames[1].arg \in Users
  <2>1. frames \in Seq(ProxyFrame) /\ frames[1].at = "batch"
    BY <1>2 DEF ProxyIInv, Nested
  <2>2. frames[1] \in ProxyFrame
    BY <1>2, <2>1
  <2> QED
    BY <2>1, <2>2, ProxyFrameFields
<1>4. v \in Proxy!World /\ f \in ProxyFrame
  BY <1>2, <1>3 DEF ProxyRest, Proxy!World, Frame, ProxyFrame
<1>5. /\ v.locked /\ v.slot = world.slot /\ v.wallet = world.wallet
      /\ v.spent = world.spent
  BY <1>2 DEF ProxyRest, Proxy!World
<1>6. arg.i = 1 /\ arg.call = c /\ f.arg = arg /\ f.at = "deposit"
  BY DEF Frame
<1> HIDE DEF v, f, arg
<1>7. \A u \in Users : Given(arg, u) = 0
  <2>1. Prefix(Call[c].deposits, 0) = 0
    BY PrefixNone
  <2> QED
    BY <1>6, <2>1 DEF Given
<1>8. ProxyRunning(v, f)
  <2>1. 1 \in 1 .. Len(Call[c].deposits) + 1
    BY CallFields
  <2>2. SlotsZero(v)
    BY <1>2, <1>5 DEF ProxyRest, SlotsZero
  <2>3. \A u \in Users : v.wallet[u] + v.spent[u] + Given(arg, u) = Wallet0[u]
    <3>1. \A u \in Users : /\ world.wallet[u] \in Nat /\ world.spent[u] \in Nat
                           /\ world.wallet[u] + world.spent[u] = Wallet0[u]
      BY <1>2, ProxyWorldFields DEF ProxyRest
    <3> QED
      BY <1>5, <1>7, <3>1
  <2> QED
    BY <1>1, <1>5, <1>6, <2>1, <2>2, <2>3 DEF ProxyRunning
<1>9. <<v, f>> \in ProxyRun
  BY <1>4, <1>8, ProxyRunDef
<1>10. Nested(ProxyFrame, ProxyRest, ProxyRun)
  BY DEF ProxyIInv
<1>11. Nested(ProxyFrame, ProxyRest, ProxyRun)'
  BY <1>1, <1>2, <1>4, <1>9, <1>10, NestedEnter DEF f
<1> QED
  BY <1>11 DEF ProxyIInv
LEMMA Gives ==
  ASSUME NEW w \in Nat, NEW s \in Nat, NEW p \in Nat, NEW x \in Nat, x <= w,
         NEW q, q = p + x
  PROVE  (w - x) + s + q = w + s + p /\ w - x \in Nat
OBVIOUS

LEMMA ProxyPull ==
  ASSUME ProxyIInv, Proxy!PullDeposit
  PROVE  ProxyIInv'
<1> DEFINE f == frames[2]
           c == f.arg.call
           i == f.arg.i
           o == f.arg.user
           d == Call[c].deposits
           g == [f EXCEPT !.arg.i = i + 1]
<1>1. /\ ~Idle /\ Len(frames) = 2 /\ Top = f /\ f.at = "deposit"
      /\ world \in Proxy!World /\ f \in ProxyFrame /\ ProxyRunning(world, f)
      /\ f.arg \in [call : Calls, i : Nat, user : Users]
  BY ProxyAt DEF Proxy!PullDeposit
<1>2. /\ i <= Len(d) /\ d[i] <= world.wallet[o]
      /\ world' = [world EXCEPT !.wallet[o] = @ - d[i], !.bal = @ + d[i]]
      /\ frames' = [frames EXCEPT ![2] = g]
  <2>1. Proxy!Top = f
    BY <1>1, ProxyStack
  <2>2. /\ i <= Len(d) /\ d[i] <= world.wallet[o]
        /\ world' = [world EXCEPT !.wallet[o] = @ - d[i], !.bal = @ + d[i]]
        /\ frames' = [frames EXCEPT ![Len(frames)].arg.i = @ + 1]
    BY <2>1 DEF Proxy!PullDeposit, Proxy!Transferable
  <2> QED
    BY <1>1, <2>2
<1>3. /\ d \in Seq(Nat) /\ i \in Nat /\ i > 0 /\ c \in Calls /\ o \in Users
      /\ Len(Call[c].params) <= MaxParams /\ world.locked /\ SlotsZero(world)
      /\ \A u \in Users : world.wallet[u] + world.spent[u] + Given(f.arg, u) = Wallet0[u]
  <2>1. c \in Calls /\ o \in Users /\ i \in Nat
    BY <1>1
  <2> QED
    BY <1>1, <2>1, CallFields DEF ProxyRunning
<1>4. /\ g \in ProxyFrame /\ g.at = "deposit" /\ g.snap = f.snap
      /\ g.arg.call = c /\ g.arg.user = o /\ g.arg.i = i + 1
  BY <1>1 DEF ProxyFrame
<1>5. \A u \in Users : Given(f.arg, u) = IF u = o THEN Prefix(d, i - 1) ELSE 0
  BY DEF Given
<1> HIDE DEF g, i, o, c, f
<1>6. \A u \in Users : Given(g.arg, u) = IF u = o THEN Prefix(d, i) ELSE 0
  <2>1. Call[g.arg.call].deposits = d /\ g.arg.user = o /\ g.arg.i = i + 1
    BY <1>4 DEF d
  <2> HIDE DEF d
  <2>2. \A u \in Users :
          Given(g.arg, u) = IF u = g.arg.user
                              THEN Prefix(Call[g.arg.call].deposits, g.arg.i - 1) ELSE 0
    BY Zenon DEF Given
  <2>3. g.arg.i - 1 = i
    BY <1>3, <2>1
  <2> QED
    BY <2>1, <2>2, <2>3
<1> HIDE DEF d
<1> DEFINE x == d[i]
<1>7. /\ Len(d) \in Nat /\ i + 1 \in 1 .. Len(d) + 1 /\ i + 1 - 1 = i
      /\ x \in Nat /\ Prefix(d, i - 1) \in Nat
      /\ Prefix(d, i) = Prefix(d, i - 1) + x
  BY <1>2, <1>3, PrefixAt
<1>8. /\ x <= world.wallet[o] /\ frames' = [frames EXCEPT ![2] = g]
      /\ world' = [world EXCEPT !.wallet[o] = @ - x, !.bal = @ + x]
  BY <1>2
<1> HIDE DEF x
<1>9. /\ world.wallet \in [Users -> Nat] /\ world.wallet[o] - x \in Nat /\ world.bal + x \in Nat
      /\ \A u \in Users : world.wallet[u] \in Nat /\ world.spent[u] \in Nat
  <2>1. world.wallet \in [Users -> Nat] /\ world.bal \in Nat
        /\ \A u \in Users : world.wallet[u] \in Nat /\ world.spent[u] \in Nat
    BY <1>1, ProxyWorldFields
  <2>2. world.wallet[o] \in Nat
    BY <1>3, <2>1
  <2> QED
    BY <1>7, <1>8, <2>1, <2>2
<1>10. /\ world' \in Proxy!World /\ world'.locked = world.locked
       /\ world'.slot = world.slot /\ world'.spent = world.spent
       /\ \A u \in Users : world'.wallet[u] =
             IF u = o THEN world.wallet[u] - x ELSE world.wallet[u]
  BY <1>1, <1>3, <1>8, <1>9 DEF Proxy!World
<1>11. ASSUME NEW u \in Users
       PROVE  world'.wallet[u] + world'.spent[u] + Given(g.arg, u) = Wallet0[u]
  <2>1. world.wallet[u] + world.spent[u] + Given(f.arg, u) = Wallet0[u]
    BY <1>3
  <2>2. CASE u # o
    BY <1>5, <1>6, <1>10, <2>1, <2>2
  <2>3. CASE u = o
    <3>1. Given(f.arg, u) = Prefix(d, i - 1) /\ Given(g.arg, u) = Prefix(d, i)
      BY <1>5, <1>6, <1>7, <2>3
    <3>2. (world.wallet[u] - x) + world.spent[u] + Prefix(d, i)
            = world.wallet[u] + world.spent[u] + Prefix(d, i - 1)
      <4>1. /\ world.wallet[u] \in Nat /\ world.spent[u] \in Nat /\ x \in Nat
            /\ x <= world.wallet[u]
            /\ Prefix(d, i - 1) \in Nat /\ Prefix(d, i) = Prefix(d, i - 1) + x
        BY <1>7, <1>8, <1>9, <2>3
      <4>2. Prefix(d, i) \in Nat
        BY <4>1
      <4> QED
        BY <4>1, <4>2
    <3>3. world'.wallet[u] = world.wallet[u] - x /\ world'.spent[u] = world.spent[u]
      BY <1>10, <2>3
    <3> QED
      BY <2>1, <3>1, <3>2, <3>3
  <2> QED
    BY <2>2, <2>3
<1>12. ProxyRunning(world', g)
  BY <1>3, <1>4, <1>7, <1>10, <1>11 DEF ProxyRunning, SlotsZero, d
<1>13. <<world', g>> \in ProxyRun
  BY <1>4, <1>10, <1>12, ProxyRunDef
<1> QED
  BY <1>1, <1>4, <1>8, <1>13, NestedMove DEF ProxyIInv, f

\* The steps that move the frame on to `at` and change at most the slots.
LEMMA ProxyMoves ==
  ASSUME ProxyIInv, Len(frames) = 2, Top = frames[2], NEW at \in {"staged", "program"},
         frames[2].at # "batch", NEW v \in Proxy!World, Proxy!MoveTo(at, v),
         v.locked, v.wallet = world.wallet, v.spent = world.spent,
         frames[2].arg.i = Len(Call[frames[2].arg.call].deposits) + 1,
         at = "staged" => SlotsStaged(v, Call[frames[2].arg.call].params)
  PROVE  ProxyIInv'
<1> DEFINE f == frames[2]
           g == [f EXCEPT !.at = at]
<1>1. world' = v /\ frames' = [frames EXCEPT ![2] = g]
  BY DEF Proxy!MoveTo
<1>2. f \in ProxyFrame /\ ProxyRunning(world, f)
  <2>1. <<world, f>> \in ProxyRun
    BY DEF ProxyIInv, Nested
  <2> QED
    BY <2>1, ProxyRunDef
<1>3. g \in ProxyFrame /\ g.at = at /\ g.snap = f.snap /\ g.arg = f.arg
  BY <1>2 DEF ProxyFrame
<1> HIDE DEF g
<1>4. ProxyRunning(v, g)
  BY <1>2, <1>3 DEF ProxyRunning
<1>5. <<v, g>> \in ProxyRun
  BY <1>3, <1>4, ProxyRunDef
<1> QED
  BY <1>1, <1>3, <1>5, NestedMove DEF ProxyIInv

LEMMA ProxyStage ==
  ASSUME ProxyIInv, Proxy!StageParams
  PROVE  ProxyIInv'
<1> DEFINE f == frames[2]
           c == f.arg.call
           v == Proxy!ParamsStaged(world, Call[c].params)
<1>1. /\ ~Idle /\ Len(frames) = 2 /\ Top = f /\ f.at = "deposit"
      /\ world \in Proxy!World /\ f \in ProxyFrame /\ ProxyRunning(world, f)
      /\ f.arg \in [call : Calls, i : Nat, user : Users]
  BY ProxyAt DEF Proxy!StageParams
<1>2. Proxy!MoveTo("staged", v) /\ f.arg.i > Len(Call[c].deposits)
  BY <1>1, ProxyStack DEF Proxy!StageParams
<1>3. c \in Calls /\ Len(Call[c].deposits) \in Nat
      /\ Call[c].params \in Seq(Nat) /\ Len(Call[c].params) \in Nat
  BY <1>1, CallFields
<1>4. f.arg.i = Len(Call[c].deposits) + 1
  BY <1>1, <1>2, <1>3 DEF ProxyRunning
<1> DEFINE p == Call[c].params
           slot == [i \in Slots |-> IF i < Len(p) THEN p[i + 1] ELSE world.slot[i]]
<1>5. slot \in [Slots -> Nat]
  <2>1. \A i \in Slots : i \in Nat /\ world.slot[i] \in Nat
    BY <1>1, ProxyWorldFields, SlotsAssumption
  <2>2. p \in Seq(Nat) /\ Len(p) \in Nat
    BY <1>3
  <2> HIDE DEF p
  <2>3. \A i \in Nat : i < Len(p) => i + 1 \in 1 .. Len(p)
    BY <2>2
  <2>4. \A i \in Nat : i < Len(p) => p[i + 1] \in Nat
    BY <2>2, <2>3
  <2> QED
    BY <2>1, <2>4
<1>6. v = [world EXCEPT !.slot = slot]
  BY <1>1 DEF Proxy!ParamsStaged, Proxy!World
<1>7. \A i \in 0 .. MaxParams - 1 : slot[i] = (IF i < Len(p) THEN p[i + 1] ELSE 0)
  BY <1>1, ProxyAssumption DEF ProxyRunning, SlotsZero
<1> HIDE DEF slot, p
<1>8. /\ v \in Proxy!World /\ v.locked = world.locked /\ v.slot = slot
      /\ v.wallet = world.wallet /\ v.spent = world.spent
  BY <1>1, <1>5, <1>6 DEF Proxy!World
<1> HIDE DEF v
<1>9. SlotsStaged(v, p) /\ v.locked
  BY <1>1, <1>7, <1>8 DEF SlotsStaged, ProxyRunning
<1> QED
  BY <1>1, <1>2, <1>4, <1>8, <1>9, ProxyMoves DEF p

LEMMA ProxyStart ==
  ASSUME ProxyIInv, Proxy!StartProgram
  PROVE  ProxyIInv'
<1>1. /\ Len(frames) = 2 /\ Top = frames[2] /\ frames[2].at = "staged"
      /\ world \in Proxy!World /\ ProxyRunning(world, frames[2])
      /\ Proxy!MoveTo("program", world)
  BY ProxyAt DEF Proxy!StartProgram
<1> QED
  BY <1>1, ProxyMoves DEF ProxyRunning
\* The running call, or the code that pulls for it, changes neither wallets nor
\* the lock; the slots only once its program runs.
LEMMA ProxyStays ==
  ASSUME ProxyIInv, ~Idle, frames' = frames, world' \in Proxy!World,
         world'.locked = world.locked, world'.wallet = world.wallet,
         world'.spent = world.spent,
         world'.slot = world.slot \/ Top.at = "program"
  PROVE  ProxyIInv'
<1>1. CASE Top.at = "batch"
  <2>1. Len(frames) = 1 /\ world \in ProxyRest /\ world'.slot = world.slot
    BY <1>1, NestedTop DEF ProxyIInv
  <2>2. world' \in ProxyRest
    BY <2>1 DEF ProxyRest, SlotsZero
  <2>3. Len(frames) < 2
    BY <2>1
  <2> QED
    BY <2>2, <2>3, NestedRest DEF ProxyIInv
<1>2. CASE Top.at # "batch"
  <2>1. Len(frames) = 2 /\ Top = frames[2] /\ <<world, frames[2]>> \in ProxyRun
    BY <1>2, NestedTop DEF ProxyIInv
  <2>2. frames[2] \in ProxyFrame /\ ProxyRunning(world, frames[2])
    BY <2>1, ProxyRunDef
  <2>3. ProxyRunning(world', frames[2])
    BY <2>1, <2>2 DEF ProxyRunning, SlotsZero, SlotsStaged
  <2>4. <<world', frames[2]>> \in ProxyRun
    BY <2>2, <2>3, ProxyRunDef
  <2> QED
    BY <2>1, <2>4, NestedStay DEF ProxyIInv
<1> QED
  BY <1>1, <1>2

LEMMA ProxyHere ==
  ASSUME ProxyIInv, ~Idle
  PROVE  world \in Proxy!World
<1>1. world \in ProxyRest \/ <<world, Top>> \in ProxyRun
  BY NestedTop DEF ProxyIInv
<1> QED
  BY <1>1, ProxyRunDef DEF ProxyRest

LEMMA ProxyQuiet ==
  ASSUME ProxyIInv, \/ Proxy!ProgramTstoreAny
                    \/ Proxy!ProgramSpend
                    \/ Proxy!External /\ Proxy!PayPool(world.bal)
  PROVE  ProxyIInv'
<1>1. CASE Proxy!ProgramTstoreAny
  <2>1. /\ ~Idle /\ Top.at = "program" /\ frames' = frames
        /\ \E i \in Slots : world' = [world EXCEPT !.slot[i] = 1]
    BY <1>1, ProxyStack DEF Proxy!ProgramTstoreAny, Proxy!At
  <2>2. /\ world' \in Proxy!World
        /\ world'.locked = world.locked /\ world'.wallet = world.wallet
        /\ world'.spent = world.spent
    BY <2>1, ProxyHere DEF Proxy!World
  <2> QED
    BY <2>1, <2>2, ProxyStays
<1>2. CASE Proxy!ProgramSpend
  <2>1. /\ ~Idle /\ Top.at = "program" /\ frames' = frames
        /\ world' = [world EXCEPT !.bal = 0, !.out = @ + world.bal]
    BY <1>2, ProxyStack DEF Proxy!ProgramSpend, Proxy!At
  <2>2. world.out + world.bal \in Nat
    BY <2>1, ProxyHere, ProxyWorldFields
  <2>3. /\ world' \in Proxy!World
        /\ world'.locked = world.locked /\ world'.wallet = world.wallet
        /\ world'.spent = world.spent
    BY <2>1, <2>2, ProxyHere DEF Proxy!World
  <2> QED
    BY <2>1, <2>3, ProxyStays
<1>3. CASE Proxy!External /\ Proxy!PayPool(world.bal)
  <2>1. /\ ~Idle /\ frames' = frames
        /\ world' = [world EXCEPT !.bal = @ - world.bal, !.paid = @ + world.bal]
    BY <1>3, ProxyStack DEF Proxy!External, Proxy!PayPool
  <2>2. world.bal - world.bal \in Nat /\ world.paid + world.bal \in Nat
    BY <2>1, ProxyHere, ProxyWorldFields
  <2>3. /\ world' \in Proxy!World /\ world'.slot = world.slot
        /\ world'.locked = world.locked /\ world'.wallet = world.wallet
        /\ world'.spent = world.spent
    BY <2>1, <2>2, ProxyHere DEF Proxy!World
  <2> QED
    BY <2>1, <2>3, ProxyStays
<1> QED
  BY <1>1, <1>2, <1>3

LEMMA ProxyFinish ==
  ASSUME ProxyIInv, Proxy!FinishProgram
  PROVE  ProxyIInv'
<1> DEFINE f == frames[2]
           c == f.arg.call
           o == f.arg.user
           t == Proxy!Total(c)
           slot == [i \in Slots |-> IF i < MaxParams THEN 0 ELSE world.slot[i]]
           v == [world EXCEPT !.slot = slot, !.locked = FALSE, !.spent[o] = @ + t]
<1>1. /\ ~Idle /\ Len(frames) = 2 /\ Top = f /\ f.at = "program"
      /\ world \in Proxy!World /\ f \in ProxyFrame /\ ProxyRunning(world, f)
      /\ f.arg \in [call : Calls, i : Nat, user : Users]
  BY ProxyAt DEF Proxy!FinishProgram
<1>2. Leave(v)
  <2>1. Proxy!Leave([Proxy!ParamsCleared(world, Len(Call[c].params))
                       EXCEPT !.spent[o] = @ + t])
    BY <1>1, ProxyStack DEF Proxy!FinishProgram
  <2>2. [Proxy!ParamsCleared(world, Len(Call[c].params)) EXCEPT !.spent[o] = @ + t] = v
    BY <1>1 DEF Proxy!ParamsCleared, Proxy!World
  <2> QED
    BY <2>1, <2>2, ProxyStack
<1>3. c \in Calls /\ o \in Users /\ t \in Nat
      /\ t = Prefix(Call[c].deposits, Len(Call[c].deposits))
  BY <1>1, TotalIsPrefix
<1>4. \A u \in Users : Given(f.arg, u) = IF u = o THEN t ELSE 0
  <2>1. f.arg.i - 1 = Len(Call[c].deposits)
    <3>1. Len(Call[c].deposits) \in Nat /\ f.arg.i = Len(Call[c].deposits) + 1
      BY <1>1, <1>3, CallFields DEF ProxyRunning
    <3> QED
      BY <3>1
  <2>2. \A u \in Users :
          Given(f.arg, u) = IF u = o THEN Prefix(Call[c].deposits, f.arg.i - 1) ELSE 0
    BY Zenon DEF Given
  <2> QED
    BY <1>3, <2>1, <2>2
<1>5. slot \in [Slots -> Nat] /\ \A i \in 0 .. MaxParams - 1 : slot[i] = 0
  <2>1. world.slot \in [Slots -> Nat]
    BY <1>1, ProxyWorldFields
  <2>2. slot \in [Slots -> Nat]
    <3>1. \A i \in Slots : world.slot[i] \in Nat
      BY <2>1
    <3> QED
      BY <3>1
  <2>3. \A i \in 0 .. MaxParams - 1 : i \in Slots /\ i < MaxParams
    BY ProxyAssumption
  <2> QED
    BY <2>2, <2>3
<1> HIDE DEF slot, t, o, c
<1>6. world.spent \in [Users -> Nat] /\ world.wallet \in [Users -> Nat]
      /\ world.spent[o] + t \in Nat
  <2>1. world.spent \in [Users -> Nat] /\ world.wallet \in [Users -> Nat]
    BY <1>1, ProxyWorldFields
  <2>2. world.spent[o] \in Nat
    BY <1>3, <2>1
  <2> QED
    BY <1>3, <2>1, <2>2
<1>7. /\ v \in Proxy!World /\ ~v.locked /\ v.slot = slot /\ v.wallet = world.wallet
      /\ \A u \in Users : v.spent[u] = IF u = o THEN world.spent[u] + t ELSE world.spent[u]
  BY <1>1, <1>3, <1>5, <1>6 DEF Proxy!World
<1> HIDE DEF v
<1>8. ASSUME NEW u \in Users PROVE v.wallet[u] + v.spent[u] = Wallet0[u]
  <2>1. world.wallet[u] + world.spent[u] + Given(f.arg, u) = Wallet0[u]
    BY <1>1 DEF ProxyRunning
  <2>2. world.wallet[u] \in Nat /\ world.spent[u] \in Nat
    BY <1>6
  <2>3. CASE u = o
    <3>1. Given(f.arg, u) = t /\ v.spent[u] = world.spent[u] + t /\ v.wallet = world.wallet
      BY <1>4, <1>7, <2>3
    <3>2. world.wallet[u] + (world.spent[u] + t) = world.wallet[u] + world.spent[u] + t
      BY <1>3, <2>2
    <3> QED
      BY <2>1, <3>1, <3>2
  <2>4. CASE u # o
    BY <1>4, <1>7, <2>1, <2>2, <2>4
  <2> QED
    BY <2>3, <2>4
<1>9. v \in ProxyRest
  BY <1>5, <1>7, <1>8 DEF ProxyRest, SlotsZero
<1> QED
  BY <1>1, <1>2, <1>9, NestedLeave DEF ProxyIInv

LEMMA ProxyTransactions ==
  ASSUME ProxyIInv, \/ \E u \in Users : Proxy!BeginTx(u)
                    \/ Proxy!EndTx \/ Proxy!Revert
  PROVE  ProxyIInv'
<1>1. ASSUME NEW u \in Users, BeginTx(u) PROVE ProxyIInv'
  <2>0. Len(frames) < 2
    BY <1>1 DEF BeginTx, Idle
  <2>1. world \in Proxy!World
    BY <2>0 DEF ProxyIInv, ProxyRest, Nested
  <2>2. Frame("batch", u) \in ProxyFrame
    BY <2>1 DEF Frame, ProxyFrame
  <2> QED
    BY <1>1, <2>2, NestedBegin DEF ProxyIInv
<1>2. CASE Len(frames) = 1 /\ Leave(Discarded(world))
  <2>1. ~Idle /\ world \in ProxyRest
    BY <1>2, NestedTop DEF ProxyIInv, Nested
  <2>2. Discarded(world) \in ProxyRest
    BY <2>1, ProxyAssumption
       DEF ProxyRest, Discarded, CleanSlots, Proxy!World, SlotsZero
  <2> QED
    BY <1>2, <2>1, <2>2, NestedLeave DEF ProxyIInv
<1>3. CASE Revert
  BY <1>3, NestedRevert DEF ProxyIInv
<1> QED
  BY <1>1, <1>2, <1>3, ProxyStack

LEMMA ProxyInductive ==
  /\ Proxy!Init => ProxyIInv
  /\ ProxyIInv /\ Proxy!Next => ProxyIInv'
  /\ ProxyIInv /\ UNCHANGED vars => ProxyIInv'
<1>1. ASSUME Proxy!Init PROVE ProxyIInv
  <2>1. world \in ProxyRest
    <3>1. world \in Proxy!World
      BY <1>1, ProxyAssumption DEF Proxy!Init, Proxy!World, Proxy!CleanSlots
    <3>2. SlotsZero(world) /\ ~world.locked
      BY <1>1, ProxyAssumption DEF Proxy!Init, Proxy!CleanSlots, SlotsZero
    <3>3. \A u \in Users : world.wallet[u] + world.spent[u] = Wallet0[u]
      BY <1>1, ProxyAssumption DEF Proxy!Init
    <3> QED
      BY <3>1, <3>2, <3>3 DEF ProxyRest
  <2>2. frames = << >> /\ Len(frames) = 0 /\ frames \in Seq(ProxyFrame)
    BY <1>1 DEF Proxy!Init
  <2> QED
    BY <2>1, <2>2 DEF ProxyIInv, Nested
<1>2. ASSUME ProxyIInv, Proxy!Next PROVE ProxyIInv'
  BY <1>2, ProxyTransactions, ProxyExecute, ProxyPull, ProxyStage, ProxyStart, ProxyQuiet,
     ProxyFinish DEF Proxy!Next
<1>3. ProxyIInv /\ UNCHANGED vars => ProxyIInv'
  BY DEF ProxyIInv, Nested, vars
<1> QED
  BY <1>1, <1>2, <1>3

\* What follows: a program starts on its own parameters and zeros, and between
\* transactions a user has paid for complete runs only.
LEMMA ProxyResults ==
  ASSUME ProxyIInv
  PROVE  Proxy!NoStaleParams /\ Proxy!DepositsOnlyForRuns
<1>1. Proxy!NoStaleParams
  <2> SUFFICES ASSUME Proxy!At("staged")
               PROVE  SlotsStaged(world, Call[Proxy!Top.arg.call].params)
    BY DEF Proxy!NoStaleParams, SlotsStaged
  <2> QED
    BY ProxyAt, ProxyStack DEF ProxyRunning
<1>2. Proxy!DepositsOnlyForRuns
  <2> SUFFICES ASSUME Idle
               PROVE  \A u \in Users : world.wallet[u] + world.spent[u] = Wallet0[u]
    BY ProxyStack DEF Proxy!DepositsOnlyForRuns
  <2>1. Len(frames) < 2
    BY NestedTop DEF ProxyIInv
  <2> QED
    BY <2>1 DEF ProxyIInv, Nested, ProxyRest
<1> QED
  BY <1>1, <1>2

-----------------------------------------------------------------------------
(* EurekaComposer.  Between calls a follow-up is registered for exactly the *)
(* packets under way that were sent with one, and the composer's tokens are *)
(* the refunds of the failed packets; while a call runs, the one packet it  *)
(* works on is between two of these states.                                 *)

LEMMA EurekaStack ==
  /\ Eureka!Idle <=> Idle
  /\ Eureka!Top = Top
  /\ Eureka!Revert <=> Revert
  /\ Eureka!EndTx <=> Len(frames) = 1 /\ Leave(Discarded(world))
  /\ \A s : Eureka!BeginTx(s) <=> BeginTx(s)
  /\ \A w : Eureka!Leave(w) <=> Leave(w)
  /\ \A at, arg, w : Eureka!Enter(at, arg, w) <=> Enter(at, arg, w)
BY DEF Eureka!Idle, Idle, Eureka!Top, Top, Eureka!Revert, Revert, Eureka!EndTx,
       Eureka!Discarded, Discarded, Eureka!CleanSlots, CleanSlots, Eureka!BeginTx, BeginTx,
       Eureka!Leave, Leave, Eureka!Callers, Callers, Eureka!Enter, Enter, Eureka!Frame, Frame

Seqs == 1 .. MaxSeq
Failures == {"error", "timeout"}

EurekaFrame ==
  [at : {"batch"}, arg : {NoSend}, snap : Eureka!World]
    \union [at : {"pull", "submit", "sent", "program"},
            arg : [send : Sends, seq : Seqs \union {0}], snap : Eureka!World]

LEMMA EurekaDefs ==
  /\ Eureka!Seqs = Seqs /\ Eureka!Outcomes = Failures \union {"success"}
  /\ IsFiniteSet(Seqs) /\ 0 \notin Seqs /\ Seqs \subseteq Nat
  /\ \A s \in Sends : Send[s].amount \in Nat /\ s # NoSend
BY EurekaAssumption, FS_Interval DEF Eureka!Seqs, Seqs, Eureka!Outcomes, Failures

LEMMA EurekaWorldFields ==
  ASSUME NEW w \in Eureka!World
  PROVE  /\ w.locked \in BOOLEAN /\ w.slot \in [Slots -> Nat]
         /\ w.programs \in [Seqs -> Sends \union {NoSend}]
         /\ w.packet \in [Seqs -> {"none", "pending"} \union Eureka!Outcomes]
         /\ w.bal \in Nat /\ w.paid \in Nat /\ w.escrow \in Nat
         /\ w.origin \in [Seqs -> Sends \union {NoSend}]
         /\ w.read \in [Seqs -> SUBSET (Nat \X Nat)] /\ w.runs \in [Seqs -> Nat]
BY EurekaDefs DEF Eureka!World

\* The sums of the model are those of Sums_proofs.
LEMMA EurekaSum ==
  ASSUME NEW f, NEW S
  PROVE  Eureka!SumFunctionOnSet(f, S) = SumFunctionOnSet(f, S)
BY DEF Eureka!SumFunctionOnSet, SumFunctionOnSet, Eureka!FoldFunctionOnSet, FoldFunctionOnSet,
       Eureka!MapThenFoldSet, MapThenFoldSet

Owed(w) == SumFunctionOnSet(Eureka!Amounts(w), Eureka!Ended(w, Failures))
UnderWay(w) == SumFunctionOnSet(Eureka!Amounts(w), Eureka!Ended(w, {"pending"}))

\* The follow-up of packet q is registered while it is under way, has run when
\* it has ended, and acted on how it ended.
Registered(w, q) ==
  w.programs[q] = (IF w.packet[q] = "pending" THEN w.origin[q] ELSE NoSend)
RanOnce(w, q) ==
  w.runs[q] = (IF w.origin[q] # NoSend /\ w.packet[q] \in Eureka!Outcomes THEN 1 ELSE 0)
ReadOwn(w, q) ==
  /\ w.read[q] \subseteq {Eureka!CallbackParams(q, w.packet[q])}
  /\ w.packet[q] \notin Eureka!Outcomes => w.read[q] = {}

\* All of it but for the packet `but`.
InStep(w, but) ==
  \A q \in Seqs : /\ ReadOwn(w, q)
                  /\ q # but => Registered(w, q) /\ RanOnce(w, q)

EurekaRest ==
  {w \in Eureka!World :
     /\ ~w.locked /\ w.slot[0] = 0 /\ w.slot[1] = 0
     /\ InStep(w, 0)
     /\ w.bal + w.paid = Owed(w) /\ w.escrow = UnderWay(w)}

EurekaRunning(w, f) ==
  LET s == f.arg.send
      q == f.arg.seq
  IN /\ w.locked /\ f.at # "batch"
     /\ w.escrow = UnderWay(w)
     /\ w.bal + w.paid = Owed(w) + (IF f.at = "submit" THEN Send[s].amount ELSE 0)
     /\ f.at # "program" => w.slot[0] = 0 /\ w.slot[1] = 0
     /\ f.at \in {"pull", "submit"} => InStep(w, 0)
     /\ f.at = "pull" => w.bal <= f.snap.bal
     /\ f.at \in {"sent", "program"} =>
          /\ q \in Seqs /\ InStep(w, q)
          /\ w.programs[q] = NoSend /\ w.runs[q] = 0
     /\ f.at = "sent" => w.packet[q] = "pending" /\ w.origin[q] = s
     /\ f.at = "program" =>
          /\ w.packet[q] \in Eureka!Outcomes /\ w.origin[q] # NoSend
          /\ <<w.slot[0], w.slot[1]>> = Eureka!CallbackParams(q, w.packet[q])

EurekaRun == {p \in Eureka!World \X EurekaFrame : EurekaRunning(p[1], p[2])}

EurekaIInv == Nested(EurekaFrame, EurekaRest, EurekaRun)

LEMMA EurekaRunDef ==
  ASSUME NEW w, NEW f
  PROVE  <<w, f>> \in EurekaRun
           <=> w \in Eureka!World /\ f \in EurekaFrame /\ EurekaRunning(w, f)
BY DEF EurekaRun

LEMMA EurekaFrameFields ==
  ASSUME NEW f \in EurekaFrame
  PROVE  /\ f.snap \in Eureka!World
         /\ \/ f.at = "batch"
            \/ /\ f.at \in {"pull", "submit", "sent", "program"}
               /\ f.arg \in [send : Sends, seq : Seqs \union {0}]
               /\ f.arg.send \in Sends /\ f.arg.seq \in Seqs \union {0}
BY DEF EurekaFrame

\* Where a step of Eureka finds itself.
LEMMA EurekaAt ==
  ASSUME EurekaIInv, NEW step, Eureka!At(step), step # "batch"
  PROVE  /\ ~Idle /\ Len(frames) = 2 /\ Top = frames[2] /\ frames[2].at = step
         /\ world \in Eureka!World /\ frames[2] \in EurekaFrame
         /\ EurekaRunning(world, frames[2])
         /\ frames[2].arg \in [send : Sends, seq : Seqs \union {0}]
         /\ frames[2].snap \in EurekaRest
<1>1. ~Idle /\ Top.at = step
  BY EurekaStack DEF Eureka!At
<1>2. Len(frames) = 2 /\ Top = frames[2] /\ <<world, frames[2]>> \in EurekaRun
      /\ Top.snap \in EurekaRest
  BY <1>1, NestedTop DEF EurekaIInv
<1>3. world \in Eureka!World /\ frames[2] \in EurekaFrame /\ EurekaRunning(world, frames[2])
  BY <1>2, EurekaRunDef
<1>4. frames[2].at # "batch"
  BY <1>1, <1>2
<1> QED
  BY <1>1, <1>2, <1>3, <1>4, EurekaFrameFields

\* An entry point that the lock lets in was called by the transaction itself.
LEMMA EurekaOutside ==
  ASSUME EurekaIInv, ~Idle, ~world.locked
  PROVE  Len(frames) = 1 /\ world \in EurekaRest /\ world \in Eureka!World
<1>1. ASSUME Top.at # "batch" PROVE FALSE
  <2>1. <<world, Top>> \in EurekaRun
    BY <1>1, NestedTop DEF EurekaIInv
  <2> QED
    BY <2>1, EurekaRunDef DEF EurekaRunning
<1> QED
  BY <1>1, NestedTop DEF EurekaIInv, EurekaRest

\* The call moves its frame on.
LEMMA EurekaMoves ==
  ASSUME EurekaIInv, Len(frames) = 2, NEW g \in EurekaFrame,
         frames' = [frames EXCEPT ![2] = g], g.at # "batch", g.snap = frames[2].snap,
         NEW v \in Eureka!World, world' = v, EurekaRunning(v, g)
  PROVE  EurekaIInv'
<1>1. <<v, g>> \in EurekaRun
  BY EurekaRunDef
<1> QED
  BY <1>1, NestedMove DEF EurekaIInv

-----------------------------------------------------------------------------
(* The sums, as packets are sent and settled. *)

LEMMA EurekaAmounts ==
  ASSUME NEW w \in Eureka!World
  PROVE  /\ Eureka!Amounts(w) \in [Seqs -> Nat] /\ Eureka!Amounts(w) \in [Seqs -> Int]
         /\ \A q \in Seqs : Eureka!Amounts(w)[q] =
                              IF w.origin[q] = NoSend THEN 0 ELSE Send[w.origin[q]].amount
         /\ \A X : /\ Eureka!Ended(w, X) \in SUBSET Seqs /\ IsFiniteSet(Eureka!Ended(w, X))
                   /\ \A q \in Seqs : q \in Eureka!Ended(w, X) <=> w.packet[q] \in X
         /\ Owed(w) \in Nat /\ UnderWay(w) \in Nat
<1>1. \A q \in Seqs : w.origin[q] \in Sends \union {NoSend}
  BY EurekaWorldFields
<1>2. /\ Eureka!Amounts(w) \in [Seqs -> Nat] /\ Eureka!Amounts(w) \in [Seqs -> Int]
      /\ \A q \in Seqs : Eureka!Amounts(w)[q] =
                           IF w.origin[q] = NoSend THEN 0 ELSE Send[w.origin[q]].amount
  BY <1>1, EurekaDefs DEF Eureka!Amounts
<1>3. ASSUME NEW X
      PROVE  /\ Eureka!Ended(w, X) \in SUBSET Seqs
             /\ \A q \in Seqs : q \in Eureka!Ended(w, X) <=> w.packet[q] \in X
  BY EurekaDefs DEF Eureka!Ended
<1>4. \A X : IsFiniteSet(Eureka!Ended(w, X))
  BY <1>3, EurekaDefs, FS_Subset
<1>5. Owed(w) \in Nat /\ UnderWay(w) \in Nat
  BY <1>2, <1>3, <1>4, SumNat DEF Owed, UnderWay
<1> QED
  BY <1>2, <1>3, <1>4, <1>5

LEMMA SumsSame ==
  ASSUME NEW w, NEW v, v.origin = w.origin, v.packet = w.packet
  PROVE  Owed(v) = Owed(w) /\ UnderWay(v) = UnderWay(w)
BY DEF Owed, UnderWay, Eureka!Amounts, Eureka!Ended

LEMMA SumsSubmit ==
  ASSUME NEW w \in Eureka!World, NEW v \in Eureka!World, NEW q \in Seqs,
         w.packet[q] = "none", v.packet = [w.packet EXCEPT ![q] = "pending"],
         \A r \in Seqs \ {q} : v.origin[r] = w.origin[r]
  PROVE  Owed(v) = Owed(w) /\ UnderWay(v) = UnderWay(w) + Eureka!Amounts(v)[q]
<1> DEFINE A == Eureka!Amounts(w)
           B == Eureka!Amounts(v)
           F == Eureka!Ended(w, Failures)
           P == Eureka!Ended(w, {"pending"})
<1>1. /\ A \in [Seqs -> Nat] /\ B \in [Seqs -> Int] /\ B[q] \in Nat
      /\ F \in SUBSET Seqs /\ IsFiniteSet(F) /\ P \in SUBSET Seqs /\ IsFiniteSet(P)
      /\ UnderWay(w) \in Nat
  BY EurekaAmounts
<1>2. \A r \in Seqs \ {q} : A[r] = B[r]
  BY EurekaAmounts
<1>3. \A r \in Seqs : v.packet[r] = IF r = q THEN "pending" ELSE w.packet[r]
  BY EurekaWorldFields
<1>4. q \notin F /\ q \notin P
  BY EurekaAmounts DEF Failures
<1>5. Eureka!Ended(v, Failures) = F
  <2>1. \A r \in Seqs : v.packet[r] \in Failures <=> w.packet[r] \in Failures
    BY <1>3 DEF Failures
  <2> QED
    BY <2>1, EurekaDefs DEF Eureka!Ended
<1>6. Eureka!Ended(v, {"pending"}) = P \union {q}
  BY <1>3, EurekaDefs DEF Eureka!Ended
<1> HIDE DEF A, B, F, P
<1>7. SumFunctionOnSet(B, F) = SumFunctionOnSet(A, F)
      /\ SumFunctionOnSet(B, P) = SumFunctionOnSet(A, P)
  <2>1. \A r \in F : B[r] = A[r]
    BY <1>1, <1>2, <1>4
  <2>2. \A r \in P : B[r] = A[r]
    BY <1>1, <1>2, <1>4
  <2> QED
    BY <1>1, <2>1, <2>2, SumSame
<1>8. SumFunctionOnSet(B, P \union {q}) = B[q] + SumFunctionOnSet(B, P)
  BY <1>1, <1>4, SumAdd
<1>9. Owed(v) = SumFunctionOnSet(B, F) /\ Owed(w) = SumFunctionOnSet(A, F)
      /\ UnderWay(v) = SumFunctionOnSet(B, P \union {q}) /\ UnderWay(w) = SumFunctionOnSet(A, P)
  BY <1>5, <1>6 DEF Owed, UnderWay, A, B, F, P
<1>10. UnderWay(v) = B[q] + UnderWay(w)
  BY <1>7, <1>8, <1>9
<1>11. UnderWay(v) = UnderWay(w) + B[q]
  BY <1>1, <1>10
<1> QED
  BY <1>7, <1>9, <1>11 DEF B

LEMMA SumsSettle ==
  ASSUME NEW w \in Eureka!World, NEW v \in Eureka!World, NEW q \in Seqs,
         NEW outcome \in Eureka!Outcomes,
         w.packet[q] = "pending", v.packet = [w.packet EXCEPT ![q] = outcome],
         v.origin = w.origin
  PROVE  /\ UnderWay(w) = UnderWay(v) + Eureka!Amounts(w)[q]
         /\ Owed(v) = Owed(w) + (IF outcome = "success" THEN 0 ELSE Eureka!Amounts(w)[q])
<1> DEFINE A == Eureka!Amounts(w)
           F == Eureka!Ended(w, Failures)
           P == Eureka!Ended(w, {"pending"})
<1>1. /\ A \in [Seqs -> Int] /\ A[q] \in Nat
      /\ F \in SUBSET Seqs /\ IsFiniteSet(F) /\ P \in SUBSET Seqs /\ IsFiniteSet(P)
      /\ Owed(w) \in Nat /\ UnderWay(v) \in Nat
  BY EurekaAmounts
<1>2. Eureka!Amounts(v) = A
  BY DEF Eureka!Amounts
<1>3. \A r \in Seqs : v.packet[r] = IF r = q THEN outcome ELSE w.packet[r]
  BY EurekaWorldFields
<1>4. q \notin F /\ q \in P
  BY EurekaAmounts DEF Failures
<1>5. Eureka!Ended(v, {"pending"}) = P \ {q}
  <2>1. outcome # "pending"
    BY EurekaDefs DEF Failures
  <2> QED
    BY <1>3, <2>1, EurekaDefs DEF Eureka!Ended
<1>6. Eureka!Ended(v, Failures) = IF outcome = "success" THEN F ELSE F \union {q}
  <2>1. outcome \in Failures <=> outcome # "success"
    BY EurekaDefs DEF Failures
  <2>2. \A r \in Seqs : v.packet[r] \in Failures
                          <=> w.packet[r] \in Failures \/ (r = q /\ outcome # "success")
    BY <1>3, <2>1 DEF Failures
  <2> QED
    BY <2>2, EurekaDefs DEF Eureka!Ended
<1>7. /\ UnderWay(w) = SumFunctionOnSet(A, P) /\ UnderWay(v) = SumFunctionOnSet(A, P \ {q})
      /\ Owed(w) = SumFunctionOnSet(A, F)
      /\ Owed(v) = SumFunctionOnSet(A, IF outcome = "success" THEN F ELSE F \union {q})
  BY <1>2, <1>5, <1>6 DEF Owed, UnderWay
<1> HIDE DEF A, F, P
<1>8. SumFunctionOnSet(A, P) = A[q] + SumFunctionOnSet(A, P \ {q})
  BY <1>1, <1>4, SumRemove
<1>9. SumFunctionOnSet(A, F \union {q}) = A[q] + SumFunctionOnSet(A, F)
  BY <1>1, <1>4, SumAdd
<1>10. UnderWay(w) = UnderWay(v) + A[q]
  <2>1. UnderWay(w) = A[q] + UnderWay(v)
    BY <1>7, <1>8
  <2> QED
    BY <1>1, <2>1
<1>11. Owed(v) = Owed(w) + (IF outcome = "success" THEN 0 ELSE A[q])
  <2>1. Owed(v) = IF outcome = "success" THEN Owed(w) ELSE A[q] + Owed(w)
    BY <1>7, <1>9
  <2> QED
    BY <1>1, <2>1
<1> QED
  BY <1>10, <1>11 DEF A

-----------------------------------------------------------------------------
(* The steps of EurekaComposer. *)

LEMMA EurekaSends ==
  ASSUME EurekaIInv, NEW s \in Sends, Eureka!SendTransferAndCompose(s)
  PROVE  EurekaIInv'
<1> DEFINE arg == [send |-> s, seq |-> 0]
           v == [world EXCEPT !.locked = TRUE]
           f == Frame("pull", arg)
<1>1. ~Idle /\ ~world.locked /\ Enter("pull", arg, v)
  BY EurekaStack DEF Eureka!SendTransferAndCompose, Eureka!External, Eureka!NonReentrant
<1>2. Len(frames) = 1 /\ world \in EurekaRest /\ world \in Eureka!World
  BY <1>1, EurekaOutside
<1>3. v \in Eureka!World /\ f \in EurekaFrame
  BY <1>2 DEF Eureka!World, Frame, EurekaFrame
<1>4. /\ v.locked /\ v.slot = world.slot /\ v.programs = world.programs
      /\ v.packet = world.packet /\ v.bal = world.bal /\ v.paid = world.paid
      /\ v.escrow = world.escrow /\ v.origin = world.origin /\ v.read = world.read
      /\ v.runs = world.runs
  BY <1>2 DEF Eureka!World
<1>5. f.at = "pull" /\ f.snap = world /\ f.arg = arg
  BY DEF Frame
<1> HIDE DEF v, f
<1>6. Owed(v) = Owed(world) /\ UnderWay(v) = UnderWay(world)
  BY <1>4, SumsSame
<1>7. InStep(v, 0)
  BY <1>2, <1>4 DEF EurekaRest, InStep, Registered, RanOnce, ReadOwn
<1>8. EurekaRunning(v, f)
  <2>1. world.bal + world.paid + 0 = world.bal + world.paid
        /\ Owed(world) + 0 = Owed(world) /\ world.bal <= world.bal
    BY <1>2, EurekaWorldFields, EurekaAmounts
  <2> QED
    BY <1>2, <1>4, <1>5, <1>6, <1>7, <2>1 DEF EurekaRest, EurekaRunning
<1>9. <<v, f>> \in EurekaRun
  BY <1>3, <1>8, EurekaRunDef
<1>10. Nested(EurekaFrame, EurekaRest, EurekaRun)
  BY DEF EurekaIInv
<1>11. Nested(EurekaFrame, EurekaRest, EurekaRun)'
  BY <1>1, <1>2, <1>3, <1>9, <1>10, NestedEnter DEF f
<1> QED
  BY <1>11 DEF EurekaIInv

\* Nothing a callback paid out meanwhile can stand in for a token's fee.
LEMMA InFull ==
  ASSUME NEW bal \in Nat, NEW before \in Nat, NEW amount \in Nat, NEW d \in Nat,
         d = amount \/ d = amount - 1, bal <= before,
         (IF bal + d < before THEN 0 ELSE (bal + d) - before) = amount
  PROVE  d = amount /\ bal + d = bal + amount /\ bal + d \in Nat
OBVIOUS

LEMMA EurekaPulls ==
  ASSUME EurekaIInv, Eureka!PullTokens
  PROVE  EurekaIInv'
<1> DEFINE f == frames[2]
           s == f.arg.send
           a == Send[s].amount
           d == Eureka!Delivered(s)
           g == [f EXCEPT !.at = "submit"]
           v == [world EXCEPT !.bal = world.bal + d]
<1>1. /\ ~Idle /\ Len(frames) = 2 /\ Top = f /\ f.at = "pull"
      /\ world \in Eureka!World /\ f \in EurekaFrame /\ EurekaRunning(world, f)
      /\ f.arg \in [send : Sends, seq : Seqs \union {0}] /\ f.snap \in EurekaRest
  BY EurekaAt DEF Eureka!PullTokens
<1>2. /\ (IF world.bal + d < f.snap.bal THEN 0 ELSE (world.bal + d) - f.snap.bal) = a
      /\ world' = v /\ frames' = [frames EXCEPT ![2] = g]
  BY <1>1, EurekaStack DEF Eureka!PullTokens, Eureka!ReceivedInFull, Eureka!MoveTo
<1>3. a \in Nat /\ d \in Nat /\ (d = a \/ d = a - 1)
  BY <1>1, EurekaDefs DEF Eureka!Delivered
<1>4. world.bal \in Nat /\ f.snap.bal \in Nat /\ world.bal <= f.snap.bal /\ world.paid \in Nat
  BY <1>1, EurekaWorldFields DEF EurekaRunning, EurekaRest
<1>5. world.bal + d = world.bal + a /\ world.bal + d \in Nat
  <2> HIDE DEF f, s, a, d
  <2> QED
    BY <1>2, <1>3, <1>4, InFull
<1>6. /\ v \in Eureka!World /\ v.bal = world.bal + a
      /\ v.locked = world.locked /\ v.slot = world.slot /\ v.programs = world.programs
      /\ v.packet = world.packet /\ v.paid = world.paid
      /\ v.escrow = world.escrow /\ v.origin = world.origin /\ v.read = world.read
      /\ v.runs = world.runs
  BY <1>1, <1>5 DEF Eureka!World
<1>7. g \in EurekaFrame /\ g.at = "submit" /\ g.snap = f.snap /\ g.arg = f.arg
  BY <1>1 DEF EurekaFrame
<1> HIDE DEF v, g
<1>8. Owed(v) = Owed(world) /\ UnderWay(v) = UnderWay(world)
  BY <1>6, SumsSame
<1>9. InStep(v, 0)
  BY <1>1, <1>6 DEF EurekaRunning, InStep, Registered, RanOnce, ReadOwn
<1>10. v.bal + v.paid = Owed(v) + a
  <2>1. world.bal + world.paid = Owed(world) /\ Owed(world) \in Nat
    BY <1>1, EurekaAmounts DEF EurekaRunning
  <2> DEFINE o == Owed(world)
  <2> HIDE DEF o, a
  <2>2. (world.bal + a) + world.paid = o + a
    BY <1>3, <1>4, <2>1 DEF o
  <2> QED
    BY <1>6, <1>8, <2>2 DEF o
<1>11. EurekaRunning(v, g)
  BY <1>1, <1>6, <1>7, <1>8, <1>9, <1>10 DEF EurekaRunning
<1> QED
  BY <1>1, <1>2, <1>6, <1>7, <1>11, EurekaMoves DEF f

\* A fresh packet that q becomes leaves every other packet as it was.
Submits(v, q, a, s) ==
  /\ v \in Eureka!World
  /\ v.bal = world.bal - a /\ v.paid = world.paid
  /\ v.locked = world.locked /\ v.slot = world.slot
  /\ v.programs = world.programs /\ v.read = world.read /\ v.runs = world.runs
  /\ v.packet = [world.packet EXCEPT ![q] = "pending"]
  /\ v.origin[q] = s
  /\ \A r \in Seqs \ {q} : /\ v.origin[r] = world.origin[r]
                           /\ v.packet[r] = world.packet[r]
  /\ Owed(v) = Owed(world) /\ v.escrow = world.escrow + a
  /\ UnderWay(v) = UnderWay(world) + a
  /\ Eureka!Amounts(v)[q] = a

LEMMA SubmittedIs ==
  ASSUME world \in Eureka!World, NEW q \in Seqs, world.packet[q] = "none",
         NEW s \in Sends \union {NoSend}, NEW a \in Nat, a <= world.bal,
         a = (IF s = NoSend THEN 0 ELSE Send[s].amount),
         NEW v, v = Eureka!Submitted(q, a, s)
  PROVE  Submits(v, q, a, s)
<1>1. world.bal - a \in Nat /\ world.escrow + a \in Nat
  BY EurekaWorldFields
<1>2. /\ world.packet \in [Seqs -> {"none", "pending"} \union Eureka!Outcomes]
      /\ world.origin \in [Seqs -> Sends \union {NoSend}]
  BY EurekaWorldFields
<1>3. /\ v \in Eureka!World
      /\ v.bal = world.bal - a /\ v.paid = world.paid /\ v.locked = world.locked /\ v.slot = world.slot
      /\ v.programs = world.programs /\ v.read = world.read /\ v.runs = world.runs
      /\ v.packet = [world.packet EXCEPT ![q] = "pending"]
      /\ v.origin = [world.origin EXCEPT ![q] = s] /\ v.escrow = world.escrow + a
  <2> DEFINE packet == [world.packet EXCEPT ![q] = "pending"]
             origin == [world.origin EXCEPT ![q] = s]
             bal    == world.bal - a
             escrow == world.escrow + a
  <2>1. packet \in [Seqs -> {"none", "pending"} \union Eureka!Outcomes]
    BY <1>2
  <2>2. origin \in [Seqs -> Sends \union {NoSend}]
    BY <1>2
  <2>3. bal \in Nat /\ escrow \in Nat
    BY <1>1
  <2>4. v = [world EXCEPT !.packet = packet, !.origin = origin,
                          !.bal = bal, !.escrow = escrow]
    BY DEF Eureka!Submitted, Eureka!World
  <2> HIDE DEF packet, origin, bal, escrow
  <2>5. /\ v.packet = packet /\ v.origin = origin /\ v.bal = bal /\ v.escrow = escrow
        /\ v.paid = world.paid /\ v.locked = world.locked
        /\ v.slot = world.slot /\ v.programs = world.programs /\ v.read = world.read
        /\ v.runs = world.runs
    BY <2>4 DEF Eureka!World
  <2>6. v \in Eureka!World
    <3>1. v = [locked |-> world.locked, slot |-> world.slot, programs |-> world.programs,
               packet |-> packet, bal |-> bal, paid |-> world.paid, escrow |-> escrow,
               origin |-> origin, read |-> world.read, runs |-> world.runs]
      BY <2>4 DEF Eureka!World
    <3>2. /\ world.locked \in BOOLEAN /\ world.slot \in [Slots -> Nat]
          /\ world.programs \in [Seqs -> Sends \union {NoSend}] /\ world.paid \in Nat
          /\ world.read \in [Seqs -> SUBSET (Nat \X Nat)] /\ world.runs \in [Seqs -> Nat]
      BY EurekaWorldFields
    <3> QED
      BY <2>1, <2>2, <2>3, <3>1, <3>2, EurekaDefs DEF Eureka!World
  <2> QED
    BY <2>5, <2>6 DEF packet, origin, bal, escrow
<1>4. /\ v.origin[q] = s
      /\ \A r \in Seqs \ {q} : v.origin[r] = world.origin[r] /\ v.packet[r] = world.packet[r]
  BY <1>2, <1>3
<1>5. Eureka!Amounts(v)[q] = a
  <2>1. v \in Eureka!World
    BY <1>3
  <2>2. Eureka!Amounts(v)[q] = IF v.origin[q] = NoSend THEN 0 ELSE Send[v.origin[q]].amount
    BY <2>1, EurekaAmounts, Zenon
  <2> QED
    BY <1>4, <2>2
<1>6. Owed(v) = Owed(world) /\ UnderWay(v) = UnderWay(world) + a
  <2>1. Owed(v) = Owed(world) /\ UnderWay(v) = UnderWay(world) + Eureka!Amounts(v)[q]
    <3>1. v \in Eureka!World /\ v.packet = [world.packet EXCEPT ![q] = "pending"]
      BY <1>3
    <3>2. \A r \in Seqs \ {q} : v.origin[r] = world.origin[r]
      BY <1>4
    <3> QED
      BY <3>1, <3>2, SumsSubmit, Zenon
  <2> QED
    BY <1>5, <2>1, Zenon
<1> QED
  BY <1>3, <1>4, <1>5, <1>6 DEF Submits

\* Of a packet under way nothing has been read, and nothing ran for it.
LEMMA SubmittedInStep ==
  ASSUME NEW w \in Eureka!World, NEW v \in Eureka!World, NEW q \in Seqs, NEW but,
         InStep(w, but), w.packet[q] = "none", v.packet[q] = "pending",
         v.programs = w.programs, v.read = w.read, v.runs = w.runs,
         \A r \in Seqs \ {q} : v.origin[r] = w.origin[r] /\ v.packet[r] = w.packet[r]
  PROVE  /\ \A r \in Seqs \ {q} : /\ ReadOwn(v, r)
                                  /\ r # but => Registered(v, r) /\ RanOnce(v, r)
         /\ ReadOwn(v, q)
         /\ q # but => v.programs[q] = NoSend /\ v.runs[q] = 0 /\ RanOnce(v, q)
<1>1. \A r \in Seqs \ {q} : /\ ReadOwn(v, r)
                            /\ r # but => Registered(v, r) /\ RanOnce(v, r)
  BY DEF InStep, Registered, RanOnce, ReadOwn
<1>2. w.packet[q] \notin Eureka!Outcomes /\ v.packet[q] \notin Eureka!Outcomes
  BY EurekaDefs DEF Failures
<1>3. w.read[q] = {} /\ ReadOwn(v, q)
  BY <1>2 DEF InStep, ReadOwn
<1>4. q # but => v.programs[q] = NoSend /\ v.runs[q] = 0 /\ RanOnce(v, q)
  BY <1>2 DEF InStep, Registered, RanOnce
<1> QED
  BY <1>1, <1>3, <1>4

LEMMA EurekaSubmits ==
  ASSUME EurekaIInv, Eureka!SubmitPacket
  PROVE  EurekaIInv'
<1> DEFINE f == frames[2]
           s == f.arg.send
           a == Send[s].amount
<1>1. PICK q \in Seqs : /\ Eureka!At("submit") /\ Eureka!Fresh(q)
                        /\ Send[Top.arg.send].amount <= world.bal
                        /\ world' = Eureka!Submitted(q, Send[Top.arg.send].amount, Top.arg.send)
                        /\ frames' = [frames EXCEPT ![Len(frames)].at = "sent",
                                                    ![Len(frames)].arg.seq = q]
  BY EurekaStack, EurekaDefs DEF Eureka!SubmitPacket
<1>2. /\ Len(frames) = 2 /\ Top = f /\ f.at = "submit"
      /\ world \in Eureka!World /\ f \in EurekaFrame /\ EurekaRunning(world, f)
      /\ f.arg \in [send : Sends, seq : Seqs \union {0}]
  BY <1>1, EurekaAt
<1> DEFINE v == Eureka!Submitted(q, a, s)
           g == [f EXCEPT !.at = "sent", !.arg.seq = q]
<1>3. /\ a <= world.bal /\ world' = v /\ frames' = [frames EXCEPT ![2] = g]
      /\ world.packet[q] = "none" /\ frames \in Seq(EurekaFrame)
  <2>1. frames \in Seq(EurekaFrame) /\ 2 \in DOMAIN frames
    BY <1>2 DEF EurekaIInv, Nested
  <2> QED
    BY <1>1, <1>2, <2>1 DEF Eureka!Fresh
<1>4. s \in Sends /\ s \in Sends \union {NoSend} /\ a \in Nat
      /\ a = (IF s = NoSend THEN 0 ELSE Send[s].amount)
  BY <1>2, EurekaDefs
<1>5. /\ g \in EurekaFrame /\ g.at = "sent" /\ g.snap = f.snap
      /\ g.arg.send = s /\ g.arg.seq = q
  BY <1>2 DEF EurekaFrame
<1> HIDE DEF a, s, g
<1>6. /\ v \in Eureka!World
      /\ v.bal = world.bal - a /\ v.paid = world.paid
      /\ v.locked = world.locked /\ v.slot = world.slot
      /\ v.programs = world.programs /\ v.read = world.read /\ v.runs = world.runs
      /\ v.packet = [world.packet EXCEPT ![q] = "pending"]
      /\ v.origin[q] = s
      /\ \A r \in Seqs \ {q} : /\ v.origin[r] = world.origin[r]
                               /\ v.packet[r] = world.packet[r]
      /\ Owed(v) = Owed(world) /\ v.escrow = world.escrow + a
      /\ UnderWay(v) = UnderWay(world) + a
  <2>1. /\ world \in Eureka!World /\ world.packet[q] = "none" /\ a <= world.bal
        /\ s \in Sends \union {NoSend} /\ a \in Nat
        /\ a = (IF s = NoSend THEN 0 ELSE Send[s].amount)
    BY <1>2, <1>3, <1>4
  <2>2. v = Eureka!Submitted(q, a, s)
    OBVIOUS
  <2> HIDE DEF v
  <2>3. Submits(v, q, a, s)
    BY <2>1, <2>2, SubmittedIs
  <2> QED
    BY <2>3, Zenon DEF Submits
<1> HIDE DEF v
<1>7. v.packet[q] = "pending"
  BY <1>2, <1>6, EurekaWorldFields
<1>8. InStep(world, 0) /\ q # 0
  BY <1>2, EurekaDefs DEF EurekaRunning
<1>9. InStep(v, q) /\ v.programs[q] = NoSend /\ v.runs[q] = 0
  <2>1. /\ \A r \in Seqs \ {q} : /\ ReadOwn(v, r)
                                 /\ r # 0 => Registered(v, r) /\ RanOnce(v, r)
        /\ ReadOwn(v, q)
        /\ q # 0 => v.programs[q] = NoSend /\ v.runs[q] = 0 /\ RanOnce(v, q)
    <3>1. /\ world \in Eureka!World /\ v \in Eureka!World /\ InStep(world, 0)
          /\ world.packet[q] = "none"
      BY <1>2, <1>3, <1>6, <1>8
    <3>2. /\ v.programs = world.programs /\ v.read = world.read /\ v.runs = world.runs
      BY <1>6
    <3>3. \A r \in Seqs \ {q} : v.origin[r] = world.origin[r] /\ v.packet[r] = world.packet[r]
      BY <1>6
    <3> QED
      BY <1>7, <3>1, <3>2, <3>3, SubmittedInStep
  <2>2. \A r \in Seqs : r # 0
    BY EurekaDefs
  <2>3. \A r \in Seqs : ReadOwn(v, r) /\ (r # q => Registered(v, r) /\ RanOnce(v, r))
    BY <2>1, <2>2
  <2>4. v.programs[q] = NoSend /\ v.runs[q] = 0
    BY <2>1, <2>2
  <2> QED
    BY <2>3, <2>4 DEF InStep
<1>10. v.bal + v.paid = Owed(v) + 0
  <2>1. world.bal + world.paid = Owed(world) + a /\ Owed(world) \in Nat
        /\ world.bal \in Nat /\ world.paid \in Nat
    BY <1>2, EurekaAmounts, EurekaWorldFields DEF EurekaRunning, s, a
  <2>2. a <= world.bal
    BY <1>3
  <2> DEFINE o == Owed(world)
             b == world.bal
             p == world.paid
  <2>3. b + p = o + a /\ o \in Nat /\ b \in Nat /\ p \in Nat /\ a \in Nat /\ a <= b
    BY <1>4, <2>1, <2>2
  <2> HIDE DEF o, b, p
  <2>4. (b - a) + p = o + 0
    BY <2>3
  <2> QED
    BY <1>6, <2>4 DEF o, b, p
<1>11. EurekaRunning(v, g)
  BY <1>2, <1>5, <1>6, <1>7, <1>9, <1>10 DEF EurekaRunning
<1> QED
  BY <1>2, <1>3, <1>5, <1>6, <1>11, EurekaMoves DEF f

\* All packets in step: the one that was left out is.
LEMMA InStepAgain ==
  ASSUME NEW w, NEW v, NEW q \in Seqs, InStep(w, q), v.packet = w.packet,
         v.origin = w.origin, v.read = w.read,
         \A r \in Seqs \ {q} : v.programs[r] = w.programs[r] /\ v.runs[r] = w.runs[r],
         Registered(v, q), RanOnce(v, q)
  PROVE  InStep(v, 0)
BY DEF InStep, Registered, RanOnce, ReadOwn

LEMMA EurekaRegisters ==
  ASSUME EurekaIInv, Eureka!Register
  PROVE  EurekaIInv'
<1> DEFINE f == frames[2]
           s == f.arg.send
           q == f.arg.seq
           v == [world EXCEPT !.programs[q] = s, !.locked = FALSE]
<1>1. /\ ~Idle /\ Len(frames) = 2 /\ Top = f /\ f.at = "sent"
      /\ world \in Eureka!World /\ f \in EurekaFrame /\ EurekaRunning(world, f)
      /\ f.arg \in [send : Sends, seq : Seqs \union {0}]
  BY EurekaAt DEF Eureka!Register
<1>2. Leave(v)
  BY <1>1, EurekaStack DEF Eureka!Register
<1>3. /\ s \in Sends /\ q \in Seqs /\ InStep(world, q) /\ world.runs[q] = 0
      /\ world.packet[q] = "pending" /\ world.origin[q] = s
      /\ world.slot[0] = 0 /\ world.slot[1] = 0
      /\ world.escrow = UnderWay(world) /\ world.bal + world.paid = Owed(world) + 0
  BY <1>1 DEF EurekaRunning
<1>4. world.programs \in [Seqs -> Sends \union {NoSend}]
  BY <1>1, EurekaWorldFields
<1>5. /\ v \in Eureka!World /\ ~v.locked
      /\ v.programs = [world.programs EXCEPT ![q] = s]
      /\ v.slot = world.slot /\ v.packet = world.packet /\ v.bal = world.bal
      /\ v.paid = world.paid /\ v.escrow = world.escrow /\ v.origin = world.origin
      /\ v.read = world.read /\ v.runs = world.runs
  BY <1>1, <1>3, <1>4, EurekaDefs DEF Eureka!World
<1> HIDE DEF v, s, q, f
<1>6. Registered(v, q) /\ RanOnce(v, q)
  <2>1. "pending" \notin Eureka!Outcomes
    BY EurekaDefs DEF Failures
  <2> QED
    BY <1>3, <1>4, <1>5, <2>1 DEF Registered, RanOnce
<1>7. InStep(v, 0)
  <2>1. \A r \in Seqs \ {q} : v.programs[r] = world.programs[r] /\ v.runs[r] = world.runs[r]
    BY <1>4, <1>5
  <2> QED
    BY <1>3, <1>5, <1>6, <2>1, InStepAgain
<1>8. Owed(v) = Owed(world) /\ UnderWay(v) = UnderWay(world)
  BY <1>5, SumsSame
<1>9. Owed(world) + 0 = Owed(world)
  BY <1>1, EurekaAmounts
<1>10. v \in EurekaRest
  BY <1>3, <1>5, <1>7, <1>8, <1>9 DEF EurekaRest
<1> QED
  BY <1>1, <1>2, <1>10, NestedLeave DEF EurekaIInv

\* The world in which ICS20Transfer makes the callback.
LEMMA SettledIs ==
  ASSUME world \in EurekaRest, NEW q \in Seqs, world.packet[q] = "pending",
         NEW outcome \in Eureka!Outcomes
  PROVE  LET v == Eureka!SettledBy(q, outcome)
         IN /\ v \in Eureka!World
            /\ v.locked = world.locked /\ v.slot = world.slot
            /\ v.programs = world.programs /\ v.read = world.read /\ v.runs = world.runs
            /\ v.origin = world.origin /\ v.packet[q] = outcome
            /\ \A r \in Seqs \ {q} : v.packet[r] = world.packet[r]
            /\ v.escrow = UnderWay(v) /\ v.bal + v.paid = Owed(v)
<1> DEFINE v == Eureka!SettledBy(q, outcome)
           a == Eureka!Amounts(world)[q]
           e == world.escrow
           b == world.bal
           p == world.paid
           back == IF outcome = "success" THEN b ELSE b + a
<1>1. /\ world \in Eureka!World /\ a \in Nat /\ b \in Nat /\ p \in Nat
      /\ e = UnderWay(world) /\ b + p = Owed(world) /\ Owed(world) \in Nat
  BY EurekaWorldFields, EurekaAmounts DEF EurekaRest
<1>2. back \in Nat
  BY <1>1
\* What v is made of, but for the sums, which need v to be a world.
<1> DEFINE u == [world EXCEPT !.packet[q] = outcome]
<1>3. /\ u \in Eureka!World /\ u.packet = [world.packet EXCEPT ![q] = outcome]
      /\ u.origin = world.origin
  BY <1>1, EurekaDefs DEF Eureka!World
<1> HIDE DEF u
<1>4. /\ UnderWay(world) = UnderWay(u) + a /\ UnderWay(u) \in Nat
      /\ Owed(u) = Owed(world) + (IF outcome = "success" THEN 0 ELSE a)
  BY <1>1, <1>3, SumsSettle, EurekaAmounts
<1>5. e - a = UnderWay(u) /\ e - a \in Nat
  <2> DEFINE x == UnderWay(u)
  <2>1. e = x + a /\ x \in Nat
    BY <1>1, <1>4
  <2> HIDE DEF x, e, a
  <2>2. e - a = x
    BY <1>1, <2>1
  <2> QED
    BY <2>1, <2>2 DEF x
<1>6. back + p = Owed(u)
  <2> DEFINE x == Owed(world)
  <2>1. Owed(u) = x + (IF outcome = "success" THEN 0 ELSE a) /\ b + p = x /\ x \in Nat
    BY <1>1, <1>4
  <2> HIDE DEF x, a, b, p
  <2>2. back + p = x + (IF outcome = "success" THEN 0 ELSE a)
    BY <1>1, <2>1
  <2> QED
    BY <2>1, <2>2
<1>7. v = [world EXCEPT !.packet[q] = outcome, !.escrow = e - a, !.bal = back]
  BY <1>1 DEF Eureka!SettledBy, Eureka!World
<1> HIDE DEF v, a, e, b, p, back
<1>8. /\ v \in Eureka!World
      /\ v.locked = world.locked /\ v.slot = world.slot
      /\ v.programs = world.programs /\ v.read = world.read /\ v.runs = world.runs
      /\ v.origin = world.origin /\ v.packet = [world.packet EXCEPT ![q] = outcome]
      /\ v.escrow = e - a /\ v.bal = back /\ v.paid = p
  BY <1>1, <1>2, <1>5, <1>7, EurekaDefs DEF Eureka!World, p
<1>9. UnderWay(v) = UnderWay(u) /\ Owed(v) = Owed(u)
  BY <1>3, <1>8, SumsSame
<1>10. /\ v.packet[q] = outcome
       /\ \A r \in Seqs \ {q} : v.packet[r] = world.packet[r]
  BY <1>1, <1>8, EurekaWorldFields
<1> QED
  BY <1>5, <1>6, <1>8, <1>9, <1>10 DEF v

\* The settlement of a packet takes only that packet out of step.
LEMMA SettledInStep ==
  ASSUME NEW w \in EurekaRest, NEW v, NEW q \in Seqs, w.packet[q] = "pending",
         NEW outcome \in Eureka!Outcomes, v.origin = w.origin, v.packet[q] = outcome,
         \A r \in Seqs \ {q} : v.packet[r] = w.packet[r] /\ v.programs[r] = w.programs[r],
         v.read = w.read, v.runs = w.runs
  PROVE  InStep(v, q) /\ w.runs[q] = 0 /\ w.programs[q] = w.origin[q]
<1>1. InStep(w, 0) /\ q # 0 /\ "pending" \notin Eureka!Outcomes /\ \A r \in Seqs : r # 0
  BY EurekaDefs DEF EurekaRest, Failures
<1>2. w.read[q] = {} /\ w.runs[q] = 0 /\ w.programs[q] = w.origin[q]
  BY <1>1 DEF InStep, ReadOwn, Registered, RanOnce
<1>3. \A r \in Seqs \ {q} : ReadOwn(v, r) /\ Registered(v, r) /\ RanOnce(v, r)
  BY <1>1 DEF InStep, ReadOwn, Registered, RanOnce
<1>4. ReadOwn(v, q)
  BY <1>2 DEF ReadOwn
<1> QED
  BY <1>2, <1>3, <1>4 DEF InStep

LEMMA EurekaCallsBack ==
  ASSUME EurekaIInv, NEW q \in Seqs, NEW outcome \in Eureka!Outcomes, NEW caller,
         Eureka!Callback(caller, q, outcome)
  PROVE  EurekaIInv'
<1> DEFINE w == Eureka!SettledBy(q, outcome)
           arg == [send |-> world.programs[q], seq |-> q]
           f == Frame("program", arg)
           v == Eureka!Staged(Eureka!ProgramDeleted(w, q), Eureka!CallbackParams(q, outcome))
<1>1. /\ ~Idle /\ ~world.locked /\ world.packet[q] = "pending"
      /\ \/ world.programs[q] # NoSend /\ Enter("program", arg, v)
         \/ world.programs[q] = NoSend /\ world' = w /\ frames' = frames
  BY EurekaStack
     DEF Eureka!Callback, Eureka!External, Eureka!Presented, Eureka!OnlyTransfer,
         Eureka!NonReentrant, Eureka!Before, Eureka!RunRegistered, Eureka!NothingRegistered
<1>2. Len(frames) = 1 /\ world \in EurekaRest /\ world \in Eureka!World
  BY <1>1, EurekaOutside
<1>3. /\ w \in Eureka!World
      /\ w.locked = world.locked /\ w.slot = world.slot
      /\ w.programs = world.programs /\ w.read = world.read /\ w.runs = world.runs
      /\ w.origin = world.origin /\ w.packet[q] = outcome
      /\ \A r \in Seqs \ {q} : w.packet[r] = world.packet[r]
      /\ w.escrow = UnderWay(w) /\ w.bal + w.paid = Owed(w)
  BY <1>1, <1>2, SettledIs
<1> HIDE DEF w
<1>4. CASE world.programs[q] = NoSend /\ world' = w /\ frames' = frames
  <2>1. \A r \in Seqs \ {q} : w.packet[r] = world.packet[r] /\ w.programs[r] = world.programs[r]
    BY <1>3
  <2>2. InStep(w, q) /\ world.runs[q] = 0 /\ world.programs[q] = world.origin[q]
    BY <1>1, <1>2, <1>3, <2>1, SettledInStep
  <2>3. Registered(w, q) /\ RanOnce(w, q)
    <3>1. outcome # "pending"
      BY EurekaDefs DEF Failures
    <3> QED
      BY <1>3, <1>4, <2>2, <3>1 DEF Registered, RanOnce
  <2>4. InStep(w, 0)
    BY <2>2, <2>3, InStepAgain
  <2>5. w \in EurekaRest
    BY <1>2, <1>3, <2>4 DEF EurekaRest
  <2>6. Len(frames) < 2
    BY <1>2
  <2> QED
    BY <1>4, <2>5, <2>6, NestedRest DEF EurekaIInv
<1>5. CASE world.programs[q] # NoSend /\ Enter("program", arg, v)
  <2>1. {0, 1} \subseteq Slots /\ q \in Nat /\ world.slot \in [Slots -> Nat]
        /\ world.programs \in [Seqs -> Sends \union {NoSend}]
    BY <1>2, SlotsAssumption, EurekaDefs, EurekaWorldFields
  <2> DEFINE one == IF outcome = "success" THEN 1 ELSE 0
             slot == [[world.slot EXCEPT ![0] = one] EXCEPT ![1] = q]
             programs == [world.programs EXCEPT ![q] = NoSend]
  <2>2. /\ slot \in [Slots -> Nat] /\ slot[0] = one /\ slot[1] = q
        /\ programs \in [Seqs -> Sends \union {NoSend}] /\ programs[q] = NoSend
        /\ \A r \in Seqs \ {q} : programs[r] = world.programs[r]
    BY <2>1
  <2>3. Eureka!CallbackParams(q, outcome) = <<one, q>>
    BY DEF Eureka!CallbackParams
  <2>4. v = [w EXCEPT !.programs = programs, !.locked = TRUE, !.slot = slot]
    <3> DEFINE params == Eureka!CallbackParams(q, outcome)
    <3>1. params[1] = one /\ params[2] = q
      BY <2>3
    <3> HIDE DEF params
    <3>2. /\ [w.programs EXCEPT ![q] = NoSend] = programs
          /\ [w.slot EXCEPT ![0] = params[1], ![1] = params[2]] = slot
      BY <1>3, <3>1
    <3> HIDE DEF programs, slot
    <3>3. v = [[w EXCEPT !.programs = programs] EXCEPT !.locked = TRUE, !.slot = slot]
      BY <1>3, <3>2 DEF Eureka!Staged, Eureka!ProgramDeleted, Eureka!World, params
    <3> QED
      BY <1>3, <3>3 DEF Eureka!World
  <2> HIDE DEF slot, programs, v
  <2>5. /\ v \in Eureka!World /\ v.locked /\ v.slot = slot /\ v.programs = programs
        /\ v.packet = w.packet /\ v.bal = w.bal /\ v.paid = w.paid
        /\ v.escrow = w.escrow /\ v.origin = w.origin /\ v.read = w.read /\ v.runs = w.runs
    BY <1>3, <2>2, <2>4, EurekaDefs DEF Eureka!World
  <2>6. f \in EurekaFrame
    <3>1. world.programs[q] \in Sends
      BY <1>5, <2>1
    <3> QED
      BY <1>2, <3>1 DEF Frame, EurekaFrame
  <2>7. f.at = "program" /\ f.arg = arg /\ arg.seq = q
    BY DEF Frame
  <2>8. InStep(v, q) /\ world.runs[q] = 0 /\ world.programs[q] = world.origin[q]
    <3>1. \A r \in Seqs \ {q} : v.packet[r] = world.packet[r]
                                /\ v.programs[r] = world.programs[r]
      BY <1>3, <2>2, <2>5
    <3> QED
      BY <1>1, <1>2, <1>3, <2>5, <3>1, SettledInStep
  <2>9. Owed(v) = Owed(w) /\ UnderWay(v) = UnderWay(w)
    BY <2>5, SumsSame
  <2>10. v.bal + v.paid = Owed(v) + 0
    BY <1>3, <2>5, <2>9, EurekaAmounts
  <2>11. <<v.slot[0], v.slot[1]>> = Eureka!CallbackParams(q, v.packet[q])
    BY <1>3, <2>2, <2>3, <2>5
  <2> HIDE DEF f, arg, one
  <2>12. EurekaRunning(v, f)
    BY <1>3, <1>5, <2>2, <2>5, <2>7, <2>8, <2>9, <2>10, <2>11 DEF EurekaRunning
  <2>13. <<v, f>> \in EurekaRun
    BY <2>5, <2>6, <2>12, EurekaRunDef
  <2>14. Nested(EurekaFrame, EurekaRest, EurekaRun)
    BY DEF EurekaIInv
  <2>15. Nested(EurekaFrame, EurekaRest, EurekaRun)'
    BY <1>1, <1>2, <1>5, <2>6, <2>13, <2>14, NestedEnter DEF f
  <2> QED
    BY <2>15 DEF EurekaIInv
<1> QED
  BY <1>1, <1>4, <1>5

\* Code outside the contract can lower its balance by what it lets it pay, and
\* use slots of its own; nothing that the invariant relates changes.
LEMMA EurekaStays ==
  ASSUME EurekaIInv, ~Idle, frames' = frames, NEW v \in Eureka!World, world' = v,
         v.locked = world.locked, v.slot[0] = world.slot[0], v.slot[1] = world.slot[1],
         v.programs = world.programs, v.packet = world.packet, v.origin = world.origin,
         v.read = world.read, v.runs = world.runs, v.escrow = world.escrow,
         v.bal + v.paid = world.bal + world.paid, v.bal <= world.bal
  PROVE  EurekaIInv'
<1>1. /\ Owed(v) = Owed(world) /\ UnderWay(v) = UnderWay(world)
      /\ \A but : InStep(world, but) => InStep(v, but)
  BY SumsSame DEF InStep, ReadOwn, Registered, RanOnce
<1>2. CASE Top.at = "batch"
  <2>1. Len(frames) = 1 /\ world \in EurekaRest
    BY <1>2, NestedTop DEF EurekaIInv
  <2>2. v \in EurekaRest
    BY <1>1, <2>1 DEF EurekaRest
  <2>3. Len(frames) < 2
    BY <2>1
  <2> QED
    BY <2>2, <2>3, NestedRest DEF EurekaIInv
<1>3. CASE Top.at # "batch"
  <2>1. Len(frames) = 2 /\ Top = frames[2] /\ <<world, frames[2]>> \in EurekaRun
    BY <1>3, NestedTop DEF EurekaIInv
  <2>2. world \in Eureka!World /\ frames[2] \in EurekaFrame /\ EurekaRunning(world, frames[2])
    BY <2>1, EurekaRunDef
  <2>3. frames[2].at = "pull" => v.bal <= frames[2].snap.bal
    <3>1. v.bal \in Nat /\ world.bal \in Nat /\ frames[2].snap.bal \in Nat
      BY <2>2, EurekaWorldFields, EurekaFrameFields
    <3>2. frames[2].at = "pull" => world.bal <= frames[2].snap.bal
      BY <2>2 DEF EurekaRunning
    <3> QED
      BY <3>1, <3>2
  <2>4. EurekaRunning(v, frames[2])
    BY <1>1, <2>2, <2>3 DEF EurekaRunning
  <2>5. <<v, frames[2]>> \in EurekaRun
    BY <2>2, <2>4, EurekaRunDef
  <2> QED
    BY <2>1, <2>5, NestedStay DEF EurekaIInv
<1> QED
  BY <1>2, <1>3

LEMMA EurekaHere ==
  ASSUME EurekaIInv, ~Idle
  PROVE  world \in Eureka!World
<1>1. world \in EurekaRest \/ <<world, Top>> \in EurekaRun
  BY NestedTop DEF EurekaIInv
<1> QED
  BY <1>1, EurekaRunDef DEF EurekaRest

LEMMA EurekaQuiet ==
  ASSUME EurekaIInv, \/ Eureka!ProgramTstore
                     \/ Eureka!External /\ Eureka!PayPool(world.bal)
  PROVE  EurekaIInv'
<1>1. CASE Eureka!ProgramTstore
  <2>1. PICK i \in Slots \ {0, 1} : /\ ~Idle /\ frames' = frames
                                    /\ world' = [world EXCEPT !.slot[i] = 1]
    BY <1>1, EurekaStack DEF Eureka!ProgramTstore
  <2>2. world \in Eureka!World /\ 0 \in Slots /\ 1 \in Slots
    BY <2>1, EurekaHere, SlotsAssumption
  <2>3. world.slot \in [Slots -> Nat] /\ world.bal \in Nat /\ world.paid \in Nat
    BY <2>2, EurekaWorldFields
  <2> DEFINE v == [world EXCEPT !.slot[i] = 1]
  <2>4. /\ v \in Eureka!World
        /\ v.locked = world.locked /\ v.slot[0] = world.slot[0] /\ v.slot[1] = world.slot[1]
        /\ v.programs = world.programs /\ v.packet = world.packet /\ v.origin = world.origin
        /\ v.read = world.read /\ v.runs = world.runs /\ v.escrow = world.escrow
        /\ v.bal = world.bal /\ v.paid = world.paid
    BY <2>2, <2>3 DEF Eureka!World
  <2> HIDE DEF v
  <2>5. v.bal + v.paid = world.bal + world.paid /\ v.bal <= world.bal
    BY <2>3, <2>4
  <2> QED
    BY <2>1, <2>4, <2>5, EurekaStays DEF v
<1>2. CASE Eureka!External /\ Eureka!PayPool(world.bal)
  <2> DEFINE v == [world EXCEPT !.bal = @ - world.bal, !.paid = @ + world.bal]
  <2>1. ~Idle /\ frames' = frames /\ world' = v
    BY <1>2, EurekaStack DEF Eureka!External, Eureka!PayPool
  <2>2. world \in Eureka!World /\ world.bal \in Nat /\ world.paid \in Nat
    BY <2>1, EurekaHere, EurekaWorldFields
  <2>3. /\ v \in Eureka!World
        /\ v.locked = world.locked /\ v.slot = world.slot
        /\ v.programs = world.programs /\ v.packet = world.packet /\ v.origin = world.origin
        /\ v.read = world.read /\ v.runs = world.runs /\ v.escrow = world.escrow
        /\ v.bal = world.bal - world.bal /\ v.paid = world.paid + world.bal
    <3>1. world.bal - world.bal \in Nat /\ world.paid + world.bal \in Nat
      BY <2>2
    <3> QED
      BY <2>2, <3>1 DEF Eureka!World
  <2> HIDE DEF v
  <2>4. v.bal + v.paid = world.bal + world.paid /\ v.bal <= world.bal
    <3> DEFINE b == world.bal
               p == world.paid
    <3>1. b \in Nat /\ p \in Nat /\ v.bal = b - b /\ v.paid = p + b
      BY <2>2, <2>3
    <3> HIDE DEF b, p
    <3>2. (b - b) + (p + b) = b + p /\ b - b <= b
      BY <3>1
    <3> QED
      BY <3>1, <3>2 DEF b, p
  <2> QED
    BY <2>1, <2>3, <2>4, EurekaStays DEF v
<1> QED
  BY <1>1, <1>2

\* The program of a follow-up acts on what was staged for its own packet.
LEMMA EurekaActs ==
  ASSUME EurekaIInv, Eureka!ProgramAct
  PROVE  EurekaIInv'
<1> DEFINE f == frames[2]
           q == f.arg.seq
           pair == <<world.slot[0], world.slot[1]>>
           v == [world EXCEPT !.read[q] = @ \union {pair}]
<1>1. /\ ~Idle /\ Len(frames) = 2 /\ Top = f /\ f.at = "program"
      /\ world \in Eureka!World /\ f \in EurekaFrame /\ EurekaRunning(world, f)
  BY EurekaAt DEF Eureka!ProgramAct
<1>2. world' = v /\ frames' = frames
  BY <1>1, EurekaStack DEF Eureka!ProgramAct
<1>3. /\ q \in Seqs /\ InStep(world, q) /\ world.packet[q] \in Eureka!Outcomes
      /\ pair = Eureka!CallbackParams(q, world.packet[q])
      /\ world.slot \in [Slots -> Nat] /\ 0 \in Slots /\ 1 \in Slots
      /\ world.read \in [Seqs -> SUBSET (Nat \X Nat)]
  BY <1>1, EurekaWorldFields, SlotsAssumption DEF EurekaRunning
<1>4. /\ v \in Eureka!World
      /\ v.read = [world.read EXCEPT ![q] = @ \union {pair}]
      /\ v.locked = world.locked /\ v.slot = world.slot
      /\ v.programs = world.programs /\ v.packet = world.packet /\ v.origin = world.origin
      /\ v.bal = world.bal /\ v.paid = world.paid /\ v.runs = world.runs
      /\ v.escrow = world.escrow
  <2>1. pair \in Nat \X Nat
    BY <1>3
  <2> HIDE DEF pair, q
  <2>2. [world.read EXCEPT ![q] = @ \union {pair}] \in [Seqs -> SUBSET (Nat \X Nat)]
    BY <1>3, <2>1
  <2> QED
    BY <1>1, <2>2, EurekaDefs DEF Eureka!World
<1> HIDE DEF v, pair
<1>5. ReadOwn(v, q)
  <2>1. world.read[q] \subseteq {pair} /\ v.read[q] = world.read[q] \union {pair}
    <3> HIDE DEF q
    <3>1. v.read[q] = world.read[q] \union {pair}
      BY <1>3, <1>4
    <3> QED
      BY <1>3, <3>1 DEF InStep, ReadOwn
  <2> QED
    BY <1>3, <1>4, <2>1 DEF ReadOwn
<1>6. \A r \in Seqs \ {q} : ReadOwn(v, r) /\ Registered(v, r) /\ RanOnce(v, r)
  <2> HIDE DEF q
  <2>1. \A r \in Seqs \ {q} : v.read[r] = world.read[r]
    BY <1>3, <1>4
  <2> QED
    BY <1>3, <1>4, <2>1 DEF InStep, ReadOwn, Registered, RanOnce
<1>7. InStep(v, q)
  BY <1>5, <1>6 DEF InStep
<1>8. Owed(v) = Owed(world) /\ UnderWay(v) = UnderWay(world)
  BY <1>4, SumsSame
<1>9. EurekaRunning(v, f)
  BY <1>1, <1>4, <1>7, <1>8 DEF EurekaRunning
<1>10. <<v, f>> \in EurekaRun
  BY <1>1, <1>4, <1>9, EurekaRunDef
<1> QED
  BY <1>1, <1>2, <1>10, NestedStay DEF EurekaIInv

LEMMA EurekaProgramSends ==
  ASSUME EurekaIInv, Eureka!ProgramSend
  PROVE  EurekaIInv'
<1> DEFINE f == frames[2]
           own == f.arg.seq
<1>1. PICK q \in Seqs : /\ Eureka!At("program") /\ Eureka!Fresh(q)
                        /\ world' = Eureka!Submitted(q, 0, NoSend)
                        /\ frames' = frames
  BY EurekaDefs DEF Eureka!ProgramSend
<1>2. /\ ~Idle /\ Len(frames) = 2 /\ Top = f /\ f.at = "program"
      /\ world \in Eureka!World /\ f \in EurekaFrame /\ EurekaRunning(world, f)
  BY <1>1, EurekaAt
<1>3. /\ own \in Seqs /\ InStep(world, own) /\ world.packet[own] \in Eureka!Outcomes
      /\ world.packet[q] = "none" /\ q # own
  <2>1. "none" \notin Eureka!Outcomes
    BY EurekaDefs DEF Failures
  <2> QED
    BY <1>1, <1>2, <2>1 DEF EurekaRunning, Eureka!Fresh
<1> DEFINE v == Eureka!Submitted(q, 0, NoSend)
<1>4. /\ v \in Eureka!World
      /\ v.bal = world.bal - 0 /\ v.paid = world.paid
      /\ v.locked = world.locked /\ v.slot = world.slot
      /\ v.programs = world.programs /\ v.read = world.read /\ v.runs = world.runs
      /\ v.packet = [world.packet EXCEPT ![q] = "pending"]
      /\ v.origin[q] = NoSend
      /\ \A r \in Seqs \ {q} : /\ v.origin[r] = world.origin[r]
                               /\ v.packet[r] = world.packet[r]
      /\ Owed(v) = Owed(world) /\ v.escrow = world.escrow + 0
      /\ UnderWay(v) = UnderWay(world) + 0
  <2>1. 0 <= world.bal /\ NoSend \in Sends \union {NoSend} /\ 0 \in Nat
    BY <1>2, EurekaWorldFields
  <2>2. v = Eureka!Submitted(q, 0, NoSend)
    OBVIOUS
  <2> HIDE DEF v
  <2>3. Submits(v, q, 0, NoSend)
    BY <1>2, <1>3, <2>1, <2>2, SubmittedIs
  <2> QED
    BY <2>3, Zenon DEF Submits
<1> HIDE DEF v, own, f
<1>5. v.bal = world.bal /\ v.escrow = world.escrow /\ UnderWay(v) = UnderWay(world)
  BY <1>2, <1>4, EurekaWorldFields, EurekaAmounts
<1>6. v.packet[q] = "pending"
  BY <1>2, <1>4, EurekaWorldFields
<1>7. InStep(v, own)
  <2>1. /\ \A r \in Seqs \ {q} : /\ ReadOwn(v, r)
                                 /\ r # own => Registered(v, r) /\ RanOnce(v, r)
        /\ ReadOwn(v, q)
        /\ q # own => v.programs[q] = NoSend /\ v.runs[q] = 0 /\ RanOnce(v, q)
    <3>1. \A r \in Seqs \ {q} : v.origin[r] = world.origin[r] /\ v.packet[r] = world.packet[r]
      BY <1>4
    <3> QED
      BY <1>2, <1>3, <1>4, <1>6, <3>1, SubmittedInStep
  <2>2. Registered(v, q) /\ RanOnce(v, q)
    BY <1>3, <1>4, <1>6, <2>1 DEF Registered
  <2> QED
    BY <2>1, <2>2 DEF InStep
<1>8. EurekaRunning(v, f)
  <2>1. /\ v.programs[own] = world.programs[own] /\ v.runs[own] = world.runs[own]
        /\ v.packet[own] = world.packet[own] /\ v.origin[own] = world.origin[own]
    BY <1>3, <1>4
  <2> QED
    BY <1>2, <1>3, <1>4, <1>5, <1>7, <2>1 DEF EurekaRunning, own
<1>9. <<v, f>> \in EurekaRun
  BY <1>2, <1>4, <1>8, EurekaRunDef
<1> QED
  BY <1>1, <1>2, <1>9, NestedStay DEF EurekaIInv, v, f

LEMMA EurekaFinishes ==
  ASSUME EurekaIInv, Eureka!FinishProgram
  PROVE  EurekaIInv'
<1> DEFINE f == frames[2]
           q == f.arg.seq
           v == [Eureka!Unstaged(world) EXCEPT !.runs[q] = @ + 1]
<1>1. /\ ~Idle /\ Len(frames) = 2 /\ Top = f /\ f.at = "program"
      /\ world \in Eureka!World /\ f \in EurekaFrame /\ EurekaRunning(world, f)
  BY EurekaAt DEF Eureka!FinishProgram
<1>2. Leave(v)
  BY <1>1, EurekaStack DEF Eureka!FinishProgram
<1>3. /\ q \in Seqs /\ InStep(world, q) /\ world.runs[q] = 0 /\ world.programs[q] = NoSend
      /\ world.packet[q] \in Eureka!Outcomes /\ world.origin[q] # NoSend
      /\ world.escrow = UnderWay(world) /\ world.bal + world.paid = Owed(world) + 0
  BY <1>1 DEF EurekaRunning
<1>4. /\ world.slot \in [Slots -> Nat] /\ world.runs \in [Seqs -> Nat]
      /\ 0 \in Slots /\ 1 \in Slots
  BY <1>1, EurekaWorldFields, SlotsAssumption
<1> DEFINE slot == [world.slot EXCEPT ![0] = 0, ![1] = 0]
           runs == [world.runs EXCEPT ![q] = @ + 1]
<1>5. /\ slot \in [Slots -> Nat] /\ slot[0] = 0 /\ slot[1] = 0
      /\ runs \in [Seqs -> Nat] /\ runs[q] = 1
      /\ \A r \in Seqs \ {q} : runs[r] = world.runs[r]
  <2> HIDE DEF q
  <2> QED
    BY <1>3, <1>4
<1>6. v = [world EXCEPT !.locked = FALSE, !.slot = slot, !.runs = runs]
  BY <1>1 DEF Eureka!Unstaged, Eureka!World
<1> HIDE DEF v, slot, runs, q, f
<1>7. /\ v \in Eureka!World /\ ~v.locked /\ v.slot = slot /\ v.runs = runs
      /\ v.programs = world.programs /\ v.packet = world.packet /\ v.origin = world.origin
      /\ v.bal = world.bal /\ v.paid = world.paid /\ v.read = world.read
      /\ v.escrow = world.escrow
  BY <1>1, <1>5, <1>6, EurekaDefs DEF Eureka!World
<1>8. Registered(v, q) /\ RanOnce(v, q)
  <2>1. world.packet[q] # "pending"
    BY <1>3, EurekaDefs DEF Failures
  <2> QED
    BY <1>3, <1>5, <1>7, <2>1 DEF Registered, RanOnce
<1>9. InStep(v, 0)
  <2>1. \A r \in Seqs \ {q} : v.programs[r] = world.programs[r] /\ v.runs[r] = world.runs[r]
    BY <1>5, <1>7
  <2> QED
    BY <1>3, <1>7, <1>8, <2>1, InStepAgain
<1>10. Owed(v) = Owed(world) /\ UnderWay(v) = UnderWay(world) /\ Owed(world) + 0 = Owed(world)
  BY <1>1, <1>7, SumsSame, EurekaAmounts
<1>11. v \in EurekaRest
  BY <1>3, <1>5, <1>7, <1>9, <1>10 DEF EurekaRest
<1> QED
  BY <1>1, <1>2, <1>11, NestedLeave DEF EurekaIInv

LEMMA EurekaTransactions ==
  ASSUME EurekaIInv, Eureka!BeginTx(NoSend) \/ Eureka!EndTx \/ Eureka!Revert
  PROVE  EurekaIInv'
<1>1. ASSUME BeginTx(NoSend) PROVE EurekaIInv'
  <2>0. Len(frames) < 2
    BY <1>1 DEF BeginTx, Idle
  <2>1. world \in Eureka!World
    BY <2>0 DEF EurekaIInv, EurekaRest, Nested
  <2>2. Frame("batch", NoSend) \in EurekaFrame
    BY <2>1 DEF Frame, EurekaFrame
  <2> QED
    BY <1>1, <2>2, NestedBegin DEF EurekaIInv
<1>2. CASE Len(frames) = 1 /\ Leave(Discarded(world))
  <2> DEFINE v == Discarded(world)
  <2>1. ~Idle /\ world \in EurekaRest /\ world \in Eureka!World
    BY <1>2, NestedTop DEF EurekaIInv, Nested, EurekaRest
  <2>2. 0 \in Slots /\ 1 \in Slots
    BY SlotsAssumption
  <2>3. /\ v \in Eureka!World /\ ~v.locked /\ v.slot[0] = 0 /\ v.slot[1] = 0
        /\ v.programs = world.programs /\ v.packet = world.packet /\ v.origin = world.origin
        /\ v.bal = world.bal /\ v.paid = world.paid /\ v.read = world.read
        /\ v.escrow = world.escrow /\ v.runs = world.runs
    BY <2>1, <2>2 DEF Discarded, CleanSlots, Eureka!World
  <2> HIDE DEF v
  <2>4. /\ Owed(v) = Owed(world) /\ UnderWay(v) = UnderWay(world)
        /\ InStep(v, 0)
    BY <2>1, <2>3, SumsSame DEF EurekaRest, InStep, ReadOwn, Registered, RanOnce
  <2>5. v \in EurekaRest
    BY <2>1, <2>3, <2>4 DEF EurekaRest
  <2> QED
    BY <1>2, <2>1, <2>5, NestedLeave DEF EurekaIInv, v
<1>3. CASE Revert
  BY <1>3, NestedRevert DEF EurekaIInv
<1> QED
  BY <1>1, <1>2, <1>3, EurekaStack

LEMMA EurekaBegins ==
  ASSUME Eureka!Init
  PROVE  EurekaIInv
<1>1. /\ world \in Eureka!World
      /\ ~world.locked /\ world.slot[0] = 0 /\ world.slot[1] = 0
      /\ world.bal = 0 /\ world.paid = 0 /\ world.escrow = 0
      /\ \A q \in Seqs : /\ world.programs[q] = NoSend /\ world.packet[q] = "none"
                         /\ world.read[q] = {} /\ world.runs[q] = 0
  BY SlotsAssumption, EurekaDefs DEF Eureka!Init, Eureka!World, Eureka!CleanSlots
<1>2. InStep(world, 0)
  <2>1. "none" \notin Eureka!Outcomes
    BY EurekaDefs DEF Failures
  <2> QED
    BY <1>1, <2>1 DEF InStep, ReadOwn, Registered, RanOnce
<1>3. Owed(world) = 0 /\ UnderWay(world) = 0
  <2>1. Eureka!Ended(world, Failures) = {} /\ Eureka!Ended(world, {"pending"}) = {}
    BY <1>1, EurekaDefs DEF Eureka!Ended, Failures
  <2> QED
    BY <2>1, SumEmpty DEF Owed, UnderWay
<1>4. world \in EurekaRest
  <2>1. world.bal + world.paid = 0
    BY <1>1
  <2> QED
    BY <1>1, <1>2, <1>3, <2>1 DEF EurekaRest
<1>5. frames = << >> /\ Len(frames) = 0 /\ frames \in Seq(EurekaFrame)
  BY DEF Eureka!Init
<1> QED
  BY <1>4, <1>5 DEF EurekaIInv, Nested

LEMMA EurekaInductive ==
  /\ Eureka!Init => EurekaIInv
  /\ EurekaIInv /\ Eureka!Next => EurekaIInv'
  /\ EurekaIInv /\ UNCHANGED vars => EurekaIInv'
<1>1. ASSUME EurekaIInv, Eureka!Next PROVE EurekaIInv'
  BY <1>1, EurekaDefs, EurekaTransactions, EurekaSends, EurekaPulls, EurekaSubmits,
     EurekaRegisters, EurekaCallsBack, EurekaActs, EurekaProgramSends, EurekaQuiet,
     EurekaFinishes DEF Eureka!Next
<1>2. EurekaIInv /\ UNCHANGED vars => EurekaIInv'
  BY DEF EurekaIInv, Nested, vars
<1> QED
  BY <1>1, <1>2, EurekaBegins

LEMMA EurekaResults ==
  ASSUME EurekaIInv
  PROVE  /\ Eureka!FollowUpMatchesPacket /\ Eureka!RunsOnceOnSettlement
         /\ Eureka!ReadsOwnOutcome /\ Eureka!NoCrossFunding
<1>1. Idle => world \in EurekaRest
  <2>1. Idle => Len(frames) < 2
    BY NestedTop DEF EurekaIInv
  <2> QED
    BY <2>1 DEF EurekaIInv, Nested
<1>2. Eureka!FollowUpMatchesPacket /\ Eureka!RunsOnceOnSettlement
  <2>1. Idle => \A q \in Seqs : Registered(world, q) /\ RanOnce(world, q)
    BY <1>1, EurekaDefs DEF EurekaRest, InStep
  <2> QED
    BY <2>1, EurekaStack, EurekaDefs
       DEF Eureka!FollowUpMatchesPacket, Eureka!RunsOnceOnSettlement, Registered, RanOnce
<1>3. Eureka!ReadsOwnOutcome
  <2>1. world \in EurekaRest \/ (\E f \in EurekaFrame : <<world, f>> \in EurekaRun)
    <3>1. Idle \/ ~Idle
      OBVIOUS
    <3> QED
      BY <1>1, <3>1, NestedTop DEF EurekaIInv
  <2>2. \E but : InStep(world, but)
    <3>1. ASSUME NEW f \in EurekaFrame, <<world, f>> \in EurekaRun
          PROVE  \E but : InStep(world, but)
      <4>1. EurekaRunning(world, f)
        BY <3>1, EurekaRunDef
      <4> QED
        BY <3>1, <4>1, EurekaFrameFields DEF EurekaRunning
    <3> QED
      BY <2>1, <3>1 DEF EurekaRest
  <2> QED
    BY <2>2, EurekaDefs DEF Eureka!ReadsOwnOutcome, InStep, ReadOwn
<1>4. Eureka!NoCrossFunding
  BY <1>1, EurekaStack, EurekaSum DEF Eureka!NoCrossFunding, EurekaRest, Owed, Failures
<1> QED
  BY <1>2, <1>3, <1>4
-----------------------------------------------------------------------------
(* DeFiVM, whose entry points nest in each other without limit.  An account *)
(* is what is kept for a key: the tokens an owner has given up, the use of  *)
(* a nonce, the tokens a target must have received.  It is the sum of what  *)
(* the completed runs of the permits stand for and of what the running jobs *)
(* have done so far, and it agrees with the world at every depth.           *)

LEMMA VMStack ==
  /\ VM!Idle <=> Idle
  /\ VM!Top = Top
  /\ VM!Fail <=> Revert
  /\ VM!EndTx <=> Len(frames) = 1 /\ Leave(Discarded(world))
  /\ \A s : VM!BeginTx(s) <=> BeginTx(s)
  /\ \A w : VM!Leave(w) <=> Leave(w)
  /\ \A at, arg, w : VM!Enter(at, arg, w) <=> Enter(at, arg, w)
BY DEF VM!Idle, Idle, VM!Top, Top, VM!Fail, VM!Revert, Revert, VM!EndTx,
       VM!Discarded, Discarded, VM!CleanSlots, CleanSlots, VM!BeginTx, BeginTx,
       VM!Leave, Leave, VM!Callers, Callers, VM!Enter, Enter, VM!Frame, Frame

LEMMA PermitFields ==
  ASSUME NEW p \in Permits
  PROVE  /\ Permit[p].owner \in Users /\ Permit[p].nonce \in Nat
         /\ Permit[p].program \in Programs /\ p # NoPermit
         /\ Permit[p].permitted \in Seq(Nat) /\ Len(Permit[p].permitted) \in Nat
BY VMAssumption

\* The sums of the model are those of Sums_proofs.
LEMMA VMSum ==
  ASSUME NEW f, NEW S
  PROVE  VM!SumFunctionOnSet(f, S) = SumFunctionOnSet(f, S)
BY DEF VM!SumFunctionOnSet, SumFunctionOnSet, VM!FoldFunctionOnSet, FoldFunctionOnSet,
       VM!MapThenFoldSet, MapThenFoldSet

LEMMA PermittedIsPrefix ==
  ASSUME NEW p \in Permits
  PROVE  /\ VM!Permitted(p) = Prefix(Permit[p].permitted, Len(Permit[p].permitted))
         /\ VM!Permitted(p) \in Nat
<1> DEFINE d == Permit[p].permitted
<1>1. d \in Seq(Nat) /\ Len(d) \in Nat
  BY PermitFields
<1>2. VM!Permitted(p) = SumFunctionOnSet(d, DOMAIN d)
  BY DEF VM!Permitted, VM!FoldSeq, VM!FoldFunction, VM!FoldFunctionOnSet,
         VM!MapThenFoldSet, SumFunctionOnSet, FoldFunctionOnSet, MapThenFoldSet
<1> HIDE DEF d
<1>3. Len(d) <= Len(d)
  BY <1>1
<1> QED
  BY <1>1, <1>2, <1>3, SequenceSum, PrefixNat DEF d

-----------------------------------------------------------------------------
(* The accounts. *)

Keys ==
  [kind : {"wallet"}, owner : Users]
    \union [kind : {"nonce"}, owner : Users, nonce : Nat]
    \union [kind : {"target"}, program : Programs]

Mine(key, p) ==
  CASE key.kind = "wallet" -> Permit[p].owner = key.owner
    [] key.kind = "nonce" -> Permit[p].owner = key.owner /\ Permit[p].nonce = key.nonce
    [] key.kind = "target" -> Permit[p].program = key.program

\* What a complete run of p stands for.
Full(key, p) ==
  IF ~Mine(key, p) THEN 0
  ELSE CASE key.kind = "wallet" -> VM!Permitted(p)
         [] key.kind = "nonce" -> 1
         [] key.kind = "target" -> ProgramAmount[key.program]

\* What a job has done so far; a job of execute does nothing in a permit's name.
Part(key, f) ==
  IF f.at = "batch" \/ f.arg.permit = NoPermit \/ ~Mine(key, f.arg.permit) THEN 0
  ELSE CASE key.kind = "wallet" -> Prefix(Permit[f.arg.permit].permitted, f.arg.i - 1)
         [] key.kind = "nonce" -> 1
         [] key.kind = "target" -> IF f.arg.sent THEN ProgramAmount[key.program] ELSE 0

RunsOf(w) == [p \in Permits |-> SumFunctionOnSet(w.ran[p], Programs)]
Fulls(key, w) == [p \in Permits |-> RunsOf(w)[p] * Full(key, p)]
Parts(key, st) == [i \in 1 .. Len(st) |-> Part(key, st[i])]

Done(key, w) == SumFunctionOnSet(Fulls(key, w), Permits)
Doing(key, st) == SumFunctionOnSet(Parts(key, st), 1 .. Len(st))
Account(key, w, st) == Done(key, w) + Doing(key, st)

Agrees(key, w, a) ==
  CASE key.kind = "wallet" -> w.wallet[key.owner] + a = Purse[key.owner]
    [] key.kind = "nonce" -> a = (IF key.nonce \in w.used[key.owner] THEN 1 ELSE 0)
    [] key.kind = "target" -> w.target[key.program] >= a

\* A job of a permit runs the program that was signed, on all that is permitted.
JobArg == [permit : Permits \union {NoPermit}, program : Programs, i : Nat, sent : BOOLEAN]
JobFits(at, a) ==
  /\ at = "pull" => a.permit # NoPermit /\ ~a.sent
  /\ a.permit # NoPermit =>
       /\ a.program = Permit[a.permit].program
       /\ a.i \in 1 .. Len(Permit[a.permit].permitted) + 1
       /\ at = "program" => a.i = Len(Permit[a.permit].permitted) + 1

VMFrame ==
  [at : {"batch"}, arg : Users, snap : VM!World]
    \union {f \in [at : {"pull", "program"}, arg : JobArg, snap : VM!World] :
              JobFits(f.at, f.arg)}

\* The bottom frame is the transaction.
Bottom(st) == st # << >> => st[1].at = "batch"

VMFit ==
  {pair \in VM!World \X Seq(VMFrame) :
     /\ Bottom(pair[2])
     /\ \A key \in Keys : Agrees(key, pair[1], Account(key, pair[1], pair[2]))}

VMIInv == frames \in Seq(VMFrame) /\ Kept(VMFit, world, frames)

LEMMA VMFitDef ==
  ASSUME NEW w, NEW st
  PROVE  <<w, st>> \in VMFit <=>
           /\ w \in VM!World /\ st \in Seq(VMFrame) /\ Bottom(st)
           /\ \A key \in Keys : Agrees(key, w, Account(key, w, st))
BY DEF VMFit

LEMMA VMWorldFields ==
  ASSUME NEW w \in VM!World
  PROVE  /\ w.bal \in Nat /\ w.paid \in Nat /\ w.wallet \in [Users -> Nat]
         /\ w.used \in [Users -> SUBSET Nat] /\ w.target \in [Programs -> Nat]
         /\ w.ran \in [Permits -> [Programs -> Nat]]
BY DEF VM!World

LEMMA VMFrameFields ==
  ASSUME NEW f \in VMFrame
  PROVE  /\ f.snap \in VM!World
         /\ \/ f.at = "batch" /\ f.arg \in Users
            \/ /\ f.at \in {"pull", "program"} /\ f.arg \in JobArg /\ JobFits(f.at, f.arg)
               /\ f.arg.permit \in Permits \union {NoPermit} /\ f.arg.program \in Programs
               /\ f.arg.i \in Nat /\ f.arg.sent \in BOOLEAN
BY DEF VMFrame, JobArg

LEMMA KeyFields ==
  ASSUME NEW key \in Keys
  PROVE  \/ key.kind = "wallet" /\ key.owner \in Users
         \/ key.kind = "nonce" /\ key.owner \in Users /\ key.nonce \in Nat
         \/ key.kind = "target" /\ key.program \in Programs
BY DEF Keys

LEMMA FullNat ==
  ASSUME NEW key \in Keys, NEW p \in Permits
  PROVE  Full(key, p) \in Nat
<1>1. VM!Permitted(p) \in Nat
  BY PermittedIsPrefix
<1>2. key.kind = "target" => ProgramAmount[key.program] \in Nat
  BY KeyFields, VMAssumption
<1> QED
  BY <1>1, <1>2, KeyFields DEF Full

LEMMA PartNat ==
  ASSUME NEW key \in Keys, NEW f \in VMFrame
  PROVE  Part(key, f) \in Nat
<1>1. CASE f.at = "batch" \/ f.arg.permit = NoPermit
  BY <1>1 DEF Part
<1>2. CASE f.at # "batch" /\ f.arg.permit # NoPermit
  <2> DEFINE d == Permit[f.arg.permit].permitted
             n == f.arg.i - 1
  <2>1. /\ f.arg.permit \in Permits
        /\ f.arg.i \in 1 .. Len(Permit[f.arg.permit].permitted) + 1
    BY <1>2, VMFrameFields DEF JobFits
  <2>2. d \in Seq(Nat) /\ Len(d) \in Nat
    BY <2>1, PermitFields
  <2>3. n \in Nat /\ n <= Len(d)
    BY <2>1, <2>2
  <2>4. Prefix(d, n) \in Nat
    <3> HIDE DEF d, n
    <3> QED
      BY <2>2, <2>3, PrefixNat
  <2>5. key.kind = "target" => ProgramAmount[key.program] \in Nat
    BY KeyFields, VMAssumption
  <2> QED
    BY <2>4, <2>5, KeyFields DEF Part
<1> QED
  BY <1>1, <1>2

LEMMA DoneNat ==
  ASSUME NEW key \in Keys, NEW w \in VM!World
  PROVE  /\ RunsOf(w) \in [Permits -> Nat] /\ Fulls(key, w) \in [Permits -> Nat]
         /\ Fulls(key, w) \in [Permits -> Int] /\ Done(key, w) \in Nat
<1>1. ASSUME NEW p \in Permits PROVE SumFunctionOnSet(w.ran[p], Programs) \in Nat
  <2>1. w.ran[p] \in [Programs -> Nat] /\ Programs \in SUBSET Programs
    BY VMWorldFields
  <2> QED
    BY <2>1, SumNat, VMAssumption
<1>2. RunsOf(w) \in [Permits -> Nat]
  BY <1>1 DEF RunsOf
<1>3. ASSUME NEW p \in Permits PROVE RunsOf(w)[p] * Full(key, p) \in Nat
  <2>1. RunsOf(w)[p] \in Nat /\ Full(key, p) \in Nat
    BY <1>2, FullNat
  <2> QED
    BY <2>1
<1>4. Fulls(key, w) \in [Permits -> Nat]
  BY <1>3 DEF Fulls
<1>5. Done(key, w) \in Nat
  BY <1>4, SumNat, VMAssumption DEF Done
<1> QED
  BY <1>2, <1>4, <1>5

LEMMA DoingNat ==
  ASSUME NEW key \in Keys, NEW st \in Seq(VMFrame)
  PROVE  /\ Len(st) \in Nat /\ IsFiniteSet(1 .. Len(st))
         /\ Parts(key, st) \in [1 .. Len(st) -> Nat]
         /\ Parts(key, st) \in [1 .. Len(st) -> Int] /\ Doing(key, st) \in Nat
<1>1. Len(st) \in Nat /\ \A i \in 1 .. Len(st) : st[i] \in VMFrame
  OBVIOUS
<1>2. IsFiniteSet(1 .. Len(st))
  BY <1>1, FS_Interval
<1>3. Parts(key, st) \in [1 .. Len(st) -> Nat]
  BY <1>1, PartNat DEF Parts
<1>4. Doing(key, st) \in Nat
  BY <1>2, <1>3, SumNat DEF Doing
<1> QED
  BY <1>1, <1>2, <1>3, <1>4

-----------------------------------------------------------------------------
(* How accounts change. *)

\* Stacks that agree on n frames have done the same up to there.
LEMMA SamePart ==
  ASSUME NEW key \in Keys, NEW st \in Seq(VMFrame), NEW su \in Seq(VMFrame), NEW n \in Nat,
         n <= Len(st), n <= Len(su), \A i \in 1 .. n : su[i] = st[i]
  PROVE  SumFunctionOnSet(Parts(key, su), 1 .. n) = SumFunctionOnSet(Parts(key, st), 1 .. n)
<1>1. Len(st) \in Nat /\ Len(su) \in Nat
  OBVIOUS
<1>2. \A i \in 1 .. n : i \in 1 .. Len(st) /\ i \in 1 .. Len(su)
  BY <1>1
<1>3. \A i \in 1 .. n : Parts(key, su)[i] = Parts(key, st)[i]
  BY <1>2 DEF Parts
<1>4. IsFiniteSet(1 .. n)
  BY FS_Interval
<1> QED
  BY <1>3, <1>4, SumSame

\* What the jobs below the top frame, and the top frame, have done.
LEMMA DoingTop ==
  ASSUME NEW key \in Keys, NEW st \in Seq(VMFrame), NEW n \in Nat, Len(st) = n + 1
  PROVE  /\ Doing(key, st) = SumFunctionOnSet(Parts(key, st), 1 .. n) + Part(key, st[n + 1])
         /\ SumFunctionOnSet(Parts(key, st), 1 .. n) \in Nat
         /\ Part(key, st[n + 1]) \in Nat
<1> DEFINE D == 1 .. Len(st)
           S == 1 .. n
           x == n + 1
           f == Parts(key, st)
<1>1. f \in [D -> Nat] /\ f \in [D -> Int]
  BY DoingNat
<1>2. S \in SUBSET D /\ x \in D /\ x \notin S /\ D = S \union {x} /\ n \in Int /\ 1 \in Int
  OBVIOUS
<1>3. IsFiniteSet(S)
  BY <1>2, FS_Interval
<1>4. f[x] = Part(key, st[x])
  BY <1>2 DEF Parts
<1>5. Doing(key, st) = SumFunctionOnSet(f, D)
  BY DEF Doing
<1> HIDE DEF f, D, S, x
<1>6. SumFunctionOnSet(f, S \union {x}) = f[x] + SumFunctionOnSet(f, S)
  BY <1>1, <1>2, <1>3, SumAdd
<1>7. f[x] \in Nat /\ SumFunctionOnSet(f, S) \in Nat
  BY <1>1, <1>2, <1>3, SumNat
<1>8. Doing(key, st) = SumFunctionOnSet(f, S) + f[x]
  BY <1>2, <1>5, <1>6, <1>7
<1> QED
  BY <1>4, <1>7, <1>8 DEF S, x, f

LEMMA DoingNothing ==
  ASSUME NEW key
  PROVE  Doing(key, << >>) = 0
<1>1. 1 .. Len(<< >>) = {}
  OBVIOUS
<1> QED
  BY <1>1, SumEmpty DEF Doing

LEMMA DoingEnter ==
  ASSUME NEW key \in Keys, NEW st \in Seq(VMFrame), NEW f \in VMFrame
  PROVE  Doing(key, Append(st, f)) = Doing(key, st) + Part(key, f)
<1> DEFINE su == Append(st, f)
           n == Len(st)
<1>1. /\ su \in Seq(VMFrame) /\ n \in Nat /\ Len(su) = n + 1
      /\ su[n + 1] = f /\ \A i \in 1 .. n : su[i] = st[i]
  BY AppendProperties
<1> HIDE DEF su, n
<1>2. /\ Doing(key, su) = SumFunctionOnSet(Parts(key, su), 1 .. n) + Part(key, su[n + 1])
  BY <1>1, DoingTop
<1>3. SumFunctionOnSet(Parts(key, su), 1 .. n) = SumFunctionOnSet(Parts(key, st), 1 .. n)
  <2>1. n <= Len(st) /\ n <= Len(su)
    BY <1>1 DEF n
  <2> QED
    BY <1>1, <2>1, SamePart
<1>4. SumFunctionOnSet(Parts(key, st), 1 .. n) = Doing(key, st)
  BY DEF Doing, n
<1> QED
  BY <1>1, <1>2, <1>3, <1>4 DEF su

LEMMA DoingLeave ==
  ASSUME NEW key \in Keys, NEW st \in Seq(VMFrame), st # << >>
  PROVE  Doing(key, st) = Doing(key, Below(st, Len(st) - 1)) + Part(key, st[Len(st)])
<1> DEFINE n == Len(st) - 1
           su == Below(st, n)
<1>1. /\ Len(st) \in Nat /\ n \in Nat /\ Len(st) = n + 1
      /\ su \in Seq(VMFrame) /\ Len(su) = n /\ \A i \in 1 .. n : su[i] = st[i]
  <2>1. Len(st) \in Nat /\ Len(st) > 0
    BY EmptySeq
  <2> QED
    BY <2>1, CallersOf
<1> HIDE DEF su, n
<1>2. Doing(key, st) = SumFunctionOnSet(Parts(key, st), 1 .. n) + Part(key, st[n + 1])
  BY <1>1, DoingTop
<1>3. SumFunctionOnSet(Parts(key, su), 1 .. n) = SumFunctionOnSet(Parts(key, st), 1 .. n)
  <2>1. n <= Len(st) /\ n <= Len(su)
    BY <1>1
  <2> QED
    BY <1>1, <2>1, SamePart
<1>4. SumFunctionOnSet(Parts(key, su), 1 .. n) = Doing(key, su)
  BY <1>1 DEF Doing
<1>5. Doing(key, st) = Doing(key, su) + Part(key, st[Len(st)])
  BY <1>1, <1>2, <1>3, <1>4
<1> QED
  BY <1>5 DEF su, n

LEMMA DoingMove ==
  ASSUME NEW key \in Keys, NEW st \in Seq(VMFrame), st # << >>, NEW g \in VMFrame
  PROVE  /\ [st EXCEPT ![Len(st)] = g] \in Seq(VMFrame)
         /\ Doing(key, [st EXCEPT ![Len(st)] = g]) + Part(key, st[Len(st)])
              = Doing(key, st) + Part(key, g)
<1> DEFINE n == Len(st) - 1
           su == [st EXCEPT ![Len(st)] = g]
<1>1. Len(st) \in Nat /\ Len(st) > 0
  BY EmptySeq
<1>2. /\ n \in Nat /\ Len(st) = n + 1
      /\ su \in Seq(VMFrame) /\ Len(su) = n + 1 /\ su[n + 1] = g
      /\ \A i \in 1 .. n : su[i] = st[i]
  <2>1. su \in Seq(VMFrame) /\ Len(su) = Len(st)
    BY <1>1, ExceptSeq
  <2>2. su[Len(st)] = g /\ \A i \in 1 .. Len(st) - 1 : su[i] = st[i]
    BY <1>1
  <2> HIDE DEF su
  <2> QED
    BY <1>1, <2>1, <2>2
<1> HIDE DEF su, n
<1>3. /\ Doing(key, st) = SumFunctionOnSet(Parts(key, st), 1 .. n) + Part(key, st[n + 1])
      /\ Doing(key, su) = SumFunctionOnSet(Parts(key, su), 1 .. n) + Part(key, su[n + 1])
      /\ SumFunctionOnSet(Parts(key, st), 1 .. n) \in Nat
      /\ Part(key, st[n + 1]) \in Nat /\ Part(key, su[n + 1]) \in Nat
  BY <1>2, DoingTop
<1>4. SumFunctionOnSet(Parts(key, su), 1 .. n) = SumFunctionOnSet(Parts(key, st), 1 .. n)
  <2>1. n <= Len(st) /\ n <= Len(su)
    BY <1>2
  <2> QED
    BY <1>2, <2>1, SamePart
<1>5. Doing(key, su) + Part(key, st[n + 1]) = Doing(key, st) + Part(key, g)
  <2> DEFINE b == SumFunctionOnSet(Parts(key, st), 1 .. n)
             x == Part(key, st[n + 1])
             y == Part(key, g)
  <2>1. Doing(key, su) = b + y /\ Doing(key, st) = b + x /\ b \in Nat /\ x \in Nat /\ y \in Nat
    BY <1>2, <1>3, <1>4
  <2> HIDE DEF b, x, y
  <2>2. (b + y) + x = (b + x) + y
    BY <2>1
  <2> QED
    BY <2>1, <2>2 DEF x, y
<1> QED
  BY <1>2, <1>5 DEF su

LEMMA BottomKept ==
  ASSUME NEW st \in Seq(VMFrame), Bottom(st), NEW f \in VMFrame
  PROVE  /\ st # << >> \/ f.at = "batch" => Bottom(Append(st, f))
         /\ st # << >> => Bottom(Below(st, Len(st) - 1))
         /\ st # << >> /\ st[Len(st)].at # "batch" =>
              Bottom([st EXCEPT ![Len(st)] = f])
<1>1. Len(st) \in Nat /\ (st # << >> => Len(st) > 0)
  BY EmptySeq
<1>2. st # << >> \/ f.at = "batch" => Bottom(Append(st, f))
  <2> DEFINE su == Append(st, f)
  <2>1. su[Len(st) + 1] = f /\ \A i \in 1 .. Len(st) : su[i] = st[i]
    BY AppendProperties
  <2>2. st = << >> => Len(st) = 0
    OBVIOUS
  <2> HIDE DEF su
  <2>3. CASE st # << >>
    <3>1. su[1] = st[1]
      BY <1>1, <2>1, <2>3
    <3> QED
      BY <2>3, <3>1 DEF Bottom, su
  <2>4. CASE st = << >>
    <3>1. su[1] = f
      BY <2>1, <2>2, <2>4
    <3> QED
      BY <2>4, <3>1 DEF Bottom, su
  <2> QED
    BY <2>3, <2>4
<1>3. st # << >> => Bottom(Below(st, Len(st) - 1))
  <2> DEFINE su == Below(st, Len(st) - 1)
  <2> SUFFICES ASSUME st # << >>, su # << >> PROVE su[1] = st[1]
    BY DEF Bottom
  <2>1. su \in Seq(VMFrame) /\ \A j \in 1 .. Len(su) : su[j] = st[j]
    BY CallersOf
  <2> HIDE DEF su
  <2>2. 1 \in 1 .. Len(su)
    BY <2>1, EmptySeq
  <2> QED
    BY <2>1, <2>2
<1>4. st # << >> /\ st[Len(st)].at # "batch" => Bottom([st EXCEPT ![Len(st)] = f])
  <2> SUFFICES ASSUME st # << >>, st[Len(st)].at # "batch"
               PROVE  [st EXCEPT ![Len(st)] = f][1] = st[1]
    BY DEF Bottom
  <2>1. Len(st) # 1 /\ 1 \in DOMAIN st
    BY <1>1 DEF Bottom
  <2> QED
    BY <2>1
<1> QED
  BY <1>2, <1>3, <1>4

LEMMA DoneSame ==
  ASSUME NEW key, NEW w, NEW v, v.ran = w.ran
  PROVE  Done(key, v) = Done(key, w)
BY DEF Done, Fulls, RunsOf

LEMMA OnceMore ==
  ASSUME NEW r \in Nat, NEW k \in Nat
  PROVE  (r + 1) * k - r * k = k
OBVIOUS

\* One run more of p.
LEMMA DoneRun ==
  ASSUME NEW key \in Keys, NEW w \in VM!World, NEW v \in VM!World, NEW p \in Permits,
         NEW g \in Programs, v.ran = [w.ran EXCEPT ![p][g] = @ + 1]
  PROVE  Done(key, v) = Done(key, w) + Full(key, p)
<1> DEFINE F == Fulls(key, w)
           G == Fulls(key, v)
           a == w.ran[p]
           b == v.ran[p]
<1>1. w.ran \in [Permits -> [Programs -> Nat]] /\ RunsOf(w) \in [Permits -> Nat]
  BY VMWorldFields, DoneNat
<1>2. b = [a EXCEPT ![g] = @ + 1] /\ a \in [Programs -> Nat]
      /\ \A q \in Permits \ {p} : v.ran[q] = w.ran[q]
  BY <1>1
<1>3. SumFunctionOnSet(b, Programs) = SumFunctionOnSet(a, Programs) + 1
  <2> HIDE DEF a, b
  <2>1. /\ a \in [Programs -> Int] /\ b \in [Programs -> Int] /\ a[g] \in Nat
        /\ b[g] = a[g] + 1 /\ \A h \in Programs \ {g} : b[h] = a[h]
        /\ IsFiniteSet(Programs) /\ Programs \in SUBSET Programs
    BY <1>2, VMAssumption
  <2>2. SumFunctionOnSet(b, Programs) = SumFunctionOnSet(a, Programs) + b[g] - a[g]
    BY <2>1, SumChange
  <2> DEFINE s == SumFunctionOnSet(a, Programs)
  <2>3. s \in Nat
    BY <1>2, <2>1, SumNat
  <2> HIDE DEF s
  <2>4. s + b[g] - a[g] = s + 1
    BY <2>1, <2>3
  <2> QED
    BY <2>2, <2>4 DEF s
<1>4. RunsOf(v)[p] = RunsOf(w)[p] + 1
      /\ \A q \in Permits \ {p} : RunsOf(v)[q] = RunsOf(w)[q]
  BY <1>2, <1>3 DEF RunsOf
<1>5. /\ F \in [Permits -> Int] /\ G \in [Permits -> Int]
      /\ \A q \in Permits \ {p} : G[q] = F[q]
      /\ F[p] = RunsOf(w)[p] * Full(key, p) /\ G[p] = (RunsOf(w)[p] + 1) * Full(key, p)
  <2>1. F \in [Permits -> Int] /\ G \in [Permits -> Int]
    BY DoneNat
  <2>2. \A q \in Permits : /\ F[q] = RunsOf(w)[q] * Full(key, q)
                           /\ G[q] = RunsOf(v)[q] * Full(key, q)
    BY DEF Fulls
  <2> HIDE DEF F, G
  <2> QED
    BY <1>4, <2>1, <2>2
<1> HIDE DEF F, G
<1>6. SumFunctionOnSet(G, Permits) = SumFunctionOnSet(F, Permits) + G[p] - F[p]
  <2>1. Permits \in SUBSET Permits /\ IsFiniteSet(Permits)
    BY VMAssumption
  <2>2. /\ F \in [Permits -> Int] /\ G \in [Permits -> Int]
        /\ \A q \in Permits \ {p} : G[q] = F[q]
    BY <1>5
  <2> QED
    BY <2>1, <2>2, SumChange
<1>7. G[p] - F[p] = Full(key, p)
  <2>1. RunsOf(w)[p] \in Nat /\ Full(key, p) \in Nat
    BY <1>1, FullNat
  <2> QED
    BY <1>5, <2>1, OnceMore
<1>8. SumFunctionOnSet(G, Permits) = SumFunctionOnSet(F, Permits) + Full(key, p)
  <2> DEFINE s == SumFunctionOnSet(F, Permits)
             k == Full(key, p)
  <2>1. s \in Int /\ G[p] \in Int /\ F[p] \in Int /\ k \in Nat
    BY <1>5, SumInt, FullNat, VMAssumption
  <2> HIDE DEF s, k
  <2>2. \A x \in Int, y \in Int : x - y = k => s + x - y = s + k
    BY <2>1
  <2>3. G[p] - F[p] = k
    BY <1>7 DEF k
  <2>4. s + G[p] - F[p] = s + k
    BY <2>1, <2>2, <2>3
  <2> QED
    BY <1>6, <2>4 DEF s, k
<1> QED
  BY <1>8 DEF Done, F, G

-----------------------------------------------------------------------------
(* The steps of DeFiVM. *)

\* Where a step of the VM finds itself.
LEMMA VMHere ==
  ASSUME VMIInv
  PROVE  /\ <<world, frames>> \in VMFit /\ world \in VM!World /\ frames \in Seq(VMFrame)
         /\ Bottom(frames)
         /\ \A key \in Keys : /\ Agrees(key, world, Account(key, world, frames))
                              /\ Done(key, world) \in Nat /\ Doing(key, frames) \in Nat
<1>1. <<world, frames>> \in VMFit
  BY DEF VMIInv, Kept
<1>2. world \in VM!World /\ frames \in Seq(VMFrame) /\ Bottom(frames)
      /\ \A key \in Keys : Agrees(key, world, Account(key, world, frames))
  BY <1>1, VMFitDef
<1> QED
  BY <1>1, <1>2, DoneNat, DoingNat

LEMMA VMTop ==
  ASSUME VMIInv, ~Idle
  PROVE  /\ frames # << >> /\ Len(frames) \in Nat /\ Len(frames) > 0
         /\ Top = frames[Len(frames)] /\ Top \in VMFrame
<1>1. frames \in Seq(VMFrame) /\ frames # << >>
  BY DEF VMIInv, Idle
<1>2. Len(frames) \in Nat /\ Len(frames) > 0
  BY <1>1, EmptySeq
<1>3. Len(frames) \in 1 .. Len(frames)
  BY <1>2
<1> QED
  BY <1>1, <1>2, <1>3 DEF Top

\* Agreement speaks of three fields only.
LEMMA AgreesSame ==
  ASSUME NEW key, NEW w, NEW v, NEW a, Agrees(key, w, a),
         v.wallet = w.wallet, v.used = w.used, v.target = w.target
  PROVE  Agrees(key, v, a)
BY DEF Agrees

\* A frame that does nothing in a permit's name is entered or left.
LEMMA VMEntersIdly ==
  ASSUME VMIInv, NEW at, NEW arg, Enter(at, arg, world), Frame(at, arg) \in VMFrame,
         Idle => at = "batch",
         \A key \in Keys : Part(key, Frame(at, arg)) = 0
  PROVE  VMIInv'
<1> DEFINE f == Frame(at, arg)
           su == Append(frames, f)
<1>1. /\ world \in VM!World /\ frames \in Seq(VMFrame)
      /\ \A key \in Keys : /\ Agrees(key, world, Account(key, world, frames))
                           /\ Doing(key, frames) \in Nat
  BY VMHere
<1>2. su \in Seq(VMFrame) /\ frames' = su
  BY <1>1 DEF Enter
<1>3. ASSUME NEW key \in Keys PROVE Agrees(key, world, Account(key, world, su))
  <2>1. Doing(key, su) = Doing(key, frames) + 0
    BY <1>1, DoingEnter
  <2>2. Doing(key, su) = Doing(key, frames)
    BY <1>1, <2>1
  <2>3. Account(key, world, su) = Account(key, world, frames)
    BY <2>2 DEF Account
  <2> QED
    BY <1>1, <2>3
<1>4. <<world, su>> \in VMFit
  <2>1. f.at = at /\ Bottom(frames)
    BY VMHere DEF Frame
  <2>2. Bottom(su)
    BY <1>1, <2>1, BottomKept DEF Idle
  <2> QED
    BY <1>1, <1>2, <1>3, <2>2, VMFitDef
<1>5. Kept(VMFit, world', frames')
  BY <1>4, EnterKeeps DEF VMIInv
<1> QED
  BY <1>2, <1>5 DEF VMIInv

LEMMA VMLeavesWith ==
  ASSUME VMIInv, ~Idle, NEW v \in VM!World, Leave(v),
         \A key \in Keys : Agrees(key, v, Account(key, v, Below(frames, Len(frames) - 1)))
  PROVE  VMIInv'
<1> DEFINE su == Below(frames, Len(frames) - 1)
<1>1. frames \in Seq(VMFrame) /\ frames # << >>
  BY VMTop, VMHere
<1>2. su \in Seq(VMFrame) /\ frames' = su /\ world' = v
  BY <1>1, CallersOf DEF Leave, Callers, Below
<1>3. <<v, su>> \in VMFit
  <2>1. Bottom(su)
    BY <1>1, VMHere, VMTop, BottomKept
  <2> QED
    BY <1>2, <2>1, VMFitDef
<1>4. Kept(VMFit, v, su)
  BY <1>1, <1>3, KeptLeave DEF VMIInv
<1> QED
  BY <1>2, <1>4 DEF VMIInv

LEMMA VMMovesTo ==
  ASSUME VMIInv, ~Idle, NEW v \in VM!World, world' = v, NEW g \in VMFrame,
         frames' = [frames EXCEPT ![Len(frames)] = g], g.snap = Top.snap,
         Top.at # "batch",
         v.ran = world.ran,
         \A key \in Keys : \A a \in Nat, b \in Nat :
           b + Part(key, Top) = a + Part(key, g) /\ Agrees(key, world, a) => Agrees(key, v, b)
  PROVE  VMIInv'
<1> DEFINE su == [frames EXCEPT ![Len(frames)] = g]
<1>1. /\ frames \in Seq(VMFrame) /\ frames # << >> /\ Top = frames[Len(frames)]
      /\ Top \in VMFrame
  BY VMTop, VMHere
<1>2. su \in Seq(VMFrame)
  BY <1>1, ExceptSeq, EmptySeq
<1>3. ASSUME NEW key \in Keys PROVE Agrees(key, v, Account(key, v, su))
  <2> DEFINE a == Account(key, world, frames)
             b == Account(key, v, su)
  <2>1. /\ Done(key, world) \in Nat /\ Doing(key, frames) \in Nat /\ Doing(key, su) \in Nat
        /\ Done(key, v) = Done(key, world) /\ Agrees(key, world, a)
    BY <1>2, VMHere, DoingNat, DoneSame
  <2>2. Doing(key, su) + Part(key, Top) = Doing(key, frames) + Part(key, g)
    BY <1>1, DoingMove
  <2>3. Part(key, Top) \in Nat /\ Part(key, g) \in Nat
    BY <1>1, PartNat
  <2>4. b + Part(key, Top) = a + Part(key, g) /\ a \in Nat /\ b \in Nat
    <3> DEFINE d == Done(key, world)
               x == Doing(key, frames)
               y == Doing(key, su)
               s == Part(key, Top)
               t == Part(key, g)
    <3>1. a = d + x /\ b = d + y
      BY <2>1 DEF Account
    <3>2. y + s = x + t /\ d \in Nat /\ x \in Nat /\ y \in Nat /\ s \in Nat /\ t \in Nat
      BY <2>1, <2>2, <2>3
    <3> HIDE DEF d, x, y, s, t, a, b
    <3>3. (d + y) + s = (d + x) + t /\ d + x \in Nat /\ d + y \in Nat
      BY <3>2
    <3> QED
      BY <3>1, <3>3 DEF s, t
  <2> HIDE DEF a, b
  <2>5. Agrees(key, v, b)
    BY <2>1, <2>4
  <2> QED
    BY <2>5 DEF b
<1>4. <<v, su>> \in VMFit
  <2>1. Bottom(su)
    BY <1>1, VMHere, BottomKept
  <2> QED
    BY <1>2, <1>3, <2>1, VMFitDef
<1>5. Kept(VMFit, v, su)
  BY <1>1, <1>4, KeptMove DEF VMIInv
<1> QED
  BY <1>2, <1>5 DEF VMIInv

LEMMA VMExecutes ==
  ASSUME VMIInv, NEW g \in Programs, VM!Execute(g)
  PROVE  VMIInv'
<1> DEFINE f == Frame("program", VM!Job(NoPermit, g))
<1>1. Enter("program", VM!Job(NoPermit, g), world) /\ world \in VM!World /\ ~Idle
  BY VMStack, VMHere DEF VM!Execute, VM!External
<1>2. f \in VMFrame
  BY <1>1 DEF Frame, VM!Job, VMFrame, JobArg, JobFits
<1>3. \A key \in Keys : Part(key, f) = 0
  BY DEF Part, Frame, VM!Job
<1> QED
  BY <1>1, <1>2, <1>3, VMEntersIdly

LEMMA VMAccepts ==
  ASSUME VMIInv, NEW p \in Permits, NEW g \in Programs, VM!ExecuteWithPermit2(p, g)
  PROVE  VMIInv'
<1> DEFINE o == Permit[p].owner
           n == Permit[p].nonce
           f == Frame("pull", VM!Job(p, g))
           v == [world EXCEPT !.used[o] = @ \union {n}]
           su == Append(frames, f)
<1>1. /\ Enter("pull", VM!Job(p, g), v) /\ g = Permit[p].program /\ n \notin world.used[o]
  BY VMStack DEF VM!ExecuteWithPermit2, VM!Accepted, VM!Witness
<1>2. /\ world \in VM!World /\ frames \in Seq(VMFrame)
      /\ \A key \in Keys : /\ Agrees(key, world, Account(key, world, frames))
                           /\ Done(key, world) \in Nat /\ Doing(key, frames) \in Nat
  BY VMHere
<1>3. o \in Users /\ n \in Nat /\ p # NoPermit /\ Len(Permit[p].permitted) \in Nat
      /\ world.used \in [Users -> SUBSET Nat]
  BY <1>2, PermitFields, VMWorldFields
<1>4. f \in VMFrame
  <2>1. 1 \in 1 .. Len(Permit[p].permitted) + 1
    BY <1>3
  <2> QED
    BY <1>1, <1>2, <1>3, <2>1 DEF Frame, VM!Job, VMFrame, JobArg, JobFits
<1>5. /\ v \in VM!World /\ v.wallet = world.wallet /\ v.target = world.target
      /\ v.ran = world.ran /\ v.used = [world.used EXCEPT ![o] = @ \union {n}]
  <2>1. [world.used EXCEPT ![o] = @ \union {n}] \in [Users -> SUBSET Nat]
    BY <1>3
  <2> HIDE DEF o, n
  <2> QED
    BY <1>2, <2>1 DEF VM!World
<1>6. \A u \in Users, m \in Nat : m \in v.used[u] <=> m \in world.used[u] \/ (u = o /\ m = n)
  <2> HIDE DEF o, n, v
  <2> QED
    BY <1>3, <1>5
<1>7. ASSUME NEW key \in Keys PROVE Agrees(key, v, Account(key, v, su))
  <2>1. Part(key, f) = IF key.kind = "nonce" /\ Mine(key, p) THEN 1 ELSE 0
    <3>1. Prefix(Permit[p].permitted, 1 - 1) = 0
      BY PrefixNone
    <3>2. f.at = "pull" /\ f.arg.permit = p /\ f.arg.i = 1 /\ f.arg.sent = FALSE
      BY DEF Frame, VM!Job
    <3> HIDE DEF f
    <3> QED
      BY <1>3, <3>1, <3>2, KeyFields DEF Part
  <2> DEFINE d == Done(key, world)
             x == Doing(key, frames)
             k == Part(key, f)
  <2>2. /\ Done(key, v) = d /\ Doing(key, su) = x + k
        /\ d \in Nat /\ x \in Nat /\ Agrees(key, world, d + x)
    BY <1>2, <1>4, <1>5, DoneSame, DoingEnter DEF Account
  <2> HIDE DEF d, x, k
  <2>3. Account(key, v, su) = d + (x + k)
    BY <2>2 DEF Account
  <2>4. CASE key.kind = "nonce" /\ Mine(key, p)
    <3>1. k = 1 /\ key.owner = o /\ key.nonce = n
      BY <2>1, <2>4 DEF Mine, k
    <3>2. d + x = 0
      BY <1>1, <2>2, <2>4, <3>1 DEF Agrees
    <3>3. d + (x + 1) = 1
      BY <2>2, <3>2
    <3>4. key.nonce \in v.used[key.owner]
      BY <1>3, <1>6, <3>1
    <3> QED
      BY <2>3, <2>4, <3>1, <3>3, <3>4 DEF Agrees
  <2>5. CASE ~(key.kind = "nonce" /\ Mine(key, p))
    <3>1. k = 0
      BY <2>1, <2>5 DEF k
    <3>2. d + (x + 0) = d + x
      BY <2>2
    <3>3. key.kind = "nonce" => (key.nonce \in v.used[key.owner]
                                   <=> key.nonce \in world.used[key.owner])
      BY <1>6, <2>5, KeyFields DEF Mine
    <3>4. Agrees(key, v, d + x)
      BY <1>5, <2>2, <3>3, KeyFields DEF Agrees
    <3> QED
      BY <2>3, <3>1, <3>2, <3>4
  <2> QED
    BY <2>4, <2>5
<1>8. su \in Seq(VMFrame) /\ frames' = su
  BY <1>1, <1>2, <1>4 DEF Enter
<1>9. <<v, su>> \in VMFit
  <2>1. Bottom(frames) /\ frames # << >>
    BY VMHere, VMStack DEF VM!ExecuteWithPermit2, VM!External, Idle
  <2>2. Bottom(su)
    BY <1>2, <1>4, <2>1, BottomKept
  <2> QED
    BY <1>5, <1>7, <1>8, <2>2, VMFitDef
<1>10. Kept(VMFit, world', frames')
  BY <1>1, <1>4, <1>9, EnterKeeps DEF VMIInv
<1> QED
  BY <1>8, <1>10 DEF VMIInv

\* Where the running job is.
LEMMA VMAt ==
  ASSUME VMIInv, NEW step, VM!At(step), step # "batch"
  PROVE  /\ ~Idle /\ Top.at = step /\ Top \in VMFrame /\ VM!Top = Top
         /\ Top = frames[Len(frames)]
         /\ Top.at \in {"pull", "program"} /\ Top.arg \in JobArg /\ JobFits(Top.at, Top.arg)
         /\ Top.arg.permit \in Permits \union {NoPermit} /\ Top.arg.program \in Programs
         /\ Top.arg.i \in Nat /\ Top.arg.sent \in BOOLEAN
<1>1. ~Idle /\ Top.at = step /\ VM!Top = Top
  BY VMStack DEF VM!At
<1>2. Top \in VMFrame /\ Top = frames[Len(frames)]
  BY <1>1, VMTop
<1> QED
  BY <1>1, <1>2, VMFrameFields

\* The sum of what went and what is left.
LEMMA Spends ==
  ASSUME NEW w \in Nat, NEW x \in Nat, x <= w, NEW a \in Nat, NEW b \in Nat,
         NEW s \in Nat, b + s = a + (s + x)
  PROVE  (w - x) + b = w + a /\ w - x \in Nat
OBVIOUS

LEMMA SameSum ==
  ASSUME NEW a \in Nat, NEW b \in Nat, NEW s \in Nat, b + s = a + s
  PROVE  a = b
OBVIOUS

LEMMA VMPulls ==
  ASSUME VMIInv, VM!Pull
  PROVE  VMIInv'
<1> DEFINE f == Top
           p == f.arg.permit
           o == Permit[p].owner
           i == f.arg.i
           d == Permit[p].permitted
           x == d[i]
           g == [f EXCEPT !.arg.i = i + 1]
           v == [world EXCEPT !.wallet[o] = @ - x, !.bal = @ + x]
<1>1. /\ ~Idle /\ f.at = "pull" /\ f \in VMFrame /\ f = frames[Len(frames)]
      /\ f.arg \in JobArg /\ JobFits("pull", f.arg) /\ VM!Top = f
  BY VMAt DEF VM!Pull
<1>2. /\ i <= Len(d) /\ x <= world.wallet[o] /\ world' = v
      /\ frames' = [frames EXCEPT ![Len(frames)].arg.i = @ + 1]
  BY <1>1 DEF VM!Pull, VM!RequestedAmount
<1>3. frames' = [frames EXCEPT ![Len(frames)] = g]
  BY <1>1, <1>2
<1>4. /\ p \in Permits /\ f.arg.program = Permit[p].program /\ i \in Nat /\ i > 0
      /\ f.arg.sent = FALSE
  <2>1. p \in Permits /\ f.arg.program = Permit[p].program
        /\ i \in 1 .. Len(Permit[p].permitted) + 1 /\ ~f.arg.sent
    BY <1>1 DEF JobFits, JobArg
  <2>2. Len(Permit[p].permitted) \in Nat
    BY <2>1, PermitFields
  <2> QED
    BY <1>1, <2>1, <2>2 DEF JobArg
<1>5. o \in Users /\ d \in Seq(Nat)
  BY <1>4, PermitFields
<1>6. /\ Len(d) \in Nat /\ i + 1 \in 1 .. Len(d) + 1 /\ i + 1 - 1 = i
      /\ x \in Nat /\ Prefix(d, i - 1) \in Nat
      /\ Prefix(d, i) = Prefix(d, i - 1) + x
  <2>1. i \in Nat /\ i > 0 /\ i <= Len(d) /\ d \in Seq(Nat)
    BY <1>2, <1>4, <1>5
  <2> HIDE DEF d, i, v, g
  <2> QED
    BY <2>1, PrefixAt
<1>7. /\ g \in VMFrame /\ g.snap = f.snap /\ g.at = "pull" /\ g.arg.permit = p
      /\ g.arg.i = i + 1 /\ g.arg.sent = FALSE
  <2> DEFINE arg == [f.arg EXCEPT !.i = i + 1]
  <2>1. /\ arg \in JobArg /\ arg.permit = p /\ arg.program = f.arg.program
        /\ arg.i = i + 1 /\ arg.sent = FALSE
    <3>1. i + 1 \in Nat /\ f.arg \in JobArg /\ f.arg.sent = FALSE
      BY <1>1, <1>4
    <3> HIDE DEF v, g, x, d, o, i
    <3> QED
      BY <3>1 DEF JobArg
  <2>2. g = [f EXCEPT !.arg = arg]
    BY <1>1 DEF VMFrame
  <2> HIDE DEF arg, g
  <2>3. JobFits("pull", arg)
    BY <1>4, <1>6, <2>1, PermitFields DEF JobFits
  <2> QED
    BY <1>1, <2>1, <2>2, <2>3 DEF VMFrame
<1> HIDE DEF g
<1>8. ASSUME NEW key \in Keys
      PROVE  /\ Part(key, f) \in Nat
             /\ Part(key, g) = Part(key, f) + (IF key.kind = "wallet" /\ key.owner = o
                                                 THEN x ELSE 0)
  <2>1. Part(key, f) \in Nat
    BY <1>1, PartNat
  <2>2. CASE Mine(key, p) /\ key.kind = "wallet"
    <3>1. key.owner = o
      BY <2>2 DEF Mine
    <3>2. p # NoPermit /\ f.at # "batch" /\ g.at # "batch"
      BY <1>1, <1>4, <1>7, PermitFields
    <3>3. Part(key, f) = Prefix(d, i - 1) /\ Part(key, g) = Prefix(d, g.arg.i - 1)
      <4>1. ASSUME NEW e, e.at # "batch", e.arg.permit = p
            PROVE  Part(key, e) = Prefix(d, e.arg.i - 1)
        <5> HIDE DEF p
        <5> QED
          BY <2>2, <3>2, <4>1 DEF Part
      <4>2. f.arg.permit = p /\ f.arg.i - 1 = i - 1
        OBVIOUS
      <4> HIDE DEF d, p, f, i
      <4> QED
        BY <1>7, <3>2, <4>1, <4>2, Zenon
    <3>4. g.arg.i - 1 = i
      <4>1. g.arg.i = i + 1 /\ i \in Nat
        BY <1>4, <1>7
      <4> HIDE DEF i
      <4> QED
        BY <4>1
    <3> QED
      BY <1>6, <2>2, <3>1, <3>3, <3>4
  <2>3. CASE ~(Mine(key, p) /\ key.kind = "wallet")
    <3>1. ~(key.kind = "wallet" /\ key.owner = o)
      BY <2>3 DEF Mine
    <3>2. Part(key, g) = Part(key, f)
      BY <1>1, <1>4, <1>7, <2>3, KeyFields DEF Part
    <3>3. Part(key, f) + 0 = Part(key, f)
      BY <2>1
    <3> QED
      BY <2>1, <3>1, <3>2, <3>3
  <2> QED
    BY <2>1, <2>2, <2>3
<1> HIDE DEF d, x, i, o, p
<1>9. world \in VM!World /\ world.wallet \in [Users -> Nat] /\ world.bal \in Nat
      /\ world.wallet[o] \in Nat
  BY <1>5, VMHere, VMWorldFields
<1>10. /\ v \in VM!World /\ v.used = world.used /\ v.target = world.target
       /\ v.ran = world.ran
       /\ \A u \in Users : v.wallet[u] = IF u = o THEN world.wallet[u] - x ELSE world.wallet[u]
  <2>1. world.wallet[o] - x \in Nat /\ world.bal + x \in Nat
    BY <1>2, <1>6, <1>9
  <2> QED
    BY <1>5, <1>9, <2>1 DEF VM!World
<1> HIDE DEF v
<1>11. ASSUME NEW key \in Keys, NEW a \in Nat, NEW b \in Nat,
              b + Part(key, f) = a + Part(key, g), Agrees(key, world, a)
       PROVE  Agrees(key, v, b)
  <2>1. CASE key.kind = "wallet" /\ key.owner = o
    <3> DEFINE s == Part(key, f)
               w == world.wallet[o]
    <3>1. b + s = a + (s + x) /\ s \in Nat
      BY <1>8, <1>11, <2>1
    <3>2. w + a = Purse[o] /\ w \in Nat /\ v.wallet[o] = w - x
      BY <1>5, <1>9, <1>10, <1>11, <2>1 DEF Agrees
    <3>3. x <= w /\ x \in Nat
      BY <1>2, <1>6
    <3> HIDE DEF s, w
    <3>4. (w - x) + b = w + a
      BY <3>1, <3>2, <3>3, Spends
    <3> QED
      BY <2>1, <3>2, <3>4 DEF Agrees
  <2>2. CASE ~(key.kind = "wallet" /\ key.owner = o)
    <3>1. Part(key, g) = Part(key, f) /\ Part(key, f) \in Nat
      BY <1>8, <2>2
    <3>2. a = b
      BY <1>11, <3>1, SameSum
    <3> QED
      BY <1>10, <1>11, <2>2, <3>2, KeyFields DEF Agrees
  <2> QED
    BY <2>1, <2>2
<1> QED
  BY <1>1, <1>2, <1>3, <1>7, <1>10, <1>11, VMMovesTo

LEMMA VMRuns ==
  ASSUME VMIInv, VM!Run
  PROVE  VMIInv'
<1> DEFINE f == Top
           g == [f EXCEPT !.at = "program"]
<1>1. /\ ~Idle /\ f.at = "pull" /\ f \in VMFrame /\ f = frames[Len(frames)]
      /\ f.arg \in JobArg /\ JobFits("pull", f.arg) /\ VM!Top = f
  BY VMAt DEF VM!Run
<1>2. /\ f.arg.i > Len(Permit[f.arg.permit].permitted) /\ world' = world
      /\ frames' = [frames EXCEPT ![Len(frames)].at = "program"]
  BY <1>1 DEF VM!Run, VM!MoveTo
<1>3. frames' = [frames EXCEPT ![Len(frames)] = g]
  BY <1>1, <1>2
<1>4. f.arg.i = Len(Permit[f.arg.permit].permitted) + 1
  <2>1. f.arg.permit \in Permits
        /\ f.arg.i \in 1 .. Len(Permit[f.arg.permit].permitted) + 1
    BY <1>1 DEF JobFits, JobArg
  <2>2. Len(Permit[f.arg.permit].permitted) \in Nat
    BY <2>1, PermitFields
  <2> DEFINE n == Len(Permit[f.arg.permit].permitted)
             i == f.arg.i
  <2>3. i > n /\ i \in 1 .. n + 1 /\ n \in Nat
    BY <1>2, <2>1, <2>2
  <2>4. i = n + 1
    <3> HIDE DEF i, n
    <3> QED
      BY <2>3
  <2> QED
    BY <2>4
<1>5. JobFits("program", f.arg)
  BY <1>1, <1>4 DEF JobFits
<1>6. g \in VMFrame /\ g.snap = f.snap /\ g.at = "program" /\ g.arg = f.arg
  BY <1>1, <1>5 DEF VMFrame
<1> HIDE DEF g
<1>7. ASSUME NEW key \in Keys PROVE Part(key, g) = Part(key, f) /\ Part(key, f) \in Nat
  <2>1. Part(key, g) = Part(key, f)
    BY <1>1, <1>6 DEF Part
  <2> QED
    BY <1>1, <2>1, PartNat
<1>8. ASSUME NEW key \in Keys, NEW a \in Nat, NEW b \in Nat,
             b + Part(key, f) = a + Part(key, g), Agrees(key, world, a)
      PROVE  Agrees(key, world, b)
  BY <1>7, <1>8, SameSum
<1> QED
  BY <1>1, <1>2, <1>3, <1>6, <1>8, VMHere, VMMovesTo

\* What the target gains covers what the job is now counted for.
LEMMA Gains ==
  ASSUME NEW t \in Nat, NEW x \in Nat, NEW a \in Nat, NEW b \in Nat, NEW s \in Nat,
         NEW k \in Nat, t >= a, b + s = a + (s + k), k <= x
  PROVE  t + x >= b
OBVIOUS

LEMMA VMSends ==
  ASSUME VMIInv, VM!ProgramSend
  PROVE  VMIInv'
<1> DEFINE f == Top
           h == f.arg.program
           x == ProgramAmount[h]
           g == [f EXCEPT !.arg.sent = TRUE]
           v == [world EXCEPT !.bal = @ - x, !.target[h] = @ + x]
<1>1. /\ ~Idle /\ f.at = "program" /\ f \in VMFrame /\ f = frames[Len(frames)]
      /\ f.arg \in JobArg /\ JobFits("program", f.arg) /\ VM!Top = f /\ h \in Programs
  BY VMAt DEF VM!ProgramSend
<1>2. /\ ~f.arg.sent /\ x <= world.bal /\ world' = v
      /\ frames' = [frames EXCEPT ![Len(frames)].arg.sent = TRUE]
  BY <1>1 DEF VM!ProgramSend
<1>3. frames' = [frames EXCEPT ![Len(frames)] = g]
  BY <1>1, <1>2
<1>4. /\ g \in VMFrame /\ g.snap = f.snap /\ g.at = "program"
      /\ g.arg.permit = f.arg.permit /\ g.arg.i = f.arg.i /\ g.arg.sent
  <2> DEFINE arg == [f.arg EXCEPT !.sent = TRUE]
  <2>1. /\ arg \in JobArg /\ arg.permit = f.arg.permit /\ arg.program = f.arg.program
        /\ arg.i = f.arg.i /\ arg.sent = TRUE
    BY <1>1 DEF JobArg
  <2>2. g = [f EXCEPT !.arg = arg]
    BY <1>1 DEF VMFrame
  <2> HIDE DEF arg, g
  <2>3. JobFits("program", arg)
    BY <1>1, <2>1 DEF JobFits
  <2> QED
    BY <1>1, <2>1, <2>2, <2>3 DEF VMFrame
<1> HIDE DEF g
<1>5. x \in Nat
  BY <1>1, VMAssumption
<1>6. ASSUME NEW key \in Keys
      PROVE  /\ Part(key, f) \in Nat
             /\ \/ Part(key, g) = Part(key, f)
                \/ key.kind = "target" /\ key.program = h /\ Part(key, f) = 0
                   /\ Part(key, g) = x
  <2>1. CASE /\ key.kind = "target" /\ f.arg.permit # NoPermit
             /\ Mine(key, f.arg.permit)
    <3>1. key.program = h
      BY <1>1, <2>1 DEF JobFits, Mine
    <3>2. Part(key, f) = 0 /\ Part(key, g) = x
      BY <1>1, <1>2, <1>4, <2>1, <3>1 DEF Part
    <3> QED
      BY <2>1, <3>1, <3>2
  <2>2. CASE ~(/\ key.kind = "target" /\ f.arg.permit # NoPermit
               /\ Mine(key, f.arg.permit))
    <3>1. Part(key, g) = Part(key, f)
      BY <1>1, <1>4, <2>2, KeyFields DEF Part
    <3> QED
      BY <1>1, <3>1, PartNat
  <2> QED
    BY <2>1, <2>2
<1> HIDE DEF x, h
<1>7. world \in VM!World /\ world.target \in [Programs -> Nat] /\ world.bal \in Nat
      /\ world.target[h] \in Nat
  BY <1>1, VMHere, VMWorldFields
<1>8. /\ v \in VM!World /\ v.used = world.used /\ v.wallet = world.wallet
      /\ v.ran = world.ran
      /\ \A u \in Programs : v.target[u] = IF u = h THEN world.target[u] + x ELSE world.target[u]
  <2>1. world.target[h] + x \in Nat /\ world.bal - x \in Nat
    BY <1>2, <1>5, <1>7
  <2> QED
    BY <1>1, <1>7, <2>1 DEF VM!World
<1> HIDE DEF v
<1>9. ASSUME NEW key \in Keys, NEW a \in Nat, NEW b \in Nat,
             b + Part(key, f) = a + Part(key, g), Agrees(key, world, a)
      PROVE  Agrees(key, v, b)
  <2>1. CASE key.kind = "target" /\ key.program = h
    <3> DEFINE s == Part(key, f)
               t == world.target[h]
               k == IF Part(key, g) = Part(key, f) THEN 0 ELSE x
    <3>1. Part(key, g) = s + k /\ s \in Nat /\ k \in Nat /\ k <= x
      BY <1>5, <1>6
    <3>2. t >= a /\ t \in Nat /\ v.target[h] = t + x
      BY <1>1, <1>7, <1>8, <1>9, <2>1 DEF Agrees
    <3>3. b + s = a + (s + k)
      BY <1>9, <3>1
    <3> HIDE DEF s, t, k
    <3>4. t + x >= b
      BY <1>5, <3>1, <3>2, <3>3, Gains
    <3> QED
      BY <2>1, <3>2, <3>4 DEF Agrees
  <2>2. CASE ~(key.kind = "target" /\ key.program = h)
    <3>1. Part(key, g) = Part(key, f) /\ Part(key, f) \in Nat
      BY <1>6, <2>2
    <3>2. a = b
      BY <1>9, <3>1, SameSum
    <3> QED
      BY <1>8, <1>9, <2>2, <3>2, KeyFields DEF Agrees
  <2> QED
    BY <2>1, <2>2
<1> QED
  BY <1>1, <1>2, <1>3, <1>4, <1>8, <1>9, VMMovesTo

\* A frame that stands for nothing ends in a world that agrees.
LEMMA VMLeavesIdly ==
  ASSUME VMIInv, ~Idle, NEW v \in VM!World, Leave(v), v.wallet = world.wallet,
         v.used = world.used, v.target = world.target, v.ran = world.ran,
         \A key \in Keys : Part(key, Top) = 0
  PROVE  VMIInv'
<1> DEFINE su == Below(frames, Len(frames) - 1)
<1>1. frames \in Seq(VMFrame) /\ frames # << >> /\ Top = frames[Len(frames)]
  BY VMTop, VMHere
<1>2. su \in Seq(VMFrame)
  BY <1>1, CallersOf
<1>3. ASSUME NEW key \in Keys PROVE Agrees(key, v, Account(key, v, su))
  <2>1. Doing(key, frames) = Doing(key, su) + 0
    BY <1>1, <1>3, DoingLeave
  <2>2. Doing(key, su) \in Nat
    BY <1>2, DoingNat
  <2> HIDE DEF su
  <2>3. Account(key, v, su) = Account(key, world, frames)
    BY <2>1, <2>2, DoneSame DEF Account
  <2> QED
    BY <2>3, VMHere, AgreesSame
<1> QED
  BY <1>3, VMLeavesWith

LEMMA VMFinishes ==
  ASSUME VMIInv, VM!Finish
  PROVE  VMIInv'
<1> DEFINE f == Top
           p == f.arg.permit
           h == f.arg.program
           su == Below(frames, Len(frames) - 1)
<1>1. /\ ~Idle /\ f.at = "program" /\ f \in VMFrame /\ f = frames[Len(frames)]
      /\ f.arg \in JobArg /\ JobFits("program", f.arg) /\ VM!Top = f /\ h \in Programs
      /\ f.arg.sent
      /\ Leave(IF p = NoPermit THEN world ELSE [world EXCEPT !.ran[p][h] = @ + 1])
  BY VMAt, VMStack DEF VM!Finish
<1>2. /\ world \in VM!World /\ frames \in Seq(VMFrame) /\ frames # << >>
      /\ su \in Seq(VMFrame)
  <2>1. world \in VM!World /\ frames \in Seq(VMFrame) /\ frames # << >>
    BY <1>1, VMHere, VMTop
  <2> QED
    BY <2>1, CallersOf
<1>3. CASE p = NoPermit
  <2>1. \A key \in Keys : Part(key, Top) = 0
    BY <1>3 DEF Part
  <2> QED
    BY <1>1, <1>2, <1>3, <2>1, VMLeavesIdly
<1>4. CASE p # NoPermit
  <2> DEFINE v == [world EXCEPT !.ran[p][h] = @ + 1]
  <2>1. p \in Permits /\ h = Permit[p].program
        /\ f.arg.i = Len(Permit[p].permitted) + 1
    BY <1>1, <1>4 DEF JobFits, JobArg
  <2>2. Leave(v)
    BY <1>1, <1>4
  <2>3. /\ v \in VM!World /\ v.wallet = world.wallet /\ v.used = world.used
        /\ v.target = world.target /\ v.ran = [world.ran EXCEPT ![p][h] = @ + 1]
    <3>1. world.ran \in [Permits -> [Programs -> Nat]]
      BY <1>2, VMWorldFields
    <3>2. world.ran[p] \in [Programs -> Nat]
      BY <2>1, <3>1
    <3> HIDE DEF p, h
    <3>3. world.ran[p][h] + 1 \in Nat
      <4>1. h \in Programs
        BY <2>1, PermitFields
      <4>2. world.ran[p][h] \in Nat
        BY <3>2, <4>1
      <4> QED
        BY <4>2
    <3>4. [world.ran EXCEPT ![p][h] = @ + 1] \in [Permits -> [Programs -> Nat]]
      BY <1>1, <2>1, <3>1, <3>2, <3>3
    <3> QED
      BY <1>2, <3>4 DEF VM!World
  <2> HIDE DEF v
  <2>4. ASSUME NEW key \in Keys PROVE Part(key, f) = Full(key, p)
    <3>1. f.arg.i - 1 = Len(Permit[p].permitted)
      <4>1. Len(Permit[p].permitted) \in Nat
        BY <2>1, PermitFields
      <4> QED
        BY <2>1, <4>1
    <3>2. VM!Permitted(p) = Prefix(Permit[p].permitted, f.arg.i - 1)
      BY <2>1, <3>1, PermittedIsPrefix
    <3> QED
      BY <1>1, <1>4, <3>2, KeyFields DEF Part, Full
  <2>5. ASSUME NEW key \in Keys PROVE Agrees(key, v, Account(key, v, su))
    <3>1. Doing(key, frames) = Doing(key, su) + Full(key, p)
      <4>1. Doing(key, frames) = Doing(key, su) + Part(key, frames[Len(frames)])
        BY <1>2, DoingLeave
      <4>2. Part(key, frames[Len(frames)]) = Full(key, p)
        BY <1>1, <2>4
      <4> QED
        BY <4>1, <4>2, Zenon
    <3>2. Done(key, v) = Done(key, world) + Full(key, p)
      <4>1. /\ world \in VM!World /\ v \in VM!World /\ p \in Permits /\ h \in Programs
            /\ v.ran = [world.ran EXCEPT ![p][h] = @ + 1]
        BY <1>1, <1>2, <2>1, <2>3
      <4> HIDE DEF p, h
      <4> QED
        BY <4>1, DoneRun
    <3>3. Done(key, world) \in Nat /\ Doing(key, su) \in Nat /\ Full(key, p) \in Nat
      BY <1>2, <2>1, DoneNat, DoingNat, FullNat
    <3> HIDE DEF su, p
    <3>4. Account(key, v, su) = Account(key, world, frames)
      <4> DEFINE a == Done(key, world)
                 b == Doing(key, su)
                 k == Full(key, p)
      <4>1. /\ Account(key, v, su) = (a + k) + b /\ Account(key, world, frames) = a + (b + k)
            /\ a \in Nat /\ b \in Nat /\ k \in Nat
        BY <3>1, <3>2, <3>3 DEF Account
      <4> HIDE DEF a, b, k
      <4>2. (a + k) + b = a + (b + k)
        BY <4>1
      <4> QED
        BY <4>1, <4>2
    <3> QED
      BY <2>3, <3>4, VMHere, AgreesSame
  <2> QED
    BY <1>1, <2>2, <2>3, <2>5, VMLeavesWith
<1> QED
  BY <1>3, <1>4

LEMMA VMPays ==
  ASSUME VMIInv, VM!PayPool(world.bal)
  PROVE  VMIInv'
<1> DEFINE v == [world EXCEPT !.bal = @ - world.bal, !.paid = @ + world.bal]
<1>1. world' = v /\ frames' = frames
  BY DEF VM!PayPool
<1>2. /\ world \in VM!World /\ world.bal \in Nat /\ world.paid \in Nat
      /\ frames \in Seq(VMFrame)
      /\ \A key \in Keys : Agrees(key, world, Account(key, world, frames))
  BY VMHere, VMWorldFields
<1>3. world.bal - world.bal \in Nat /\ world.paid + world.bal \in Nat
  BY <1>2
<1>4. /\ v \in VM!World /\ v.wallet = world.wallet /\ v.used = world.used
      /\ v.target = world.target /\ v.ran = world.ran
  BY <1>2, <1>3 DEF VM!World
<1> HIDE DEF v
<1>5. \A key \in Keys : Agrees(key, v, Account(key, v, frames))
  BY <1>2, <1>4, DoneSame, AgreesSame DEF Account
<1>6. <<v, frames>> \in VMFit
  BY <1>2, <1>4, <1>5, VMHere, VMFitDef
<1>7. Kept(VMFit, v, frames)
  BY <1>6, KeptStay DEF VMIInv
<1> QED
  BY <1>1, <1>2, <1>7 DEF VMIInv

LEMMA VMTransactions ==
  ASSUME VMIInv, \/ \E o \in Users : VM!BeginTx(o)
                 \/ VM!EndTx \/ VM!Fail
  PROVE  VMIInv'
<1>1. ASSUME NEW o \in Users, BeginTx(o) PROVE VMIInv'
  <2>1. Frame("batch", o) \in VMFrame
    BY VMHere DEF Frame, VMFrame
  <2>2. \A key \in Keys : Part(key, Frame("batch", o)) = 0
    BY DEF Part, Frame
  <2>3. Enter("batch", o, world)
    BY <1>1 DEF BeginTx
  <2> QED
    BY <2>1, <2>2, <2>3, VMEntersIdly
<1>2. CASE Len(frames) = 1 /\ Leave(Discarded(world))
  <2> DEFINE v == Discarded(world)
  <2>0. Leave(v)
    BY <1>2
  <2>1. ~Idle /\ world \in VM!World
    BY <1>2, VMHere, EmptySeq DEF Idle
  <2>2. /\ v \in VM!World /\ v.wallet = world.wallet /\ v.used = world.used
        /\ v.target = world.target /\ v.ran = world.ran
    BY <2>1 DEF Discarded, CleanSlots, VM!World
  <2> HIDE DEF v
  <2>3. Top.at = "batch"
    <3>1. Bottom(frames) /\ frames # << >> /\ Top = frames[1]
      BY <1>2, <2>1, VMHere, VMTop
    <3> QED
      BY <3>1 DEF Bottom
  <2>4. \A key \in Keys : Part(key, Top) = 0
    BY <2>3 DEF Part
  <2> QED
    BY <2>0, <2>1, <2>2, <2>4, VMLeavesIdly
<1>3. CASE Revert
  <2>1. frames \in Seq(VMFrame) /\ Kept(VMFit, world, frames)
    BY DEF VMIInv
  <2>2. Kept(VMFit, world', frames')
    BY <1>3, <2>1, RevertKeeps
  <2>3. frames # << >> /\ frames' = Below(frames, Len(frames) - 1)
    BY <1>3 DEF Revert, Idle, Leave, Top, Callers, Below
  <2>4. frames' \in Seq(VMFrame)
    BY <2>1, <2>3, CallersOf
  <2> QED
    BY <2>2, <2>4 DEF VMIInv
<1> QED
  BY <1>1, <1>2, <1>3, VMStack

LEMMA VMBegins ==
  ASSUME VM!Init
  PROVE  VMIInv
<1>1. /\ world \in VM!World /\ frames = << >> /\ frames \in Seq(VMFrame)
      /\ world.wallet = Purse /\ \A o \in Users : world.used[o] = {}
      /\ \A g \in Programs : world.target[g] = 0
      /\ \A p \in Permits, g \in Programs : world.ran[p][g] = 0
  BY VMAssumption DEF VM!Init, VM!World, VM!CleanSlots
<1>2. ASSUME NEW key \in Keys PROVE Agrees(key, world, Account(key, world, frames))
  <2>1. \A p \in Permits : RunsOf(world)[p] = 0
    <3> SUFFICES ASSUME NEW p \in Permits
                 PROVE  SumFunctionOnSet(world.ran[p], Programs) = 0
      BY DEF RunsOf
    <3>1. \A g \in Programs : world.ran[p][g] = 0
      BY <1>1
    <3> QED
      BY <3>1, SumZero, VMAssumption
  <2>2. \A p \in Permits : Fulls(key, world)[p] = 0
    <3> SUFFICES ASSUME NEW p \in Permits PROVE 0 * Full(key, p) = 0
      BY <2>1 DEF Fulls
    <3> QED
      BY FullNat
  <2>3. Done(key, world) = 0
    BY <2>2, SumZero, VMAssumption DEF Done
  <2>4. Doing(key, frames) = 0
    BY <1>1, DoingNothing
  <2>5. Account(key, world, frames) = 0
    BY <2>3, <2>4 DEF Account
  <2>6. \A o \in Users : Purse[o] \in Nat
    BY VMAssumption
  <2>7. CASE key.kind = "wallet" /\ key.owner \in Users
    <3>1. Purse[key.owner] + 0 = Purse[key.owner]
      BY <2>6, <2>7
    <3> QED
      BY <1>1, <2>5, <2>7, <3>1 DEF Agrees
  <2>8. CASE key.kind = "nonce" /\ key.owner \in Users
    BY <1>1, <2>5, <2>8 DEF Agrees
  <2>9. CASE key.kind = "target" /\ key.program \in Programs
    <3>1. world.target[key.program] >= 0
      BY <1>1, <2>9
    <3> QED
      BY <2>5, <2>9, <3>1 DEF Agrees
  <2> QED
    BY <2>7, <2>8, <2>9, KeyFields
<1>3. <<world, frames>> \in VMFit
  BY <1>1, <1>2, VMFitDef DEF Bottom
<1> QED
  BY <1>1, <1>3 DEF VMIInv, Kept

LEMMA VMInductive ==
  /\ VM!Init => VMIInv
  /\ VMIInv /\ VM!Next => VMIInv'
  /\ VMIInv /\ UNCHANGED vars => VMIInv'
<1>1. ASSUME VMIInv, VM!Next PROVE VMIInv'
  BY <1>1, VMTransactions, VMExecutes, VMAccepts, VMPulls, VMRuns, VMSends, VMFinishes, VMPays
     DEF VM!Next
<1>2. VMIInv /\ UNCHANGED vars => VMIInv'
  BY DEF VMIInv, Kept, vars
<1> QED
  BY <1>1, <1>2, VMBegins

\* Between transactions no job is running: an account is what completed runs
\* stand for.
LEMMA VMSettled ==
  ASSUME VMIInv, Idle, NEW key \in Keys
  PROVE  Agrees(key, world, Done(key, world))
<1>1. /\ Agrees(key, world, Account(key, world, frames))
      /\ Done(key, world) \in Nat /\ frames = << >>
  BY VMHere DEF Idle
<1>2. Account(key, world, frames) = Done(key, world)
  BY <1>1, DoingNothing DEF Account
<1> QED
  BY <1>1, <1>2

\* Only the permits that a key is about add to its account.
LEMMA DoneOf ==
  ASSUME NEW key \in Keys, NEW w \in VM!World, NEW S \in SUBSET Permits,
         \A p \in Permits : p \in S <=> Mine(key, p), NEW f \in [Permits -> Int],
         \A p \in S : f[p] = RunsOf(w)[p] * Full(key, p)
  PROVE  SumFunctionOnSet(f, S) = Done(key, w)
<1> DEFINE F == Fulls(key, w)
<1>1. IsFiniteSet(S) /\ IsFiniteSet(Permits \ S) /\ IsFiniteSet(Permits)
  BY VMAssumption, FS_Subset
<1>2. F \in [Permits -> Int] /\ RunsOf(w) \in [Permits -> Nat]
      /\ \A p \in Permits : F[p] = RunsOf(w)[p] * Full(key, p)
  BY DoneNat DEF Fulls
<1>3. Done(key, w) = SumFunctionOnSet(F, Permits)
  BY DEF Done
<1> HIDE DEF F
<1>4. SumFunctionOnSet(F, Permits \ S) = 0
  <2>1. ASSUME NEW p \in Permits \ S PROVE F[p] = 0
    <3>1. Full(key, p) = 0
      BY <2>1 DEF Full
    <3>2. RunsOf(w)[p] \in Nat
      BY <1>2
    <3>3. RunsOf(w)[p] * 0 = 0
      BY <3>2
    <3> QED
      BY <1>2, <3>1, <3>3
  <2> QED
    BY <1>1, <2>1, SumZero
<1>5. SumFunctionOnSet(F, Permits) = SumFunctionOnSet(F, S) + SumFunctionOnSet(F, Permits \ S)
  <2>1. Permits \in SUBSET Permits /\ S \in SUBSET Permits
    OBVIOUS
  <2> QED
    BY <1>1, <1>2, <2>1, SumSplit
<1>6. SumFunctionOnSet(F, S) \in Int
  BY <1>1, <1>2, SumInt
<1>7. SumFunctionOnSet(f, S) = SumFunctionOnSet(F, S)
  <2>1. \A p \in S : f[p] = F[p]
    BY <1>2
  <2> QED
    BY <1>1, <2>1, SumSame
<1> QED
  BY <1>3, <1>4, <1>5, <1>6, <1>7

LEMMA VMHistory ==
  /\ VM!Runs = RunsOf(world)
  /\ \A p \in Permits : VM!Pulled[p] = RunsOf(world)[p] * VM!Permitted(p)
  /\ \A g \in Programs, p \in Permits : VM!Sent(g)[p] = RunsOf(world)[p] * ProgramAmount[g]
<1>1. VM!Runs = RunsOf(world)
  BY VMSum DEF VM!Runs, RunsOf
<1> QED
  BY <1>1 DEF VM!Pulled, VM!Sent

LEMMA VMResults ==
  ASSUME VMIInv
  PROVE  VM!SignedPullsSettle
<1> SUFFICES ASSUME Idle PROVE VM!SignedPullsSettle
  BY VMStack DEF VM!SignedPullsSettle
<1>1. world \in VM!World /\ VM!Runs \in [Permits -> Nat]
  <2>1. world \in VM!World
    BY VMHere
  <2>2. [kind |-> "wallet", owner |-> Owner0] \in Keys
    BY OwnerAssumption DEF Keys
  <2> QED
    BY <2>1, <2>2, VMHistory, DoneNat
<1>2. ASSUME NEW o \in Users
      PROVE  world.wallet[o] + SumFunctionOnSet(VM!Pulled, {p \in Permits : Permit[p].owner = o})
               = Purse[o]
  <2> DEFINE key == [kind |-> "wallet", owner |-> o]
             S == {p \in Permits : Permit[p].owner = o}
             f == VM!Pulled
  <2>1. key \in Keys /\ key.kind = "wallet" /\ key.owner = o
    BY DEF Keys
  <2>2. S \in SUBSET Permits /\ \A p \in Permits : p \in S <=> Mine(key, p)
    BY <2>1 DEF Mine
  <2>3. f \in [Permits -> Int]
    <3>1. ASSUME NEW p \in Permits PROVE VM!Runs[p] * VM!Permitted(p) \in Int
      <4>1. VM!Runs[p] \in Int /\ VM!Permitted(p) \in Int
        BY <1>1, PermittedIsPrefix
      <4> QED
        BY <4>1
    <3> QED
      BY <3>1 DEF VM!Pulled
  <2>4. ASSUME NEW p \in S PROVE f[p] = RunsOf(world)[p] * Full(key, p)
    <3>1. Full(key, p) = VM!Permitted(p)
      BY <2>1, <2>2 DEF Full
    <3> QED
      BY <3>1, VMHistory
  <2> HIDE DEF key, S, f
  <2>5. SumFunctionOnSet(f, S) = Done(key, world)
    BY <1>1, <2>1, <2>2, <2>3, <2>4, DoneOf
  <2>6. Agrees(key, world, Done(key, world))
    BY <2>1, VMSettled
  <2> QED
    BY <2>1, <2>5, <2>6 DEF Agrees, S, f
<1>3. ASSUME NEW o \in Users, NEW n \in {Permit[p].nonce : p \in {q \in Permits : Permit[q].owner = o}}
      PROVE  SumFunctionOnSet(VM!Runs, {p \in {q \in Permits : Permit[q].owner = o} :
                                          Permit[p].nonce = n})
               = (IF n \in world.used[o] THEN 1 ELSE 0)
  <2> DEFINE key == [kind |-> "nonce", owner |-> o, nonce |-> n]
             S == {p \in {q \in Permits : Permit[q].owner = o} : Permit[p].nonce = n}
             f == VM!Runs
  <2>0. n \in Nat
    BY PermitFields
  <2>1. key \in Keys /\ key.kind = "nonce" /\ key.owner = o /\ key.nonce = n
    BY <2>0 DEF Keys
  <2>2. S \in SUBSET Permits /\ \A p \in Permits : p \in S <=> Mine(key, p)
    BY <2>1 DEF Mine
  <2>3. f \in [Permits -> Int]
    BY <1>1
  <2>4. ASSUME NEW p \in S PROVE f[p] = RunsOf(world)[p] * Full(key, p)
    <3>1. Full(key, p) = 1
      BY <2>1, <2>2 DEF Full
    <3>2. RunsOf(world)[p] \in Nat
      BY <1>1, <2>2, VMHistory
    <3>3. RunsOf(world)[p] * 1 = RunsOf(world)[p]
      BY <3>2
    <3> QED
      BY <3>1, <3>3, VMHistory
  <2> HIDE DEF key, S, f
  <2>5. SumFunctionOnSet(f, S) = Done(key, world)
    BY <1>1, <2>1, <2>2, <2>3, <2>4, DoneOf
  <2>6. Agrees(key, world, Done(key, world))
    BY <2>1, VMSettled
  <2> QED
    BY <2>1, <2>5, <2>6 DEF Agrees, S, f
<1>4. ASSUME NEW g \in Programs
      PROVE  world.target[g] >=
               SumFunctionOnSet(VM!Sent(g), {p \in Permits : Permit[p].program = g})
  <2> DEFINE key == [kind |-> "target", program |-> g]
             S == {p \in Permits : Permit[p].program = g}
             f == VM!Sent(g)
  <2>1. key \in Keys /\ key.kind = "target" /\ key.program = g
    BY DEF Keys
  <2>2. S \in SUBSET Permits /\ \A p \in Permits : p \in S <=> Mine(key, p)
    BY <2>1 DEF Mine
  <2>3. f \in [Permits -> Int]
    <3>1. ASSUME NEW p \in Permits PROVE VM!Runs[p] * ProgramAmount[g] \in Int
      <4>1. VM!Runs[p] \in Int /\ ProgramAmount[g] \in Int
        BY <1>1, VMAssumption
      <4> QED
        BY <4>1
    <3> QED
      BY <3>1 DEF VM!Sent
  <2>4. ASSUME NEW p \in S PROVE f[p] = RunsOf(world)[p] * Full(key, p)
    <3>1. Full(key, p) = ProgramAmount[g]
      BY <2>1, <2>2 DEF Full
    <3> QED
      BY <2>2, <3>1, VMHistory
  <2> HIDE DEF key, S, f
  <2>5. SumFunctionOnSet(f, S) = Done(key, world)
    BY <1>1, <2>1, <2>2, <2>3, <2>4, DoneOf
  <2>6. Agrees(key, world, Done(key, world))
    BY <2>1, VMSettled
  <2> QED
    BY <2>1, <2>5, <2>6 DEF Agrees, S, f
<1> QED
  BY <1>2, <1>3, <1>4, VMSum DEF VM!SignedPullsSettle

-----------------------------------------------------------------------------
(* OFTC and CCIPC are the lemmas of InboundComposer_proofs over the messages *)
(* of OFTComposer and of CCIPComposer.                                       *)

OFTC == INSTANCE InboundComposer_proofs WITH Messages <- OFTMessages
CCIPC == INSTANCE InboundComposer_proofs WITH Messages <- CCIPMessages

USE SlotsAssumption, DepthAssumption, OwnerAssumption

-----------------------------------------------------------------------------
(* OFTComposer: the endpoint marks a message only by calling lzCompose.    *)

Oft == [params |-> OFT!Params, only |-> OFTMessages, own |-> SUBSET OFTMessages]

LEMMA OftMsgFields ==
  ASSUME NEW m \in OFTMessages
  PROVE  OFTMsg[m].amountLD \in Nat /\ OFTMsg[m].from \in Nat
BY OFTAssumption

LEMMA OftIsComposer ==
  /\ OFTC!Composer(Oft) /\ OFTC!WorldOf(Oft) = OFT!World
  /\ Oft.params = OFT!Params /\ Oft.only = OFTMessages
  /\ OFT!Amounts \in [OFTMessages -> Nat]
  /\ \A m \in OFTMessages : OFT!Params[m] \in Nat \X Nat
<1>1. \A m \in OFTMessages : OFT!Params[m] \in Nat \X Nat
  BY OftMsgFields DEF OFT!Params
<1>2. OFT!Amounts \in [OFTMessages -> Nat]
  BY OftMsgFields DEF OFT!Amounts
<1>3. OFTC!WorldOf(Oft) = OFT!World
  BY DEF Oft, OFTC!WorldOf, OFTC!Worlds, OFT!World, OFT!Worlds
<1>4. OFTC!Composer(Oft)
  BY <1>1 DEF Oft, OFTC!Composer, OFT!Params
<1> QED
  BY <1>1, <1>2, <1>3, <1>4 DEF Oft

\* The two instances of InboundComposer define the same.
LEMMA OftCommon ==
  /\ OFT!CommonStep <=> OFTC!CommonStep
  /\ OFT!Deployed({}) <=> OFTC!Deployed({})
  /\ OFT!EndTx <=> OFTC!EndTx
  /\ OFT!Revert <=> OFTC!Revert
  /\ OFT!Idle <=> OFTC!Idle
  /\ OFT!Committed = OFTC!Committed
  /\ OFT!Settled = OFTC!Settled /\ OFT!Settled' = OFTC!Settled'
  /\ OFT!Acted = OFTC!Acted /\ OFT!Acted' = OFTC!Acted'
BY DEF OFT!CommonStep, OFTC!CommonStep, OFT!Deployed, OFTC!Deployed,
       OFT!BeginTx, OFTC!BeginTx, OFT!TransferOwnership, OFTC!TransferOwnership,
       OFT!ProgramSpend, OFTC!ProgramSpend, OFT!ProgramTstore, OFTC!ProgramTstore,
       OFT!FinishProgram, OFTC!FinishProgram, OFT!RescueToken, OFTC!RescueToken,
       OFT!PayPool, OFTC!PayPool, OFT!Revert, OFTC!Revert, OFT!EndTx, OFTC!EndTx,
       OFT!Running, OFTC!Running, OFT!Calling, OFTC!Calling, OFT!FromOwner, OFTC!FromOwner,
       OFT!Enter, OFTC!Enter, OFT!Leave, OFTC!Leave, OFT!Frame, OFTC!Frame,
       OFT!Unstaged, OFTC!Unstaged, OFT!Discarded, OFTC!Discarded,
       OFT!CleanSlots, OFTC!CleanSlots, OFT!Idle, OFTC!Idle, OFT!Top, OFTC!Top,
       OFT!Callers, OFTC!Callers, OFT!Settled, OFTC!Settled, OFT!Acted, OFTC!Acted,
       OFT!Committed, OFTC!Committed

LEMMA OftLzComposeKeeps ==
  ASSUME OFTC!IInv(Oft), NEW m \in OFTMessages, NEW caller, OFT!LzCompose(caller, m)
  PROVE  OFTC!IInv(Oft)'
<1>1. /\ frames # << >> /\ ~world.locked /\ caller = "endpoint" /\ m \notin world.taken
      /\ OFTC!Enter("program", m, OFTC!Staged([world EXCEPT !.taken = @ \union {m}],
                                              OFT!Params[m]))
  BY DEF OFT!LzCompose, OFT!Calling, OFT!Idle, OFT!Presented, OFT!NonReentrant,
         OFT!Authorised, OFT!Marked, OFT!Queued, OFT!Enter, OFTC!Enter, OFT!Frame,
         OFTC!Frame, OFT!Staged, OFTC!Staged
<1> DEFINE u == [world EXCEPT !.taken = @ \union {m}]
<1>2. world \in OFT!World
  BY OFTC!Present, OftIsComposer
<1>3. /\ u \in OFT!World /\ u.read = world.read /\ u.runs = world.runs
      /\ u.taken = world.taken \union {m}
  BY <1>2 DEF OFT!World, OFT!Worlds
<1>4. OFTC!Enter("program", m, OFTC!Staged(u, Oft.params[m]))
  BY <1>1, OftIsComposer
<1> HIDE DEF u
<1> QED
  BY <1>1, <1>3, <1>4, OftIsComposer, OFTC!ReceiveStep

LEMMA OftCreditKeeps ==
  ASSUME OFTC!IInv(Oft), NEW m \in OFTMessages, OFT!Credit(m)
  PROVE  OFTC!IInv(Oft)'
<1>1. /\ frames' = frames
      /\ world' = [world EXCEPT !.own = @ \union {m}, !.bal = @ + OFT!Amounts[m]]
  BY DEF OFT!Credit
<1>2. world \in OFT!World
  BY OFTC!Present, OftIsComposer
<1>3. world.bal \in Nat /\ OFT!Amounts[m] \in Nat /\ world.bal + OFT!Amounts[m] \in Nat
  BY <1>2, OftIsComposer DEF OFT!World, OFT!Worlds
<1>4. /\ world' \in OFT!World
      /\ world'.locked = world.locked /\ world'.slot = world.slot
      /\ world'.read = world.read /\ world'.runs = world.runs
      /\ world'.taken = world.taken
  BY <1>1, <1>2, <1>3 DEF OFT!World, OFT!Worlds
<1> QED
  BY <1>1, <1>4, OftIsComposer, OFTC!QuietStep

LEMMA OftKeeps ==
  /\ OFT!Init => OFTC!IInv(Oft)
  /\ OFTC!IInv(Oft) /\ OFT!Next => OFTC!IInv(Oft)'
<1>1. OFT!Init => OFTC!IInv(Oft)
  BY OftCommon, OFTC!DeployedFits
     DEF OFT!Init, Oft
<1>2. ASSUME OFTC!IInv(Oft), OFT!CommonStep PROVE OFTC!IInv(Oft)'
  BY <1>2, OftCommon, OftIsComposer, OFTC!CommonKeeps
<1> QED
  BY <1>1, <1>2, OftCreditKeeps, OftLzComposeKeeps DEF OFT!Next

\* Every token that came with a message is in the composer, or a program, the
\* owner or a callback moved it; only what was queued was ever delivered.
OftBooks ==
  {w \in OFT!World :
     /\ IsFiniteSet(w.own) /\ w.taken \subseteq w.own
     /\ w.bal + w.out + w.paid + w.rescued = SumFunctionOnSet(OFT!Amounts, w.own)}

OftIInv == OFTC!IInv(Oft) /\ OFTC!AllIn(OftBooks)

LEMMA OftSum ==
  ASSUME NEW f, NEW S
  PROVE  OFT!SumFunctionOnSet(f, S) = SumFunctionOnSet(f, S)
BY DEF OFT!SumFunctionOnSet, SumFunctionOnSet, OFT!FoldFunctionOnSet, FoldFunctionOnSet,
       OFT!MapThenFoldSet, MapThenFoldSet

\* Only the deliveries to the endpoint bring tokens in.
LEMMA OftBooksKeeps ==
  ASSUME OftIInv, OFT!Next
  PROVE  OFTC!AllIn(OftBooks)'
<1>0. OFTC!IInv(Oft) /\ OFTC!AllIn(OftBooks) /\ world \in OftBooks
  BY DEF OftIInv, OFTC!AllIn
<1>1. world' \in OFT!World
  BY <1>0, OftKeeps, OFTC!PresentNext, OftIsComposer
<1>2. CASE OFT!CommonStep
  <2>1. CASE OFTC!Revert
    BY <1>0, <2>1, OFTC!BooksKept
  <2>2. CASE ~OFTC!Revert
    <3>1. /\ OFTC!StackStep(Oft)
          /\ world'.own = world.own /\ world'.taken = world.taken
          /\ OFTC!Total(world') = OFTC!Total(world)
      BY <1>0, <1>2, <2>2, OftCommon, OFTC!CommonStack, OFTC!CommonTotal
    <3>2. world' \in OftBooks
      BY <1>0, <1>1, <3>1 DEF OftBooks, OFTC!Total
    <3> QED
      BY <1>0, <3>1, <3>2, OFTC!BooksKept
  <2> QED
    BY <2>1, <2>2
<1>3. ASSUME NEW m \in OFTMessages, OFT!Credit(m) PROVE OFTC!AllIn(OftBooks)'
  <2>1. /\ frames' = frames /\ m \notin world.own
        /\ world' = [world EXCEPT !.own = @ \union {m}, !.bal = @ + OFT!Amounts[m]]
    BY <1>3 DEF OFT!Credit
  <2>2. /\ world'.own = world.own \union {m} /\ world'.taken = world.taken
        /\ world'.bal = world.bal + OFT!Amounts[m]
        /\ world'.out = world.out /\ world'.paid = world.paid
        /\ world'.rescued = world.rescued
    BY <1>0, <2>1 DEF OftBooks, OFT!World, OFT!Worlds
  <2>3. IsFiniteSet(world'.own) /\ world'.taken \subseteq world'.own
    BY <1>0, <2>2, FS_AddElement DEF OftBooks
  <2>4. SumFunctionOnSet(OFT!Amounts, world.own \union {m})
          = OFT!Amounts[m] + SumFunctionOnSet(OFT!Amounts, world.own)
    <3>1. /\ OFT!Amounts \in [OFTMessages -> Int] /\ world.own \in SUBSET OFTMessages
          /\ IsFiniteSet(world.own)
      BY <1>0, OftIsComposer DEF OftBooks, OFT!World, OFT!Worlds
    <3> QED
      BY <2>1, <3>1, SumAdd
  <2>5. world'.bal + world'.out + world'.paid + world'.rescued
          = SumFunctionOnSet(OFT!Amounts, world'.own)
    <3> DEFINE s == SumFunctionOnSet(OFT!Amounts, world.own)
    <3>1. /\ world.bal \in Nat /\ world.out \in Nat /\ world.paid \in Nat
          /\ world.rescued \in Nat /\ OFT!Amounts[m] \in Nat
          /\ world.bal + world.out + world.paid + world.rescued = s
      BY <1>0, OftIsComposer DEF OftBooks, OFT!World, OFT!Worlds
    <3> HIDE DEF s
    <3>2. (world.bal + OFT!Amounts[m]) + world.out + world.paid + world.rescued
            = OFT!Amounts[m] + s
      BY <3>1
    <3> QED
      BY <2>2, <2>4, <3>2 DEF s
  <2>6. world' \in OftBooks
    BY <1>1, <2>3, <2>5 DEF OftBooks
  <2> QED
    BY <1>0, <2>1, <2>6, OFTC!BooksKept DEF OFTC!StackStep
<1>4. ASSUME NEW m \in OFTMessages, NEW caller, OFT!LzCompose(caller, m)
      PROVE  OFTC!AllIn(OftBooks)'
  <2> DEFINE v == OFTC!Staged([world EXCEPT !.taken = @ \union {m}], OFT!Params[m])
  <2>1. m \in world.own \ world.taken /\ OFTC!Enter("program", m, v)
    BY <1>4 DEF OFT!LzCompose, OFT!Presented, OFT!Authorised, OFT!Marked, OFT!Queued,
                OFT!Enter, OFTC!Enter, OFT!Frame, OFTC!Frame, OFT!Staged, OFTC!Staged
  <2>2. /\ v.own = world.own /\ v.taken = world.taken \union {m} /\ v.bal = world.bal
        /\ v.out = world.out /\ v.paid = world.paid /\ v.rescued = world.rescued
    BY <1>0 DEF OFTC!Staged, OftBooks, OFT!World, OFT!Worlds
  <2>3. world' = v
    BY <2>1 DEF OFTC!Enter
  <2> HIDE DEF v
  <2>4. world' \in OftBooks
    BY <1>0, <1>1, <2>1, <2>2, <2>3 DEF OftBooks
  <2> QED
    BY <1>0, <2>1, <2>4, OFTC!EnterStack, OFTC!BooksKept
<1> QED
  BY <1>2, <1>3, <1>4 DEF OFT!Next

LEMMA OftInductive ==
  /\ OFT!Init => OftIInv
  /\ OftIInv /\ OFT!Next => OftIInv'
  /\ OftIInv /\ UNCHANGED vars => OftIInv'
<1>1. ASSUME OFT!Init PROVE OFTC!AllIn(OftBooks)
  <2>1. OFTC!IInv(Oft) /\ frames = << >>
    BY <1>1, OftKeeps DEF OFT!Init, OFT!Deployed
  <2>2. /\ world \in OFT!World /\ world.own = {} /\ world.taken = {} /\ world.bal = 0
        /\ world.out = 0 /\ world.paid = 0 /\ world.rescued = 0
    BY <1>1, <2>1, OFTC!Present, OftIsComposer DEF OFT!Init, OFT!Deployed
  <2>3. world \in OftBooks
    BY <2>2, SumEmpty, FS_EmptySet DEF OftBooks
  <2> QED
    BY <2>1, <2>3 DEF OFTC!AllIn
<1>2. OftIInv /\ OFT!Next => OftIInv'
  BY OftKeeps, OftBooksKeeps DEF OftIInv
<1>3. OftIInv /\ UNCHANGED vars => OftIInv'
  BY OFTC!StutterStep DEF OftIInv, OFTC!AllIn, vars, OFTC!vars
<1> QED
  BY <1>1, <1>2, <1>3, OftKeeps DEF OftIInv

LEMMA OftRunsOnce ==
  ASSUME OftIInv PROVE OFT!QueueMatchesRuns
<1> SUFFICES ASSUME OFTC!Idle, NEW m \in OFTMessages
             PROVE  world.runs[m] = IF m \in world.taken THEN 1 ELSE 0
  BY OftCommon DEF OFT!QueueMatchesRuns
<1> QED
  BY OFTC!RunsWhenIdle, OftIsComposer DEF OftIInv

\* What programs moved came with messages that are not in the queue any more.
LEMMA OftBacked ==
  ASSUME OftIInv PROVE OFT!PendingIsBacked
<1> DEFINE A == OFT!Amounts
           R == {m \in OFTMessages : world.read[m] # {}}
           own == world.own
<1> SUFFICES ASSUME world.out = SumFunctionOnSet(A, R), world.rescued = 0, world.paid = 0
             PROVE  SumFunctionOnSet(A, own \ world.taken) <= world.bal
  BY OftSum, Zenon DEF OFT!PendingIsBacked, OFT!MovedOnce, OFT!Queued
<1>1. /\ own \in SUBSET OFTMessages /\ IsFiniteSet(own) /\ world.taken \subseteq own
      /\ world.bal \in Nat /\ world.out \in Nat
      /\ world.bal + world.out + world.paid + world.rescued = SumFunctionOnSet(A, own)
  BY DEF OftIInv, OFTC!AllIn, OftBooks, OFT!World, OFT!Worlds
<1>2. R \subseteq world.taken
  BY OFTC!ActedIsTaken DEF OftIInv
<1>3. A \in [OFTMessages -> Nat] /\ A \in [OFTMessages -> Int]
  BY OftIsComposer
<1> HIDE DEF A, R
<1>4. R \in SUBSET own /\ own \ world.taken \in SUBSET (own \ R)
  BY <1>1, <1>2
<1>5. SumFunctionOnSet(A, own) = SumFunctionOnSet(A, R) + SumFunctionOnSet(A, own \ R)
  BY <1>1, <1>3, <1>4, SumSplit
<1>6. /\ IsFiniteSet(own \ R) /\ own \ R \in SUBSET OFTMessages
      /\ IsFiniteSet(own \ world.taken)
  BY <1>1, FS_Subset
<1>7. SumFunctionOnSet(A, own \ world.taken) <= SumFunctionOnSet(A, own \ R)
  BY <1>3, <1>4, <1>6, SumPart
<1>8. SumFunctionOnSet(A, own \ R) \in Nat
  BY <1>3, <1>6, SumNat
<1>9. world.bal + world.out = world.out + SumFunctionOnSet(A, own \ R)
  BY <1>1, <1>5
<1>10. world.bal = SumFunctionOnSet(A, own \ R)
  BY <1>1, <1>8, <1>9
<1> QED
  BY <1>7, <1>10
-----------------------------------------------------------------------------
(* CCIPComposer: the off-ramp executes a message only by calling ccipReceive. *)

Ccip ==
  [params |-> CCIP!Params, only |-> CCIPMessages,
   own |-> [enabled : BOOLEAN, allowed : SUBSET Lanes]]

LEMMA CcipMsgFields ==
  ASSUME NEW m \in CCIPMessages
  PROVE  CCIPMsg[m].amount \in Nat /\ CCIPMsg[m].selector \in Nat
BY CCIPAssumption

LEMMA CcipIsComposer ==
  /\ CCIPC!Composer(Ccip) /\ CCIPC!WorldOf(Ccip) = CCIP!World
  /\ Ccip.params = CCIP!Params /\ Ccip.only = CCIPMessages
  /\ \A m \in CCIPMessages : CCIP!Params[m] \in Nat \X Nat
<1>1. \A m \in CCIPMessages : CCIP!Params[m] \in Nat \X Nat
  BY CcipMsgFields DEF CCIP!Params
<1>2. CCIPC!WorldOf(Ccip) = CCIP!World
  BY DEF Ccip, CCIPC!WorldOf, CCIPC!Worlds, CCIP!World, CCIP!Worlds
<1>3. CCIPC!Composer(Ccip)
  BY <1>1 DEF Ccip, CCIPC!Composer, CCIP!Params
<1> QED
  BY <1>1, <1>2, <1>3 DEF Ccip

LEMMA CcipCommon ==
  /\ CCIP!CommonStep <=> CCIPC!CommonStep
  /\ CCIP!Deployed([enabled |-> Enabled0, allowed |-> {}])
       <=> CCIPC!Deployed([enabled |-> Enabled0, allowed |-> {}])
  /\ CCIP!Idle <=> CCIPC!Idle
  /\ CCIP!FromOwner <=> CCIPC!FromOwner
  /\ CCIP!Committed = CCIPC!Committed
  /\ CCIP!Settled = CCIPC!Settled /\ CCIP!Settled' = CCIPC!Settled'
  /\ CCIP!Acted = CCIPC!Acted /\ CCIP!Acted' = CCIPC!Acted'
BY DEF CCIP!CommonStep, CCIPC!CommonStep, CCIP!Deployed, CCIPC!Deployed,
       CCIP!BeginTx, CCIPC!BeginTx, CCIP!TransferOwnership, CCIPC!TransferOwnership,
       CCIP!ProgramSpend, CCIPC!ProgramSpend, CCIP!ProgramTstore, CCIPC!ProgramTstore,
       CCIP!FinishProgram, CCIPC!FinishProgram, CCIP!RescueToken, CCIPC!RescueToken,
       CCIP!PayPool, CCIPC!PayPool, CCIP!Revert, CCIPC!Revert, CCIP!EndTx, CCIPC!EndTx,
       CCIP!Running, CCIPC!Running, CCIP!Calling, CCIPC!Calling,
       CCIP!FromOwner, CCIPC!FromOwner,
       CCIP!Enter, CCIPC!Enter, CCIP!Leave, CCIPC!Leave, CCIP!Frame, CCIPC!Frame,
       CCIP!Unstaged, CCIPC!Unstaged, CCIP!Discarded, CCIPC!Discarded,
       CCIP!CleanSlots, CCIPC!CleanSlots, CCIP!Idle, CCIPC!Idle, CCIP!Top, CCIPC!Top,
       CCIP!Callers, CCIPC!Callers, CCIP!Settled, CCIPC!Settled, CCIP!Acted, CCIPC!Acted,
       CCIP!Committed, CCIPC!Committed

\* What ccipReceive does once its checks have passed.
LEMMA CcipReceives ==
  ASSUME CCIPC!IInv(Ccip), NEW m \in CCIPMessages, NEW caller, CCIP!CcipReceive(caller, m)
  PROVE  \E u \in CCIP!World :
           /\ frames # << >> /\ ~world.locked /\ m \notin world.taken
           /\ u.taken = world.taken \union {m} /\ u.own = world.own
           /\ u.owner = world.owner /\ u.read = world.read /\ u.runs = world.runs
           /\ CCIP!Open(world, m)
           /\ CCIPC!Enter("program", m, CCIPC!Staged(u, CCIP!Params[m]))
<1> DEFINE u == [world EXCEPT !.taken = @ \union {m}, !.bal = @ + CCIPMsg[m].amount]
<1>1. /\ frames # << >> /\ ~world.locked /\ m \notin world.taken /\ CCIP!Open(world, m)
      /\ CCIPC!Enter("program", m, CCIPC!Staged(u, CCIP!Params[m]))
  BY DEF CCIP!CcipReceive, CCIP!Calling, CCIP!Idle, CCIP!Presented, CCIP!NonReentrant,
         CCIP!Authorised, CCIP!Released, CCIP!Enter, CCIPC!Enter, CCIP!Frame,
         CCIPC!Frame, CCIP!Staged, CCIPC!Staged
<1>2. world \in CCIP!World
  BY CCIPC!Present, CcipIsComposer
<1>3. world.bal + CCIPMsg[m].amount \in Nat
  <2>1. world.bal \in Nat /\ CCIPMsg[m].amount \in Nat
    BY <1>2, CcipMsgFields DEF CCIP!World, CCIP!Worlds
  <2> QED
    BY <2>1
<1>4. /\ u \in CCIP!World /\ u.own = world.own /\ u.owner = world.owner
      /\ u.read = world.read /\ u.runs = world.runs /\ u.taken = world.taken \union {m}
  BY <1>2, <1>3 DEF CCIP!World, CCIP!Worlds
<1> HIDE DEF u
<1> QED
  BY <1>1, <1>4

\* Only the owner, as the sender of the transaction, opens and closes lanes.
LEMMA CcipConfigures ==
  ASSUME CCIPC!IInv(Ccip),
         \/ \E on \in BOOLEAN : CCIP!SetAllowlistEnabled(on)
         \/ \E on \in BOOLEAN, l \in Lanes : CCIP!SetAllowed(l, on)
  PROVE  /\ CCIPC!FromOwner /\ frames' = frames /\ world' \in CCIP!World
         /\ world'.locked = world.locked /\ world'.slot = world.slot
         /\ world'.read = world.read /\ world'.runs = world.runs
         /\ world'.taken = world.taken
<1>1. world \in CCIP!World
  BY CCIPC!Present, CcipIsComposer
<1>2. CASE \E on \in BOOLEAN : CCIP!SetAllowlistEnabled(on)
  BY <1>1, <1>2, CcipCommon DEF CCIP!SetAllowlistEnabled, CCIP!World, CCIP!Worlds
<1>3. CASE \E on \in BOOLEAN, l \in Lanes : CCIP!SetAllowed(l, on)
  <2>1. PICK on \in BOOLEAN, l \in Lanes : CCIP!SetAllowed(l, on)
    BY <1>3
  <2> DEFINE allowed == IF on THEN world.own.allowed \union {l} ELSE world.own.allowed \ {l}
  <2>2. allowed \in SUBSET Lanes
    BY <1>1 DEF CCIP!World, CCIP!Worlds
  <2>3. CCIP!FromOwner /\ frames' = frames /\ world' = [world EXCEPT !.own.allowed = allowed]
    BY <2>1 DEF CCIP!SetAllowed
  <2> HIDE DEF allowed
  <2> QED
    BY <1>1, <2>2, <2>3, CcipCommon DEF CCIP!World, CCIP!Worlds
<1> QED
  BY <1>2, <1>3

LEMMA CcipKeeps ==
  /\ CCIP!Init => CCIPC!IInv(Ccip)
  /\ CCIPC!IInv(Ccip) /\ CCIP!Next => CCIPC!IInv(Ccip)'
<1>1. CCIP!Init => CCIPC!IInv(Ccip)
  BY CcipCommon, CCIPC!DeployedFits, CCIPAssumption DEF CCIP!Init, Ccip
<1>2. ASSUME CCIPC!IInv(Ccip), CCIP!CommonStep PROVE CCIPC!IInv(Ccip)'
  BY <1>2, CcipCommon, CcipIsComposer, CCIPC!CommonKeeps
<1>3. ASSUME CCIPC!IInv(Ccip), NEW m \in CCIPMessages, NEW caller, CCIP!CcipReceive(caller, m)
      PROVE  CCIPC!IInv(Ccip)'
  BY <1>3, CcipReceives, CcipIsComposer, CCIPC!ReceiveStep
<1>4. ASSUME CCIPC!IInv(Ccip),
             \/ \E on \in BOOLEAN : CCIP!SetAllowlistEnabled(on)
             \/ \E on \in BOOLEAN, l \in Lanes : CCIP!SetAllowed(l, on)
      PROVE  CCIPC!IInv(Ccip)'
  BY <1>4, CcipConfigures, CcipIsComposer, CCIPC!QuietStep
<1> QED
  BY <1>1, <1>2, <1>3, <1>4 DEF CCIP!Next

LEMMA CcipRunsOnce ==
  ASSUME CCIPC!IInv(Ccip) PROVE CCIP!DeliveredWithOneRun
<1> SUFFICES ASSUME CCIPC!Idle, NEW m \in CCIPMessages
             PROVE  world.runs[m] = IF m \in world.taken THEN 1 ELSE 0
  BY CcipCommon DEF CCIP!DeliveredWithOneRun
<1> QED
  BY CCIPC!RunsWhenIdle, CcipIsComposer
\* In a transaction that the owner did not send nothing changes the allowlist,
\* and the messages it runs and settles were open when it began.
LanesOpen(w, st) ==
  LET base == st[1].snap
  IN Len(st) > 0 /\ st[1].arg # base.owner =>
       /\ w.own = base.own /\ w.owner = base.owner
       /\ \A m \in CCIPMessages :
            \/ CCIPC!RunsIn(st, m)
            \/ w.runs[m] > 0 /\ ~(base.runs[m] > 0)
            => CCIP!Open(base, m)

LaneFit == {p \in CCIP!World \X Seq(CCIPC!FrameSet(Ccip)) : LanesOpen(p[1], p[2])}

CcipIInv == CCIPC!IInv(Ccip) /\ CCIPC!Kept(LaneFit, world, frames)

LEMMA LaneFitDef ==
  ASSUME NEW w, NEW st
  PROVE  <<w, st>> \in LaneFit <=>
           w \in CCIP!World /\ st \in Seq(CCIPC!FrameSet(Ccip)) /\ LanesOpen(w, st)
BY DEF LaneFit

LEMMA LanePresent ==
  ASSUME CcipIInv
  PROVE  /\ frames \in Seq(CCIPC!FrameSet(Ccip)) /\ Len(frames) \in Nat
         /\ world \in CCIP!World /\ LanesOpen(world, frames)
         /\ CCIPC!IInv(Ccip) /\ CCIPC!Kept(LaneFit, world, frames)
BY LaneFitDef, CCIPC!Present DEF CcipIInv, CCIPC!Kept

\* A step of the running frame that leaves owner, allowlist and books alone,
\* or one that only a transaction of the owner takes.
LEMMA LaneStay ==
  ASSUME CcipIInv, frames' = frames, world' \in CCIP!World,
         \/ CCIPC!FromOwner
         \/ world'.own = world.own /\ world'.owner = world.owner /\ world'.runs = world.runs
  PROVE  CCIPC!Kept(LaneFit, world', frames')
<1>1. LanesOpen(world', frames)
  <2>1. CASE /\ world'.own = world.own /\ world'.owner = world.owner
             /\ world'.runs = world.runs
    BY <2>1, LanePresent DEF LanesOpen
  <2>2. CASE CCIPC!FromOwner
    <3>1. frames # << >> /\ Len(frames) \in 1 .. Len(frames)
      BY <2>2, LanePresent, CCIPC!CallersOf DEF CCIPC!FromOwner, CCIPC!Idle
    <3>2. Len(frames) = 1
      BY <2>2, <3>1, CCIPC!Present, LanePresent
         DEF CCIPC!FromOwner, CCIPC!Top, CCIPC!Fits, CCIPC!Shaped
    <3>3. frames[1].arg = world.owner
      BY <2>2, <3>2 DEF CCIPC!FromOwner, CCIPC!Top
    <3> QED
      BY <3>3, LanePresent DEF LanesOpen
  <2> QED
    BY <2>1, <2>2
<1>2. <<world', frames>> \in LaneFit
  BY <1>1, LanePresent, LaneFitDef
<1> QED
  BY <1>2, LanePresent, CCIPC!KeptStay

LEMMA LaneReceive ==
  ASSUME CcipIInv, NEW m \in CCIPMessages, NEW caller \in {"router", "anyone"},
         CCIP!CcipReceive(caller, m)
  PROVE  CCIPC!Kept(LaneFit, world', frames')
<1> DEFINE f == CCIPC!Frame("program", m)
           su == Append(frames, f)
<1>1. PICK u \in CCIP!World :
           /\ frames # << >> /\ u.own = world.own
           /\ u.owner = world.owner /\ u.runs = world.runs
           /\ CCIP!Open(world, m)
           /\ CCIPC!Enter("program", m, CCIPC!Staged(u, CCIP!Params[m]))
  BY LanePresent, CcipReceives
<1> DEFINE v == CCIPC!Staged(u, CCIP!Params[m])
<1>2. world' = v /\ world' \in CCIP!World
  BY <1>1, LanePresent, CcipKeeps, CCIPC!PresentNext, CcipIsComposer DEF CCIPC!Enter, CCIP!Next
<1>3. v.own = world.own /\ v.owner = world.owner /\ v.runs = world.runs
  BY <1>1 DEF CCIPC!Staged, CCIP!World, CCIP!Worlds
<1>4. f \in CCIPC!FrameSet(Ccip) /\ f.at = "program" /\ f.arg = m
  BY LanePresent, CcipIsComposer DEF CCIPC!Frame, CCIPC!FrameSet
<1> HIDE DEF f, v
<1>5. /\ su \in Seq(CCIPC!FrameSet(Ccip)) /\ su[1] = frames[1]
      /\ Len(frames) > 0 /\ Len(su) > 0
      /\ \A n : CCIPC!RunsIn(su, n) <=> CCIPC!RunsIn(frames, n) \/ n = m
  <2>1. \A n : CCIPC!RunsIn(su, n) <=> CCIPC!RunsIn(frames, n) \/ n = m
    BY <1>4, LanePresent, CCIPC!RunsWithPushed
  <2> QED
    BY <1>1, <1>4, <2>1, LanePresent, CCIPC!AppendProperties, CCIPC!EmptySeq
<1> HIDE DEF su
<1>6. LanesOpen(v, su)
  BY <1>1, <1>3, <1>5, LanePresent DEF LanesOpen, CCIP!Open
<1>7. <<v, su>> \in LaneFit
  BY <1>2, <1>5, <1>6, LaneFitDef
<1> QED
  BY <1>1, <1>4, <1>7, LanePresent, CCIPC!EnterKeeps DEF f, v, su

LEMMA LaneBeginTx ==
  ASSUME CcipIInv, NEW u \in Users, CCIPC!BeginTx(u)
  PROVE  CCIPC!Kept(LaneFit, world', frames')
<1> DEFINE f == CCIPC!Frame("batch", u)
           su == Append(frames, f)
<1>1. frames = << >> /\ CCIPC!Enter("batch", u, world)
  BY DEF CCIPC!BeginTx, CCIPC!Idle
<1>2. f \in CCIPC!FrameSet(Ccip) /\ f.at = "batch" /\ f.snap = world
  BY LanePresent, CcipIsComposer DEF CCIPC!Frame, CCIPC!FrameSet
<1> HIDE DEF f
<1>3. /\ su \in Seq(CCIPC!FrameSet(Ccip)) /\ su[1] = f
      /\ \A n : ~CCIPC!RunsIn(su, n)
  <2>1. \A n : CCIPC!RunsIn(su, n) <=> CCIPC!RunsIn(frames, n)
    BY <1>2, LanePresent, CCIPC!RunsWithPushed
  <2>2. \A n : ~CCIPC!RunsIn(frames, n)
    BY <1>1 DEF CCIPC!RunsIn
  <2> QED
    BY <1>1, <1>2, <2>1, <2>2, LanePresent, CCIPC!AppendProperties
<1> HIDE DEF su
<1>4. LanesOpen(world, su)
  BY <1>2, <1>3 DEF LanesOpen
<1>5. <<world, su>> \in LaneFit
  BY <1>3, <1>4, LanePresent, LaneFitDef
<1> QED
  BY <1>1, <1>2, <1>5, LanePresent, CCIPC!EnterKeeps DEF f, su

\* The end of a program, or of the transaction.
LEMMA LaneLeave ==
  ASSUME CcipIInv, CCIPC!FinishProgram \/ CCIPC!EndTx
  PROVE  CCIPC!Kept(LaneFit, world', frames')
<1> DEFINE su == CCIPC!Below(frames, Len(frames) - 1)
<1>1. /\ frames # << >> /\ frames' = su
  <2>1. Len(frames) = 1 => frames # << >>
    OBVIOUS
  <2> QED
    BY <2>1 DEF CCIPC!FinishProgram, CCIPC!Running, CCIPC!Idle, CCIPC!EndTx, CCIPC!Leave,
                CCIPC!Callers, CCIPC!Below
<1>2. /\ Len(frames) \in Nat /\ su \in Seq(CCIPC!FrameSet(Ccip))
      /\ Len(su) = Len(frames) - 1 /\ \A j \in 1 .. Len(su) : su[j] = frames[j]
  BY <1>1, LanePresent, CCIPC!CallersOf
<1>3. world' \in CCIP!World
  <2>1. CCIPC!CommonStep
    BY DEF CCIPC!CommonStep
  <2> QED
    BY <2>1, CcipCommon, LanePresent, CcipKeeps, CCIPC!PresentNext, CcipIsComposer
       DEF CCIP!Next
<1> HIDE DEF su
<1>4. LanesOpen(world', su)
  <2>1. CASE CCIPC!EndTx
    <3>1. ~(Len(su) > 0)
      BY <1>2, <2>1 DEF CCIPC!EndTx
    <3> QED
      BY <3>1 DEF LanesOpen
  <2>2. CASE CCIPC!FinishProgram
    <3>1. /\ CCIPC!Top.at = "program" /\ CCIPC!Top.arg \in CCIPMessages
          /\ world' = [CCIPC!Unstaged(world) EXCEPT !.runs[CCIPC!Top.arg] = @ + 1]
          /\ \A m \in CCIPMessages : CCIPC!RunsIn(frames, m) <=> m = CCIPC!Top.arg
          /\ \A m \in CCIPMessages : ~CCIPC!RunsIn(su, m)
      BY <1>1, <2>2, LanePresent, CCIPC!OneProgram
         DEF CCIPC!FinishProgram, CCIPC!Running, CCIPC!Leave
    <3>2. /\ world'.own = world.own /\ world'.owner = world.owner
          /\ \A m \in CCIPMessages : m # CCIPC!Top.arg => world'.runs[m] = world.runs[m]
      BY <3>1, LanePresent DEF CCIPC!Unstaged, CCIP!World, CCIP!Worlds
    <3>3. Len(su) > 0 => su[1] = frames[1] /\ Len(frames) > 0
      BY <1>2
    <3> QED
      BY <3>1, <3>2, <3>3, LanePresent DEF LanesOpen
  <2> QED
    BY <2>1, <2>2
<1>5. <<world', su>> \in LaneFit
  BY <1>2, <1>3, <1>4, LaneFitDef
<1> QED
  BY <1>1, <1>5, LanePresent, CCIPC!KeptLeave DEF su

LEMMA LaneKeeps ==
  ASSUME CcipIInv, CCIP!Next
  PROVE  CCIPC!Kept(LaneFit, world', frames')
<1>0. world \in CCIP!World /\ world' \in CCIP!World
  BY LanePresent, CcipKeeps, CCIPC!PresentNext, CcipIsComposer
<1>1. CASE \E m \in CCIPMessages, caller \in {"router", "anyone"} : CCIP!CcipReceive(caller, m)
  BY <1>1, LaneReceive
<1>2. CASE \/ \E on \in BOOLEAN : CCIP!SetAllowlistEnabled(on)
          \/ \E on \in BOOLEAN, l \in Lanes : CCIP!SetAllowed(l, on)
  BY <1>0, <1>2, LanePresent, CcipConfigures, LaneStay
<1>3. CASE CCIPC!CommonStep
  <2>1. CASE \E u \in Users : CCIPC!BeginTx(u)
    BY <2>1, LaneBeginTx
  <2>2. CASE CCIPC!FinishProgram \/ CCIPC!EndTx
    BY <2>2, LaneLeave
  <2>3. CASE CCIPC!Revert
    BY <2>3, LanePresent, CCIPC!RevertKeeps
  <2>4. CASE \E u \in Users : CCIPC!TransferOwnership(u)
    BY <1>0, <2>4, LaneStay DEF CCIPC!TransferOwnership
  <2>5. CASE \/ CCIPC!ProgramSpend \/ CCIPC!ProgramTstore
            \/ CCIPC!RescueToken(world.bal) \/ CCIPC!PayPool(world.bal)
    <3>1. /\ frames' = frames /\ world'.own = world.own
          /\ world'.owner = world.owner /\ world'.runs = world.runs
      BY <1>0, <2>5 DEF CCIPC!ProgramSpend, CCIPC!ProgramTstore, CCIPC!RescueToken,
                        CCIPC!PayPool, CCIP!World, CCIP!Worlds
    <3> QED
      BY <1>0, <3>1, LaneStay
  <2> QED
    BY <1>3, <2>1, <2>2, <2>3, <2>4, <2>5 DEF CCIPC!CommonStep
<1> QED
  BY <1>1, <1>2, <1>3, CcipCommon DEF CCIP!Next

LEMMA CcipInductive ==
  /\ CCIP!Init => CcipIInv
  /\ CcipIInv /\ CCIP!Next => CcipIInv'
  /\ CcipIInv /\ UNCHANGED vars => CcipIInv'
<1>1. ASSUME CCIP!Init PROVE CcipIInv
  <2>1. CCIPC!IInv(Ccip) /\ frames = << >>
    BY <1>1, CcipKeeps DEF CCIP!Init, CCIP!Deployed
  <2>2. /\ world \in CCIP!World /\ frames \in Seq(CCIPC!FrameSet(Ccip))
        /\ ~(Len(frames) > 0)
    BY <2>1, CCIPC!Present, CcipIsComposer
  <2>3. LanesOpen(world, frames)
    BY <2>2 DEF LanesOpen
  <2>4. <<world, frames>> \in LaneFit
    BY <2>2, <2>3, LaneFitDef
  <2>5. \A i \in 1 .. Len(frames) : FALSE
    BY <2>1
  <2> QED
    BY <2>1, <2>4, <2>5 DEF CcipIInv, CCIPC!Kept
<1>2. CcipIInv /\ CCIP!Next => CcipIInv'
  <2> SUFFICES ASSUME CcipIInv, CCIP!Next PROVE CcipIInv'
    OBVIOUS
  <2>1. CCIPC!IInv(Ccip)' /\ CCIPC!Kept(LaneFit, world', frames')
    BY CcipKeeps, LaneKeeps DEF CcipIInv
  <2> QED
    BY <2>1 DEF CcipIInv, CCIPC!Kept
<1>3. CcipIInv /\ UNCHANGED vars => CcipIInv'
  BY CCIPC!StutterStep DEF CcipIInv, CCIPC!Kept, vars, CCIPC!vars
<1> QED
  BY <1>1, <1>2, <1>3

\* What a transaction puts on record was open when it began, or the owner sent it.
LEMMA LanesSettle ==
  ASSUME CcipIInv, CCIPC!EndTx \/ CCIPC!Committed' = CCIPC!Committed
  PROVE  CCIP!OnlyOpenLanesSettleStep
<1> SUFFICES ASSUME NEW m \in CCIPC!Settled' \ CCIPC!Settled
             PROVE  CCIP!Open(CCIPC!Committed, m) \/ frames[1].arg = CCIPC!Committed.owner
  BY CcipCommon DEF CCIP!OnlyOpenLanesSettleStep
<1>1. CCIPC!EndTx
  BY DEF CCIPC!Settled
<1>2. frames # << >> /\ frames' = << >> /\ world'.runs = world.runs /\ Len(frames) = 1
  BY <1>1, LanePresent, CCIPC!EndTxAccounts DEF CCIPC!EndTx
<1>3. CCIPC!Committed = frames[1].snap /\ CCIPC!Committed' = world'
  BY <1>2 DEF CCIPC!Committed, CCIPC!Idle
<1>4. m \in CCIPMessages /\ world.runs[m] > 0 /\ ~(frames[1].snap.runs[m] > 0)
  BY <1>2, <1>3 DEF CCIPC!Settled
<1> QED
  BY <1>2, <1>3, <1>4, LanePresent DEF LanesOpen
-----------------------------------------------------------------------------
(* What a block records of the one and of the other. *)

LEMMA OftRecords ==
  ASSUME OftIInv, OFT!Next
  PROVE  OFTC!EndTx \/ OFTC!Committed' = OFTC!Committed
<1> SUFFICES ASSUME ~OFTC!EndTx PROVE OFTC!Committed' = OFTC!Committed
  OBVIOUS
<1>0. OFTC!IInv(Oft) /\ OFTC!IInv(Oft)'
  BY OftKeeps DEF OftIInv
<1>1. ASSUME NEW m \in OFTMessages, NEW caller, OFT!LzCompose(caller, m)
      PROVE  ~OFTC!Idle /\ \E v \in OFTC!WorldOf(Oft) : OFTC!Enter("program", m, v)
  <2>1. ~OFTC!Idle /\ OFTC!Enter("program", m, world')
    BY <1>1 DEF OFT!LzCompose, OFT!Calling, OFT!Idle, OFTC!Idle, OFT!Enter, OFTC!Enter,
                OFT!Frame, OFTC!Frame
  <2> QED
    BY <1>0, <2>1, OFTC!PresentNext
<1>2. ASSUME NEW m \in OFTMessages, OFT!Credit(m) PROVE ~OFTC!Idle /\ frames' = frames
  BY <1>2 DEF OFT!Credit, OFT!Calling, OFT!Idle, OFTC!Idle
<1> QED
  BY <1>0, <1>1, <1>2, OftCommon, OFTC!CommitOnlyAtEnd DEF OFT!Next

LEMMA CcipRecords ==
  ASSUME CcipIInv, CCIP!Next
  PROVE  CCIPC!EndTx \/ CCIPC!Committed' = CCIPC!Committed
<1> SUFFICES ASSUME ~CCIPC!EndTx PROVE CCIPC!Committed' = CCIPC!Committed
  OBVIOUS
<1>0. CCIPC!IInv(Ccip) /\ CCIPC!IInv(Ccip)'
  BY CcipKeeps DEF CcipIInv
<1>1. ASSUME NEW m \in CCIPMessages, NEW caller, CCIP!CcipReceive(caller, m)
      PROVE  ~CCIPC!Idle /\ \E v \in CCIPC!WorldOf(Ccip) : CCIPC!Enter("program", m, v)
  <2>1. ~CCIPC!Idle /\ CCIPC!Enter("program", m, world')
    BY <1>1 DEF CCIP!CcipReceive, CCIP!Calling, CCIP!Idle, CCIPC!Idle, CCIP!Enter,
                CCIPC!Enter, CCIP!Frame, CCIPC!Frame
  <2> QED
    BY <1>0, <2>1, CCIPC!PresentNext
<1>2. ASSUME \/ \E on \in BOOLEAN : CCIP!SetAllowlistEnabled(on)
             \/ \E on \in BOOLEAN, l \in Lanes : CCIP!SetAllowed(l, on)
      PROVE  ~CCIPC!Idle /\ frames' = frames
  BY <1>0, <1>2, CcipConfigures DEF CCIPC!FromOwner
<1> QED
  BY <1>0, <1>1, <1>2, CcipCommon, CCIPC!CommitOnlyAtEnd DEF CCIP!Next

-----------------------------------------------------------------------------
(* The behaviours of Composers. *)

IInv ==
  /\ which \in {"ApproveProxy", "Eureka", "DeFiVM", "OFT", "CCIP"}
  /\ which = "ApproveProxy" => ProxyIInv
  /\ which = "Eureka" => EurekaIInv
  /\ which = "DeFiVM" => VMIInv
  /\ which = "OFT" => OftIInv
  /\ which = "CCIP" => CcipIInv

\* The world of each contract, and every world that a revert can bring back,
\* is consistent with the frames that run on it and with its books.
THEOREM Consistency == Spec => []IInv
<1>1. Init => IInv
  BY ProxyInductive, EurekaInductive, VMInductive, OftInductive, CcipInductive DEF Init, IInv
<1>2. IInv /\ [Next]_<<which, vars>> => IInv'
  <2> SUFFICES ASSUME IInv, [Next]_<<which, vars>> PROVE IInv'
    OBVIOUS
  <2>1. which' = which
    BY DEF Next
  <2>2. which = "ApproveProxy" => ProxyIInv'
    BY ProxyInductive DEF IInv, Next
  <2>3. which = "Eureka" => EurekaIInv'
    BY EurekaInductive DEF IInv, Next
  <2>4. which = "DeFiVM" => VMIInv'
    BY VMInductive DEF IInv, Next
  <2>5. (which = "OFT" => OftIInv') /\ (which = "CCIP" => CcipIInv')
    BY OftInductive, CcipInductive DEF IInv, Next
  <2> QED
    BY <2>1, <2>2, <2>3, <2>4, <2>5 DEF IInv
<1> QED
  BY <1>1, <1>2, PTL DEF Spec

\* Type correctness of every contract, stack included: no wallet, escrow or
\* balance goes below zero.
THEOREM TypeCorrect == Spec => []TypeOK
<1>1. ProxyIInv => Proxy!TypeOK
  <2> SUFFICES ASSUME ProxyIInv PROVE world \in Proxy!World /\ frames \in Seq(ProxyFrame)
    BY DEF Proxy!TypeOK, ProxyFrame
  <2>1. frames \in Seq(ProxyFrame)
    BY DEF ProxyIInv, Nested
  <2>2. CASE Idle
    <3>1. world \in ProxyRest
      BY <2>2 DEF Idle, ProxyIInv, Nested
    <3> QED
      BY <2>1, <3>1 DEF ProxyRest
  <2> QED
    BY <2>1, <2>2, ProxyHere
<1>2. EurekaIInv => Eureka!TypeOK
  <2> SUFFICES ASSUME EurekaIInv PROVE world \in Eureka!World /\ frames \in Seq(EurekaFrame)
    BY DEF Eureka!TypeOK, EurekaFrame, Seqs, Eureka!Seqs
  <2>1. frames \in Seq(EurekaFrame)
    BY DEF EurekaIInv, Nested
  <2>2. CASE Idle
    <3>1. world \in EurekaRest
      BY <2>2 DEF Idle, EurekaIInv, Nested
    <3> QED
      BY <2>1, <3>1 DEF EurekaRest
  <2> QED
    BY <2>1, <2>2, EurekaHere
<1>3. VMIInv => VM!TypeOK
  <2> SUFFICES ASSUME VMIInv PROVE VM!TypeOK
    OBVIOUS
  <2> DEFINE F == [at : {"batch"}, arg : Users, snap : VM!World]
                    \union [at : {"pull", "program"},
                            arg : [permit : Permits \union {NoPermit}, program : Programs,
                                   i : Nat, sent : BOOLEAN],
                            snap : VM!World]
  <2>1. VMFrame \subseteq F
    BY DEF VMFrame, JobArg
  <2>2. world \in VM!World /\ frames \in Seq(VMFrame)
    BY VMHere
  <2>3. frames \in Seq(F)
    <3> HIDE DEF F
    <3> QED
      BY <2>1, <2>2
  <2> QED
    BY <2>2, <2>3 DEF VM!TypeOK
<1>4. OftIInv => OFT!TypeOK
  BY OFTC!StackTyped, OftIsComposer
     DEF OftIInv, OFT!TypeOK, OFT!FramesOver, OFTC!FramesOver
<1>5. CcipIInv => CCIP!TypeOK
  BY CCIPC!StackTyped, CcipIsComposer
     DEF CcipIInv, CCIP!TypeOK, CCIP!FramesOver, CCIPC!FramesOver
<1>6. IInv => TypeOK
  BY <1>1, <1>2, <1>3, <1>4, <1>5 DEF IInv, TypeOK
<1> QED
  BY <1>6, Consistency, PTL

\* ApproveProxy.execute leaves no parameter of one program for the next one to
\* read, however its calls nest and whichever of them revert.
THEOREM ParametersAreOwn == Spec => []NoStaleParams
<1>1. IInv => NoStaleParams
  BY ProxyResults DEF IInv, NoStaleParams
<1> QED
  BY <1>1, Consistency, PTL

\* A follow-up of EurekaComposer is registered for the packet that its transfer
\* sent, runs when the packet settles and not again, and acts on its outcome.
THEOREM FollowUpsInStep == Spec => []FollowUpsSettle
<1>1. IInv => FollowUpsSettle
  BY EurekaResults DEF IInv, FollowUpsSettle
<1> QED
  BY <1>1, Consistency, PTL

\* The refunds that EurekaComposer holds for one transfer never pay for another.
THEOREM RefundsAreOwn == Spec => []NoCrossFunding
<1>1. IInv => NoCrossFunding
  BY EurekaResults DEF IInv, NoCrossFunding
<1> QED
  BY <1>1, Consistency, PTL

\* ApproveProxy takes a caller's deposit, and DeFiVM the tokens of a signature,
\* for a run that ends, once, and for no other program than the one named.
THEOREM TakenForRuns == Spec => []DepositsOnlyForRuns
<1>1. IInv => DepositsOnlyForRuns
  BY ProxyResults, VMResults DEF IInv, DepositsOnlyForRuns
<1> QED
  BY <1>1, Consistency, PTL

\* What the endpoint or the off-ramp has marked as delivered has been run, and
\* once, however often delivery was attempted.
THEOREM RunsOnce == Spec => []DeliveredWithOneRun
<1>1. IInv => DeliveredWithOneRun
  BY OftRunsOnce, CcipRunsOnce DEF IInv, CcipIInv, DeliveredWithOneRun
<1> QED
  BY <1>1, Consistency, PTL

\* OFTComposer's one balance covers every message that waits in the queue, as
\* long as programs move their own amount only.
THEOREM QueueIsBacked == Spec => []PendingIsBacked
<1>1. IInv => PendingIsBacked
  BY OftBacked DEF IInv, PendingIsBacked
<1> QED
  BY <1>1, Consistency, PTL

\* CCIPComposer's allowlist holds for whole transactions: only the owner's own
\* can settle a message whose lane was closed when it began.
THEOREM LanesDecide == Spec => OnlyOpenLanesSettle
<1>1. IInv /\ [Next]_<<which, vars>> =>
        [which = "CCIP" => CCIP!OnlyOpenLanesSettleStep]_<<which, vars>>
  BY CcipRecords, LanesSettle DEF IInv, Next
<1> QED
  BY <1>1, Consistency, PTL DEF Spec, OnlyOpenLanesSettle

\* Whatever happens inside its transactions, a block of OFTComposer or of
\* CCIPComposer settles each message at most once, on its own parameters.
THEOREM Refines == Spec => KeepsPromise
<1>1. Init => OFTPromise!Init /\ CCIPPromise!Init
  BY DEF Init, OFTPromise!Init, CCIPPromise!Init, OFT!Init, CCIP!Init,
         OFT!Deployed, CCIP!Deployed, OFT!Settled, OFT!Acted, OFT!Committed, OFT!Idle,
         CCIP!Settled, CCIP!Acted, CCIP!Committed, CCIP!Idle
<1>2. IInv /\ [Next]_<<which, vars>> =>
        [OFTPromise!Next]_<<IF which = "OFT" THEN OFT!Settled ELSE {},
                            IF which = "OFT" THEN OFT!Acted ELSE {}>>
  <2> SUFFICES ASSUME IInv, [Next]_<<which, vars>>
               PROVE  \/ OFTPromise!Next
                      \/ UNCHANGED <<IF which = "OFT" THEN OFT!Settled ELSE {},
                                     IF which = "OFT" THEN OFT!Acted ELSE {}>>
    OBVIOUS
  <2>1. CASE which = "OFT" /\ which' = which /\ OFT!Next
    <3>1. \/ OFT!Settled' = OFT!Settled /\ OFT!Acted' = OFT!Acted
          \/ \E S \in SUBSET OFTMessages :
               /\ S # {} /\ S \cap OFT!Settled = {} /\ OFT!Settled' = OFT!Settled \union S
               /\ \E A \in SUBSET S :
                    OFT!Acted' = OFT!Acted \union {<<m, OFT!Params[m]>> : m \in A}
      <4>1. OFTC!EndTx \/ OFTC!Committed' = OFTC!Committed
        BY <2>1, OftRecords DEF IInv
      <4>2. \/ OFTC!Settled' = OFTC!Settled /\ OFTC!Acted' = OFTC!Acted
            \/ \E S \in SUBSET OFTMessages :
                 /\ S # {} /\ S \cap OFTC!Settled = {} /\ OFTC!Settled' = OFTC!Settled \union S
                 /\ \E A \in SUBSET S :
                      OFTC!Acted' = OFTC!Acted \union {<<m, Oft.params[m]>> : m \in A}
        BY <2>1, <4>1, OFTC!BlockSettles DEF IInv, OftIInv
      <4>3. \A A : {<<m, Oft.params[m]>> : m \in A} = {<<m, OFT!Params[m]>> : m \in A}
        BY OftIsComposer
      <4> QED
        BY <4>2, <4>3, OftCommon
    <3> QED
      BY <2>1, <3>1 DEF OFTPromise!Next, OFTPromise!Settle
  <2>2. CASE which # "OFT" /\ which' = which
    BY <2>2
  <2>3. CASE UNCHANGED <<which, vars>>
    BY <2>3 DEF vars, OFT!Settled, OFT!Acted, OFT!Committed, OFT!Idle
  <2> QED
    BY <2>1, <2>2, <2>3 DEF Next
<1>3. IInv /\ [Next]_<<which, vars>> =>
        [CCIPPromise!Next]_<<IF which = "CCIP" THEN CCIP!Settled ELSE {},
                             IF which = "CCIP" THEN CCIP!Acted ELSE {}>>
  <2> SUFFICES ASSUME IInv, [Next]_<<which, vars>>
               PROVE  \/ CCIPPromise!Next
                      \/ UNCHANGED <<IF which = "CCIP" THEN CCIP!Settled ELSE {},
                                     IF which = "CCIP" THEN CCIP!Acted ELSE {}>>
    OBVIOUS
  <2>1. CASE which = "CCIP" /\ which' = which /\ CCIP!Next
    <3>1. \/ CCIP!Settled' = CCIP!Settled /\ CCIP!Acted' = CCIP!Acted
          \/ \E S \in SUBSET CCIPMessages :
               /\ S # {} /\ S \cap CCIP!Settled = {} /\ CCIP!Settled' = CCIP!Settled \union S
               /\ \E A \in SUBSET S :
                    CCIP!Acted' = CCIP!Acted \union {<<m, CCIP!Params[m]>> : m \in A}
      <4>1. CCIPC!EndTx \/ CCIPC!Committed' = CCIPC!Committed
        BY <2>1, CcipRecords DEF IInv
      <4>2. \/ CCIPC!Settled' = CCIPC!Settled /\ CCIPC!Acted' = CCIPC!Acted
            \/ \E S \in SUBSET CCIPMessages :
                 /\ S # {} /\ S \cap CCIPC!Settled = {} /\ CCIPC!Settled' = CCIPC!Settled \union S
                 /\ \E A \in SUBSET S :
                      CCIPC!Acted' = CCIPC!Acted \union {<<m, Ccip.params[m]>> : m \in A}
        BY <2>1, <4>1, CCIPC!BlockSettles DEF IInv, CcipIInv
      <4>3. \A A : {<<m, Ccip.params[m]>> : m \in A} = {<<m, CCIP!Params[m]>> : m \in A}
        BY CcipIsComposer
      <4> QED
        BY <4>2, <4>3, CcipCommon
    <3> QED
      BY <2>1, <3>1 DEF CCIPPromise!Next, CCIPPromise!Settle
  <2>2. CASE which # "CCIP" /\ which' = which
    BY <2>2
  <2>3. CASE UNCHANGED <<which, vars>>
    BY <2>3 DEF vars, CCIP!Settled, CCIP!Acted, CCIP!Committed, CCIP!Idle
  <2> QED
    BY <2>1, <2>2, <2>3 DEF Next
<1> QED
  BY <1>1, <1>2, <1>3, Consistency, PTL
     DEF Spec, KeepsPromise, OFTPromise!Spec, CCIPPromise!Spec
=============================================================================
