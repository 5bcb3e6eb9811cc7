----------------------- MODULE InboundComposer_proofs -----------------------
(***************************************************************************)
(* What CCTPComposer, OFTComposer and CCIPComposer are proved from, for    *)
(* every set of messages and users, every depth of the call stack and any  *)
(* number of transactions.                                                 *)
(*                                                                         *)
(* The composer is a parameter c of the definitions and lemmas:            *)
(*   c.params  the parameter pair that each message's program is given     *)
(*   c.only    the messages that the bridge can only mark as delivered     *)
(*             together with a run of their program                        *)
(*   c.own     the values of world.own                                     *)
(* Its own steps are described by what they do to the common fields.       *)
(***************************************************************************)
EXTENDS InboundComposer, EvmFrames_proofs

WorldOf(c) == Worlds(c.own)

FrameSet(c) == [at : {"batch"}, arg : Users, snap : WorldOf(c)]
                 \union [at : {"program"}, arg : Messages, snap : WorldOf(c)]

\* The program of m is running in some frame of the stack st.
RunsIn(st, m) == \E j \in 1 .. Len(st) : st[j].at = "program" /\ st[j].arg = m

\* The bottom frame is the transaction's own, the others run programs, and
\* a program is entered only from a world whose lock is free.
Shaped(st) ==
  \A i \in 1 .. Len(st) :
    /\ st[i].at = "batch" <=> i = 1
    /\ st[i].at = "program" => ~st[i].snap.locked

\* What holds of any world by itself.
Sound(c, w) ==
  /\ ~w.locked => w.slot[0] = 0 /\ w.slot[1] = 0
  /\ \A m \in Messages : w.read[m] \subseteq {c.params[m]}

\* What holds of a world by virtue of the stack it stands on.
LockMatches(w, st) == w.locked <=> \E m \in Messages : RunsIn(st, m)
SlotsMatch(c, w, st) ==
  \A m \in Messages :
    RunsIn(st, m) => w.slot[0] = c.params[m][1] /\ w.slot[1] = c.params[m][2]
RunsMatch(c, w, st) ==
  \A m \in Messages :
    /\ w.runs[m] > 0 => m \in w.taken /\ w.runs[m] = 1 /\ ~RunsIn(st, m)
    /\ RunsIn(st, m) => m \in w.taken
    /\ m \in c.only /\ m \in w.taken => w.runs[m] = 1 \/ RunsIn(st, m)

\* A message that was acted on is settled, or its program is running.
Accounted(w, st) == \A m \in Messages : w.read[m] # {} => w.runs[m] > 0 \/ RunsIn(st, m)

\* What was settled when the transaction began stays as it was.
Since(base, w) ==
  \A m \in Messages : base.runs[m] > 0 => w.runs[m] > 0 /\ w.read[m] = base.read[m]

Fits(c, w, st) ==
  /\ Shaped(st)
  /\ Sound(c, w)
  /\ LockMatches(w, st) /\ SlotsMatch(c, w, st) /\ RunsMatch(c, w, st)
  /\ Accounted(w, st)
  /\ Len(st) > 0 => Since(st[1].snap, w)

Fit(c) == {p \in WorldOf(c) \X Seq(FrameSet(c)) : Fits(c, p[1], p[2])}

\* The inductive invariant: the world, and every world that a revert can bring
\* back, fits the frames below it.
IInv(c) == Kept(Fit(c), world, frames)

\* What the composer has to provide.
Composer(c) == c.params \in [Messages -> Int \X Int]

-----------------------------------------------------------------------------
(* The present. *)

LEMMA FitDef ==
  ASSUME NEW c, NEW w, NEW st
  PROVE  <<w, st>> \in Fit(c) <=>
           w \in WorldOf(c) /\ st \in Seq(FrameSet(c)) /\ Fits(c, w, st)
BY DEF Fit

LEMMA Present ==
  ASSUME NEW c, IInv(c)
  PROVE  /\ frames \in Seq(FrameSet(c)) /\ Len(frames) \in Nat
         /\ world \in WorldOf(c) /\ Fits(c, world, frames)
<1>1. <<world, frames>> \in Fit(c)
  BY DEF IInv, Kept
<1>2. world \in WorldOf(c) /\ frames \in Seq(FrameSet(c)) /\ Fits(c, world, frames)
  BY <1>1, FitDef
<1> QED
  BY <1>2

LEMMA PresentNext ==
  ASSUME NEW c, IInv(c)'
  PROVE  frames' \in Seq(FrameSet(c)) /\ world' \in WorldOf(c)
<1>1. <<world', frames'>> \in Fit(c)
  BY DEF IInv, Kept
<1> QED
  BY <1>1, FitDef

LEMMA WorldFields ==
  ASSUME NEW c, NEW w \in WorldOf(c)
  PROVE  /\ w.locked \in BOOLEAN /\ w.slot \in [Slots -> Nat]
         /\ w.bal \in Nat /\ w.out \in Nat /\ w.paid \in Nat /\ w.rescued \in Nat
         /\ w.owner \in Users /\ w.taken \in SUBSET Messages /\ w.own \in c.own
         /\ w.read \in [Messages -> SUBSET (Nat \X Nat)] /\ w.runs \in [Messages -> Nat]
BY DEF WorldOf, Worlds

\* A frame is a transaction's or a program's.
LEMMA FrameFields ==
  ASSUME NEW c, NEW f \in FrameSet(c)
  PROVE  /\ \/ f.at = "batch" /\ f.arg \in Users
            \/ f.at = "program" /\ f.arg \in Messages
         /\ f.snap \in WorldOf(c)
BY DEF FrameSet

\* What the frame below the top says of the programs that are running.
LEMMA RunsWithTop ==
  ASSUME NEW c, NEW st \in Seq(FrameSet(c)), st # << >>, NEW m
  PROVE  RunsIn(st, m) <=> \/ RunsIn(Below(st, Len(st) - 1), m)
                           \/ st[Len(st)].at = "program" /\ st[Len(st)].arg = m
<1> DEFINE su == Below(st, Len(st) - 1)
<1>1. /\ Len(st) \in Nat /\ Len(st) > 0 /\ Len(su) = Len(st) - 1
      /\ \A j \in 1 .. Len(su) : su[j] = st[j]
  BY CallersOf
<1> HIDE DEF su
<1>2. \A j : j \in 1 .. Len(st) <=> j \in 1 .. Len(su) \/ j = Len(st)
  BY <1>1
<1>3. RunsIn(st, m) <=> RunsIn(su, m) \/ (st[Len(st)].at = "program" /\ st[Len(st)].arg = m)
  BY <1>1, <1>2, Zenon DEF RunsIn
<1> QED
  BY <1>3 DEF su

LEMMA RunsWithPushed ==
  ASSUME NEW c, NEW st \in Seq(FrameSet(c)), NEW f \in FrameSet(c), NEW m
  PROVE  RunsIn(Append(st, f), m) <=> RunsIn(st, m) \/ (f.at = "program" /\ f.arg = m)
<1> DEFINE su == Append(st, f)
<1>1. /\ Len(st) \in Nat /\ Len(su) = Len(st) + 1 /\ su[Len(st) + 1] = f
      /\ \A j \in 1 .. Len(st) : su[j] = st[j]
  BY AppendProperties
<1> HIDE DEF su
<1>2. \A j : j \in 1 .. Len(su) <=> j \in 1 .. Len(st) \/ j = Len(st) + 1
  BY <1>1
<1>3. RunsIn(su, m) <=> RunsIn(st, m) \/ (f.at = "program" /\ f.arg = m)
  BY <1>1, <1>2, Zenon DEF RunsIn
<1> QED
  BY <1>3 DEF su

LEMMA ShapedBelow ==
  ASSUME NEW c, NEW st \in Seq(FrameSet(c)), st # << >>, Shaped(st)
  PROVE  Shaped(Below(st, Len(st) - 1))
<1> DEFINE su == Below(st, Len(st) - 1)
<1>1. /\ Len(st) \in Nat /\ Len(st) > 0 /\ Len(su) = Len(st) - 1
      /\ \A j \in 1 .. Len(su) : su[j] = st[j]
  BY CallersOf
<1> HIDE DEF su
<1>2. \A j \in 1 .. Len(su) : j \in 1 .. Len(st)
  BY <1>1
<1>3. Shaped(su)
  BY <1>1, <1>2 DEF Shaped
<1> QED
  BY <1>3 DEF su

LEMMA ShapedPushed ==
  ASSUME NEW c, NEW st \in Seq(FrameSet(c)), NEW f \in FrameSet(c), Shaped(st),
         f.at = "batch" <=> st = << >>, f.at = "program" => ~f.snap.locked
  PROVE  Shaped(Append(st, f))
<1> DEFINE su == Append(st, f)
<1>1. /\ Len(st) \in Nat /\ Len(su) = Len(st) + 1 /\ su[Len(st) + 1] = f
      /\ \A j \in 1 .. Len(st) : su[j] = st[j]
  BY AppendProperties
<1>2. st = << >> <=> Len(st) = 0
  BY EmptySeq
<1> HIDE DEF su
<1>3. ASSUME NEW i \in 1 .. Len(su)
      PROVE  (su[i].at = "batch" <=> i = 1) /\ (su[i].at = "program" => ~su[i].snap.locked)
  <2>1. CASE i \in 1 .. Len(st)
    BY <2>1, <1>1 DEF Shaped
  <2>2. CASE i = Len(st) + 1
    <3>1. i = 1 <=> st = << >>
      BY <1>1, <1>2, <2>2
    <3> QED
      BY <3>1, <2>2, <1>1
  <2> QED
    BY <2>1, <2>2, <1>1
<1>4. Shaped(su)
  BY <1>3 DEF Shaped
<1> QED
  BY <1>4 DEF su

\* While a program runs, it is that of a message, and no other one runs.
LEMMA OneProgram ==
  ASSUME NEW c, IInv(c), frames # << >>, Top.at = "program"
  PROVE  /\ Top.arg \in Messages
         /\ \A m \in Messages : RunsIn(frames, m) <=> m = Top.arg
         /\ \A m \in Messages : ~RunsIn(Callers, m)
         /\ Len(frames) > 1
<1>1. /\ frames \in Seq(FrameSet(c)) /\ Len(frames) \in 1 .. Len(frames)
      /\ Len(frames) \in Nat /\ Top \in FrameSet(c)
      /\ Callers = Below(frames, Len(frames) - 1)
  BY Present, CallersOf DEF Top, Callers, Below
<1>2. Top.arg \in Messages
  BY <1>1, FrameFields
<1>3. Shaped(frames)
  BY Present DEF Fits
<1>4. ~Top.snap.locked /\ Len(frames) # 1
  BY <1>1, <1>3 DEF Shaped, Top
<1>5. <<Top.snap, Callers>> \in Fit(c)
  BY <1>1 DEF IInv, Kept, Top
<1>6. LockMatches(Top.snap, Callers)
  BY <1>5, FitDef DEF Fits
<1>7. \A m \in Messages : ~RunsIn(Callers, m)
  BY <1>4, <1>6 DEF LockMatches
<1>8. \A m \in Messages : RunsIn(frames, m) <=> m = Top.arg
  <2>1. frames[Len(frames)].at = "program"
    BY DEF Top
  <2>2. \A m \in Messages : RunsIn(frames, m) <=> \/ RunsIn(Below(frames, Len(frames) - 1), m)
                                                 \/ frames[Len(frames)].arg = m
    BY <1>1, <2>1, RunsWithTop, Zenon
  <2> QED
    BY <1>1, <1>7, <2>2, Zenon DEF Top
<1>9. Len(frames) > 1
  <2>1. Len(frames) \in Nat /\ Len(frames) \in 1 .. Len(frames)
    BY <1>1
  <2> HIDE <1>1
  <2> QED
    BY <1>4, <2>1
<1> QED
  BY <1>2, <1>7, <1>8, <1>9

-----------------------------------------------------------------------------
(* The steps that CommonStep takes, one by one. *)

\* A step that leaves the stack and everything the invariant speaks of alone.
LEMMA QuietStep ==
  ASSUME NEW c, IInv(c), frames' = frames, world' \in WorldOf(c),
         world'.locked = world.locked,
         world'.slot[0] = world.slot[0], world'.slot[1] = world.slot[1],
         world'.read = world.read, world'.runs = world.runs,
         world'.taken = world.taken
  PROVE  IInv(c)'
<1>1. Fits(c, world', frames)
  BY Present DEF Fits, Sound, LockMatches, SlotsMatch, RunsMatch, Accounted, Since
<1>2. <<world', frames>> \in Fit(c)
  BY <1>1, Present, FitDef
<1> QED
  BY <1>2, KeptStay DEF IInv

\* The bridge marks a message without running its program.
LEMMA TakeStep ==
  ASSUME NEW c, IInv(c), frames' = frames, world' \in WorldOf(c),
         world'.locked = world.locked, world'.slot = world.slot,
         world'.read = world.read, world'.runs = world.runs,
         NEW m \in Messages \ c.only, world'.taken = world.taken \union {m}
  PROVE  IInv(c)'
<1>1. Fits(c, world', frames)
  BY Present DEF Fits, Sound, LockMatches, SlotsMatch, RunsMatch, Accounted, Since
<1>2. <<world', frames>> \in Fit(c)
  BY <1>1, Present, FitDef
<1> QED
  BY <1>2, KeptStay DEF IInv

LEMMA BeginTxStep ==
  ASSUME NEW c, IInv(c), NEW s \in Users, BeginTx(s)
  PROVE  IInv(c)'
<1> DEFINE f == Frame("batch", s)
<1>1. /\ frames = << >> /\ Enter("batch", s, world)
      /\ frames \in Seq(FrameSet(c)) /\ Fits(c, world, frames) /\ world \in WorldOf(c)
  BY Present DEF BeginTx, Idle
<1>2. f \in FrameSet(c) /\ f.at = "batch" /\ f.snap = world
  BY <1>1 DEF Frame, FrameSet
<1> HIDE DEF f
<1>3. \A m : RunsIn(Append(frames, f), m) <=> RunsIn(frames, m)
  BY <1>1, <1>2, RunsWithPushed
<1>4. Shaped(Append(frames, f))
  BY <1>1, <1>2, ShapedPushed DEF Fits
<1>5. Append(frames, f) \in Seq(FrameSet(c)) /\ Append(frames, f)[1] = f
  BY <1>1, <1>2, AppendProperties
<1>6. Fits(c, world, Append(frames, f))
  BY <1>1, <1>2, <1>3, <1>4, <1>5
     DEF Fits, LockMatches, SlotsMatch, RunsMatch, Accounted, Since
<1>7. <<world, Append(frames, f)>> \in Fit(c)
  BY <1>1, <1>5, <1>6, FitDef
<1> QED
  BY <1>1, <1>2, <1>7, EnterKeeps DEF IInv, f

LEMMA RevertStep ==
  ASSUME NEW c, IInv(c), Revert
  PROVE  IInv(c)'
BY Present, RevertKeeps DEF IInv

\* A frame that ends: what has to be shown of the world it leaves behind.
LEMMA LeaveStep ==
  ASSUME NEW c, IInv(c), frames # << >>, NEW v, Leave(v), <<v, Callers>> \in Fit(c)
  PROVE  IInv(c)'
<1>1. frames \in Seq(FrameSet(c)) /\ Callers = Below(frames, Len(frames) - 1)
  BY Present DEF Callers, Below
<1>2. Kept(Fit(c), v, Callers)
  BY <1>1, KeptLeave DEF IInv
<1> QED
  BY <1>2 DEF IInv, Leave

LEMMA EndTxStep ==
  ASSUME NEW c, IInv(c), EndTx
  PROVE  IInv(c)'
<1> DEFINE v == Discarded(world)
<1>1. /\ frames \in Seq(FrameSet(c)) /\ Len(frames) = 1 /\ frames # << >>
      /\ world \in WorldOf(c) /\ Fits(c, world, frames) /\ Leave(v)
  BY Present, EmptySeq DEF EndTx
<1>2. Callers = << >>
  BY <1>1 DEF Callers
<1>3. \A m : ~RunsIn(frames, m)
  BY <1>1 DEF Fits, Shaped, RunsIn
<1>4. /\ v \in WorldOf(c) /\ ~v.locked /\ v.slot[0] = 0 /\ v.slot[1] = 0
      /\ v.read = world.read /\ v.runs = world.runs /\ v.taken = world.taken
  BY <1>1, SlotsAssumption DEF Discarded, CleanSlots, WorldOf, Worlds
<1> HIDE DEF v
<1>5. Len(Callers) = 0 /\ Callers \in Seq(FrameSet(c)) /\ \A m : ~RunsIn(Callers, m)
  BY <1>2 DEF RunsIn
<1>6. Fits(c, v, Callers)
  BY <1>1, <1>3, <1>4, <1>5
     DEF Fits, Shaped, Sound, LockMatches, SlotsMatch, RunsMatch, Accounted
<1> QED
  BY <1>1, <1>4, <1>5, <1>6, FitDef, LeaveStep

LEMMA TstoreStep ==
  ASSUME NEW c, IInv(c), ProgramTstore
  PROVE  IInv(c)'
<1>1. PICK i \in Slots \ {0, 1} : world' = [world EXCEPT !.slot[i] = 1] /\ frames' = frames
  BY DEF ProgramTstore
<1>2. world' \in WorldOf(c) /\ world'.slot[0] = world.slot[0] /\ world'.slot[1] = world.slot[1]
      /\ world'.locked = world.locked /\ world'.read = world.read
      /\ world'.runs = world.runs /\ world'.taken = world.taken
  BY <1>1, Present, SlotsAssumption DEF WorldOf, Worlds
<1> QED
  BY <1>1, <1>2, QuietStep

\* The owner's functions and the callbacks touch neither the lock nor the books.
LEMMA MoneyStep ==
  ASSUME NEW c, IInv(c), \/ \E u \in Users : TransferOwnership(u)
                        \/ RescueToken(world.bal)
                        \/ PayPool(world.bal)
  PROVE  IInv(c)'
<1>1. world' \in WorldOf(c) /\ frames' = frames
      /\ world'.slot = world.slot /\ world'.locked = world.locked
      /\ world'.read = world.read /\ world'.runs = world.runs
      /\ world'.taken = world.taken
  <2>1. CASE \E u \in Users : TransferOwnership(u)
    BY <2>1, Present DEF TransferOwnership, WorldOf, Worlds
  <2>2. CASE RescueToken(world.bal)
    <3>1. world.bal - world.bal \in Nat /\ world.rescued + world.bal \in Nat
      BY Present, WorldFields
    <3> QED
      BY <2>2, <3>1, Present DEF RescueToken, WorldOf, Worlds
  <2>3. CASE PayPool(world.bal)
    <3>1. world.bal - world.bal \in Nat /\ world.paid + world.bal \in Nat
      BY Present, WorldFields
    <3> QED
      BY <2>3, <3>1, Present DEF PayPool, WorldOf, Worlds
  <2> QED
    BY <2>1, <2>2, <2>3
<1> QED
  BY <1>1, QuietStep

\* What a program acts on are the parameters of its message.
LEMMA SpendStep ==
  ASSUME NEW c, Composer(c), IInv(c), ProgramSpend
  PROVE  IInv(c)'
<1> DEFINE m0 == Top.arg
           p == <<world.slot[0], world.slot[1]>>
<1>1. frames # << >> /\ Top.at = "program" /\ world.slot[0] <= world.bal
  BY DEF ProgramSpend, Running, Idle
<1>2. m0 \in Messages /\ RunsIn(frames, m0)
  BY <1>1, OneProgram
<1>3. p = c.params[m0]
  <2>1. world.slot[0] = c.params[m0][1] /\ world.slot[1] = c.params[m0][2]
    BY <1>2, Present DEF Fits, SlotsMatch
  <2> QED
    BY <2>1, <1>2 DEF Composer
<1>4. world.slot[0] \in Nat /\ world.slot[1] \in Nat /\ world.bal \in Nat
      /\ world.out \in Nat
  BY Present, WorldFields, SlotsAssumption
<1>5. world.bal - world.slot[0] \in Nat /\ world.out + world.slot[0] \in Nat
      /\ p \in Nat \X Nat
  BY <1>1, <1>4
<1>6. /\ frames' = frames
      /\ world' = [world EXCEPT !.bal = world.bal - world.slot[0],
                                !.out = world.out + world.slot[0],
                                !.read[m0] = world.read[m0] \union {p}]
  BY DEF ProgramSpend
<1> HIDE DEF m0, p
<1>7. world' \in WorldOf(c)
  BY <1>2, <1>5, <1>6, Present DEF WorldOf, Worlds
<1>8. /\ world'.slot = world.slot /\ world'.locked = world.locked
      /\ world'.runs = world.runs /\ world'.taken = world.taken
      /\ \A m \in Messages :
           world'.read[m] = IF m = m0 THEN world.read[m] \union {p} ELSE world.read[m]
  BY <1>2, <1>6, Present DEF WorldOf, Worlds
<1>9. Fits(c, world', frames)
  <2>1. Fits(c, world, frames) /\ ~(world.runs[m0] > 0)
    BY <1>2, Present DEF Fits, RunsMatch
  <2>2. Sound(c, world')
    BY <1>3, <1>8, <2>1 DEF Fits, Sound
  <2>3. Accounted(world', frames)
    BY <1>2, <1>8, <2>1 DEF Fits, Accounted
  <2>4. Len(frames) > 0 => Since(frames[1].snap, world')
    BY <1>8, <2>1 DEF Fits, Since
  <2> QED
    BY <1>8, <2>1, <2>2, <2>3, <2>4 DEF Fits, LockMatches, SlotsMatch, RunsMatch
<1>10. <<world', frames>> \in Fit(c)
  BY <1>7, <1>9, Present, FitDef
<1> QED
  BY <1>6, <1>10, KeptStay DEF IInv

\* The end of a program leaves a clean composer to the frame below.
LEMMA FinishStep ==
  ASSUME NEW c, IInv(c), FinishProgram
  PROVE  IInv(c)'
<1> DEFINE m0 == Top.arg
           v == [Unstaged(world) EXCEPT !.runs[Top.arg] = @ + 1]
<1>1. frames # << >> /\ Top.at = "program" /\ Leave(v)
  BY DEF FinishProgram, Running, Idle
<1>2. /\ m0 \in Messages
      /\ \A m \in Messages : RunsIn(frames, m) <=> m = m0
      /\ \A m \in Messages : ~RunsIn(Callers, m)
      /\ Len(frames) > 1
  BY <1>1, OneProgram
<1>3. world.runs[m0] = 0 /\ m0 \in world.taken
  <2>1. world.runs[m0] \in Nat
    BY <1>2, Present, WorldFields
  <2>2. ~(world.runs[m0] > 0) /\ m0 \in world.taken
    BY <1>2, Present DEF Fits, RunsMatch
  <2> QED
    BY <2>1, <2>2
<1>4. v \in WorldOf(c)
  <2>1. [world.slot EXCEPT ![0] = 0, ![1] = 0] \in [Slots -> Nat]
    BY Present, WorldFields, SlotsAssumption
  <2>2. [world.runs EXCEPT ![m0] = @ + 1] \in [Messages -> Nat]
    BY <1>2, Present, WorldFields
  <2>3. v = [world EXCEPT !.locked = FALSE,
                          !.slot = [world.slot EXCEPT ![0] = 0, ![1] = 0],
                          !.runs = [world.runs EXCEPT ![m0] = @ + 1]]
    BY Present DEF Unstaged, WorldOf, Worlds
  <2> HIDE DEF m0, v
  <2> QED
    BY <2>1, <2>2, <2>3, Present DEF WorldOf, Worlds
<1>5. /\ ~v.locked /\ v.slot[0] = 0 /\ v.slot[1] = 0
      /\ v.read = world.read /\ v.taken = world.taken
      /\ \A m \in Messages : v.runs[m] = IF m = m0 THEN 1 ELSE world.runs[m]
  BY <1>2, <1>3, Present, SlotsAssumption DEF Unstaged, WorldOf, Worlds
<1> HIDE DEF m0, v
<1>6. /\ frames \in Seq(FrameSet(c)) /\ Callers \in Seq(FrameSet(c))
      /\ Len(Callers) > 0 => Callers[1] = frames[1]
      /\ Shaped(Callers)
  <2>1. /\ frames \in Seq(FrameSet(c)) /\ Shaped(frames)
        /\ Callers = Below(frames, Len(frames) - 1)
    BY Present DEF Fits, Callers, Below
  <2>2. /\ Callers \in Seq(FrameSet(c))
        /\ \A j \in 1 .. Len(Callers) : Callers[j] = frames[j]
    BY <1>1, <2>1, CallersOf
  <2> QED
    BY <1>1, <2>1, <2>2, ShapedBelow
<1>7. Fits(c, v, Callers)
  <2>1. Fits(c, world, frames)
    BY Present
  <2>2. Sound(c, v)
    BY <1>5, <2>1 DEF Fits, Sound
  <2>3. LockMatches(v, Callers) /\ SlotsMatch(c, v, Callers)
    BY <1>2, <1>5 DEF LockMatches, SlotsMatch
  <2>4. RunsMatch(c, v, Callers)
    BY <1>2, <1>3, <1>5, <2>1 DEF Fits, RunsMatch
  <2>5. Accounted(v, Callers)
    BY <1>2, <1>5, <2>1 DEF Fits, Accounted
  <2>6. Since(frames[1].snap, v)
    BY <1>2, <1>5, <2>1 DEF Fits, Since
  <2> QED
    BY <1>6, <2>2, <2>3, <2>4, <2>5, <2>6 DEF Fits
<1> QED
  BY <1>1, <1>4, <1>6, <1>7, FitDef, LeaveStep

\* The three contracts' common steps keep the invariant.
LEMMA CommonKeeps ==
  ASSUME NEW c, Composer(c), IInv(c), CommonStep
  PROVE  IInv(c)'
<1>1. CASE \E u \in Users : BeginTx(u)
  BY <1>1, BeginTxStep
<1>2. CASE \/ \E u \in Users : TransferOwnership(u)
          \/ RescueToken(world.bal) \/ PayPool(world.bal)
  BY <1>2, MoneyStep
<1>3. CASE ProgramSpend
  BY <1>3, SpendStep
<1>4. CASE ProgramTstore
  BY <1>4, TstoreStep
<1>5. CASE FinishProgram
  BY <1>5, FinishStep
<1>6. CASE Revert
  BY <1>6, RevertStep
<1>7. CASE EndTx
  BY <1>7, EndTxStep
<1> QED
  BY <1>1, <1>2, <1>3, <1>4, <1>5, <1>6, <1>7 DEF CommonStep

LEMMA StutterStep ==
  ASSUME NEW c, IInv(c), UNCHANGED vars
  PROVE  IInv(c)'
BY DEF IInv, vars

-----------------------------------------------------------------------------
(* The steps that the composers add. *)

LEMMA DeployedFits ==
  ASSUME NEW c, NEW own \in c.own, Deployed(own)
  PROVE  IInv(c)
<1>1. frames = << >> /\ Len(frames) = 0 /\ frames \in Seq(FrameSet(c))
  BY DEF Deployed
<1>2. \A m : ~RunsIn(frames, m)
  BY <1>1 DEF RunsIn
<1>3. world \in WorldOf(c)
  BY OwnerAssumption, SlotsAssumption DEF Deployed, WorldOf, Worlds, CleanSlots
<1>4. Fits(c, world, frames)
  BY <1>1, <1>2, SlotsAssumption
     DEF Fits, Shaped, Sound, LockMatches, SlotsMatch, RunsMatch, Accounted,
         Deployed, CleanSlots
<1>5. <<world, frames>> \in Fit(c)
  BY <1>1, <1>3, <1>4, FitDef
<1> QED
  BY <1>1, <1>5 DEF IInv, Kept

\* The entry point stages the parameters of m over the world u that the bridge
\* left: it has just marked m.
LEMMA ReceiveStep ==
  ASSUME NEW c, Composer(c), IInv(c), frames # << >>, ~world.locked,
         NEW m \in Messages, NEW u \in WorldOf(c),
         c.params[m] \in Nat \X Nat, u.read = world.read, u.runs = world.runs,
         m \notin world.taken, u.taken = world.taken \union {m},
         Enter("program", m, Staged(u, c.params[m]))
  PROVE  IInv(c)'
<1> DEFINE f == Frame("program", m)
           v == Staged(u, c.params[m])
           su == Append(frames, f)
<1>1. f \in FrameSet(c) /\ f.at = "program" /\ f.arg = m /\ f.snap = world
  BY Present DEF Frame, FrameSet
<1>2. /\ v \in WorldOf(c) /\ v.locked
      /\ v.slot[0] = c.params[m][1] /\ v.slot[1] = c.params[m][2]
      /\ v.read = world.read /\ v.runs = world.runs
      /\ v.taken = world.taken \union {m}
  <2>1. u.slot \in [Slots -> Nat] /\ 0 \in Slots /\ 1 \in Slots
    BY WorldFields, SlotsAssumption
  <2>2. c.params[m][1] \in Nat /\ c.params[m][2] \in Nat
    OBVIOUS
  <2> DEFINE slot == [u.slot EXCEPT ![0] = c.params[m][1], ![1] = c.params[m][2]]
  <2>3. slot \in [Slots -> Nat] /\ slot[0] = c.params[m][1] /\ slot[1] = c.params[m][2]
    BY <2>1, <2>2
  <2>4. v = [u EXCEPT !.locked = TRUE, !.slot = slot]
    BY DEF Staged
  <2> HIDE DEF slot
  <2> QED
    BY <2>3, <2>4 DEF WorldOf, Worlds
<1>3. \A n \in Messages : ~RunsIn(frames, n)
  BY Present DEF Fits, LockMatches
<1>4. Enter("program", m, v)
  OBVIOUS
<1> HIDE DEF f, v
<1>5. \A n \in Messages : RunsIn(su, n) <=> n = m
  BY <1>1, <1>3, Present, RunsWithPushed
<1>6. world.runs[m] = 0
  <2>1. world.runs[m] \in Nat
    BY Present, WorldFields
  <2>2. ~(world.runs[m] > 0)
    BY Present DEF Fits, RunsMatch
  <2> QED
    BY <2>1, <2>2
<1>7. su \in Seq(FrameSet(c)) /\ su[1] = frames[1] /\ Len(frames) > 0
  BY <1>1, Present, AppendProperties, EmptySeq
<1>8. Shaped(su)
  BY <1>1, Present, ShapedPushed DEF Fits
<1> HIDE DEF su
<1>9. Fits(c, v, su)
  <2>1. Fits(c, world, frames)
    BY Present
  <2>2. Sound(c, v)
    BY <1>2, <2>1 DEF Fits, Sound
  <2>3. LockMatches(v, su) /\ SlotsMatch(c, v, su)
    BY <1>2, <1>5 DEF LockMatches, SlotsMatch
  <2>4. RunsMatch(c, v, su)
    BY <1>2, <1>3, <1>5, <1>6, <2>1 DEF Fits, RunsMatch
  <2>5. Accounted(v, su)
    BY <1>2, <1>3, <2>1 DEF Fits, Accounted
  <2>6. Since(su[1].snap, v)
    BY <1>2, <1>7, <2>1 DEF Fits, Since
  <2> QED
    BY <1>8, <2>2, <2>3, <2>4, <2>5, <2>6 DEF Fits
<1>10. <<v, su>> \in Fit(c)
  BY <1>2, <1>7, <1>9, FitDef
<1> QED
  BY <1>1, <1>4, <1>10, Present, EnterKeeps DEF IInv, su, f

-----------------------------------------------------------------------------
(* What follows from the invariant. *)

\* The frames that are not the transaction's own are programs of messages.
LEMMA InsideIsRunning ==
  ASSUME NEW c, IInv(c)
  PROVE  Inside # {} <=> \E m \in Messages : RunsIn(frames, m)
<1>1. \A i \in 1 .. Len(frames) :
        \/ frames[i].at = "batch"
        \/ frames[i].at = "program" /\ frames[i].arg \in Messages
  BY Present, FrameFields
<1>2. DOMAIN frames = 1 .. Len(frames)
  BY Present
<1> QED
  BY <1>1, <1>2 DEF Inside, RunsIn

LEMMA TransientIsClean ==
  ASSUME NEW c, IInv(c)
  PROVE  TransientClean
<1>1. LockTracksEntry
  BY Present, InsideIsRunning DEF LockTracksEntry, Fits, LockMatches
<1>2. CleanBetweenCalls
  BY Present, InsideIsRunning DEF CleanBetweenCalls, Fits, Sound, LockMatches
<1> QED
  BY <1>1, <1>2 DEF TransientClean

LEMMA ReadsAreOwn ==
  ASSUME NEW c, IInv(c)
  PROVE  ReadsOwn(c.params)
BY Present DEF ReadsOwn, Fits, Sound

\* Between transactions no program runs: a message is run once or not at all,
\* and what had to come with a run did.
LEMMA RunsWhenIdle ==
  ASSUME NEW c, IInv(c), Idle, NEW m \in Messages
  PROVE  /\ \/ world.runs[m] = 0
            \/ world.runs[m] = 1 /\ m \in world.taken
         /\ m \in c.only /\ m \in world.taken => world.runs[m] = 1
<1>1. ~RunsIn(frames, m)
  BY DEF Idle, RunsIn
<1>2. world.runs[m] \in Nat
  BY Present, WorldFields
<1>3. /\ world.runs[m] > 0 => m \in world.taken /\ world.runs[m] = 1
      /\ m \in c.only /\ m \in world.taken => world.runs[m] = 1
  BY <1>1, Present DEF Fits, RunsMatch
<1> QED
  BY <1>2, <1>3

LEMMA StackTyped ==
  ASSUME NEW c, IInv(c)
  PROVE  world \in WorldOf(c) /\ frames \in FramesOver(WorldOf(c))
BY Present DEF FramesOver, FrameSet

\* A message that was acted on has been marked by the bridge.
LEMMA ActedIsTaken ==
  ASSUME NEW c, IInv(c), NEW m \in Messages, world.read[m] # {}
  PROVE  m \in world.taken
BY Present DEF Fits, Accounted, RunsMatch

-----------------------------------------------------------------------------
(* What a block records. *)

LEMMA Positive ==
  ASSUME NEW n \in Nat, n > 0
  PROVE  n = 1 \/ n > 1
OBVIOUS

\* Until its transaction ends, nothing of what a step does is on record.
LEMMA CommitOnlyAtEnd ==
  ASSUME NEW c, IInv(c), ~EndTx,
         \/ CommonStep
         \/ UNCHANGED vars
         \/ ~Idle /\ frames' = frames
         \/ ~Idle /\ \E m \in Messages, v \in WorldOf(c) : Enter("program", m, v)
  PROVE  Committed' = Committed
<1>1. frames \in Seq(FrameSet(c)) /\ Len(frames) \in Nat /\ world \in WorldOf(c)
  BY Present
<1>2. CASE frames # << >> /\ frames' = frames
  BY <1>2 DEF Committed, Idle
<1>3. ASSUME frames # << >>, NEW m \in Messages, NEW v \in WorldOf(c), Enter("program", m, v)
      PROVE  Committed' = Committed
  <2>1. frames' = Append(frames, Frame("program", m)) /\ Frame("program", m) \in FrameSet(c)
    BY <1>1, <1>3 DEF Enter, Frame, FrameSet
  <2>2. frames' # << >> /\ frames'[1] = frames[1]
    BY <1>1, <1>3, <2>1, EmptySeq, AppendProperties
  <2> QED
    BY <1>3, <2>2 DEF Committed, Idle
<1>4. CASE frames # << >> /\ Len(frames) > 1 /\ frames' = Callers
  <2>1. /\ Len(Callers) = Len(frames) - 1 /\ Callers \in Seq(FrameSet(c))
        /\ \A j \in 1 .. Len(Callers) : Callers[j] = frames[j]
    BY <1>1, <1>4, CallersOf DEF Callers, Below
  <2>2. Len(Callers) > 0 /\ 1 \in 1 .. Len(Callers)
    BY <1>1, <1>4, <2>1
  <2>3. frames' # << >> /\ frames'[1] = frames[1]
    BY <1>4, <2>1, <2>2, EmptySeq
  <2> QED
    BY <1>4, <2>3 DEF Committed, Idle
<1>5. CASE \E u \in Users : BeginTx(u)
  <2>1. PICK u \in Users : BeginTx(u)
    BY <1>5
  <2>2. frames = << >> /\ world' = world /\ frames' = Append(frames, Frame("batch", u))
    BY <2>1 DEF BeginTx, Idle, Enter
  <2>3. Frame("batch", u) \in FrameSet(c)
    BY <1>1 DEF Frame, FrameSet
  <2>4. frames' # << >> /\ frames'[1] = Frame("batch", u)
    BY <1>1, <2>2, <2>3, AppendProperties
  <2> QED
    BY <2>2, <2>4 DEF Committed, Idle, Frame
<1>6. CASE FinishProgram
  BY <1>4, <1>6, OneProgram DEF FinishProgram, Running, Idle, Leave
<1>7. CASE Revert
  <2>1. frames # << >> /\ frames' = Callers /\ world' = Top.snap
    BY <1>7 DEF Revert, Idle, Leave
  <2>2. CASE Len(frames) > 1
    BY <1>4, <2>1, <2>2
  <2>3. CASE Len(frames) = 1
    <3>1. frames' = << >> /\ world' = frames[1].snap
      BY <2>1, <2>3 DEF Callers, Top
    <3> QED
      BY <2>1, <3>1 DEF Committed, Idle
  <2>4. Len(frames) = 1 \/ Len(frames) > 1
    <3>1. Len(frames) \in Nat /\ Len(frames) > 0
      BY <1>1, <2>1, EmptySeq
    <3> QED
      BY <3>1, Positive, Zenon
  <2> QED
    BY <2>2, <2>3, <2>4
<1>8. CASE \E u \in Users : TransferOwnership(u)
  BY <1>2, <1>8 DEF TransferOwnership, FromOwner, Idle
<1>9. CASE RescueToken(world.bal)
  BY <1>2, <1>9 DEF RescueToken, FromOwner, Idle
<1>10. CASE Calling /\ PayPool(world.bal)
  BY <1>2, <1>10 DEF PayPool, Calling, Idle
<1>11. CASE ProgramSpend
  BY <1>2, <1>11 DEF ProgramSpend, Running, Idle
<1>12. CASE ProgramTstore
  BY <1>2, <1>12 DEF ProgramTstore, Idle
<1>13. CASE UNCHANGED vars
  BY <1>13 DEF vars, Committed, Idle
<1> QED
  BY <1>2, <1>3, <1>5, <1>6, <1>7, <1>8, <1>9, <1>10, <1>11, <1>12, <1>13
     DEF CommonStep, Idle

\* At the end of a transaction no program runs any more.
LEMMA EndTxAccounts ==
  ASSUME NEW c, IInv(c), EndTx
  PROVE  /\ frames # << >> /\ frames' = << >>
         /\ world'.read = world.read /\ world'.runs = world.runs
         /\ Since(frames[1].snap, world)
         /\ \A m \in Messages : world.read[m] # {} => world.runs[m] > 0
         /\ \A m \in Messages : frames[1].snap.read[m] # {} => frames[1].snap.runs[m] > 0
<1>1. /\ frames \in Seq(FrameSet(c)) /\ Len(frames) = 1 /\ frames # << >>
      /\ world \in WorldOf(c) /\ Fits(c, world, frames)
  BY Present, EmptySeq DEF EndTx
<1>2. Below(frames, 0) = << >>
  BY <1>1 DEF Below
<1>3. <<frames[1].snap, << >> >> \in Fit(c)
  BY <1>1, <1>2 DEF IInv, Kept
<1>4. Fits(c, frames[1].snap, << >>)
  BY <1>3, FitDef
<1>5. \A m : ~RunsIn(frames, m) /\ ~RunsIn(<< >>, m)
  BY <1>1 DEF Fits, Shaped, RunsIn
<1>6. frames' = << >> /\ world' = Discarded(world)
  BY <1>1 DEF EndTx, Leave, Callers
<1>7. world'.read = world.read /\ world'.runs = world.runs
  BY <1>1, <1>6 DEF Discarded, WorldOf, Worlds
<1> QED
  BY <1>1, <1>4, <1>5, <1>6, <1>7 DEF Fits, Accounted

\* The end of a transaction settles the messages whose programs it ran: none
\* that was settled before, and each on its own parameters.
LEMMA EndTxSettles ==
  ASSUME NEW c, IInv(c), EndTx
  PROVE  LET S == Settled' \ Settled
         IN /\ S \in SUBSET Messages /\ Settled' = Settled \union S
            /\ \E A \in SUBSET S : Acted' = Acted \union {<<m, c.params[m]>> : m \in A}
<1> DEFINE b == frames[1].snap
           S == Settled' \ Settled
           A == {m \in S : world.read[m] # {}}
<1>1. /\ frames # << >> /\ frames' = << >>
      /\ world'.read = world.read /\ world'.runs = world.runs
      /\ Since(b, world)
      /\ \A m \in Messages : world.read[m] # {} => world.runs[m] > 0
      /\ \A m \in Messages : b.read[m] # {} => b.runs[m] > 0
  BY EndTxAccounts
<1>2. Committed = b /\ Committed' = world'
  BY <1>1 DEF Committed, Idle
<1>3. \A m \in Messages : world.read[m] \subseteq {c.params[m]}
  BY Present DEF Fits, Sound
<1>4. /\ Settled = {m \in Messages : b.runs[m] > 0}
      /\ Settled' = {m \in Messages : world.runs[m] > 0}
  BY <1>1, <1>2 DEF Settled
<1>5. /\ Acted = UNION {{<<m, p>> : p \in b.read[m]} : m \in Messages}
      /\ Acted' = UNION {{<<m, p>> : p \in world.read[m]} : m \in Messages}
  BY <1>1, <1>2 DEF Acted
<1> HIDE DEF b
<1>6. \A m \in Messages : b.runs[m] > 0 => world.runs[m] > 0 /\ world.read[m] = b.read[m]
  BY <1>1 DEF Since
<1>7. S \in SUBSET Messages /\ Settled' = Settled \union S
  BY <1>4, <1>6
<1>8. \A m \in A : world.read[m] = {c.params[m]}
  BY <1>3, <1>4
<1>9. \A m \in Messages \ A : world.read[m] = b.read[m]
  <2> SUFFICES ASSUME NEW m \in Messages \ A PROVE world.read[m] = b.read[m]
    OBVIOUS
  <2>1. CASE m \in Settled
    BY <2>1, <1>4, <1>6
  <2>2. CASE m \notin Settled
    BY <2>2, <1>1, <1>4
  <2> QED
    BY <2>1, <2>2
<1>10. \A m \in A : b.read[m] = {}
  BY <1>1, <1>4
<1>11. A \in SUBSET S /\ A \subseteq Messages
  BY <1>7
<1> HIDE DEF A
<1>12. Acted' = Acted \union {<<m, c.params[m]>> : m \in A}
  BY <1>5, <1>8, <1>9, <1>10, <1>11
<1> QED
  BY <1>7, <1>11, <1>12
\* A block settles new messages, each at most on its own parameters, or none.
LEMMA BlockSettles ==
  ASSUME NEW c, IInv(c), EndTx \/ Committed' = Committed
  PROVE  \/ Settled' = Settled /\ Acted' = Acted
         \/ \E S \in SUBSET Messages :
              /\ S # {} /\ S \cap Settled = {} /\ Settled' = Settled \union S
              /\ \E A \in SUBSET S : Acted' = Acted \union {<<m, c.params[m]>> : m \in A}
<1>1. CASE EndTx
  <2> DEFINE S == Settled' \ Settled
  <2>1. /\ S \in SUBSET Messages /\ Settled' = Settled \union S
        /\ \E A \in SUBSET S : Acted' = Acted \union {<<m, c.params[m]>> : m \in A}
    BY <1>1, EndTxSettles
  <2>2. S \cap Settled = {}
    OBVIOUS
  <2> HIDE DEF S
  <2>3. CASE S = {}
    BY <2>1, <2>3
  <2>4. CASE S # {}
    BY <2>1, <2>2, <2>4
  <2> QED
    BY <2>3, <2>4
<1>2. CASE Committed' = Committed
  BY <1>2 DEF Settled, Acted
<1> QED
  BY <1>1, <1>2

-----------------------------------------------------------------------------
(* What holds of every remembered world by itself: the books. *)

\* What a step other than a revert does to the stack.
StackStep(c) ==
  \/ frames' = frames
  \/ frames # << >> /\ frames' = Callers
  \/ \E f \in FrameSet(c) : f.snap = world /\ frames' = Append(frames, f)

LEMMA EnterStack ==
  ASSUME NEW c, IInv(c), NEW v,
         \/ \E m \in Messages : Enter("program", m, v)
         \/ \E u \in Users : Enter("batch", u, v)
  PROVE  StackStep(c)
<1>1. ASSUME NEW at, NEW arg, Enter(at, arg, v), Frame(at, arg) \in FrameSet(c)
      PROVE  StackStep(c)
  BY <1>1 DEF Enter, Frame, StackStep
<1>2. /\ \A m \in Messages : Frame("program", m) \in FrameSet(c)
      /\ \A u \in Users : Frame("batch", u) \in FrameSet(c)
  BY Present DEF Frame, FrameSet
<1> QED
  BY <1>1, <1>2

LEMMA CommonStack ==
  ASSUME NEW c, IInv(c), CommonStep, ~Revert
  PROVE  StackStep(c)
<1>1. CASE \E u \in Users : BeginTx(u)
  BY <1>1, EnterStack DEF BeginTx
<1>2. CASE FinishProgram \/ EndTx
  <2>1. Len(frames) = 1 => frames # << >>
    OBVIOUS
  <2> QED
    BY <1>2, <2>1 DEF StackStep, FinishProgram, Running, Idle, EndTx, Leave
<1>3. CASE \/ \E u \in Users : TransferOwnership(u)
          \/ ProgramSpend \/ ProgramTstore \/ RescueToken(world.bal) \/ PayPool(world.bal)
  BY <1>3 DEF StackStep, TransferOwnership, ProgramSpend, ProgramTstore, RescueToken, PayPool
<1> QED
  BY <1>1, <1>2, <1>3 DEF CommonStep

\* What holds of the world, and is kept by every step that makes a new one,
\* also holds of the worlds that reverts bring back.
LEMMA BooksKept ==
  ASSUME NEW c, IInv(c), NEW Good, AllIn(Good), Revert \/ (StackStep(c) /\ world' \in Good)
  PROVE  AllIn(Good)'
<1>1. CASE Revert
  BY <1>1, Present, AllInRevert
<1>2. CASE StackStep(c) /\ world' \in Good
  BY <1>2, Present, AllInStep DEF StackStep
<1> QED
  BY <1>1, <1>2

Total(w) == w.bal + w.out + w.paid + w.rescued

LEMMA Moved ==
  ASSUME NEW a \in Nat, NEW b \in Nat, NEW c \in Nat, NEW d \in Nat, NEW x \in Nat, x <= a
  PROVE  /\ (a - x) + (b + x) + c + d = a + b + c + d
         /\ (a - x) + b + (c + x) + d = a + b + c + d
         /\ (a - x) + b + c + (d + x) = a + b + c + d
OBVIOUS

\* The common steps move tokens, and neither make nor lose any.
LEMMA CommonTotal ==
  ASSUME NEW c, IInv(c), CommonStep, ~Revert
  PROVE  world'.own = world.own /\ world'.taken = world.taken /\ Total(world') = Total(world)
<1>0. world \in WorldOf(c)
  BY Present
<1>1. CASE \/ \E u \in Users : BeginTx(u) \/ TransferOwnership(u)
          \/ ProgramTstore \/ FinishProgram \/ EndTx
  BY <1>0, <1>1 DEF BeginTx, TransferOwnership, ProgramTstore, FinishProgram, EndTx,
                    Enter, Leave, Unstaged, Discarded, Total, WorldOf, Worlds
<1>2. CASE ProgramSpend
  <2> DEFINE x == world.slot[0]
  <2>1. x \in Nat /\ x <= world.bal
    BY <1>2, Present, WorldFields, SlotsAssumption DEF ProgramSpend
  <2>2. /\ world'.own = world.own /\ world'.taken = world.taken
        /\ world'.bal = world.bal - x /\ world'.out = world.out + x
        /\ world'.paid = world.paid /\ world'.rescued = world.rescued
    BY <1>0, <1>2 DEF ProgramSpend, WorldOf, Worlds
  <2> HIDE DEF x
  <2> QED
    BY <1>0, <2>1, <2>2, WorldFields, Moved DEF Total
<1>3. CASE RescueToken(world.bal) \/ PayPool(world.bal)
  <2>1. /\ world'.own = world.own /\ world'.taken = world.taken
        /\ world'.bal = world.bal - world.bal /\ world'.out = world.out
        /\ \/ world'.paid = world.paid + world.bal /\ world'.rescued = world.rescued
           \/ world'.paid = world.paid /\ world'.rescued = world.rescued + world.bal
    BY <1>0, <1>3 DEF RescueToken, PayPool, WorldOf, Worlds
  <2>2. world.bal <= world.bal
    BY <1>0, WorldFields
  <2> QED
    BY <1>0, <2>1, <2>2, WorldFields, Moved DEF Total
<1> QED
  BY <1>1, <1>2, <1>3 DEF CommonStep
=============================================================================
