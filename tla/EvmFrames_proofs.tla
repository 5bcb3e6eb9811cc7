-------------------------- MODULE EvmFrames_proofs --------------------------
(***************************************************************************)
(* What every proof about a contract on EvmFrames needs.                   *)
(*                                                                         *)
(* A revert brings back the world that a frame remembers, so what holds of *)
(* the world has to hold of every remembered world as well, each relative  *)
(* to the frames below it.  A contract's invariant is therefore stated as  *)
(* a relation Fit between worlds and stacks, a set of pairs, and kept for  *)
(* the running world and for each remembered one.                          *)
(***************************************************************************)
EXTENDS EvmFrames, SequenceTheorems, TLAPS

\* The first k frames of a stack.
Below(st, k) == SubSeq(st, 1, k)

Kept(Fit, w, st) ==
  /\ <<w, st>> \in Fit
  /\ \A i \in 1 .. Len(st) : <<st[i].snap, Below(st, i - 1)>> \in Fit

-----------------------------------------------------------------------------
(* Stacks. *)

LEMMA BelowProperties ==
  ASSUME NEW S, NEW st \in Seq(S), NEW k \in Nat, k <= Len(st)
  PROVE  /\ Below(st, k) \in Seq(S) /\ Len(Below(st, k)) = k
         /\ \A j \in 1 .. k : Below(st, k)[j] = st[j]
<1>1. Len(st) \in Nat /\ k \in Int /\ 1 \in Int
  OBVIOUS
<1>2. \A j \in 1 .. k : st[j] \in S
  BY <1>1
<1>3. /\ Below(st, k) \in Seq(S)
      /\ Len(Below(st, k)) = IF 1 <= k THEN k - 1 + 1 ELSE 0
      /\ \A i \in 1 .. k - 1 + 1 : Below(st, k)[i] = st[1 + i - 1]
  BY <1>1, <1>2, SubSeqProperties DEF Below
<1>4. (IF 1 <= k THEN k - 1 + 1 ELSE 0) = k /\ k - 1 + 1 = k
  OBVIOUS
<1>5. \A j \in 1 .. k : 1 + j - 1 = j
  OBVIOUS
<1> HIDE DEF Below
<1> QED
  BY <1>3, <1>4, <1>5

\* Stacks that agree on their first k frames.
LEMMA SameBelow ==
  ASSUME NEW S, NEW st \in Seq(S), NEW su \in Seq(S), NEW k \in Nat,
         k <= Len(st), k <= Len(su), \A j \in 1 .. k : st[j] = su[j]
  PROVE  Below(st, k) = Below(su, k)
<1>1. /\ Below(st, k) \in Seq(S) /\ Len(Below(st, k)) = k
      /\ \A j \in 1 .. k : Below(st, k)[j] = st[j]
  BY BelowProperties
<1>2. /\ Below(su, k) \in Seq(S) /\ Len(Below(su, k)) = k
      /\ \A j \in 1 .. k : Below(su, k)[j] = su[j]
  BY BelowProperties
<1>3. \A j \in 1 .. k : Below(st, k)[j] = Below(su, k)[j]
  BY <1>1, <1>2
<1> HIDE DEF Below
<1> QED
  BY <1>1, <1>2, <1>3, SeqEqual

\* What is left of a stack when its top frame is popped.
LEMMA CallersOf ==
  ASSUME NEW S, NEW st \in Seq(S), st # << >>
  PROVE  LET su == Below(st, Len(st) - 1)
         IN /\ Len(st) \in Nat /\ Len(st) > 0 /\ Len(st) - 1 \in Nat
            /\ st[Len(st)] \in S
            /\ su \in Seq(S) /\ Len(su) = Len(st) - 1
            /\ \A j \in 1 .. Len(su) : su[j] = st[j]
<1>1. Len(st) \in Nat /\ Len(st) > 0 /\ Len(st) - 1 \in Nat /\ Len(st) - 1 <= Len(st)
  BY EmptySeq
<1>2. st[Len(st)] \in S
  BY <1>1
<1> QED
  BY <1>1, <1>2, BelowProperties

-----------------------------------------------------------------------------
(* The steps of EvmFrames. *)

\* A step that leaves the stack alone.
LEMMA KeptStay ==
  ASSUME NEW Fit, NEW w, NEW v, NEW st, Kept(Fit, w, st), <<v, st>> \in Fit
  PROVE  Kept(Fit, v, st)
BY DEF Kept

\* A frame that ends leaves the frames below it as they were.
LEMMA KeptLeave ==
  ASSUME NEW Fit, NEW S, NEW v, NEW st \in Seq(S), NEW w, st # << >>, Kept(Fit, w, st),
         <<v, Below(st, Len(st) - 1)>> \in Fit
  PROVE  Kept(Fit, v, Below(st, Len(st) - 1))
<1> DEFINE su == Below(st, Len(st) - 1)
<1>1. /\ Len(st) \in Nat /\ Len(st) > 0
      /\ su \in Seq(S) /\ Len(su) = Len(st) - 1
      /\ \A j \in 1 .. Len(su) : su[j] = st[j]
  BY CallersOf
<1> HIDE DEF su
<1>2. ASSUME NEW i \in 1 .. Len(su) PROVE <<su[i].snap, Below(su, i - 1)>> \in Fit
  <2>1. i - 1 \in Nat /\ i - 1 <= Len(su) /\ i - 1 <= Len(st) /\ i \in 1 .. Len(st)
    BY <1>1
  <2>2. \A j \in 1 .. i - 1 : j \in 1 .. Len(su)
    BY <1>1
  <2>3. Below(su, i - 1) = Below(st, i - 1)
    BY <1>1, <2>1, <2>2, SameBelow
  <2> QED
    BY <1>1, <2>1, <2>3 DEF Kept
<1> QED
  BY <1>2 DEF Kept, su

\* A revert needs no more: what it brings back was kept.
LEMMA RevertKeeps ==
  ASSUME NEW Fit, NEW S, frames \in Seq(S), Kept(Fit, world, frames), Revert
  PROVE  Kept(Fit, world', frames')
<1>1. /\ frames # << >> /\ world' = frames[Len(frames)].snap
      /\ frames' = Below(frames, Len(frames) - 1)
  BY DEF Revert, Idle, Leave, Top, Callers, Below
<1>2. Len(frames) \in 1 .. Len(frames)
  BY <1>1, CallersOf
<1>3. <<world', frames'>> \in Fit
  BY <1>1, <1>2 DEF Kept
<1> QED
  BY <1>1, <1>3, KeptLeave

\* A new frame remembers the world it is entered in.
LEMMA EnterKeeps ==
  ASSUME NEW Fit, NEW S, frames \in Seq(S), Kept(Fit, world, frames),
         NEW at, NEW arg, NEW v, Enter(at, arg, v),
         Frame(at, arg) \in S, <<v, Append(frames, Frame(at, arg))>> \in Fit
  PROVE  Kept(Fit, world', frames')
<1> DEFINE f == Frame(at, arg)
           su == Append(frames, f)
<1>1. /\ su \in Seq(S) /\ Len(frames) \in Nat /\ Len(su) = Len(frames) + 1
      /\ su[Len(frames) + 1] = f /\ \A j \in 1 .. Len(frames) : su[j] = frames[j]
  BY AppendProperties
<1>2. world' = v /\ frames' = su /\ f.snap = world /\ <<v, su>> \in Fit
  BY DEF Enter, Frame
<1> HIDE DEF f, su
<1>3. ASSUME NEW i \in 1 .. Len(su) PROVE <<su[i].snap, Below(su, i - 1)>> \in Fit
  <2>1. i - 1 \in Nat /\ i - 1 <= Len(su) /\ i - 1 <= Len(frames)
    BY <1>1
  <2>2. \A j \in 1 .. i - 1 : j \in 1 .. Len(frames)
    BY <1>1
  <2>3. Below(su, i - 1) = Below(frames, i - 1)
    BY <1>1, <2>1, <2>2, SameBelow
  <2>4. CASE i = Len(frames) + 1
    <3>1. i - 1 = Len(frames)
      BY <1>1, <2>4
    <3>2. Below(frames, Len(frames)) = frames
      <4>1. /\ Below(frames, Len(frames)) \in Seq(S)
            /\ Len(Below(frames, Len(frames))) = Len(frames)
            /\ \A j \in 1 .. Len(frames) : Below(frames, Len(frames))[j] = frames[j]
        <5>1. Len(frames) \in Nat /\ Len(frames) <= Len(frames)
          BY <1>1
        <5> QED
          BY <5>1, BelowProperties
      <4> QED
        BY <4>1, SeqEqual
    <3> QED
      BY <1>1, <1>2, <2>3, <2>4, <3>1, <3>2 DEF Kept
  <2>5. CASE i \in 1 .. Len(frames)
    BY <1>1, <2>3, <2>5 DEF Kept
  <2> QED
    BY <1>1, <2>4, <2>5
<1> QED
  BY <1>2, <1>3 DEF Kept

\* The top frame goes on to its next step, and remembers what it did.
LEMMA KeptMove ==
  ASSUME NEW Fit, NEW S, NEW st \in Seq(S), NEW w, NEW v, NEW f \in S,
         st # << >>, Kept(Fit, w, st), f.snap = st[Len(st)].snap,
         <<v, [st EXCEPT ![Len(st)] = f]>> \in Fit
  PROVE  Kept(Fit, v, [st EXCEPT ![Len(st)] = f])
<1> DEFINE su == [st EXCEPT ![Len(st)] = f]
<1>1. Len(st) \in Nat /\ Len(st) > 0
  BY EmptySeq
<1>2. su \in Seq(S) /\ Len(su) = Len(st)
  BY <1>1, ExceptSeq
<1>3. su[Len(st)] = f /\ \A j \in 1 .. Len(st) - 1 : su[j] = st[j]
  BY <1>1
<1> HIDE DEF su
<1>4. ASSUME NEW i \in 1 .. Len(su) PROVE <<su[i].snap, Below(su, i - 1)>> \in Fit
  <2>1. i - 1 \in Nat /\ i - 1 <= Len(su) /\ i - 1 <= Len(st) /\ i \in 1 .. Len(st)
    BY <1>1, <1>2
  <2>2. \A j \in 1 .. i - 1 : j \in 1 .. Len(st) - 1
    BY <1>1, <1>2
  <2>3. Below(su, i - 1) = Below(st, i - 1)
    BY <1>2, <1>3, <2>1, <2>2, SameBelow
  <2>4. su[i].snap = st[i].snap
    <3>1. i = Len(st) \/ i \in 1 .. Len(st) - 1
      BY <1>1, <2>1
    <3> QED
      BY <1>3, <3>1
  <2> QED
    BY <2>1, <2>3, <2>4 DEF Kept
<1> QED
  BY <1>4 DEF Kept, su

-----------------------------------------------------------------------------
(* What holds of the running world and of each remembered one by itself.   *)

AllIn(Good) ==
  world \in Good /\ \A i \in 1 .. Len(frames) : frames[i].snap \in Good

\* A step that does not revert leads to a world of its own making.
LEMMA AllInStep ==
  ASSUME NEW Good, NEW S, frames \in Seq(S), AllIn(Good), world' \in Good,
         \/ frames' = frames
         \/ frames # << >> /\ frames' = Callers
         \/ \E f \in S : f.snap = world /\ frames' = Append(frames, f)
         \/ \E f \in S : /\ frames # << >> /\ f.snap = Top.snap
                         /\ frames' = [frames EXCEPT ![Len(frames)] = f]
  PROVE  AllIn(Good)'
<1> SUFFICES \A i \in 1 .. Len(frames') : frames'[i].snap \in Good
  BY DEF AllIn
<1>0. Len(frames) \in Nat
  OBVIOUS
<1>1. CASE frames' = frames
  BY <1>1 DEF AllIn
<1>2. CASE frames # << >> /\ frames' = Callers
  <2>1. /\ Len(Callers) = Len(frames) - 1
        /\ \A j \in 1 .. Len(Callers) : Callers[j] = frames[j]
    BY <1>2, CallersOf DEF Callers, Below
  <2>2. \A j \in 1 .. Len(Callers) : j \in 1 .. Len(frames)
    BY <1>0, <2>1
  <2> QED
    BY <1>2, <2>1, <2>2 DEF AllIn
<1>3. ASSUME NEW f \in S, f.snap = world, frames' = Append(frames, f)
      PROVE  \A i \in 1 .. Len(frames') : frames'[i].snap \in Good
  <2>1. /\ Len(frames') = Len(frames) + 1 /\ frames'[Len(frames) + 1] = f
        /\ \A j \in 1 .. Len(frames) : frames'[j] = frames[j]
    BY <1>3, AppendProperties
  <2>2. \A i \in 1 .. Len(frames') : i \in 1 .. Len(frames) \/ i = Len(frames) + 1
    BY <1>0, <2>1
  <2> QED
    BY <1>3, <2>1, <2>2 DEF AllIn
<1>4. ASSUME NEW f \in S, frames # << >>, f.snap = Top.snap,
             frames' = [frames EXCEPT ![Len(frames)] = f]
      PROVE  \A i \in 1 .. Len(frames') : frames'[i].snap \in Good
  <2>1. Len(frames') = Len(frames) /\ Len(frames) \in 1 .. Len(frames)
    BY <1>4, ExceptSeq, CallersOf
  <2>2. \A i \in 1 .. Len(frames) :
          frames'[i] = IF i = Len(frames) THEN f ELSE frames[i]
    BY <1>4
  <2>3. f.snap \in Good
    BY <1>4, <2>1 DEF AllIn, Top
  <2> QED
    BY <2>1, <2>2, <2>3 DEF AllIn
<1> QED
  BY <1>1, <1>2, <1>3, <1>4

\* A revert leads to a world that was remembered.
LEMMA AllInRevert ==
  ASSUME NEW Good, NEW S, frames \in Seq(S), AllIn(Good), Revert
  PROVE  AllIn(Good)'
<1>1. frames # << >> /\ world' = frames[Len(frames)].snap /\ frames' = Callers
  BY DEF Revert, Idle, Leave, Top
<1>2. Len(frames) \in 1 .. Len(frames)
  BY <1>1, CallersOf
<1>3. world' \in Good
  BY <1>1, <1>2 DEF AllIn
<1> QED
  BY <1>1, <1>3, AllInStep
-----------------------------------------------------------------------------
(* A contract whose lock lets one entry point run at a time: the stack is a *)
(* transaction and one call in it.  Rest are the worlds that the contract  *)
(* is in between calls, and Run the pairs of a world and the frame of the  *)
(* call that is running in it.                                             *)

Nested(F, Rest, Run) ==
  /\ frames \in Seq(F) /\ Len(frames) <= 2
  /\ \A i \in 1 .. Len(frames) : (frames[i].at = "batch" <=> i = 1) /\ frames[i].snap \in Rest
  /\ Len(frames) < 2 => world \in Rest
  /\ Len(frames) = 2 => <<world, frames[2]>> \in Run

LEMMA UpToTwo ==
  ASSUME NEW n \in Nat, n <= 2
  PROVE  n = 0 \/ n = 1 \/ n = 2
OBVIOUS

LEMMA Two ==
  ASSUME NEW n, n = 2
  PROVE  ~(n < 2) /\ n <= 2 /\ \A i \in 1 .. n : i = 1 \/ i = 2
OBVIOUS

\* Where the running frame is on the stack.
LEMMA NestedTop ==
  ASSUME NEW F, NEW Rest, NEW Run, Nested(F, Rest, Run)
  PROVE  /\ frames \in Seq(F) /\ Len(frames) \in 0 .. 2
         /\ Idle <=> Len(frames) = 0
         /\ ~Idle => Top \in F /\ Top.snap \in Rest
         /\ ~Idle /\ Top.at = "batch" => Len(frames) = 1 /\ world \in Rest
         /\ ~Idle /\ Top.at # "batch" =>
              Len(frames) = 2 /\ Top = frames[2] /\ <<world, Top>> \in Run
<1>1. frames \in Seq(F) /\ Len(frames) \in Nat /\ Len(frames) <= 2
  BY DEF Nested
<1>2. Len(frames) = 0 \/ Len(frames) = 1 \/ Len(frames) = 2
  BY <1>1, UpToTwo, Zenon
<1>3. Idle <=> Len(frames) = 0
  BY <1>1, EmptySeq DEF Idle
<1>4. \A i \in 1 .. Len(frames) : frames[i] \in F
  BY <1>1
<1> QED
  BY <1>1, <1>2, <1>3, <1>4 DEF Nested, Top

LEMMA NestedBegin ==
  ASSUME NEW F, NEW Rest, NEW Run, Nested(F, Rest, Run), NEW s, BeginTx(s),
         Frame("batch", s) \in F
  PROVE  Nested(F, Rest, Run)'
<1> DEFINE f == Frame("batch", s)
<1>1. frames = << >> /\ world' = world /\ frames' = Append(frames, f) /\ world \in Rest
  BY DEF BeginTx, Enter, Idle, Nested
<1>2. f.at = "batch" /\ f.snap = world
  BY DEF Frame
<1> HIDE DEF f
<1>3. frames' \in Seq(F) /\ Len(frames') = 1 /\ frames'[1] = f
  BY <1>1, AppendProperties DEF f
<1> QED
  BY <1>1, <1>2, <1>3 DEF Nested

LEMMA NestedEnter ==
  ASSUME NEW F, NEW Rest, NEW Run, Nested(F, Rest, Run), ~Idle, world \in Rest,
         Len(frames) = 1, NEW at, NEW arg, NEW v, Enter(at, arg, v), at # "batch",
         Frame(at, arg) \in F, <<v, Frame(at, arg)>> \in Run
  PROVE  Nested(F, Rest, Run)'
<1> DEFINE f == Frame(at, arg)
<1>1. world' = v /\ frames' = Append(frames, f)
  BY DEF Enter
<1>2. f.at = at /\ f.snap = world
  BY DEF Frame
<1> HIDE DEF f
<1>3. /\ frames' \in Seq(F) /\ Len(frames') = 2 /\ frames'[2] = f
      /\ frames'[1] = frames[1] /\ frames[1].at = "batch" /\ frames[1].snap \in Rest
  BY <1>1, AppendProperties DEF Nested, f
<1>4. \A i \in 1 .. 2 : i = 1 \/ i = 2
  OBVIOUS
<1> QED
  BY <1>1, <1>2, <1>3, <1>4 DEF Nested, f

\* The transaction or the call ends, or reverts.
LEMMA NestedLeave ==
  ASSUME NEW F, NEW Rest, NEW Run, Nested(F, Rest, Run), ~Idle, NEW v \in Rest, Leave(v)
  PROVE  Nested(F, Rest, Run)'
<1>1. /\ frames # << >> /\ frames \in Seq(F) /\ Len(frames) <= 2 /\ Len(frames) \in Nat
      /\ world' = v /\ frames' = Below(frames, Len(frames) - 1)
  BY DEF Nested, Idle, Leave, Callers, Below
<1>2. /\ Len(frames) > 0 /\ frames' \in Seq(F) /\ Len(frames') = Len(frames) - 1
      /\ \A j \in 1 .. Len(frames') : frames'[j] = frames[j]
  BY <1>1, CallersOf
<1>3. Len(frames') < 2 /\ \A j \in 1 .. Len(frames') : j \in 1 .. Len(frames)
  BY <1>1, <1>2
<1> QED
  BY <1>1, <1>2, <1>3 DEF Nested

LEMMA NestedRevert ==
  ASSUME NEW F, NEW Rest, NEW Run, Nested(F, Rest, Run), Revert
  PROVE  Nested(F, Rest, Run)'
<1>1. ~Idle /\ Top.snap \in Rest
  BY NestedTop DEF Revert
<1> QED
  BY <1>1, NestedLeave DEF Revert

\* A step of the transaction itself.
LEMMA NestedRest ==
  ASSUME NEW F, NEW Rest, NEW Run, Nested(F, Rest, Run), frames' = frames,
         Len(frames) < 2, world' \in Rest
  PROVE  Nested(F, Rest, Run)'
BY DEF Nested

\* A step of the call, which may move its frame on.
LEMMA NestedMove ==
  ASSUME NEW F, NEW Rest, NEW Run, Nested(F, Rest, Run), Len(frames) = 2, NEW g \in F,
         frames' = [frames EXCEPT ![2] = g], g.at # "batch", g.snap = frames[2].snap,
         <<world', g>> \in Run
  PROVE  Nested(F, Rest, Run)'
<1>1. frames \in Seq(F) /\ 2 \in 1 .. Len(frames)
  BY DEF Nested
<1>2. frames' \in Seq(F) /\ Len(frames') = 2
  BY <1>1, ExceptSeq
<1>3. frames'[2] = g /\ frames'[1] = frames[1]
  BY <1>1
<1>4. ~(Len(frames') < 2) /\ Len(frames') <= 2
  BY <1>2, Two, Zenon
<1>5. \A i \in 1 .. Len(frames') :
        (frames'[i].at = "batch" <=> i = 1) /\ frames'[i].snap \in Rest
  <2>1. \A i \in 1 .. Len(frames') : i = 1 \/ i = 2
    BY <1>2, Two, Zenon
  <2> QED
    BY <1>1, <1>3, <2>1 DEF Nested
<1> QED
  BY <1>2, <1>3, <1>4, <1>5 DEF Nested

LEMMA NestedStay ==
  ASSUME NEW F, NEW Rest, NEW Run, Nested(F, Rest, Run), Len(frames) = 2,
         frames' = frames, <<world', frames[2]>> \in Run
  PROVE  Nested(F, Rest, Run)'
<1>1. ~(Len(frames') < 2)
  OBVIOUS
<1> QED
  BY <1>1 DEF Nested
=============================================================================
