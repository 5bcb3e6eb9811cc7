----------------------------- MODULE EvmFrames -----------------------------
(***************************************************************************)
(* What the composer contracts of pydefi share: one transaction's stack of *)
(* call frames over a contract whose entry points carry the nonReentrant   *)
(* modifier (vm/TransientReentrancyGuard.sol) and run a program in their   *)
(* own context by DELEGATECALL (vm/InterpreterRunner.sol).                 *)
(*                                                                         *)
(* The state of one contract is the record `world`.  The modules that      *)
(* extend this one choose its fields; these are common to all of them:     *)
(*   locked  the transient slot REENTRANCY_LOCK_SLOT                       *)
(*   slot    the other transient slots (TLOAD / TSTORE)                    *)
(*   bal     tokens held by the contract                                   *)
(*   paid    tokens its DEX callbacks paid out                             *)
(* A frame remembers the world it was entered in: the EVM undoes every     *)
(* effect of a frame that reverts, transient storage included.             *)
(*                                                                         *)
(* The bottom frame is a transaction that can make several calls one after *)
(* the other and survive the failure of any of them (a multicall, or the   *)
(* LayerZero / CCIP executor delivering a batch).                          *)
(***************************************************************************)
EXTENDS Naturals, Sequences

CONSTANTS
  Slots,     \* the transient slots that are looked at, besides the lock
  MaxDepth   \* bound: frames on the stack at once

ASSUME SlotsAssumption == {0, 1} \subseteq Slots /\ Slots \subseteq Nat
ASSUME DepthAssumption == MaxDepth \in Nat

VARIABLES world, frames

vars == <<world, frames>>

(***************************************************************************)
(* The stack.                                                              *)
(***************************************************************************)
Idle == frames = << >>
Top == frames[Len(frames)]
Callers == SubSeq(frames, 1, Len(frames) - 1)

\* Code that can make a call: the transaction itself, or a running program.
Calling == ~Idle /\ Top.at \in {"batch", "program"} /\ Len(frames) < MaxDepth

\* The frames in which a guarded entry point of the contract is running.
Inside == {i \in DOMAIN frames : frames[i].at # "batch"}

Frame(at, arg) == [at |-> at, arg |-> arg, snap |-> world]

Enter(at, arg, w) ==
  /\ frames' = Append(frames, Frame(at, arg))
  /\ world' = w

MoveTo(at, w) ==
  /\ frames' = [frames EXCEPT ![Len(frames)].at = at]
  /\ world' = w

Leave(w) ==
  /\ frames' = Callers
  /\ world' = w

(***************************************************************************)
(* TransientReentrancyGuard.nonReentrant and the parameter slots.          *)
(***************************************************************************)

\* Mutant: an entry point without the modifier.
NoGuard == TRUE

\* The check of the modifier.  A call that fails it reverts at once: to its
\* caller it is a failed CALL that changed nothing.
NonReentrant == ~world.locked

\* Mutant: the two parameters staged in each other's slot.
StagedSwapped(w, p) == [w EXCEPT !.locked = TRUE,
                                 !.slot = [@ EXCEPT ![0] = p[2], ![1] = p[1]]]

\* tstore(REENTRANCY_LOCK_SLOT, 1) and the two parameters of the program.
Staged(w, p) == [w EXCEPT !.locked = TRUE,
                          !.slot = [@ EXCEPT ![0] = p[1], ![1] = p[2]]]

\* Mutants: the parameters are left behind; the lock is left taken.
ParamsLeft(w) == [w EXCEPT !.locked = FALSE]
LockLeft(w) == [w EXCEPT !.slot = [@ EXCEPT ![0] = 0, ![1] = 0]]

\* tstore(0, 0), tstore(1, 0) after the program, then the lock's release.
Unstaged(w) == [w EXCEPT !.locked = FALSE,
                         !.slot = [@ EXCEPT ![0] = 0, ![1] = 0]]

\* Transient storage outside any transaction.
CleanSlots == [i \in Slots |-> 0]
Discarded(w) == [w EXCEPT !.locked = FALSE, !.slot = CleanSlots]

(***************************************************************************)
(* The steps every contract has.                                           *)
(***************************************************************************)
BeginTx(sender) ==
  /\ Idle
  /\ Enter("batch", sender, world)

\* The transaction succeeds; EIP-1153 discards its transient storage.
EndTx ==
  /\ Len(frames) = 1
  /\ Leave(Discarded(world))

\* Mutant: a program's failure is not bubbled up, its frame just ends.
FailureIgnored ==
  /\ ~Idle
  /\ Leave(IF Top.at = "program" THEN Unstaged(world) ELSE Top.snap)

\* Any frame may revert: InterpreterRunner bubbles a program's revert up to
\* the entry point, and the caller of that frame may go on or revert too.
Revert ==
  /\ ~Idle
  /\ Leave(Top.snap)

\* A program uses a transient slot of its own (never the lock's).
ProgramTstore ==
  \E i \in Slots \ {0, 1} :
    /\ ~Idle /\ Top.at = "program"
    /\ world' = [world EXCEPT !.slot[i] = 1]
    /\ UNCHANGED frames

\* DEXCallbackRouter: the swap callbacks and unlockCallback pay their caller
\* what it asks for.  There is no guard and no list of callers.
PayPool(amount) ==
  /\ 0 < amount /\ amount <= world.bal
  /\ world' = [world EXCEPT !.bal = @ - amount, !.paid = @ + amount]
  /\ UNCHANGED frames

=============================================================================
