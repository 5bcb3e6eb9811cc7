-------------------------- MODULE InboundComposer --------------------------
(***************************************************************************)
(* The part that CCTPComposer, OFTComposer and CCIPComposer have in common *)
(* (bridge/*Composer.sol): the program of an inbound message runs on the   *)
(* composer's own balance, and an owner may move that balance out.         *)
(*                                                                         *)
(* The fields of `world` beside those of EvmFrames (bal: bridged tokens):  *)
(*   out    tokens that programs sent on                                   *)
(*   rescued  tokens the owner took out                                    *)
(*   owner  the owner address                                              *)
(*   taken  messages that the bridge has marked as delivered (external)    *)
(*   own    what only one of the composers, or its bridge, keeps           *)
(*   read   per message, the parameter pairs its program acted on          *)
(*   runs   per message, how many of its programs ran to the end           *)
(* read and runs are history variables; they are part of the world because *)
(* a revert takes back what they record.                                   *)
(***************************************************************************)
EXTENDS EvmFrames, Functions

CONSTANTS
  Messages,  \* inbound messages addressed to this composer
  Users,     \* senders of transactions
  Owner0     \* the owner given to the constructor

ASSUME OwnerAssumption == Owner0 \in Users

\* The worlds of a composer whose own state is in Own.
Worlds(Own) ==
  [locked : BOOLEAN, slot : [Slots -> Nat],
   bal : Nat, out : Nat, paid : Nat, rescued : Nat,
   owner : Users, taken : SUBSET Messages, own : Own,
   read : [Messages -> SUBSET (Nat \X Nat)], runs : [Messages -> Nat]]

\* A composer that was just deployed.
Deployed(own) ==
  /\ frames = << >>
  /\ world = [locked |-> FALSE, slot |-> CleanSlots,
              bal |-> 0, out |-> 0, paid |-> 0, rescued |-> 0,
              owner |-> Owner0, taken |-> {}, own |-> own,
              read |-> [m \in Messages |-> {}], runs |-> [m \in Messages |-> 0]]

Running == ~Idle /\ Top.at = "program"

\* The program reads TLOAD(0) and TLOAD(1) and sends TLOAD(0) tokens on; the
\* token reverts when the composer does not hold them.  Programs that
\* crosschain/compose.py builds do so once, others any number of times.
ProgramSpend ==
  /\ Running
  /\ world.slot[0] <= world.bal
  /\ world' = [world EXCEPT
                 !.bal = @ - world.slot[0], !.out = @ + world.slot[0],
                 !.read[Top.arg] = @ \union {<<world.slot[0], world.slot[1]>>}]
  /\ UNCHANGED frames

\* The program returns: the end of the entry point and of its modifier.
FinishProgram ==
  /\ Running
  /\ Leave([Unstaged(world) EXCEPT !.runs[Top.arg] = @ + 1])

\* Mutant: an admin function without onlyOwner.
FromAnyone == ~Idle /\ Top.at = "batch"

FromOwner == ~Idle /\ Top.at = "batch" /\ Top.arg = world.owner

TransferOwnership(u) ==
  /\ FromOwner
  /\ world' = [world EXCEPT !.owner = u]
  /\ UNCHANGED frames

\* rescueToken; rescueETH does the same to the ETH balance.
RescueToken(amount) ==
  /\ FromOwner
  /\ amount <= world.bal
  /\ world' = [world EXCEPT !.bal = @ - amount, !.rescued = @ + amount]
  /\ UNCHANGED frames

CommonStep ==
  \/ \E u \in Users : BeginTx(u) \/ TransferOwnership(u)
  \/ ProgramSpend \/ ProgramTstore \/ FinishProgram
  \/ RescueToken(world.bal)
  \/ Calling /\ PayPool(world.bal)
  \/ Revert \/ EndTx

\* Every frame runs on behalf of a sender or of a message, over a world.
FramesOver(World) ==
  Seq([at : {"batch"}, arg : Users, snap : World]
        \union [at : {"program"}, arg : Messages, snap : World])

-----------------------------------------------------------------------------
\* The transient lock is held exactly while an entry point is on the stack: a
\* failed call that its caller survives never leaves it taken, and nothing
\* that runs inside a program releases it.
LockTracksEntry == world.locked <=> Inside # {}

\* Outside the entry point the parameter slots are zero, also between two
\* deliveries of one transaction ("so a subsequent compose call in the same
\* tx starts clean").
CleanBetweenCalls == Inside = {} => world.slot[0] = 0 /\ world.slot[1] = 0

\* All transient storage of a composer is free and clean between its calls.
TransientClean == LockTracksEntry /\ CleanBetweenCalls

\* The amount a program is told is in the composer when the program starts,
\* whatever programs, callbacks and the owner moved before.
StartsFunded ==
  [][Len(frames') > Len(frames) /\ Top'.at = "program" =>
       world'.slot[0] <= world'.bal]_vars

\* A program only ever acts on the parameters of its own message, whatever
\* was delivered before it in the transaction, was tried and failed, or is
\* attempted from inside it.
ReadsOwn(param) == \A m \in Messages : world.read[m] \subseteq {param[m]}

\* The world as it stands in the last block: the running transaction may
\* still revert.
Committed == IF Idle THEN world ELSE frames[1].snap

Settled == {m \in Messages : Committed.runs[m] > 0}
Acted == UNION {{<<m, p>> : p \in Committed.read[m]} : m \in Messages}
=============================================================================
