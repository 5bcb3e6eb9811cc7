--------------------------- MODULE EurekaComposer ---------------------------
(***************************************************************************)
(* bridge/EurekaComposer.sol: an IBC v2 transfer is sent together with a   *)
(* follow-up program; the program runs when the packet is acknowledged or  *)
(* timed out.  The fields of `world` beside those of EvmFrames:            *)
(*   programs  the follow-up registered for each sequence                  *)
(*   packet    ICS20Transfer's packets (external contract): the sequences  *)
(*             it assigned, and how each packet ended                      *)
(*   escrow    tokens held by ICS20Transfer for packets under way          *)
(*   origin    history: the call of sendTransferAndCompose that sent each  *)
(*             packet, NoSend for a packet a program sent on its own       *)
(*   read      history: per sequence, the parameters its follow-up acted on*)
(*   runs      history: per sequence, the follow-ups that ran to the end   *)
(* One source client is modelled: programs of others never share a slot.   *)
(***************************************************************************)
EXTENDS EvmFrames, Functions

CONSTANTS
  Sends,    \* calls of sendTransferAndCompose that users make
  NoSend,
  Send,     \* their arguments: amount, and whether the program is empty or
            \*   the token takes a fee on transfer
  MaxSeq    \* bound: packets sent

Seqs == 1 .. MaxSeq
Outcomes == {"success", "error", "timeout"}

World ==
  [locked : BOOLEAN, slot : [Slots -> Nat],
   programs : [Seqs -> Sends \union {NoSend}],
   packet : [Seqs -> {"none", "pending"} \union Outcomes],
   bal : Nat, paid : Nat, escrow : Nat,
   origin : [Seqs -> Sends \union {NoSend}],
   read : [Seqs -> SUBSET (Nat \X Nat)], runs : [Seqs -> Nat]]

Init ==
  /\ frames = << >>
  /\ world = [locked |-> FALSE, slot |-> CleanSlots,
              programs |-> [q \in Seqs |-> NoSend],
              packet |-> [q \in Seqs |-> "none"], bal |-> 0,
              paid |-> 0, escrow |-> 0,
              origin |-> [q \in Seqs |-> NoSend],
              read |-> [q \in Seqs |-> {}], runs |-> [q \in Seqs |-> 0]]

At(step) == ~Idle /\ Top.at = step

\* External code has control: the transaction, a program, the token that is
\* being pulled, or ICS20Transfer before it returns the sequence.
External ==
  ~Idle /\ Top.at \in {"batch", "program", "pull", "sent"} /\ Len(frames) < MaxDepth

-----------------------------------------------------------------------------
(***************************************************************************)
(* sendTransferAndCompose.                                                 *)
(***************************************************************************)
SendTransferAndCompose(s) ==
  /\ External
  /\ NonReentrant
  /\ ~Send[s].empty
  /\ Enter("pull", [send |-> s, seq |-> 0], [world EXCEPT !.locked = TRUE])

\* What transferFrom delivers, and received = balanceAfter - balanceBefore:
\* the frame was entered with balanceBefore.
Delivered(s) ==
  IF Send[s].takesFee /\ Send[s].amount > 0 THEN Send[s].amount - 1 ELSE Send[s].amount

\* Mutant: what the balance grew by is not compared with the amount.
AnyAmount(before, after, amount) == TRUE

ReceivedInFull(before, after, amount) == (IF after < before THEN 0 ELSE after - before) = amount

PullTokens ==
  /\ At("pull")
  /\ LET s == Top.arg.send
         after == world.bal + Delivered(s)
     IN /\ ReceivedInFull(Top.snap.bal, after, Send[s].amount)
        /\ MoveTo("submit", [world EXCEPT !.bal = after])

\* ICS20Transfer.sendTransfer escrows the tokens and assigns the sequence.
Fresh(q) == world.packet[q] = "none" /\ \A r \in 1 .. q - 1 : world.packet[r] # "none"

Submitted(q, amount, s) ==
  [world EXCEPT !.packet[q] = "pending", !.origin[q] = s,
                !.bal = @ - amount, !.escrow = @ + amount]

SubmitPacket ==
  \E q \in Seqs :
    /\ At("submit")
    /\ Fresh(q)
    /\ Send[Top.arg.send].amount <= world.bal
    /\ world' = Submitted(q, Send[Top.arg.send].amount, Top.arg.send)
    /\ frames' = [frames EXCEPT ![Len(frames)].at = "sent",
                                ![Len(frames)].arg.seq = q]

\* AlreadyComposed; then the program is stored and the call returns.
Register ==
  /\ At("sent")
  /\ world.programs[Top.arg.seq] = NoSend
  /\ Leave([world EXCEPT !.programs[Top.arg.seq] = Top.arg.send, !.locked = FALSE])

-----------------------------------------------------------------------------
(***************************************************************************)
(* onAckPacket / onTimeoutPacket, called by ICS20Transfer when a relayer   *)
(* settles a packet: it refunds a failed transfer first, and a callback    *)
(* that reverts undoes the settlement, so the packet can be settled later. *)
(***************************************************************************)
Amounts(w) == [q \in Seqs |-> IF w.origin[q] = NoSend THEN 0 ELSE Send[w.origin[q]].amount]

SettledBy(q, outcome) ==
  [world EXCEPT
     !.packet[q] = outcome,
     !.escrow = @ - Amounts(world)[q],
     !.bal = IF outcome = "success" THEN @ ELSE @ + Amounts(world)[q]]

\* ICS20Transfer settles a pending packet with the call; no other caller does.
Presented(caller, q) == caller = "ics20" => world.packet[q] = "pending"
Before(caller, q, outcome) ==
  IF caller = "ics20" THEN SettledBy(q, outcome) ELSE world

OnlyTransfer(caller) == caller = "ics20"

CallbackParams(q, outcome) == <<IF outcome = "success" THEN 1 ELSE 0, q>>

\* Mutant: the program is kept after it ran.
ProgramKept(w, q) == w

\* delete programs[sourceClient][sequence]
ProgramDeleted(w, q) == [w EXCEPT !.programs[q] = NoSend]

\* _runRegistered with a registered program, up to the DELEGATECALL.
RunRegistered(q, outcome, w) ==
  /\ world.programs[q] # NoSend
  /\ Enter("program", [send |-> world.programs[q], seq |-> q],
           Staged(ProgramDeleted(w, q), CallbackParams(q, outcome)))

\* _runRegistered returns at once: nothing is registered for the sequence.
NothingRegistered(q, w) ==
  /\ world.programs[q] = NoSend
  /\ world' = w
  /\ UNCHANGED frames

Callback(caller, q, outcome) ==
  /\ External
  /\ Presented(caller, q)
  /\ OnlyTransfer(caller)
  /\ NonReentrant
  /\ \/ RunRegistered(q, outcome, Before(caller, q, outcome))
     \/ NothingRegistered(q, Before(caller, q, outcome))

\* The program acts on TLOAD(0) and TLOAD(1).
ProgramAct ==
  /\ At("program")
  /\ world' = [world EXCEPT !.read[Top.arg.seq] =
                              @ \union {<<world.slot[0], world.slot[1]>>}]
  /\ UNCHANGED frames

\* The program sends a packet of its own straight through ICS20Transfer
\* (vm/eureka.py); no follow-up goes with it.  Its amount is left out.
ProgramSend ==
  \E q \in Seqs :
    /\ At("program")
    /\ Fresh(q)
    /\ world' = Submitted(q, 0, NoSend)
    /\ UNCHANGED frames

\* The rest of _runRegistered after the program returned.  Events are left out.
FinishProgram ==
  /\ At("program")
  /\ Leave([Unstaged(world) EXCEPT !.runs[Top.arg.seq] = @ + 1])

Next ==
  \/ BeginTx(NoSend) \/ EndTx \/ Revert
  \/ \E s \in Sends : SendTransferAndCompose(s)
  \/ PullTokens \/ SubmitPacket \/ Register
  \/ \E q \in Seqs, outcome \in Outcomes, caller \in {"ics20", "anyone"} :
       Callback(caller, q, outcome)
  \/ ProgramAct \/ ProgramSend \/ ProgramTstore \/ FinishProgram
  \/ External /\ PayPool(world.bal)

Spec == Init /\ [][Next]_vars

-----------------------------------------------------------------------------
\* Every frame runs for a transaction, a call or a packet, over a world.
TypeOK ==
  /\ world \in World
  /\ frames \in Seq([at : {"batch"}, arg : {NoSend}, snap : World]
                      \union [at : {"pull", "submit", "sent", "program"},
                              arg : [send : Sends, seq : Seqs \union {0}],
                              snap : World])

\* Between transactions every packet under way that was sent with a follow-up
\* has that very follow-up registered, and nothing else is registered: no
\* failure between the submission, the registration, the settlement and the
\* deletion leaves one without the other.
FollowUpMatchesPacket ==
  Idle => \A q \in Seqs :
            world.programs[q] =
              (IF world.packet[q] = "pending" THEN world.origin[q] ELSE NoSend)

\* A follow-up runs to its end once, in the transaction that settles its
\* packet, however often the settlement was attempted.
RunsOnceOnSettlement ==
  Idle => \A q \in Seqs :
            world.runs[q] = (IF world.origin[q] # NoSend /\ world.packet[q] \in Outcomes
                             THEN 1 ELSE 0)

\* A follow-up acts on the outcome and the sequence of its own packet.
ReadsOwnOutcome ==
  \A q \in Seqs : world.read[q] \subseteq {CallbackParams(q, world.packet[q])}

\* The packets that ended in one of the outcomes.
Ended(w, outcomes) == {q \in Seqs : w.packet[q] \in outcomes}

\* As long as follow-ups leave the refunds where they are, the composer holds
\* exactly the refunds of the failed packets, less what its callbacks paid: no
\* transfer was paid for with tokens of another one, whatever its token takes
\* as a fee and wherever a callback fell.
NoCrossFunding ==
  Idle => world.bal + world.paid =
            SumFunctionOnSet(Amounts(world), Ended(world, {"error", "timeout"}))
=============================================================================
