------------------------ MODULE CCTPComposer_proofs ------------------------
(***************************************************************************)
(* CCTPComposer for every set of messages and users, every depth of the    *)
(* call stack and any number of transactions: its transient storage, its   *)
(* nonces, its programs' parameters, and that it implements AtomicCompose. *)
(***************************************************************************)
EXTENDS CCTPComposer, InboundComposer_proofs

\* The composer that InboundComposer_proofs speaks of: a message that names it
\* as destinationCaller can only be received together with its program.
Cctp ==
  [params |-> Params, only |-> {m \in Messages : Msg[m].restricted},
   own |-> {"none"}]

LEMMA MsgFields ==
  ASSUME NEW m \in Messages
  PROVE  /\ Msg[m].amount \in Nat /\ Msg[m].feeExecuted \in Nat
         /\ Msg[m].sourceDomain \in Nat
BY MsgAssumption

LEMMA IsComposer ==
  /\ Composer(Cctp) /\ WorldOf(Cctp) = World
  /\ Cctp.params = Params
  /\ Cctp.only = {m \in Messages : Msg[m].restricted}
<1>1. \A m \in Messages : Params[m] \in Int \X Int
  BY MsgFields DEF Params, Received
<1> QED
  BY <1>1 DEF Cctp, Composer, WorldOf, World, Params

\* Receiving a message spends its nonce and mints a natural number.
LEMMA Minting ==
  ASSUME world \in World, NEW m \in Messages, Receivable(m)
  PROVE  LET v == Minted(world, m)
         IN /\ v \in World /\ Received(m) \in Nat /\ Params[m] \in Nat \X Nat
            /\ v.locked = world.locked /\ v.slot = world.slot
            /\ v.read = world.read /\ v.runs = world.runs
            /\ v.bal = world.bal + Received(m)
            /\ v.taken = world.taken \union {m}
            /\ m \notin world.taken
<1>1. Received(m) \in Nat
  <2>1. Msg[m].amount \in Nat /\ Msg[m].feeExecuted \in Nat
        /\ Msg[m].feeExecuted <= Msg[m].amount
    BY MsgFields DEF Receivable
  <2> QED
    BY <2>1 DEF Received
<1>2. world.bal \in Nat /\ world.bal + Received(m) \in Nat
  BY <1>1 DEF World, Worlds
<1>3. Params[m] \in Nat \X Nat
  BY <1>1, MsgFields DEF Params
<1> QED
  BY <1>1, <1>2, <1>3 DEF Minted, Receivable, World, Worlds

LEMMA ReceiveAndExecuteStep ==
  ASSUME IInv(Cctp), NEW m \in Messages, ReceiveAndExecute(m)
  PROVE  IInv(Cctp)'
<1>1. /\ frames # << >> /\ ~world.locked /\ Receivable(m)
      /\ Enter("program", m, Staged(Minted(world, m), Params[m]))
  BY DEF ReceiveAndExecute, Calling, Idle, NonReentrant
<1>2. world \in World
  BY Present, IsComposer
<1> DEFINE u == Minted(world, m)
<1>3. /\ u \in World /\ Params[m] \in Nat \X Nat
      /\ u.read = world.read /\ u.runs = world.runs
      /\ u.taken = world.taken \union {m} /\ m \notin world.taken
  BY <1>1, <1>2, Minting
<1> HIDE DEF u
<1>4. Enter("program", m, Staged(u, Cctp.params[m]))
  BY <1>1, IsComposer DEF u
<1> QED
  BY <1>1, <1>3, <1>4, IsComposer, ReceiveStep

LEMMA ReceiveDirectlyStep ==
  ASSUME IInv(Cctp), NEW m \in Messages, ReceiveDirectly(m)
  PROVE  IInv(Cctp)'
<1>1. /\ Receivable(m) /\ ~Msg[m].restricted
      /\ world' = Minted(world, m) /\ frames' = frames
  BY DEF ReceiveDirectly
<1>2. world \in World
  BY Present, IsComposer
<1>3. /\ world' \in World
      /\ world'.locked = world.locked /\ world'.slot = world.slot
      /\ world'.read = world.read /\ world'.runs = world.runs
      /\ world'.taken = world.taken \union {m}
  BY <1>1, <1>2, Minting
<1>4. m \in Messages \ Cctp.only
  BY <1>1, IsComposer
<1> QED
  BY <1>1, <1>3, <1>4, IsComposer, TakeStep

-----------------------------------------------------------------------------
\* The world, and every world that a revert can bring back, is consistent
\* with the frames below it.
THEOREM Consistency == Spec => []IInv(Cctp)
<1>1. Init => IInv(Cctp)
  BY DeployedFits DEF Init, Cctp
<1>2. IInv(Cctp) /\ [Next]_vars => IInv(Cctp)'
  <2> SUFFICES ASSUME IInv(Cctp), [Next]_vars PROVE IInv(Cctp)'
    OBVIOUS
  <2>1. CASE \E m \in Messages : ReceiveAndExecute(m)
    BY <2>1, ReceiveAndExecuteStep
  <2>2. CASE \E m \in Messages : ReceiveDirectly(m)
    BY <2>2, ReceiveDirectlyStep
  <2>3. CASE CommonStep
    BY <2>3, IsComposer, CommonKeeps
  <2>4. CASE UNCHANGED vars
    BY <2>4, StutterStep
  <2> QED
    BY <2>1, <2>2, <2>3, <2>4 DEF Next
<1> QED
  BY <1>1, <1>2, PTL DEF Spec

\* Type correctness of the composer's state and of its call stack.
THEOREM TypeCorrect == Spec => []TypeOK
<1>1. IInv(Cctp) => TypeOK
  BY StackTyped, IsComposer DEF TypeOK
<1> QED
  BY <1>1, Consistency, PTL

\* nonReentrant and the parameter slots: what a call finds in transient storage
\* is as if it were the first of the transaction.
THEOREM TransientIsFresh == Spec => []TransientClean
<1>1. IInv(Cctp) => TransientClean
  BY TransientIsClean
<1> QED
  BY <1>1, Consistency, PTL

\* A program acts on the net amount and the domain of its own message only.
THEOREM ParametersAreOwn == Spec => []ReadsOwnParams
<1>1. IInv(Cctp) => ReadsOwnParams
  BY ReadsAreOwn, IsComposer DEF ReadsOwnParams
<1> QED
  BY <1>1, Consistency, PTL

\* A spent nonce of a message that only the composer may receive has paid for
\* exactly one complete run of its program.
THEOREM OneRunPerNonce == Spec => []SpentForOneRun
<1>1. IInv(Cctp) => SpentForOneRun
  <2> SUFFICES ASSUME IInv(Cctp), Idle, NEW m \in Messages
               PROVE  /\ world.runs[m] <= (IF m \in world.taken THEN 1 ELSE 0)
                      /\ Msg[m].restricted /\ m \in world.taken => world.runs[m] = 1
    BY DEF SpentForOneRun
  <2>1. /\ \/ world.runs[m] = 0
           \/ world.runs[m] = 1 /\ m \in world.taken
        /\ m \in Cctp.only /\ m \in world.taken => world.runs[m] = 1
    BY RunsWhenIdle
  <2> QED
    BY <2>1, IsComposer
<1> QED
  BY <1>1, Consistency, PTL

-----------------------------------------------------------------------------
(* The refinement: AtomicCompose sees what the last block holds. *)

\* No step but the end of a transaction puts anything on record.
LEMMA RecordKept ==
  ASSUME IInv(Cctp), [Next]_vars, ~EndTx
  PROVE  Committed' = Committed
<1>1. world \in World
  BY Present, IsComposer
<1>2. ASSUME NEW m \in Messages, ReceiveAndExecute(m)
      PROVE  ~Idle /\ \E v \in World : Enter("program", m, v)
  <2>1. ~Idle /\ Receivable(m) /\ Enter("program", m, Staged(Minted(world, m), Params[m]))
    BY <1>2 DEF ReceiveAndExecute, Calling
  <2>2. Minted(world, m) \in World /\ Params[m] \in Nat \X Nat
    BY <1>1, <2>1, Minting
  <2>3. Staged(Minted(world, m), Params[m]) \in World
    BY <2>2, SlotsAssumption DEF Staged, World, Worlds
  <2> QED
    BY <2>1, <2>3
<1>3. ASSUME NEW m \in Messages, ReceiveDirectly(m)
      PROVE  ~Idle /\ frames' = frames
  BY <1>3 DEF ReceiveDirectly, Calling
<1> QED
  BY <1>2, <1>3, IsComposer, CommitOnlyAtEnd DEF Next

\* Whatever happens inside its transactions, the composer is an atomic one:
\* a block settles each message at most once, on its own parameters.
THEOREM Refines == Spec => KeepsPromise
<1>1. Init => Promise!Init
  BY DEF Init, Deployed, Promise!Init, Settled, Acted, Committed, Idle
<1>2. IInv(Cctp) /\ [Next]_vars => [Promise!Next]_<<Settled, Acted>>
  <2> SUFFICES ASSUME IInv(Cctp), [Next]_vars
               PROVE  Promise!Next \/ (Settled' = Settled /\ Acted' = Acted)
    OBVIOUS
  <2>1. EndTx \/ Committed' = Committed
    BY RecordKept
  <2> QED
    BY <2>1, BlockSettles, IsComposer DEF Promise!Next, Promise!Settle
<1> QED
  BY <1>1, <1>2, Consistency, PTL DEF Spec, KeepsPromise, Promise!Spec

-----------------------------------------------------------------------------
(* What a program finds in the composer. *)

\* Only a new frame makes the stack longer, and only receiveAndExecute's runs
\* a program, on a balance its own message has just been minted to.
LEMMA FundedStep ==
  ASSUME IInv(Cctp), [Next]_vars, Len(frames') > Len(frames), Top'.at = "program"
  PROVE  world'.slot[0] <= world'.bal
<1>1. frames \in Seq(FrameSet(Cctp)) /\ Len(frames) \in Nat /\ world \in World
  BY Present, IsComposer
<1>2. ~(frames' = frames)
  BY <1>1
<1>3. ~(frames # << >> /\ frames' = Callers)
  <2> SUFFICES ASSUME frames # << >>, frames' = Callers PROVE FALSE
    OBVIOUS
  <2>1. Len(frames') = Len(frames) - 1
    BY <1>1, CallersOf DEF Callers, Below
  <2> QED
    BY <1>1, <2>1
<1>4. ASSUME NEW u \in Users, BeginTx(u) PROVE FALSE
  <2>1. frames' = Append(frames, Frame("batch", u)) /\ Frame("batch", u) \in FrameSet(Cctp)
    BY <1>1, <1>4, IsComposer DEF BeginTx, Enter, Frame, FrameSet
  <2>2. Top' = Frame("batch", u)
    BY <1>1, <2>1, AppendProperties DEF Top
  <2> QED
    BY <2>2 DEF Frame
<1>5. ASSUME NEW m \in Messages, ReceiveAndExecute(m)
      PROVE  world'.slot[0] <= world'.bal
  <2>1. Receivable(m) /\ world' = Staged(Minted(world, m), Params[m])
    BY <1>5 DEF ReceiveAndExecute, Enter
  <2>2. /\ Minted(world, m) \in World /\ Received(m) \in Nat
        /\ Minted(world, m).bal = world.bal + Received(m)
    BY <1>1, <2>1, Minting
  <2>3. world'.bal = world.bal + Received(m) /\ world'.slot[0] = Received(m)
    BY <2>1, <2>2, SlotsAssumption DEF Staged, World, Worlds, Params
  <2>4. world.bal \in Nat
    BY <1>1 DEF World, Worlds
  <2> QED
    BY <2>2, <2>3, <2>4
<1>6. ~ \/ \E m \in Messages : ReceiveDirectly(m)
        \/ \E u \in Users : TransferOwnership(u)
        \/ RescueToken(world.bal) \/ PayPool(world.bal)
        \/ ProgramSpend \/ ProgramTstore \/ UNCHANGED vars
  BY <1>2 DEF ReceiveDirectly, TransferOwnership, RescueToken, PayPool,
              ProgramSpend, ProgramTstore, vars
<1>7. ~ (FinishProgram \/ Revert \/ EndTx)
  <2>1. EndTx => frames # << >>
    BY EmptySeq DEF EndTx
  <2> QED
    BY <1>3, <2>1 DEF FinishProgram, Running, Revert, EndTx, Idle, Leave
<1> QED
  BY <1>4, <1>5, <1>6, <1>7 DEF Next, CommonStep

\* The amount a program is told is in the composer when it starts, whatever
\* earlier programs, the owner or the swap callbacks took out before it.
THEOREM ProgramsStartFunded == Spec => StartsFunded
<1>1. IInv(Cctp) /\ [Next]_vars =>
        [Len(frames') > Len(frames) /\ Top'.at = "program" =>
           world'.slot[0] <= world'.bal]_vars
  BY FundedStep
<1> QED
  BY <1>1, Consistency, PTL DEF Spec, StartsFunded
=============================================================================
