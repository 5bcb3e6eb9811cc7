---------------------------- MODULE CCTPComposer ----------------------------
(***************************************************************************)
(* bridge/CCTPComposer.sol: a CCTP v2 message is received, its USDC minted *)
(* to this contract, and the program in its hookData run, in one call.     *)
(* world.taken are the messages whose nonce MessageTransmitterV2 (external) *)
(* has spent; the contract has no state of its own.                        *)
(***************************************************************************)
EXTENDS InboundComposer

CONSTANT Msg  \* the messages' contents: restricted says that the message
              \* names this composer as its destinationCaller

ASSUME MsgAssumption ==
  Msg \in [Messages -> [amount : Nat, feeExecuted : Nat, sourceDomain : Nat,
                        tooShort : BOOLEAN, restricted : BOOLEAN]]

Received(m) == Msg[m].amount - Msg[m].feeExecuted

\* Mutant: the program is told the burnt amount, before the fee.
GrossParams == [m \in Messages |-> <<Msg[m].amount, Msg[m].sourceDomain>>]

Params == [m \in Messages |-> <<Received(m), Msg[m].sourceDomain>>]

World == Worlds({"none"})

Init == Deployed("none")

-----------------------------------------------------------------------------
\* Mutant: unchecked subtraction of the fee.
FeeUnchecked(m) == m \notin world.taken

\* MessageTransmitterV2.receiveMessage spends the nonce and mints to the
\* composer; the checked subtraction amount - feeExecuted does not underflow.
Receivable(m) ==
  /\ m \notin world.taken
  /\ Msg[m].feeExecuted <= Msg[m].amount
Minted(w, m) == [w EXCEPT !.taken = @ \union {m}, !.bal = @ + Received(m)]

\* receiveAndExecute up to the DELEGATECALL.  Every failed check reverts.
ReceiveAndExecute(m) ==
  /\ Calling
  /\ NonReentrant
  /\ ~Msg[m].tooShort
  /\ Receivable(m)
  /\ Enter("program", m, Staged(Minted(world, m), Params[m]))

\* A message without a destinationCaller, received around the composer: the
\* nonce is spent and the USDC minted to the composer without its program.
ReceiveDirectly(m) ==
  /\ Calling
  /\ ~Msg[m].restricted
  /\ Receivable(m)
  /\ world' = Minted(world, m)
  /\ UNCHANGED frames

Next ==
  \/ \E m \in Messages : ReceiveAndExecute(m) \/ ReceiveDirectly(m)
  \/ CommonStep

Spec == Init /\ [][Next]_vars

-----------------------------------------------------------------------------
\* The composer and every frame of its stack are of their types.
TypeOK == world \in World /\ frames \in FramesOver(World)

\* A program only ever acts on the amount and domain of its own message.
ReadsOwnParams == ReadsOwn(Params)

\* A nonce spent by a message that names this composer as destinationCaller
\* has been paid for by exactly one complete run of its program; no message's
\* program runs twice or without its mint.
SpentForOneRun ==
  Idle => \A m \in Messages :
            /\ world.runs[m] <= (IF m \in world.taken THEN 1 ELSE 0)
            /\ Msg[m].restricted /\ m \in world.taken => world.runs[m] = 1

Promise == INSTANCE AtomicCompose WITH
  Param <- Params, settled <- Settled, acted <- Acted

\* What the chain records of this contract, transaction after transaction, is
\* a behaviour of AtomicCompose.
KeepsPromise == Promise!Spec
=============================================================================
