---------------------------- MODULE OFTComposer ----------------------------
(***************************************************************************)
(* bridge/OFTComposer.sol: LayerZero delivers in two steps.  The OFT       *)
(* credits the tokens and queues a compose message with the endpoint; the  *)
(* endpoint later calls lzCompose, again after every attempt that failed.  *)
(* world.own are the messages ever sent to the endpoint's compose queue    *)
(* (external contract), world.taken those it has marked as received.       *)
(***************************************************************************)
EXTENDS InboundComposer

CONSTANT Msg  \* a record [amountLD, from, tooShort] per message; from is the OFT
              \*   that was credited

Amounts == [m \in Messages |-> Msg[m].amountLD]
Params == [m \in Messages |-> <<Msg[m].amountLD, Msg[m].from>>]

World == Worlds(SUBSET Messages)

Init == Deployed({})

Queued == world.own \ world.taken

-----------------------------------------------------------------------------
\* The OFT's lzReceive: tokens now, sendCompose to the endpoint's queue.
Credit(m) ==
  /\ Calling
  /\ m \notin world.own
  /\ world' = [world EXCEPT !.own = @ \union {m}, !.bal = @ + Amounts[m]]
  /\ UNCHANGED frames

\* Mutant: no check of msg.sender.
AnyCaller(caller) == TRUE

Authorised(caller) == caller = "endpoint"

\* The endpoint calls with a queued message only, and marks it first.
Presented(caller, m) == caller = "endpoint" => m \in Queued
Marked(caller, m) ==
  IF caller = "endpoint" THEN [world EXCEPT !.taken = @ \union {m}] ELSE world

\* lzCompose up to the DELEGATECALL.  Every failed check reverts, and the
\* endpoint's mark with it.
LzCompose(caller, m) ==
  /\ Calling
  /\ Presented(caller, m)
  /\ NonReentrant
  /\ Authorised(caller)
  /\ ~Msg[m].tooShort
  /\ Enter("program", m, Staged(Marked(caller, m), Params[m]))

Next ==
  \/ \E m \in Messages : Credit(m)
  \/ \E m \in Messages, caller \in {"endpoint", "anyone"} : LzCompose(caller, m)
  \/ CommonStep

Spec == Init /\ [][Next]_vars

-----------------------------------------------------------------------------
\* The composer and every frame of its stack are of their types.
TypeOK == world \in World /\ frames \in FramesOver(World)

\* However often delivery is attempted, a message leaves the queue with one
\* complete run of its program, and stays queued (and can be retried) as long
\* as it has had none.
QueueMatchesRuns ==
  Idle => \A m \in Messages :
            world.runs[m] = (IF m \in world.taken THEN 1 ELSE 0)

\* Every program moved its own amount exactly once.
MovedOnce ==
  world.out = SumFunctionOnSet(Amounts, {m \in Messages : world.read[m] # {}})

\* The composer keeps one balance for all messages.  As long as programs move
\* their own amount only, no callback paid anybody and the owner rescued nothing,
\* every message that still waits in the queue finds its tokens here.
PendingIsBacked ==
  MovedOnce /\ world.rescued = 0 /\ world.paid = 0 =>
    SumFunctionOnSet(Amounts, Queued) <= world.bal
=============================================================================
