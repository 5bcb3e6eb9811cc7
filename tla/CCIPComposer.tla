---------------------------- MODULE CCIPComposer ----------------------------
(***************************************************************************)
(* bridge/CCIPComposer.sol: the CCIP router delivers the tokens of a       *)
(* message and calls ccipReceive in one frame of the off-ramp, which can   *)
(* be executed again after a failure.  world.taken are the messages the    *)
(* off-ramp has executed (external contract), and world.own is             *)
(*   enabled  allowlistEnabled                                             *)
(*   allowed  the lanes with allowedSender set.                            *)
(* A lane stands for a pair (sourceChainSelector, keccak256(sender)).      *)
(***************************************************************************)
EXTENDS InboundComposer

CONSTANTS
  Lanes,
  Enabled0,  \* _allowlistEnabled of the constructor
  Msg        \* a record [amount, selector, lane, tokens] per message;
             \*   tokens = destTokenAmounts.length

Params == [m \in Messages |-> <<Msg[m].amount, Msg[m].selector>>]

World == Worlds([enabled : BOOLEAN, allowed : SUBSET Lanes])

Init == Deployed([enabled |-> Enabled0, allowed |-> {}])

-----------------------------------------------------------------------------
\* The off-ramp executes a message once, and releases its tokens with the call.
Presented(caller, m) == caller = "router" => m \notin world.taken
Released(caller, m) ==
  IF caller = "router"
  THEN [world EXCEPT !.taken = @ \union {m}, !.bal = @ + Msg[m].amount]
  ELSE world

Authorised(caller) == caller = "router"

Open(w, m) == w.own.enabled => Msg[m].lane \in w.own.allowed

\* ccipReceive up to the DELEGATECALL.  Every failed check reverts.
CcipReceive(caller, m) ==
  /\ Calling
  /\ Presented(caller, m)
  /\ NonReentrant
  /\ Authorised(caller)
  /\ Open(world, m)
  /\ Msg[m].tokens = 1
  /\ Enter("program", m, Staged(Released(caller, m), Params[m]))

SetAllowlistEnabled(on) ==
  /\ FromOwner
  /\ world' = [world EXCEPT !.own.enabled = on]
  /\ UNCHANGED frames

SetAllowed(l, on) ==
  /\ FromOwner
  /\ world' = [world EXCEPT !.own.allowed = IF on THEN @ \union {l} ELSE @ \ {l}]
  /\ UNCHANGED frames

Next ==
  \/ \E m \in Messages, caller \in {"router", "anyone"} : CcipReceive(caller, m)
  \/ \E on \in BOOLEAN :
       \/ SetAllowlistEnabled(on)
       \/ \E l \in Lanes : SetAllowed(l, on)
  \/ CommonStep

Spec == Init /\ [][Next]_vars

-----------------------------------------------------------------------------
\* The composer and every frame of its stack are of their types.
TypeOK == world \in World /\ frames \in FramesOver(World)

\* Tokens and program come together: outside a transaction the messages whose
\* tokens were released are those whose program ran, and it ran once.
DeliveredWithOneRun ==
  Idle => \A m \in Messages :
            world.runs[m] = (IF m \in world.taken THEN 1 ELSE 0)

\* A transaction settles a message only if the message's lane was open when
\* the transaction began, or the sender is the owner, who can open it within.
OnlyOpenLanesSettleStep ==
  \A m \in Settled' \ Settled :
    Open(Committed, m) \/ frames[1].arg = Committed.owner
=============================================================================
