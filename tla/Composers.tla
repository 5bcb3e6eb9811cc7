----------------------------- MODULE Composers -----------------------------
(***************************************************************************)
(* The contracts other than CCTPComposer that stand on EvmFrames, in one   *)
(* specification: `which` is the contract a behaviour is about, chosen in  *)
(* Init.  Their properties are stated together where they say the same.    *)
(***************************************************************************)
EXTENDS EvmFrames, FiniteSets

CONSTANTS
  Users, Owner0,                              \* InboundComposer
  OFTMessages, OFTMsg,                        \* OFTComposer
  CCIPMessages, CCIPMsg, Lanes, Enabled0,     \* CCIPComposer
  Sends, NoSend, Send, MaxSeq,                \* EurekaComposer
  Calls, Call, Wallet0, MaxParams,            \* ApproveProxy
  Permits, Permit, NoPermit, Programs, Purse, ProgramAmount  \* DeFiVM

ASSUME OwnerAssumption == Owner0 \in Users
ASSUME OFTAssumption ==
  OFTMsg \in [OFTMessages -> [amountLD : Nat, from : Nat, tooShort : BOOLEAN]]
ASSUME CCIPAssumption ==
  /\ CCIPMsg \in [CCIPMessages -> [amount : Nat, selector : Nat, lane : Lanes, tokens : Nat]]
  /\ Enabled0 \in BOOLEAN

ASSUME EurekaAssumption ==
  /\ Send \in [Sends -> [amount : Nat, empty : BOOLEAN, takesFee : BOOLEAN]]
  /\ NoSend \notin Sends
  /\ MaxSeq \in Nat
ASSUME ProxyAssumption ==
  /\ Call \in [Calls -> [deposits : Seq(Nat), params : Seq(Nat)]]
  /\ Wallet0 \in [Users -> Nat]
  /\ MaxParams \in Nat /\ 0 .. MaxParams - 1 \subseteq Slots
ASSUME VMAssumption ==
  /\ Permit \in [Permits -> [owner : Users, nonce : Nat, permitted : Seq(Nat),
                             program : Programs]]
  /\ NoPermit \notin Permits
  /\ Purse \in [Users -> Nat] /\ ProgramAmount \in [Programs -> Nat]
  /\ IsFiniteSet(Permits) /\ IsFiniteSet(Programs)

VARIABLE which

OFT == INSTANCE OFTComposer WITH Messages <- OFTMessages, Msg <- OFTMsg
CCIP == INSTANCE CCIPComposer WITH Messages <- CCIPMessages, Msg <- CCIPMsg
Eureka == INSTANCE EurekaComposer
Proxy == INSTANCE ApproveProxy
VM == INSTANCE DeFiVM WITH Owners <- Users, Amount <- ProgramAmount

Init ==
  \/ which = "OFT" /\ OFT!Init
  \/ which = "CCIP" /\ CCIP!Init
  \/ which = "Eureka" /\ Eureka!Init
  \/ which = "ApproveProxy" /\ Proxy!Init
  \/ which = "DeFiVM" /\ VM!Init

Next ==
  /\ UNCHANGED which
  /\ \/ which = "OFT" /\ OFT!Next
     \/ which = "CCIP" /\ CCIP!Next
     \/ which = "Eureka" /\ Eureka!Next
     \/ which = "ApproveProxy" /\ Proxy!Next
     \/ which = "DeFiVM" /\ VM!Next

Spec == Init /\ [][Next]_<<which, vars>>

-----------------------------------------------------------------------------
\* Every frame runs for a sender, a message or a call, over a world of its
\* contract: no balance, wallet or escrow goes below zero.
TypeOK ==
  CASE which = "OFT" -> OFT!TypeOK
    [] which = "CCIP" -> CCIP!TypeOK
    [] which = "Eureka" -> Eureka!TypeOK
    [] which = "ApproveProxy" -> Proxy!TypeOK
    [] which = "DeFiVM" -> VM!TypeOK

\* lzCompose and ccipReceive: between transactions what the endpoint or the
\* off-ramp records as delivered is what ran, and it ran once, however often
\* delivery was attempted and whoever else called.
DeliveredWithOneRun ==
  /\ which = "OFT" => OFT!QueueMatchesRuns
  /\ which = "CCIP" => CCIP!DeliveredWithOneRun

\* OFTComposer: the one balance covers every message still queued.
PendingIsBacked == which = "OFT" => OFT!PendingIsBacked

\* CCIPComposer: a transaction settles messages of lanes that were open when
\* it began, unless the owner sent it.
OnlyOpenLanesSettle ==
  [][which = "CCIP" => CCIP!OnlyOpenLanesSettleStep]_<<which, vars>>

\* EurekaComposer: registration, packet and run of a follow-up stay in step,
\* and it acts on the outcome of its own packet.
FollowUpsSettle ==
  which = "Eureka" =>
    Eureka!FollowUpMatchesPacket /\ Eureka!RunsOnceOnSettlement /\ Eureka!ReadsOwnOutcome

\* EurekaComposer: no transfer is paid for with the refunds of another one.
NoCrossFunding == which = "Eureka" => Eureka!NoCrossFunding

\* ApproveProxy.execute: a program sees its own parameters and zeros only.
NoStaleParams == which = "ApproveProxy" => Proxy!NoStaleParams

\* ApproveProxy.execute and DeFiVM.executeWithPermit2: tokens are taken for
\* runs that end, and only those, and for the program that was signed.
DepositsOnlyForRuns ==
  /\ which = "ApproveProxy" => Proxy!DepositsOnlyForRuns
  /\ which = "DeFiVM" => VM!SignedPullsSettle

OFTPromise == INSTANCE AtomicCompose WITH
  Messages <- OFTMessages, Param <- OFT!Params,
  settled <- IF which = "OFT" THEN OFT!Settled ELSE {},
  acted <- IF which = "OFT" THEN OFT!Acted ELSE {}

CCIPPromise == INSTANCE AtomicCompose WITH
  Messages <- CCIPMessages, Param <- CCIP!Params,
  settled <- IF which = "CCIP" THEN CCIP!Settled ELSE {},
  acted <- IF which = "CCIP" THEN CCIP!Acted ELSE {}

\* What the chain records of OFTComposer and of CCIPComposer is a behaviour of
\* AtomicCompose: one settlement per message, on its own parameters.
KeepsPromise == OFTPromise!Spec /\ CCIPPromise!Spec
=============================================================================
