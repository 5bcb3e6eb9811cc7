---------------------------- MODULE YieldDeposit ----------------------------
(***************************************************************************)
(* yields/deposit.py, vm/yield_deposit.py: an address that commits to a    *)
(* program, funded by anyone's plain transfers.  Any relayer deploys the   *)
(* Safe that belongs there; its setup runs the program, once: the          *)
(* execution fee goes to the relayer, all else is supplied for the owner.  *)
(* The Safe, the factory, the token and the market are external.           *)
(***************************************************************************)
EXTENDS Integers, FiniteSetsExt

CONSTANTS Owners, Salts, Fees, Protocols,
          Transfers, MaxFunded   \* bounds: sizes of transfers, their sum

VARIABLES held,      \* address -> the token it holds
          deployed,  \* addresses with a Safe
          position, earned, taken, \* address -> supplied, paid to relayers, taken out by the owner
          received,  \* history: address -> what was sent there
          paused        \* the market refuses supplies

vars == <<held, deployed, position, earned, taken, received, paused>>

Supported == {"aave_v3", "compound_v3"}

\* build_yield_deposit: the address is a hash of the whole deployment, and
\* exists for the protocols that credit someone else than the caller.
Addresses == [owner : Owners, salt : Salts, fee : Fees, protocol : Protocols \cap Supported]

Init ==
  /\ held = [a \in Addresses |-> 0] /\ deployed = {}
  /\ position = held /\ earned = held /\ taken = held /\ received = held
  /\ paused = FALSE

\* Bounds all transfers together.
Fundable(n) == MapThenSumSet(LAMBDA a : received[a], Addresses) + n <= MaxFunded

Fund(a) ==
  /\ \E n \in Transfers :
       /\ Fundable(n)
       /\ held' = [held EXCEPT ![a] = @ + n]
       /\ received' = [received EXCEPT ![a] = @ + n]
  /\ UNCHANGED <<deployed, position, earned, taken, paused>>

\* Mutant: the balance may be the fee and no more.
FeeAlone(a) == a.fee

LeastBalance(a) == a.fee + 1

\* build_deposit_program, run by the Safe's setup: it fails as a whole, and
\* the deployment with it.
Sweep(a) ==
  /\ a \notin deployed /\ ~paused /\ held[a] >= LeastBalance(a)
  /\ deployed' = deployed \cup {a}
  /\ earned' = [earned EXCEPT ![a] = @ + a.fee]
  /\ position' = [position EXCEPT ![a] = @ + (held[a] - a.fee)]
  /\ held' = [held EXCEPT ![a] = 0]
  /\ UNCHANGED <<taken, received, paused>>

\* What arrives later is in the owner's Safe.
TakeOut(a) ==
  /\ a \in deployed /\ held[a] > 0
  /\ taken' = [taken EXCEPT ![a] = @ + held[a]]
  /\ held' = [held EXCEPT ![a] = 0]
  /\ UNCHANGED <<deployed, position, earned, received, paused>>

Pause == paused' = ~paused /\ UNCHANGED <<held, deployed, position, earned, taken, received>>

Next == Pause \/ \E a \in Addresses : Fund(a) \/ Sweep(a) \/ TakeOut(a)

Spec == Init /\ [][Next]_vars

-----------------------------------------------------------------------------
\* Whatever was sent to an address is there, the owner's, or the one fee that
\* a relayer takes; and it takes the fee only for supplying something.
DepositAccounted ==
  \A a \in Addresses :
    /\ received[a] = held[a] + position[a] + earned[a] + taken[a]
    /\ earned[a] \in {0, a.fee}
    /\ a \in deployed => position[a] > 0
=============================================================================
