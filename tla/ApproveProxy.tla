---------------------------- MODULE ApproveProxy ----------------------------
(***************************************************************************)
(* vm/ApproveProxy.sol: execute pulls deposits from its caller, stages     *)
(* caller-chosen parameters in the transient slots [0, n) and runs a       *)
(* program; afterwards it zeroes [0, MAX_PARAMS).  The fields of `world`   *)
(* beside those of EvmFrames:                                              *)
(*   wallet  tokens of each user, who approved the proxy for all of them   *)
(*   out     tokens programs sent on                                       *)
(*   spent   history: deposits of each user's calls that ran to the end    *)
(***************************************************************************)
EXTENDS EvmFrames, SequencesExt

CONSTANTS
  MaxParams,  \* MAX_PARAMS
  Users,
  Wallet0,    \* what each user holds and approved
  Calls,      \* calls of execute
  Call        \* their arguments

World ==
  [locked : BOOLEAN, slot : [Slots -> Nat], wallet : [Users -> Nat],
   bal : Nat, paid : Nat, out : Nat, spent : [Users -> Nat]]

Init ==
  /\ frames = << >>
  /\ world = [locked |-> FALSE, slot |-> CleanSlots, wallet |-> Wallet0,
              bal |-> 0, paid |-> 0, out |-> 0, spent |-> [u \in Users |-> 0]]

Sender == frames[1].arg
At(step) == ~Idle /\ Top.at = step

\* External code has control: the transaction, a token being pulled, a program.
External ==
  ~Idle /\ Top.at \in {"batch", "deposit", "program"} /\ Len(frames) < MaxDepth

-----------------------------------------------------------------------------
FewEnough(params) == Len(params) <= MaxParams

\* execute: the modifier and the length check.  i is the next deposit.
Execute(c) ==
  /\ External
  /\ NonReentrant
  /\ FewEnough(Call[c].params)
  /\ Enter("deposit", [call |-> c, i |-> 1, user |-> Sender],
           [world EXCEPT !.locked = TRUE])

Total(c) == FoldSeq(LAMBDA x, y : x + y, 0, Call[c].deposits)

\* transferFrom succeeds.
Transferable(u, amount) == amount <= world.wallet[u]

\* _safeTransferFrom of one deposit; a failure reverts all of execute.
PullDeposit ==
  /\ At("deposit")
  /\ LET a == Top.arg
         amount == Call[a.call].deposits[a.i]
     IN /\ a.i <= Len(Call[a.call].deposits)
        /\ Transferable(a.user, amount)
        /\ world' = [world EXCEPT !.wallet[a.user] = @ - amount, !.bal = @ + amount]
        /\ frames' = [frames EXCEPT ![Len(frames)].arg.i = @ + 1]

\* tstore(i, params[i]) for i < n.
ParamsStaged(w, params) ==
  [w EXCEPT !.slot = [i \in Slots |-> IF i < Len(params) THEN params[i + 1] ELSE @[i]]]

StageParams ==
  /\ At("deposit")
  /\ Top.arg.i > Len(Call[Top.arg.call].deposits)
  /\ MoveTo("staged", ParamsStaged(world, Call[Top.arg.call].params))

StartProgram == At("staged") /\ MoveTo("program", world)

\* The program may use any slot, those of the parameters included, and sends
\* tokens of the proxy on.
ProgramTstoreAny ==
  \E i \in Slots :
    /\ At("program")
    /\ world' = [world EXCEPT !.slot[i] = 1]
    /\ UNCHANGED frames

ProgramSpend ==
  /\ At("program")
  /\ world' = [world EXCEPT !.bal = 0, !.out = @ + world.bal]
  /\ UNCHANGED frames

\* Mutant: only the slots this call staged are cleared.
OwnParamsCleared(w, n) ==
  [w EXCEPT !.slot = [i \in Slots |-> IF i < n THEN 0 ELSE @[i]], !.locked = FALSE]

\* tstore(i, 0) for i < MAX_PARAMS, then the end of the modifier.
ParamsCleared(w, n) ==
  [w EXCEPT !.slot = [i \in Slots |-> IF i < MaxParams THEN 0 ELSE @[i]],
            !.locked = FALSE]

FinishProgram ==
  /\ At("program")
  /\ LET a == Top.arg
     IN Leave([ParamsCleared(world, Len(Call[a.call].params))
                 EXCEPT !.spent[a.user] = @ + Total(a.call)])

Next ==
  \/ \E u \in Users : BeginTx(u)
  \/ \E c \in Calls : Execute(c)
  \/ PullDeposit \/ StageParams \/ StartProgram
  \/ ProgramTstoreAny \/ ProgramSpend \/ FinishProgram
  \/ External /\ PayPool(world.bal)
  \/ Revert \/ EndTx

Spec == Init /\ [][Next]_vars

-----------------------------------------------------------------------------
\* Every frame runs for a sender or for a call of execute, over a world.
TypeOK ==
  /\ world \in World
  /\ frames \in Seq([at : {"batch"}, arg : Users, snap : World]
                      \union [at : {"deposit", "staged", "program"},
                              arg : [call : Calls, i : Nat, user : Users],
                              snap : World])

\* "a same-tx execute with fewer params cannot observe stale upper slots from
\* an earlier call": when a program starts, the slots [0, MAX_PARAMS) hold its
\* own parameters and zeros, whatever earlier programs of the transaction
\* staged or stored there.
NoStaleParams ==
  At("staged") =>
    LET params == Call[Top.arg.call].params
    IN \A i \in 0 .. MaxParams - 1 :
         world.slot[i] = (IF i < Len(params) THEN params[i + 1] ELSE 0)

\* All or nothing: between transactions a user has given up exactly the
\* deposits of the calls whose programs ran to the end, whichever deposit,
\* program or enclosing call failed on the way.
DepositsOnlyForRuns ==
  Idle => \A u \in Users : world.wallet[u] + world.spent[u] = Wallet0[u]
=============================================================================
