------------------------------- MODULE DeFiVM -------------------------------
(***************************************************************************)
(* vm/DeFiVM.sol: anyone runs any program in the VM's context, over        *)
(* whatever balance it holds (execute), or over tokens that it pulls by a  *)
(* Permit2 signature which is bound to the program (executeWithPermit2).   *)
(* There is no lock: a token or a pool that is called may call the VM      *)
(* again.  A program is its target and the amount it sends there, or       *)
(* fails to send.  The fields of `world` beside those of EvmFrames:        *)
(*   wallet  tokens of each owner, who approved Permit2 for all of them    *)
(*   used    nonces of each owner that Permit2 has seen                    *)
(*   target  tokens that reached each program's target                     *)
(*   ran     history: complete runs of a permit's pull, by program         *)
(* The VM uses no transient slot and no parameter of its own.              *)
(***************************************************************************)
EXTENDS EvmFrames, SequencesExt

CONSTANTS
  Owners,
  Purse,     \* what each owner holds
  Programs,
  Amount,    \* what a program sends
  Permits,   \* signatures
  Permit,    \* their owner, nonce, permitted amounts and the program of the witness
  NoPermit   \* a run by execute

World ==
  [locked : {FALSE}, slot : [Slots -> {0}], bal : Nat, paid : Nat,
   wallet : [Owners -> Nat], used : [Owners -> SUBSET Nat],
   target : [Programs -> Nat], ran : [Permits -> [Programs -> Nat]]]

Init ==
  /\ frames = << >>
  /\ world = [locked |-> FALSE, slot |-> CleanSlots, bal |-> 0, paid |-> 0,
              wallet |-> Purse, used |-> [o \in Owners |-> {}],
              target |-> [g \in Programs |-> 0],
              ran |-> [p \in Permits |-> [g \in Programs |-> 0]]]

At(step) == ~Idle /\ Top.at = step

\* External code has control: the transaction, a token being pulled, a program.
External ==
  ~Idle /\ Top.at \in {"batch", "pull", "program"} /\ Len(frames) < MaxDepth

-----------------------------------------------------------------------------
Job(p, g) == [permit |-> p, program |-> g, i |-> 1, sent |-> FALSE]

\* execute
Execute(g) ==
  /\ External
  /\ Enter("program", Job(NoPermit, g), world)

\* Mutant: the witness is that of whatever the signature was made for.
WitnessTrusted(p, g) == Permit[p].program

\* keccak256(abi.encode(WITNESS_TYPEHASH, keccak256(program)))
Witness(p, g) == g

\* Permit2: the signature covers permit and witness, and uses its nonce up.
Accepted(p, witness) ==
  /\ witness = Permit[p].program
  /\ Permit[p].nonce \notin world.used[Permit[p].owner]

\* executeWithPermit2 up to the transfers.  Anyone submits it.
ExecuteWithPermit2(p, g) ==
  /\ External
  /\ Accepted(p, Witness(p, g))
  /\ Enter("pull", Job(p, g),
           [world EXCEPT !.used[Permit[p].owner] = @ \union {Permit[p].nonce}])

\* details[i]: all that is permitted, to the VM.
RequestedAmount(p, i) == Permit[p].permitted[i]

\* permitWitnessTransferFrom moves one token of the batch.
Pull ==
  /\ At("pull")
  /\ LET a == Top.arg
         o == Permit[a.permit].owner
     IN /\ a.i <= Len(Permit[a.permit].permitted)
        /\ RequestedAmount(a.permit, a.i) <= world.wallet[o]
        /\ world' = [world EXCEPT !.wallet[o] = @ - RequestedAmount(a.permit, a.i),
                                  !.bal = @ + RequestedAmount(a.permit, a.i)]
        /\ frames' = [frames EXCEPT ![Len(frames)].arg.i = @ + 1]

\* _run(program), after the last of the transfers.
Run ==
  /\ At("pull")
  /\ Top.arg.i > Len(Permit[Top.arg.permit].permitted)
  /\ MoveTo("program", world)

\* The program's transfer; if it fails, the program does.
ProgramSend ==
  /\ At("program") /\ ~Top.arg.sent
  /\ LET g == Top.arg.program
     IN /\ Amount[g] <= world.bal
        /\ world' = [world EXCEPT !.bal = @ - Amount[g], !.target[g] = @ + Amount[g]]
        /\ frames' = [frames EXCEPT ![Len(frames)].arg.sent = TRUE]

\* The interpreter returns.
Finish ==
  /\ At("program") /\ Top.arg.sent
  /\ LET a == Top.arg
     IN Leave(IF a.permit = NoPermit THEN world
              ELSE [world EXCEPT !.ran[a.permit][a.program] = @ + 1])

\* Mutant: a failed DELEGATECALL returns what it returned.
FailureReturned ==
  /\ ~Idle
  /\ Leave(IF Top.at = "program" THEN world ELSE Top.snap)

\* _run bubbles the revert of the program up; so do the other frames.
Fail == Revert

Next ==
  \/ \E o \in Owners : BeginTx(o)
  \/ \E g \in Programs : Execute(g)
  \/ \E p \in Permits, g \in Programs : ExecuteWithPermit2(p, g)
  \/ Pull \/ Run \/ ProgramSend \/ Finish
  \/ External /\ PayPool(world.bal)
  \/ Fail \/ EndTx

Spec == Init /\ [][Next]_vars

-----------------------------------------------------------------------------
Permitted(p) == FoldSeq(LAMBDA x, y : x + y, 0, Permit[p].permitted)

\* The complete runs of each permit, what they pulled, and what they sent if
\* their program was g.
Runs == [p \in Permits |-> SumFunctionOnSet(world.ran[p], Programs)]
Pulled == [p \in Permits |-> Runs[p] * Permitted(p)]
Sent(g) == [p \in Permits |-> Runs[p] * Amount[g]]

\* Every frame runs for a sender or a job, over a world.
TypeOK ==
  /\ world \in World
  /\ frames \in Seq([at : {"batch"}, arg : Owners, snap : World]
                      \union [at : {"pull", "program"},
                              arg : [permit : Permits \union {NoPermit}, program : Programs,
                                     i : Nat, sent : BOOLEAN],
                              snap : World])

\* "a relayer submits and pays gas but cannot alter what runs" and "any revert
\* undoes everything": between transactions an owner has given up what the
\* completed runs of their permits pulled and no more, a used nonce stands for
\* one such run, and the target of the program that was signed has what the
\* program sends, whoever called the VM or its callbacks in between.
SignedPullsSettle ==
  Idle =>
    /\ \A o \in Owners :
         LET mine == {p \in Permits : Permit[p].owner = o}
         IN /\ world.wallet[o] + SumFunctionOnSet(Pulled, mine) = Purse[o]
            /\ \A n \in {Permit[p].nonce : p \in mine} :
                 SumFunctionOnSet(Runs, {p \in mine : Permit[p].nonce = n})
                   = (IF n \in world.used[o] THEN 1 ELSE 0)
    /\ \A g \in Programs :
         world.target[g] >= SumFunctionOnSet(Sent(g), {p \in Permits : Permit[p].program = g})
=============================================================================
