--------------------------- MODULE BridgeJourney ---------------------------
(***************************************************************************)
(* One order through bridge/router.py, bridge/*.py and crosschain/*.py:    *)
(* BridgeRouter asks a fleet of clients at once, the quotes are ranked,    *)
(* one is built into transactions, which are sent one by one and settle on *)
(* the other chain, where the transfer may carry the program that supplies *)
(* what arrives.  Fees and prices move between any two of these steps.     *)
(* The caller, the chains, the bridges and the relayers are external.      *)
(*                                                                         *)
(* Further fields of an order: fleet, the clients; kind, "plain",          *)
(* "compose" or "swap" (a source swap into the CCTP transfer); destSwap.   *)
(***************************************************************************)
EXTENDS BridgeClients

CONSTANTS
  Orders, Costs,      \* what a message, a relayer or a tier may cost
  Rates,              \* per cent a swap returns
  Allowance,          \* what the caller of a plain transfer approves
  MaxMoves            \* bound: how often a cost or a rate changes

VARIABLES
  order, cost, rate,
  answers,   \* client -> "none", "quote", "dropped" or "raised", and its quote
  ranked, chosen,
  pc, legs,
  base,      \* history: the fee the transactions were built for
  allow,     \* the bridge's allowance, by token
  flight, got, \* the transfer on its way; what arrived
  vm, supplied, \* left in the source VM; credited to the user
  moves, moved

vars == <<order, cost, rate, answers, ranked, chosen, pc, legs, base, allow, flight, got,
          vm, supplied, moves, moved>>

Clients == ToSet(order.fleet)
NoQuote == [by |-> "nobody", in |-> 0, out |-> 0, feeToken |-> NativeAddr, fee |-> 0]
NoTransfer == Transfer("nobody", 0, 0, 0, 0, NoProgram)
Composers == {"cctp", "oft", "ccip"}
Swapped(x, where) == (x * rate[where]) \div 100
AtDest(o, x) == IF o.destSwap THEN Swapped(x, "dst") ELSE x

Init ==
  /\ order \in Orders
  /\ cost \in [ToSet(order.fleet) -> Costs]
  /\ rate \in [{"src", "dst"} -> Rates]
  /\ answers = [b \in ToSet(order.fleet) |-> [is |-> "none", quote |-> NoQuote]]
  /\ ranked = << >> /\ chosen = NoQuote
  /\ pc = IF order.kind = "swap" THEN "routing" ELSE "asking"
  /\ legs = << >> /\ base = 0 /\ allow = [t \in DOMAIN Price |-> 0]
  /\ flight = NoTransfer /\ got = 0 /\ vm = 0 /\ supplied = 0 /\ moves = 0 /\ moved = FALSE


Chain == <<allow, flight, got, vm, supplied>>
World == <<order, cost, rate, moves, moved>>

-----------------------------------------------------------------------------
(* BridgeRouter.quote_all: gather waits for every client. *)

Ask(b) ==
  /\ pc = "asking" /\ answers[b].is = "none"
  /\ \E now \in {cost[b], Down}, raises \in BOOLEAN :
       LET quotes == GetQuote(b, order, now) IN
       /\ Refuses(b, order) => raises
       /\ raises => Refuses(b, order) \/ CallLost(b, order, now)
       /\ answers' = [answers EXCEPT ![b] =
         IF raises THEN [is |-> "raised", quote |-> NoQuote]
         ELSE IF quotes = {} THEN [is |-> "dropped", quote |-> NoQuote]
         ELSE [is |-> "quote", quote |-> CHOOSE q \in quotes : TRUE]]
  /\ UNCHANGED <<ranked, chosen, pc, legs, base>> /\ UNCHANGED Chain /\ UNCHANGED World

\* The places in the fleet whose client has quoted.
Quoting == {k \in DOMAIN order.fleet : answers[order.fleet[k]].is = "quote"}

Rank ==
  /\ pc = "asking" /\ \A b \in Clients : answers[b].is # "none"
  /\ IF \E b \in Clients : answers[b].is = "raised"
     THEN pc' = "raised" /\ ranked' = ranked
     ELSE /\ pc' = "ranked"
          /\ ranked' \in RankBridgeQuotes([k \in Quoting |-> answers[order.fleet[k]].quote], order)
  /\ UNCHANGED <<answers, chosen, legs, base>> /\ UNCHANGED Chain /\ UNCHANGED World

\* The caller takes a quote, for a plain transfer with the allowance it needs.
Choose ==
  /\ pc = "ranked"
  /\ \E r \in ToSet(ranked) :
       /\ order.kind = "compose" => r.quote.by \in Composers
       /\ chosen' = r.quote
  /\ pc' = IF order.kind = "plain" THEN "built" ELSE "approvals"
  /\ allow' = IF order.kind = "plain" THEN [t \in DOMAIN allow |-> Allowance] ELSE allow
  /\ UNCHANGED <<answers, ranked, legs, base, flight, got, vm, supplied>> /\ UNCHANGED World

-----------------------------------------------------------------------------
(* Building, with answers of the moment. *)

DestProgram(o, estimate) == [swap |-> o.destSwap, min |-> Slip(AtDest(o, estimate), o.slippage)]

ErcFee(o) == o.feeToken # NativeAddr /\ chosen.by = "ccip"

\* Of the composing clients only CCIP awaits between its legs.
BuildApprovals ==
  /\ pc = "approvals"
  /\ legs' = Approvals(chosen.by, order, cost[chosen.by])
  /\ base' = cost[chosen.by]
  /\ pc' = "built"
  /\ UNCHANGED <<answers, ranked, chosen>> /\ UNCHANGED Chain /\ UNCHANGED World

BuildSend ==
  /\ pc = "built"
  /\ \E now \in {cost[chosen.by], Down} :
       LET sends == IF order.kind = "plain" THEN BuildBridgeTx(chosen.by, order, now)
                    ELSE ComposeSend(chosen.by, order, now, DestProgram(order, chosen.out))
       IN \/ sends = {} /\ pc' = "unbuildable" /\ legs' = << >>
          \/ pc' = "sending" /\ \E t \in sends : legs' = Append(legs, t)
  /\ base' = IF order.kind = "compose" /\ ErcFee(order) THEN base ELSE cost[chosen.by]
  /\ UNCHANGED <<answers, ranked, chosen>> /\ UNCHANGED Chain /\ UNCHANGED World

\* build_cctp_swap_deposit_route: the burn is a template for the program,
\* the minima come from estimates.
BuildSwapRoute ==
  /\ pc = "routing"
  /\ LET usdc == Swapped(order.amount, "src")
         program == DestProgram(order, Monus(usdc, CctpFee(order, cost["cctp"])))
     IN \E burn \in CctpTransfer(order, 0, program) :
          legs' = <<[fn |-> "execute", burn |-> burn, minUsdc |-> Slip(usdc, order.slippage)]>>
  /\ base' = cost["cctp"]
  /\ pc' = "sending"
  /\ UNCHANGED <<answers, ranked, chosen>> /\ UNCHANGED Chain /\ UNCHANGED World

-----------------------------------------------------------------------------
(* Sending the transactions in order.  A failed one has no effect. *)

Sent(ok, transfer) ==
  IF ok THEN flight' = transfer /\ pc' = "inflight" ELSE flight' = flight /\ pc' = "refused"

SendApprove ==
  /\ pc = "sending" /\ Head(legs).fn = "approve"
  /\ allow' = [allow EXCEPT ![Head(legs).token] = Head(legs).amount]
  /\ legs' = Tail(legs)
  /\ UNCHANGED <<answers, ranked, chosen, pc, base, flight, got, vm, supplied>> /\ UNCHANGED World

FeeInToken(t) == IF t.by = "ccip" /\ ErcFee(order) THEN cost["ccip"] ELSE 0

\* What the router or messenger requires of a transfer.
Accepted(t) ==
  LET due == [a \in DOMAIN allow |->
                (IF a = order.in.addr /\ ~order.in.native /\ t.by # "oft" THEN t.amount ELSE 0)
                + (IF a = order.feeToken THEN FeeInToken(t) ELSE 0)]
      message == t.by \in {"stargate", "oft", "lucid"} \/ (t.by = "ccip" /\ ~ErcFee(order))
  IN /\ \A a \in DOMAIN allow : allow[a] >= due[a]
     /\ message => t.value >= cost[t.by]

SendTransfer ==
  /\ pc = "sending" /\ Head(legs).fn = "send"
  /\ Sent(Accepted(Head(legs)), Head(legs))
  /\ legs' = Tail(legs)
  /\ UNCHANGED <<answers, ranked, chosen, base, allow, got, vm, supplied>> /\ UNCHANGED World

\* Mutant: the burn takes what the caller asked for at least.
BurnMinimum(leg, usdc) == leg.minUsdc

\* The amount the program patches over the template's.
BurnAmount(leg, usdc) == usdc

\* build_source_swap_bridge_program, run by the VM.
SendExecute ==
  /\ pc = "sending" /\ Head(legs).fn = "execute"
  /\ LET leg == Head(legs)
         usdc == Swapped(order.amount, "src")
         burnt == BurnAmount(leg, usdc)
         ok == usdc >= leg.minUsdc /\ usdc >= burnt
     IN /\ Sent(ok, [leg.burn EXCEPT !.amount = burnt])
        /\ vm' = IF ok THEN usdc - burnt ELSE vm
  /\ legs' = Tail(legs)
  /\ UNCHANGED <<answers, ranked, chosen, base, allow, got, supplied>> /\ UNCHANGED World

\* What arrives, or nothing where the bridge gives the amount back.
Arrives(t) ==
  LET worth == Worth(order, Monus(t.amount, cost[t.by]))
      fast == t.maxFee >= cost[t.by]
      forwarded == IF order.dst = HyperCore THEN ForwardFee ELSE 0
  IN CASE t.by = "across" -> IF t.min <= Monus(t.amount, AcrossFee(order, cost[t.by])) THEN {t.min} ELSE {}
       [] t.by = "stargate" -> {t.amount - StargateFee(order)}
       [] t.by = "cctp" -> {Monus(t.amount, (IF fast THEN cost[t.by] ELSE 0) + forwarded)}
       [] t.by = "relay" -> {t.min}
       [] t.by = "gaszip" -> {worth}
       [] t.by = "mayan" -> IF t.min <= worth THEN {worth} ELSE {}
       [] OTHER -> {t.amount}

Settle ==
  /\ pc = "inflight"
  /\ IF Arrives(flight) = {} THEN pc' = "refunded" /\ got' = got
     ELSE /\ got' \in Arrives(flight)
          /\ pc' = IF flight.program = NoProgram THEN "settled" ELSE "hook"
  /\ UNCHANGED <<answers, ranked, chosen, legs, base, allow, flight, vm, supplied>> /\ UNCHANGED World

\* Mutant: the template is patched with what arrived, swapped or not.
DepositReceived(program) == got

DepositAmount(program) == IF program.swap THEN Swapped(got, "dst") ELSE got

\* build_compose_deposit_program, run by the composer; the relayer tries
\* again if it fails.
ProgramRuns ==
  LET has == IF flight.program.swap THEN Swapped(got, "dst") ELSE got IN
  has >= DepositAmount(flight.program) /\ DepositAmount(flight.program) >= flight.program.min

RunDestProgram ==
  /\ pc = "hook" /\ ProgramRuns
  /\ supplied' = DepositAmount(flight.program)
  /\ pc' = "supplied"
  /\ UNCHANGED <<answers, ranked, chosen, legs, base, allow, flight, got, vm>> /\ UNCHANGED World

Move ==
  /\ moves < MaxMoves /\ pc \notin {"raised", "settled", "refused", "refunded", "supplied"}
  /\ \/ \E b \in Clients, n \in Costs : n # cost[b] /\ cost' = [cost EXCEPT ![b] = n] /\ rate' = rate
     \/ \E w \in {"src", "dst"}, n \in Rates :
          n # rate[w] /\ rate' = [rate EXCEPT ![w] = n] /\ cost' = cost
  /\ moves' = moves + 1 /\ moved' = TRUE
  /\ UNCHANGED <<order, answers, ranked, chosen, pc, legs, base>> /\ UNCHANGED Chain

Next ==
  \/ \E b \in Clients : Ask(b)
  \/ Rank \/ Choose \/ BuildApprovals \/ BuildSend \/ BuildSwapRoute
  \/ SendApprove \/ SendTransfer \/ SendExecute \/ Settle \/ RunDestProgram \/ Move

Spec == Init /\ [][Next]_vars

-----------------------------------------------------------------------------
\* A transaction is refused only where the fee rose above what it was built
\* for, beyond Lucid's buffer, or the source swap got worse.
RefusedForReason ==
  pc = "refused" =>
    IF order.kind = "swap" THEN moved
    ELSE cost[chosen.by] > (IF chosen.by = "lucid" THEN Buffered(order, base) ELSE base)

\* What settles is at least the transfer's own minimum, and what the quote
\* promised less the slippage unless something moved since.
SettlesAsQuoted ==
  /\ RefusedForReason
  /\ pc = "refunded" => moved
  /\ pc = "settled" => \/ got >= Slip(chosen.out, order.slippage)
                       \/ /\ moved
                          /\ (flight.by # "gaszip" => got >= Monus(flight.min, ForwardFee))

\* "The source-chain txs to broadcast in order (approvals, then bridge send)"
\* (route.py:75): broadcast in that order they succeed.
LegsSucceedInOrder == RefusedForReason

\* What the recipient is left with if the client's transfer settles now.
Net(b) ==
  LET t == CHOOSE t \in BuildBridgeTx(b, order, cost[b]) : TRUE
      apart == IF b = "ccip" THEN cost[b] * Price[order.feeToken]
               ELSE IF b \in {"stargate", "oft", "lucid"} THEN t.value * Price[NativeAddr] ELSE 0
  IN (IF Arrives(t) = {} THEN 0 ELSE CHOOSE x \in Arrives(t) : TRUE) - apart
Buildable(b) == BuildBridgeTx(b, order, cost[b]) # {}
PriceNamed(b) == b \notin {"stargate", "oft"} \/ cost[b] = 0

\* The first of the ranked quotes leaves the recipient with the most, up to
\* the slippage: of the quotes that name their whole price, that the client
\* can build and that the converter can price.
FirstIsBest ==
  pc = "ranked" /\ ~moved /\ ranked # << >> =>
    LET first == ranked[1].quote.by IN
    /\ ranked[1].unranked => \A r \in ToSet(ranked) : r.unranked
    /\ ~ranked[1].unranked /\ Buildable(first) /\ PriceNamed(first) =>
         \A r \in ToSet(ranked) :
           ~r.unranked /\ Buildable(r.quote.by) => Net(first) >= Slip(Net(r.quote.by), order.slippage)

\* A transfer with a program burns all that the source swap gave, its program
\* runs unless something moved, and supplies all that arrived, for no less
\* than the caller's estimate allowed.
ComposeSettles ==
  /\ vm = 0
  /\ pc = "hook" /\ ~moved => ProgramRuns
  /\ pc = "supplied" => /\ supplied >= flight.program.min
                        /\ moved \/ supplied = AtDest(order, got)
=============================================================================
