--------------------------- MODULE BridgeClients ---------------------------
(***************************************************************************)
(* bridge/*.py: what every client quotes for an order, how quotes are      *)
(* ranked, and the transactions a client builds.                           *)
(*                                                                         *)
(* An order o is [src, dst: chains; in, out: tokens; amount; slippage;     *)
(* feeToken: what the CCIP client pays with; maxFee: CCTP's; buffer:       *)
(* Lucid's; strict: get_quote is called with a keyword argument that        *)
(* neither Stargate's nor Lucid's names].  A token is [addr, dec, native].  *)
(* `now` is what the API or the contract answers  *)
(* a client at this moment, Down if it fails: the relay fee per Wad        *)
(* (Across), the message fee (Stargate, OFT, Lucid, CCIP), the fee of the  *)
(* finality tier (CCTP), what the solver keeps (Relay, Gas.zip, Mayan).    *)
(***************************************************************************)
EXTENDS Integers, SequencesExt

CONSTANTS
  Wad, MAX_BPS, ProtocolFeeBps,  \* 10^18, 10000, _PROTOCOL_FEE_BPS
  Known,              \* table of a client -> the chains in it
  Oft, DstOft,        \* the OFT's addresses
  LucidSources, LucidToken,  \* source chains; the controller's token
  HyperCore, ForwardFee,     \* CCTP's special destination and its forwarder's fee
  Price               \* token address -> worth of one unit in token_out, 0 if unknown

Down == -1
NativeAddr == "native"
Monus(a, b) == IF a > b THEN a - b ELSE 0
Slip(x, bps) == (x * (MAX_BPS - bps)) \div MAX_BPS

\* What a solver pays for x: the tokens differ in their decimals only.
Worth(o, x) == IF o.in.dec = o.out.dec THEN x ELSE 10 * x

(***************************************************************************)
(* Quotes.  A BridgeError is the empty set.                                *)
(***************************************************************************)
Quoted(b, o, out, feeToken, fee) ==
  {[by |-> b, in |-> o.amount, out |-> out, feeToken |-> feeToken, fee |-> fee]}
Answer(now, quotes) == IF now = Down THEN {} ELSE quotes

AcrossFee(o, now) == (o.amount * now) \div Wad
QuoteAcross(o, now) ==
  LET fee == AcrossFee(o, now)
  IN Answer(now, Quoted("across", o, Monus(o.amount, fee), o.in.addr, fee))

\* Neither the chain, the pool nor the message fee is looked at.
StargateFee(o) == (o.amount * ProtocolFeeBps) \div MAX_BPS
QuoteStargate(o) ==
  Quoted("stargate", o, o.amount - StargateFee(o), o.in.addr, StargateFee(o))

ValidOft(o) == o.in.addr = Oft /\ o.out.addr = DstOft
QuoteOft(o) == IF ValidOft(o) THEN Quoted("oft", o, o.amount, o.in.addr, 0) ELSE {}

CctpFee(o, now) == now + (IF o.dst = HyperCore THEN ForwardFee ELSE 0)
QuoteCctp(o, now) ==
  IF {o.src, o.dst} \subseteq Known["cctp"]
  THEN Answer(now, Quoted("cctp", o, Monus(o.amount, CctpFee(o, now)), o.in.addr, CctpFee(o, now)))
  ELSE {}

\* The API answers what arrives; the fee is only known between like decimals.
Kept(o, out) == IF o.in.dec = o.out.dec THEN Monus(o.amount, out) ELSE 0
SolverOut(o, now) == Worth(o, Monus(o.amount, now))
QuoteRelay(o, now) ==
  Answer(now, Quoted("relay", o, SolverOut(o, now), o.in.addr, Kept(o, SolverOut(o, now))))

BothNative(o) == o.in.native /\ o.out.native
GasZipServes(o) == {o.src, o.dst} \subseteq Known["gaszip"] /\ BothNative(o)
QuoteGasZip(o, now) ==
  IF GasZipServes(o) /\ SolverOut(o, now) # 0
  THEN Answer(now, Quoted("gaszip", o, SolverOut(o, now), o.in.addr, Monus(o.amount, SolverOut(o, now))))
  ELSE {}

\* The fee is taken from the route's effectiveAmountIn.
QuoteMayan(o, now) ==
  IF {o.src, o.dst} \subseteq Known["mayan"]
  THEN Answer(now, Quoted("mayan", o, SolverOut(o, now), o.in.addr, o.amount - Monus(o.amount, now)))
  ELSE {}

ServesLucid(o) == o.in.chain = o.src /\ o.in.addr = LucidToken
QuoteLucid(o, now) ==
  IF o.src \in LucidSources /\ ServesLucid(o)
  THEN Answer(now, Quoted("lucid", o, o.amount, NativeAddr, now)) ELSE {}

QuoteCcip(o, now) ==
  IF o.dst \in Known["ccip"] THEN Answer(now, Quoted("ccip", o, o.amount, o.feeToken, now)) ELSE {}

QuoteEureka(o) ==
  IF o.in.dec = o.out.dec THEN Quoted("eureka", o, o.amount, o.in.addr, 0) ELSE {}

GetQuote(b, o, now) ==
  CASE b = "across" -> QuoteAcross(o, now)
    [] b = "stargate" -> QuoteStargate(o)
    [] b = "oft" -> QuoteOft(o)
    [] b = "cctp" -> QuoteCctp(o, now)
    [] b = "relay" -> QuoteRelay(o, now)
    [] b = "gaszip" -> QuoteGasZip(o, now)
    [] b = "mayan" -> QuoteMayan(o, now)
    [] b = "lucid" -> QuoteLucid(o, now)
    [] b = "ccip" -> QuoteCcip(o, now)
    [] b = "eureka" -> QuoteEureka(o)

\* Two clients take no keyword they do not name: a TypeError, no BridgeError.
Refuses(b, o) == o.strict /\ b \in {"stargate", "lucid"}

\* A call that fails is a BridgeError if an answer says so, and whatever the
\* transport raises if there is no answer: only of a client that makes one.
CallLost(b, o, now) == now = Down /\ GetQuote(b, o, Down) = {} /\ GetQuote(b, o, 0) # {}

(***************************************************************************)
(* Ranking.                                                                *)
(***************************************************************************)
\* The converter of the class's example: it prices the fees paid separately.
Converted(q) ==
  IF q.by \in {"ccip", "lucid"} /\ Price[q.feeToken] # 0 THEN {q.fee * Price[q.feeToken]} ELSE {}

\* Mutant: a fee in one of the order's tokens counts as deducted.
NettedByToken(q, o) == q.feeToken \in {o.in.addr, o.out.addr}

Netted(q, o) == q.feeToken \in {o.in.addr, o.out.addr} /\ q.out + q.fee = q.in

Score(q, o) ==
  IF Netted(q, o) THEN [quote |-> q, effective |-> q.out, unranked |-> FALSE]
  ELSE IF Converted(q) = {} THEN [quote |-> q, effective |-> q.out, unranked |-> TRUE]
  ELSE [quote |-> q, effective |-> q.out - (CHOOSE fee \in Converted(q) : TRUE), unranked |-> FALSE]

\* The unranked last, otherwise the most first, otherwise as they came.
Precedes(r, i, j) ==
  \/ ~r[i].unranked /\ r[j].unranked
  \/ ~r[i].unranked /\ ~r[j].unranked /\ r[i].effective > r[j].effective
  \/ i < j /\ r[i].unranked = r[j].unranked
       /\ (r[i].unranked \/ r[i].effective = r[j].effective)

\* A stable sort of what is scored in the order of the fleet.
Sorted(r) ==
  {[k \in DOMAIN f |-> r[f[k]]] :
     f \in {p \in [1 .. Cardinality(DOMAIN r) -> DOMAIN r] :
              \A j, k \in DOMAIN p : j < k => Precedes(r, p[j], p[k])}}

RankBridgeQuotes(quotes, o) == Sorted([i \in DOMAIN quotes |-> Score(quotes[i], o)])

(***************************************************************************)
(* Transactions.  A transfer names what it takes, the least it delivers,   *)
(* the native value, the highest fee and the program it carries.           *)
(***************************************************************************)
NoProgram == [swap |-> FALSE, min |-> -1]
Transfer(b, amount, min, value, maxFee, program) ==
  [fn |-> "send", by |-> b, amount |-> amount, min |-> min, value |-> value,
   maxFee |-> maxFee, program |-> program]
ApproveLeg(token, amount) == [fn |-> "approve", token |-> token, amount |-> amount]

\* Mutant: the minimum is what is left of the amount before the fee.
AcrossGross(o, now) == Slip(o.amount, o.slippage)
AcrossOutput(o, now) == Slip(Monus(o.amount, AcrossFee(o, now)), o.slippage)

NativeValue(o) == IF o.in.native THEN o.amount ELSE 0
Buffered(o, now) == (now * (MAX_BPS + o.buffer)) \div MAX_BPS
FeeValue(o, now) == IF o.feeToken = NativeAddr THEN now ELSE 0

\* The transfer with a program, or NoProgram, for the composing clients.
CctpTransfer(o, amount, program) ==
  IF o.dst \in Known["cctp"]
  THEN {Transfer("cctp", amount, Monus(amount, o.maxFee), 0, o.maxFee, program)} ELSE {}
OftTransfer(o, now, program) ==
  IF o.in.addr = Oft /\ o.dst \in Known["oft"]
  THEN Answer(now, {Transfer("oft", o.amount, Slip(o.amount, o.slippage), now, 0, program)}) ELSE {}
CcipTransfer(o, now, program) ==
  Answer(now, {Transfer("ccip", o.amount, o.amount, FeeValue(o, now), 0, program)})

\* build_bridge_tx of each client: a transfer or, for a BridgeError, none.
BuildAcross(o, now) ==
  Answer(now, {Transfer("across", o.amount, AcrossOutput(o, now), NativeValue(o), 0, NoProgram)})
BuildStargate(o, now) ==
  IF o.dst \in Known["stargate"] /\ {o.in.addr, o.out.addr} \subseteq Known["pools"]
  THEN Answer(now, {Transfer("stargate", o.amount, Slip(o.amount - StargateFee(o), o.slippage),
                             now, 0, NoProgram)})
  ELSE {}
BuildOft(o, now) == IF ValidOft(o) THEN OftTransfer(o, now, NoProgram) ELSE {}
BuildRelay(o, now) ==
  Answer(now, {Transfer("relay", o.amount, SolverOut(o, now), NativeValue(o), 0, NoProgram)})
BuildGasZip(o) ==
  IF GasZipServes(o) THEN {Transfer("gaszip", o.amount, 0, NativeValue(o), 0, NoProgram)} ELSE {}
BuildMayan(o, now) ==
  IF o.in.native /\ {o.src, o.dst} \subseteq Known["mayan"] /\ o.dst \in Known["wormhole"]
  THEN Answer(now, {Transfer("mayan", o.amount, Slip(SolverOut(o, now), o.slippage),
                             NativeValue(o), 0, NoProgram)})
  ELSE {}
BuildLucid(o, now) ==
  IF ServesLucid(o)
  THEN Answer(now, {Transfer("lucid", o.amount, o.amount, Buffered(o, now), 0, NoProgram)}) ELSE {}
BuildEureka(o) ==
  IF o.in.native THEN {} ELSE {Transfer("eureka", o.amount, o.amount, 0, 0, NoProgram)}

BuildBridgeTx(b, o, now) ==
  CASE b = "across" -> BuildAcross(o, now)
    [] b = "stargate" -> BuildStargate(o, now)
    [] b = "oft" -> BuildOft(o, now)
    [] b = "cctp" -> CctpTransfer(o, o.amount, NoProgram)
    [] b = "relay" -> BuildRelay(o, now)
    [] b = "gaszip" -> BuildGasZip(o)
    [] b = "mayan" -> BuildMayan(o, now)
    [] b = "lucid" -> BuildLucid(o, now)
    [] b = "ccip" -> CcipTransfer(o, now, NoProgram)
    [] b = "eureka" -> BuildEureka(o)

\* build_compose_send: the approvals, then the transfer that carries the
\* program.  The CCIP client asks for its fee once for each of them.
Approvals(b, o, now) ==
  CASE b = "cctp" -> <<ApproveLeg(o.in.addr, o.amount)>>
    [] b = "oft" -> << >>
    [] b = "ccip" -> <<ApproveLeg(o.in.addr, o.amount)>>
                       \o (IF o.feeToken = NativeAddr THEN << >> ELSE <<ApproveLeg(o.feeToken, now)>>)
ComposeSend(b, o, now, program) ==
  CASE b = "cctp" -> CctpTransfer(o, o.amount, program)
    [] b = "oft" -> OftTransfer(o, now, program)
    [] b = "ccip" -> CcipTransfer(o, now, program)
=============================================================================
