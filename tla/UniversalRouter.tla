--------------------------- MODULE UniversalRouter ---------------------------
(***************************************************************************)
(* amm/universal_router.py: the commands that its builders put together,   *)
(* and the router contract that executes them in one transaction, at       *)
(* whatever prices the pools have by then.  Fees, tick spacings and hooks  *)
(* only choose a pool and are left out; a deadline or an allowance that    *)
(* does not hold is one of the causes of Revert.                           *)
(***************************************************************************)
EXTENDS Integers, SequencesExt

CONSTANTS
  Tokens, Eth, Weth,   \* numbers, in the order of the addresses
  Paths, Kinds,        \* the token paths and pool versions that callers ask for
  Amounts, Limits,     \* amounts, and minima or maxima for the other side
  MaxPrice,            \* bound: what one swap pays, or asks for
  MaxTx                \* bound: transactions

VARIABLES
  bal,     \* user, payee and the router -> token -> amount
  delta,   \* what the PoolManager owes the router, while it is unlocked
  todo,    \* the commands that are left
  acts,    \* the actions that are left of a V4_SWAP, while it is unlocked
  tx,      \* [pc, n, exact, in, out, amount, limit, byUser, before]
  dry      \* a pool has taken less than it was offered

vars == <<bal, delta, todo, acts, tx, dry>>

CONTRACT_BALANCE == -1
OPEN_DELTA == 0
Nothing == [t \in Tokens |-> 0]

-----------------------------------------------------------------------------
(* Commands.                                                               *)

V3SwapIn(to, x, min, path, byUser) ==
  [op |-> "v3in", to |-> to, amount |-> x, limit |-> min, path |-> path, byUser |-> byUser]
V3SwapOut(to, x, max, path, byUser) ==
  [op |-> "v3out", to |-> to, amount |-> x, limit |-> max, path |-> path, byUser |-> byUser]
V2SwapIn(to, x, min, path, byUser) ==
  [op |-> "v2in", to |-> to, amount |-> x, limit |-> min, path |-> path, byUser |-> byUser]
V2SwapOut(to, x, max, path, byUser) ==
  [op |-> "v2out", to |-> to, amount |-> x, limit |-> max, path |-> path, byUser |-> byUser]
WrapEth(to, x) == [op |-> "wrap", to |-> to, amount |-> x]

SortCurrencies(a, b) == IF a < b THEN <<a, b>> ELSE <<b, a>>
V4InSingle(key, zeroForOne, x, min) ==
  [op |-> "v4in", path |-> IF zeroForOne THEN key ELSE Reverse(key), amount |-> x, limit |-> min]
V4OutSingle(key, zeroForOne, x, max) ==
  [op |-> "v4out", path |-> IF zeroForOne THEN key ELSE Reverse(key), amount |-> x, limit |-> max]
V4In(path, x, min) == [op |-> "v4in", path |-> path, amount |-> x, limit |-> min]
V4Out(path, x, max) == [op |-> "v4out", path |-> path, amount |-> x, limit |-> max]
SettleAll(t, max) == [op |-> "settleAll", token |-> t, limit |-> max]
Settle(t, x, byUser) == [op |-> "settle", token |-> t, amount |-> x, byUser |-> byUser]
TakeTo(t, to, x) == [op |-> "take", token |-> t, to |-> to, amount |-> x]
V4Swap(actions) == [op |-> "v4", actions |-> actions]

Execute(commands, value) == [commands |-> commands, value |-> value]

(* Builders.                                                               *)

BuildV3In(path, x, min, byUser) == Execute(<<V3SwapIn("payee", x, min, path, byUser)>>, 0)
BuildV3Out(in, out, x, max, byUser) == Execute(<<V3SwapOut("payee", x, max, <<out, in>>, byUser)>>, 0)
BuildV2In(path, x, min, byUser) == Execute(<<V2SwapIn("payee", x, min, path, byUser)>>, 0)
BuildV2Out(path, x, max, byUser) == Execute(<<V2SwapOut("payee", x, max, path, byUser)>>, 0)
BuildWrapV3(out, x, min) ==
  Execute(<<WrapEth("router", x), V3SwapIn("payee", x, min, <<Weth, out>>, FALSE)>>, x)

BuildV4InSingle(in, out, x, min) ==
  LET key == SortCurrencies(in, out)
  IN Execute(<<V4Swap(<<V4InSingle(key, in = key[1], x, min), SettleAll(in, x),
                        TakeTo(out, "payee", OPEN_DELTA)>>)>>, 0)

BuildV4OutSingle(in, out, x, max) ==
  LET key == SortCurrencies(in, out)
  IN Execute(<<V4Swap(<<V4OutSingle(key, in = key[1], x, max), SettleAll(in, max),
                        TakeTo(out, "payee", OPEN_DELTA)>>)>>, 0)

BuildWrapV4(out, x, min) ==
  LET key == SortCurrencies(Weth, out)
  IN Execute(<<WrapEth("router", x),
               V4Swap(<<V4InSingle(key, Weth = key[1], x, min), Settle(Weth, x, FALSE),
                        TakeTo(out, "payee", OPEN_DELTA)>>)>>, x)

BuildV4In(path, x, min, byUser) ==
  Execute(<<V4Swap(<<V4In(path, x, min),
                     IF byUser THEN SettleAll(path[1], x) ELSE Settle(path[1], OPEN_DELTA, FALSE),
                     TakeTo(Last(path), "payee", OPEN_DELTA)>>)>>, 0)

BuildV4Out(path, x, max, byUser) ==
  Execute(<<V4Swap(<<V4Out(path, x, max),
                     IF byUser THEN SettleAll(path[1], max) ELSE Settle(path[1], OPEN_DELTA, FALSE),
                     TakeTo(Last(path), "payee", OPEN_DELTA)>>)>>, 0)

BuildWrapV4Multihop(path, x, min) ==
  Execute(<<WrapEth("router", x),
            V4Swap(<<V4In(path, x, min), Settle(Weth, OPEN_DELTA, FALSE),
                     TakeTo(Last(path), "payee", OPEN_DELTA)>>)>>, x)

\* Hops of one kind in a row are one segment: it starts with the first hop or
\* with one of another kind than the hop before.
Starts(hops) == {k \in DOMAIN hops : k = 1 \/ hops[k].kind # hops[k - 1].kind}
Cuts(hops) ==
  {f \in UNION {[1 .. n -> Starts(hops)] : n \in 1 .. Len(hops)} :
     /\ \A j, k \in DOMAIN f : j < k => f[j] < f[k]
     /\ \A s \in Starts(hops) : \E k \in DOMAIN f : f[k] = s}
Segments(hops) ==
  {[k \in DOMAIN f |-> SubSeq(hops, f[k], IF k = Len(f) THEN Len(hops) ELSE f[k + 1] - 1)] :
     f \in Cuts(hops)}

\* Mutants: every segment spends what came in first; the minimum is left to
\* the first segment.
FirstAmount(first, x) == x
MinimumFirst(k, n, min) == IF k = 1 THEN min ELSE 0

SegmentAmount(first, x) == IF first THEN x ELSE CONTRACT_BALANCE
SegmentMinimum(k, n, min) == IF k = n THEN min ELSE 0

Segment(segment, k, n, x, limit, userPays) ==
  LET to == IF k = n THEN "payee" ELSE "router"
      min == SegmentMinimum(k, n, limit)
      byUser == k = 1 /\ userPays
      in == segment[1].in
      path == <<in>> \o [j \in DOMAIN segment |-> segment[j].out]
      take == TakeTo(Last(path), to, OPEN_DELTA)
  IN CASE segment[1].kind = "v2" -> V2SwapIn(to, SegmentAmount(k = 1, x), min, path, byUser)
       [] segment[1].kind = "v3" -> V3SwapIn(to, SegmentAmount(k = 1, x), min, path, byUser)
       [] OTHER ->
            V4Swap(IF k = 1
                   THEN <<V4In(path, x, min),
                          IF byUser THEN SettleAll(in, x) ELSE Settle(in, OPEN_DELTA, FALSE), take>>
                   ELSE <<Settle(in, CONTRACT_BALANCE, FALSE), V4In(path, OPEN_DELTA, min), take>>)

MultihopCommands(s, x, min, userPays) ==
  [k \in DOMAIN s |-> Segment(s[k], k, Len(s), x, min, userPays)]

BuildMultihop(hops, x, min) ==
  {Execute(MultihopCommands(s, x, min, TRUE), 0) : s \in Segments(hops)}
BuildWrapMultihop(hops, x, min) ==
  {Execute(<<WrapEth("router", x)>> \o MultihopCommands(s, x, min, FALSE), x) : s \in Segments(hops)}

-----------------------------------------------------------------------------
(* The caller.                                                             *)

Init ==
  /\ bal = [a \in {"user", "payee", "router"} |-> Nothing]
  /\ delta = Nothing /\ todo = << >> /\ acts = << >> /\ dry = FALSE
  /\ tx = [pc |-> "idle", n |-> 0, exact |-> "in", in |-> Weth, out |-> Weth, amount |-> 0,
           limit |-> 0, byUser |-> TRUE, before |-> [bal |-> bal, dry |-> dry]]

\* The user's balance counts down from zero; an exact output limits the input.
Idle == tx.pc = "idle" /\ tx.n < MaxTx
Send(plan, exact, in, out, x, limit, byUser) ==
  /\ tx' = [pc |-> "sent", n |-> tx.n + 1, exact |-> exact, in |-> in, out |-> out,
            amount |-> x, limit |-> limit, byUser |-> byUser,
            before |-> [bal |-> bal, dry |-> dry]]
  /\ todo' = plan.commands
  /\ bal' = [bal EXCEPT !["user"][Eth] = @ - plan.value, !["router"][Eth] = @ + plan.value]
  /\ UNCHANGED <<delta, acts, dry>>

\* Tokens of a route are distinct, as in every path of the pathfinder.
HopsOf(path, kinds) ==
  [k \in 1 .. Len(path) - 1 |-> [kind |-> kinds[k], in |-> path[k], out |-> path[k + 1]]]

SendOne ==
  Idle /\ \E p \in {q \in Paths : Len(q) = 2}, x \in Amounts, l \in Limits, b \in BOOLEAN :
    \/ \E plan \in {BuildV4InSingle(p[1], p[2], x, l)} : Send(plan, "in", p[1], p[2], x, l, TRUE)
    \/ \E plan \in {BuildV3Out(p[1], p[2], x, l, b)} : Send(plan, "out", p[1], p[2], x, l, b)
    \/ \E plan \in {BuildV4OutSingle(p[1], p[2], x, l)} : Send(plan, "out", p[1], p[2], x, l, TRUE)
    \/ /\ p[1] = Weth
       /\ \E plan \in {BuildWrapV3(p[2], x, l), BuildWrapV4(p[2], x, l)} :
            Send(plan, "in", Eth, p[2], x, l, TRUE)

SendPath ==
  Idle /\ \E p \in Paths, x \in Amounts, l \in Limits, b \in BOOLEAN :
    \/ \E plan \in {BuildV3In(p, x, l, b), BuildV2In(p, x, l, b), BuildV4In(p, x, l, b)} :
         Send(plan, "in", p[1], Last(p), x, l, b)
    \/ \E plan \in {BuildV2Out(p, x, l, b), BuildV4Out(p, x, l, b)} :
         Send(plan, "out", p[1], Last(p), x, l, b)
    \/ p[1] = Weth /\ Send(BuildWrapV4Multihop(p, x, l), "in", Eth, Last(p), x, l, TRUE)

SendMultihop ==
  Idle /\ \E p \in Paths, x \in Amounts, l \in Limits :
    \E kinds \in [1 .. Len(p) - 1 -> Kinds] :
      \/ \E plan \in BuildMultihop(HopsOf(p, kinds), x, l) :
           Send(plan, "in", p[1], Last(p), x, l, TRUE)
      \/ /\ p[1] = Weth
         /\ \E plan \in BuildWrapMultihop(HopsOf(p, kinds), x, l) :
              Send(plan, "in", Eth, Last(p), x, l, TRUE)

-----------------------------------------------------------------------------
(* The router contract.                                                    *)

Running(op) == tx.pc = "sent" /\ acts = << >> /\ todo # << >> /\ Head(todo).op = op
Acting(op) == tx.pc = "sent" /\ acts # << >> /\ Head(acts).op = op
Resolved(x, t) == IF x = CONTRACT_BALANCE THEN bal["router"][t] ELSE x
Payer(byUser) == IF byUser THEN "user" ELSE "router"
CanPay(a, t, x) == a = "user" \/ bal[a][t] >= x
Moves(from, t, x, to, u, y) ==
  LET paid == [bal EXCEPT ![from][t] = @ - x] IN [paid EXCEPT ![to][u] = @ + y]

Wrap ==
  /\ Running("wrap")
  /\ LET c == Head(todo) IN
     /\ bal["router"][Eth] >= c.amount
     /\ bal' = Moves("router", Eth, c.amount, c.to, Weth, c.amount)
  /\ todo' = Tail(todo) /\ UNCHANGED <<delta, acts, tx, dry>>

\* Pairs take all of the input and pay each other.
SwapV2In ==
  /\ Running("v2in")
  /\ LET c == Head(todo)
         t == c.path[1]
         x == Resolved(c.amount, t)
     IN /\ x > 0 /\ CanPay(Payer(c.byUser), t, x)
        /\ \E out \in 1 .. MaxPrice :
             /\ out >= c.limit
             /\ bal' = Moves(Payer(c.byUser), t, x, c.to, Last(c.path), out)
  /\ todo' = Tail(todo) /\ UNCHANGED <<delta, acts, tx, dry>>

\* A pool that runs dry takes less.  Between its pools a path is in the
\* router's hands.
SwapV3In ==
  /\ Running("v3in")
  /\ LET c == Head(todo)
         t == c.path[1]
         x == Resolved(c.amount, t)
         final == Len(c.path) = 2
     IN /\ x > 0
        /\ \E used \in {x, x - 1}, out \in 0 .. MaxPrice :
             /\ CanPay(Payer(c.byUser), t, used)
             /\ final => out >= c.limit
             /\ bal' = Moves(Payer(c.byUser), t, used, IF final THEN c.to ELSE "router", c.path[2], out)
             /\ dry' = (dry \/ used < x)
             /\ todo' = IF final THEN Tail(todo)
                        ELSE <<V3SwapIn(c.to, out, c.limit, Tail(c.path), FALSE)>> \o Tail(todo)
  /\ UNCHANGED <<delta, acts, tx>>

\* The path of V3 runs from the output back to the input.
SwapOut ==
  /\ Running("v2out") \/ Running("v3out")
  /\ LET c == Head(todo)
         path == IF c.op = "v3out" THEN Reverse(c.path) ELSE c.path
     IN \E in \in 1 .. MaxPrice :
          /\ in <= c.limit /\ CanPay(Payer(c.byUser), path[1], in)
          /\ bal' = Moves(Payer(c.byUser), path[1], in, c.to, Last(path), c.amount)
  /\ todo' = Tail(todo) /\ UNCHANGED <<delta, acts, tx, dry>>

\* A V4_SWAP unlocks the PoolManager for its actions, which lets go only when
\* nothing is owed.
Unlock ==
  /\ Running("v4")
  /\ acts' = Append(Head(todo).actions, [op |-> "lock"])
  /\ todo' = Tail(todo) /\ UNCHANGED <<bal, delta, tx, dry>>

Lock ==
  /\ Acting("lock") /\ delta = Nothing
  /\ acts' = Tail(acts) /\ UNCHANGED <<bal, delta, todo, tx, dry>>

SwapV4In ==
  /\ Acting("v4in")
  /\ LET c == Head(acts)
         t == c.path[1]
         u == c.path[2]
         x == IF c.amount = OPEN_DELTA THEN delta[t] ELSE c.amount
         final == Len(c.path) = 2
     IN /\ x > 0
        /\ \E used \in {x, x - 1}, out \in 0 .. MaxPrice :
             /\ final => out >= c.limit
             /\ delta' = [delta EXCEPT ![t] = @ - used, ![u] = @ + out]
             /\ dry' = (dry \/ used < x)
             /\ final \/ out > 0
             /\ acts' = IF final THEN Tail(acts)
                        ELSE <<V4In(Tail(c.path), out, c.limit)>> \o Tail(acts)
  /\ UNCHANGED <<bal, todo, tx>>

\* From the last pool back to the first.
SwapV4Out ==
  /\ Acting("v4out")
  /\ LET c == Head(acts)
         n == Len(c.path)
     IN \E in \in 1 .. MaxPrice :
          /\ n = 2 => in <= c.limit
          /\ delta' = [delta EXCEPT ![c.path[n]] = @ + c.amount, ![c.path[n - 1]] = @ - in]
          /\ acts' = IF n = 2 THEN Tail(acts)
                     ELSE <<V4Out(Front(c.path), in, c.limit)>> \o Tail(acts)
  /\ UNCHANGED <<bal, todo, tx, dry>>

Pay(byUser, t, x) ==
  /\ CanPay(Payer(byUser), t, x)
  /\ bal' = [bal EXCEPT ![Payer(byUser)][t] = @ - x]
  /\ delta' = [delta EXCEPT ![t] = @ + x]
  /\ acts' = Tail(acts) /\ UNCHANGED <<todo, tx, dry>>

PayDebt ==
  \/ /\ Acting("settleAll")
     /\ LET c == Head(acts) IN
        -delta[c.token] \in 0 .. c.limit /\ Pay(TRUE, c.token, -delta[c.token])
  \/ /\ Acting("settle")
     /\ LET c == Head(acts) IN
        IF c.amount = OPEN_DELTA
        THEN delta[c.token] <= 0 /\ Pay(c.byUser, c.token, -delta[c.token])
        ELSE Pay(c.byUser, c.token, Resolved(c.amount, c.token))

Take ==
  /\ Acting("take")
  /\ LET c == Head(acts) IN
     /\ delta[c.token] >= 0
     /\ bal' = [bal EXCEPT ![c.to][c.token] = @ + delta[c.token]]
     /\ delta' = [delta EXCEPT ![c.token] = 0]
  /\ acts' = Tail(acts) /\ UNCHANGED <<todo, tx, dry>>

Succeed ==
  /\ tx.pc = "sent" /\ todo = << >> /\ acts = << >>
  /\ tx' = [tx EXCEPT !.pc = "idle"]
  /\ UNCHANGED <<bal, delta, todo, acts, dry>>

Revert ==
  /\ tx.pc = "sent" /\ (todo # << >> \/ acts # << >>)
  /\ tx' = [tx EXCEPT !.pc = "idle", !.amount = 0]
  /\ bal' = tx.before.bal /\ dry' = tx.before.dry
  /\ delta' = Nothing /\ todo' = << >> /\ acts' = << >>

\* Anyone may sweep what the router holds.
Sweep ==
  /\ tx.pc = "idle" /\ bal["router"] # Nothing
  /\ bal' = [bal EXCEPT !["router"] = Nothing]
  /\ dry' = FALSE
  /\ UNCHANGED <<delta, todo, acts, tx>>

Next ==
  \/ SendOne \/ SendPath \/ SendMultihop
  \/ Wrap \/ SwapV2In \/ SwapV3In \/ SwapOut \/ SwapV4In \/ SwapV4Out
  \/ Unlock \/ PayDebt \/ Take \/ Lock \/ Succeed \/ Revert \/ Sweep

Spec == Init /\ [][Next]_vars

-----------------------------------------------------------------------------
\* Whatever the pools pay and whatever a transaction is made of, one that does
\* not revert has cost the user nothing but the input token and no more of it
\* than agreed, and has paid the recipient nothing but the output token and
\* no less of it than agreed (amount_out_minimum, amount_in_maximum).
SettledAsOrdered ==
  tx.pc = "idle" /\ tx.amount > 0 =>
    LET spent(t) == tx.before.bal["user"][t] - bal["user"][t]
        got(t) == bal["payee"][t] - tx.before.bal["payee"][t]
    IN /\ \A t \in Tokens : (t # tx.in => spent(t) = 0) /\ (t # tx.out => got(t) = 0)
       /\ IF tx.exact = "in" THEN spent(tx.in) <= tx.amount /\ got(tx.out) >= tx.limit
          ELSE spent(tx.in) <= tx.limit /\ got(tx.out) = tx.amount

\* What every segment hands to the next is spent by it: unless a pool ran dry,
\* nothing remains in the router, where anyone could sweep it
\* (CONTRACT_BALANCE, OPEN_DELTA).
NothingLeftBehind == tx.pc = "idle" /\ ~dry => bal["router"] = Nothing

\* The two together: a transaction costs and pays what was ordered, in full.
OrderIsWhole == SettledAsOrdered /\ NothingLeftBehind
=============================================================================
