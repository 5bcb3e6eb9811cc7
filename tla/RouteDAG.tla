------------------------------ MODULE RouteDAG ------------------------------
(***************************************************************************)
(* pathfinder/dag.py: the fluent builder of a route.  A builder is a       *)
(* record                                                                  *)
(*   tokenIn, current   NoToken until from_token()                         *)
(*   actions            the actions of the trunk                           *)
(*   stack              the open splits: [origin, legs], where a leg is    *)
(*                      [bps, actions, current]; the last leg is active    *)
(* and a call gives [ok, dag].  An action is a record with its kind, the   *)
(* token it ends at, and an edge, legs or a denom.                         *)
(***************************************************************************)
EXTENDS PoolGraph, FiniteSets

CONSTANTS NoToken, Decimals

EmptyDag == [tokenIn |-> NoToken, current |-> NoToken, actions |-> << >>, stack |-> << >>]

Built(d) == [ok |-> TRUE, dag |-> d]
Raise(d) == [ok |-> FALSE, dag |-> d]

SwapAction(out, edge) == [kind |-> "swap", out |-> out, edge |-> edge]
SplitAction(out, legs) == [kind |-> "split", out |-> out, legs |-> legs]
BridgeAction(out, denom) == [kind |-> "bridge", out |-> out, denom |-> denom]

Started(d) == d.tokenIn # NoToken

\* _current_actions raises inside a split without a leg.
HasBranch(d) == d.stack = << >> \/ Last(d.stack).legs # << >>

Branch(d) == IF d.stack = << >> THEN [actions |-> d.actions, current |-> d.current]
             ELSE Last(Last(d.stack).legs)

\* _reject_action_after_bridge: only a last action that is a bridge itself counts.
ClosedByBridge(d) ==
  LET acts == Branch(d).actions IN acts # << >> /\ Last(acts).kind = "bridge"

Onto(branch, a) == [branch EXCEPT !.actions = Append(@, a), !.current = a.out]

Extend(d, a) ==
  IF d.stack = << >> THEN Onto(d, a)
  ELSE LET top == Len(d.stack) IN
       [d EXCEPT !.stack[top].legs[Len(d.stack[top].legs)] = Onto(@, a)]

FromToken(d, token) ==
  IF Started(d) THEN Raise(d) ELSE Built([d EXCEPT !.tokenIn = token, !.current = token])

Swap(d, out, edge) ==
  IF ~Started(d) \/ ~HasBranch(d) \/ ClosedByBridge(d) THEN Raise(d)
  ELSE Built(Extend(d, SwapAction(out, edge)))

Bridge(d, out, denom) ==
  LET from == Branch(d).current IN
  IF ~Started(d) \/ ~HasBranch(d) \/ ClosedByBridge(d) THEN Raise(d)
  ELSE IF Decimals[from] # Decimals[out] THEN Raise(d)
  ELSE Built(Extend(d, BridgeAction(out, IF denom = NoToken THEN from ELSE denom)))

Split(d) ==
  IF ~Started(d) \/ ~HasBranch(d) \/ ClosedByBridge(d) THEN Raise(d)
  ELSE Built([d EXCEPT !.stack = Append(@, [origin |-> Branch(d).current, legs |-> << >>])])

Leg(d, bps) ==
  IF d.stack = << >> \/ bps \notin 1 .. MAX_BPS THEN Raise(d)
  ELSE Built([d EXCEPT !.stack[Len(d.stack)].legs =
                Append(@, [bps |-> bps, actions |-> << >>, current |-> Last(d.stack).origin])])

\* merge: the split is popped before it is validated.
Merge(d) ==
  LET legs == Last(d.stack).legs
      popped == [d EXCEPT !.stack = Front(@)]
      ends == {legs[k].current : k \in DOMAIN legs}
      total == FoldLeft(LAMBDA s, l : s + l.bps, 0, legs)
  IN IF d.stack = << >> THEN Raise(d)
     ELSE IF \/ total # MAX_BPS
             \/ \E k \in DOMAIN legs : legs[k].actions = << >>
             \/ Cardinality(ends) # 1
     THEN Raise(popped)
     ELSE Built(Extend(popped, SplitAction(legs[1].current, legs)))

\* to_dict
Freezable(d) == d.stack = << >> /\ Started(d)
=============================================================================
