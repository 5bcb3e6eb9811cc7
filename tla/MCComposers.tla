---------------------------- MODULE MCComposers ----------------------------
EXTENDS Composers

CONSTANTS
  alice, bob, o1, o2, o3, m1, m2, m3, lane1, lane2,
  s1, s2, s3, c1, c2, c3, p1, p2, p3, g1, g2

(***************************************************************************)
(* OFT: two composable messages of different OFTs and amounts, and one     *)
(* that is too short, whose tokens only the owner can move.  CCIP: two     *)
(* lanes, and a message that carries two tokens.  Eureka: two calls that   *)
(* can succeed, one whose token takes a fee.  ApproveProxy: a call that    *)
(* stages both slots, one that stages one of them and pulls two deposits,  *)
(* one with too many parameters.  DeFiVM: two signatures of one owner over *)
(* the same nonce, for different programs, and one that leaves a rest.     *)
(***************************************************************************)
MCOFTMsg ==
  [m \in {o1, o2, o3} |->
     CASE m = o1 -> [amountLD |-> 2, from |-> 1, tooShort |-> FALSE]
       [] m = o2 -> [amountLD |-> 1, from |-> 3, tooShort |-> FALSE]
       [] m = o3 -> [amountLD |-> 1, from |-> 1, tooShort |-> TRUE]]

MCCCIPMsg ==
  [m \in {m1, m2, m3} |->
     CASE m = m1 -> [amount |-> 2, selector |-> 1, lane |-> lane1, tokens |-> 1]
       [] m = m2 -> [amount |-> 1, selector |-> 3, lane |-> lane2, tokens |-> 1]
       [] m = m3 -> [amount |-> 1, selector |-> 1, lane |-> lane1, tokens |-> 2]]

MCSend ==
  [s \in {s1, s2, s3} |->
     CASE s = s1 -> [amount |-> 1, empty |-> FALSE, takesFee |-> FALSE]
       [] s = s2 -> [amount |-> 2, empty |-> FALSE, takesFee |-> TRUE]
       [] s = s3 -> [amount |-> 1, empty |-> TRUE, takesFee |-> FALSE]]

MCCall ==
  [c \in {c1, c2, c3} |->
     CASE c = c1 -> [deposits |-> <<1>>, params |-> <<5, 6>>]
       [] c = c2 -> [deposits |-> <<1, 1>>, params |-> <<7>>]
       [] c = c3 -> [deposits |-> << >>, params |-> <<5, 6, 7>>]]

MCWallet0 == [u \in Users |-> IF u = alice THEN 4 ELSE 1]

MCPermit ==
  [p \in {p1, p2, p3} |->
     CASE p = p1 -> [owner |-> alice, nonce |-> 1, permitted |-> <<1, 1>>, program |-> g1]
       [] p = p2 -> [owner |-> alice, nonce |-> 1, permitted |-> <<1>>, program |-> g2]
       [] p = p3 -> [owner |-> bob, nonce |-> 1, permitted |-> <<2>>, program |-> g2]]

MCPurse == [u \in Users |-> 2]
MCProgramAmount == [g \in {g1, g2} |-> IF g = g1 THEN 2 ELSE 1]
=============================================================================
