--------------------------- MODULE MCCCTPComposer ---------------------------
(***************************************************************************)
(* Two deliverable messages, of which one may also be received around the  *)
(* composer, and one whose fee exceeds its amount.                         *)
(***************************************************************************)
EXTENDS CCTPComposer

CONSTANTS m1, m2, m3, alice, bob

MCMsg ==
  [m \in {m1, m2, m3} |->
     CASE m = m1 -> [amount |-> 3, feeExecuted |-> 1, sourceDomain |-> 1,
                     tooShort |-> FALSE, restricted |-> TRUE]
       [] m = m2 -> [amount |-> 1, feeExecuted |-> 0, sourceDomain |-> 2,
                     tooShort |-> FALSE, restricted |-> FALSE]
       [] m = m3 -> [amount |-> 1, feeExecuted |-> 2, sourceDomain |-> 1,
                     tooShort |-> FALSE, restricted |-> TRUE]]
=============================================================================
