--------------------------- MODULE AtomicCompose ---------------------------
(***************************************************************************)
(* What a composer promises to the sender of a message, whatever happens   *)
(* inside the transactions that deliver it: a message is settled at most   *)
(* once, in a single atomic step (of a transaction that may settle several *)
(* messages), and its program acts on the parameters of that very message. *)
(***************************************************************************)
CONSTANTS
  Messages,
  Param      \* the parameter pair that each message's program must be given

VARIABLES
  settled,   \* messages whose program has run to the end
  acted      \* <<m, p>>: the program of m acted on the parameters p

Init == settled = {} /\ acted = {}

Settle(S) ==
  /\ S # {} /\ S \cap settled = {}
  /\ settled' = settled \union S
  /\ \E A \in SUBSET S : acted' = acted \union {<<m, Param[m]>> : m \in A}

Next == \E S \in SUBSET Messages : Settle(S)

Spec == Init /\ [][Next]_<<settled, acted>>
=============================================================================
