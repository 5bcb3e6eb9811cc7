------------------------------ MODULE MCYields ------------------------------
(* Two chains, one withdrawable position, five markets. *)
EXTENDS YieldJourney
tokA == [chain |-> "A", address |-> "tokA"]
tokB == [chain |-> "B", address |-> "tokB"]
List(id, p, t, k) == [nr |-> k, id |-> id, protocol |-> p, chain |-> t.chain, token |-> t, symbol |-> "TOK",
                   active |-> TRUE, frozen |-> FALSE, paused |-> FALSE, apy |-> 0,
                   well |-> TRUE, priced |-> TRUE]
Names == {"aaveA", "cometA", "spokeA", "cometB", "blueB"}
MCWorld == {List("aaveA", "aave_v3", tokA, 1), List("cometA", "compound_v3", tokA, 2),
            List("spokeA", "aave_v4", tokA, 3), List("cometB", "compound_v3", tokB, 4),
            List("blueB", "morpho", tokB, 5)}
MCTokenOn == [c \in {"A", "B"} |-> IF c = "A" THEN tokA ELSE tokB]
MCBridges == {[src |-> "A", dst |-> "B", spender |-> TRUE, composes |-> TRUE, nativeFee |-> 0]}
MCRates == {[m \in Names |-> CASE m = "aaveA" -> 1 [] m = "cometA" -> 2 [] m = "spokeA" -> a [] OTHER -> 0] : a \in {0, 3}}
MCStart == [m \in Names |-> IF m = "aaveA" THEN 2 ELSE 0]
MCPurse == [t \in {tokA, tokB} |-> 0]
=============================================================================
