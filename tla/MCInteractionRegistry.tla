----------------------- MODULE MCInteractionRegistry -----------------------
(* Instances of InteractionRegistry for TLC: five deliveries of three       *)
(* interactions, one of which is delivered three times.                     *)
EXTENDS InteractionRegistry

MCFlows == 1 .. 5
MCIdentities == {"a", "b", "c"}
MCIdentity == [f \in MCFlows |-> CASE f <= 3 -> "a" [] f = 4 -> "b" [] OTHER -> "c"]
=============================================================================
