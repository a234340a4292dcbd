------------------------- MODULE MCInteractionQueue -------------------------
(* Instances of InteractionQueue for TLC.  The n-th action costs more than  *)
(* the one before it, so that bytes returned for the wrong action show.     *)
EXTENDS InteractionQueue

MCCost == [a \in Actions |-> a]
=============================================================================
