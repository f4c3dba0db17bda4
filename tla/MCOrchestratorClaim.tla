------------------------ MODULE MCOrchestratorClaim ------------------------
(* Instances of OrchestratorClaim for TLC.                                 *)
EXTENDS OrchestratorClaim
=============================================================================
