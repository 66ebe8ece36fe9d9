--------------------------- MODULE MCOrchestratorStart ---------------------------
(* Three agents, two capabilities, a pipeline of three stages. *)
EXTENDS OrchestratorStart

CONSTANTS a1, a2, a3, c1, c2

NeededStages == <<c1, c2, c1>>
=============================================================================
