-------------------------- MODULE MCVisualPlanCache --------------------------
(* Two plans that share an asset; one also asks for an asset that falls     *)
(* back to it.                                                              *)
EXTENDS VisualPlanCache

CONSTANTS p, q

MCPlans == {p, q}
MCPrimary == [key |-> "ember", fallback |-> "spark"]
MCFallback == [key |-> "spark", fallback |-> None]
MCAssets == [x \in Plan |-> IF x = p THEN {MCFallback} ELSE {MCPrimary}]
MCCatalog == [x \in Plan |-> "season"]
=============================================================================
