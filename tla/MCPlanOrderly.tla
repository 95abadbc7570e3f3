----------------------------- MODULE MCPlanOrderly -----------------------------
(* The instances of PlanPipeline that PlanOutcomeProofs is about. *)
EXTENDS MCPlanPipeline

ASSUME OrderlyInstance == Orderly
================================================================================
