--------------------------- MODULE MCDeletionEngine ---------------------------
(* Values of the constants of DeletionEngine for TLC. *)
EXTENDS DeletionEngine, TLC

\* One action of each kind that matters, an ineligible one in the middle.
MixedPlan == <<"stale", "active", "unknown", "stale">>
\* Two actions to delete.
ShortPlan == <<"stale", "stale">>
\* One action more than the workers of the run take at once.
ThreeStale == <<"stale", "stale", "stale">>

WorkerSymmetry == Permutations(Worker)
===============================================================================
