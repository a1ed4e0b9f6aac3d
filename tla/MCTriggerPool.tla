--------------------------- MODULE MCTriggerPool ---------------------------
(* A query that should trigger and one that should not; an even number of   *)
(* runs puts the rate exactly on the 0.5 boundary; fewer jobs than runs.    *)
EXTENDS TriggerPool

MCShouldTrigger == {1}
=============================================================================
