---------------------------- MODULE MCLifecycle ----------------------------
(* A monitor whose checks fit: the hypothesis of the lifecycle theorems.    *)
EXTENDS MCScheduler

ASSUME LifecycleAssumption == LifecycleHypothesis
=============================================================================
