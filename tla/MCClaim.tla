------------------------------ MODULE MCClaim ------------------------------
(* Monitors that cannot overlap: the hypothesis of ClaimProtects.           *)
EXTENDS MCScheduler

ASSUME ClaimAssumption == ClaimHypothesis
=============================================================================
