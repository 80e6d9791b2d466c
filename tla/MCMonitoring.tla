---------------------------- MODULE MCMonitoring ----------------------------
(* Values of the constants of Monitoring, over those of MCScheduler.       *)
EXTENDS Monitoring, MCScheduler

AnyEdit == {"push", "incident", "delete", "reset"}
=============================================================================
