----------------------------- MODULE MCScheduler -----------------------------
(* Instances of Scheduler, with the HTTP-01 provider, for TLC.             *)
EXTENDS Scheduler
=============================================================================
