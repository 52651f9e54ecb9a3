---------------------------- MODULE MCScheduler -----------------------------
(***************************************************************************)
(* Instances of SchedulerService for TLC, in units of ten seconds: a time  *)
(* to live of 3 and a renewal after 2.                                     *)
(***************************************************************************)
EXTENDS SchedulerService, TLC
=============================================================================
