------------------------------- MODULE MCScheduler -------------------------------
(* Instances of Scheduler for TLC. *)
EXTENDS Scheduler, TLC

CONSTANTS p1, p2
===============================================================================
