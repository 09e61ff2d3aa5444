------------------------------ MODULE MCScheduler ------------------------------
(* TLC instance of Scheduler: see the .cfg files for the constants. *)
EXTENDS Scheduler
================================================================================
