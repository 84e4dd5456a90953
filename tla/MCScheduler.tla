---------------------------- MODULE MCScheduler ----------------------------
(* Instances of Scheduler for TLC: minutes of two slots, days of three     *)
(* minutes, five days.                                                     *)
EXTENDS Scheduler
=============================================================================
