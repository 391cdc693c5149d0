------------------------------ MODULE MCScheduler ------------------------------
(* Instances of Scheduler for model checking. *)
EXTENDS Scheduler, TLC

CONSTANTS i1, i2, j1, j2, h1, h2, h3, h4
==============================================================================
