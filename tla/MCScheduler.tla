---------------------------- MODULE MCScheduler ----------------------------
(***************************************************************************)
(* Instances of Scheduler for TLC.  The clock bound lets a job fail, cool  *)
(* down, be claimed again, lose its worker and be released.                *)
(***************************************************************************)
EXTENDS Scheduler

CONSTANTS k1, w1

OneWorker  == {w1}
TwoJobs    == {1, 2}
OneKey     == {k1}
=============================================================================
