---------------------------- MODULE MCScheduler ----------------------------
(* The scheduler with two tracks; the paths order them 2, 1.               *)
EXTENDS Scheduler

TwoTracks == <<2, 1>>
=============================================================================
