---------------------------- MODULE MCScheduler -----------------------------
(* Bounded instances of Scheduler for TLC: two jobs, the first one run     *)
(* every clock unit and the second every second one.                       *)
EXTENDS Scheduler

MCJobs == 1 .. 2
MCCadence == [j \in MCJobs |-> j]
=============================================================================
