---------------------------- MODULE MCScheduler -----------------------------
(* Constants for the scheduler runs; Handle is 1 .. MaxHandle.             *)
EXTENDS SchedulerHistory

MCDelays == {0, 1}
MCIntervals == {1}

=============================================================================
