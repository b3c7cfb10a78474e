---------------------------- MODULE MCScheduler -----------------------------
(* Model checking instance of Scheduler: two threads around the receiver.  *)
EXTENDS Scheduler
ThreeThreads == 1 .. 3
=============================================================================
