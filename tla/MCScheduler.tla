---------------------------- MODULE MCScheduler ----------------------------
(***************************************************************************)
(* Instances of Scheduler for TLC.                                         *)
(***************************************************************************)
EXTENDS SchedulerQueue

CONSTANTS w1, main, k1, p1, p2, c1, c2, c3

\* A coroutine that a channel or a sleep wakes, one that is run() as a task,
\* and one of go(), which is done when it is run().
TargetAll == k1 :> c1 @@ p1 :> c2 @@ p2 :> c3

=============================================================================
