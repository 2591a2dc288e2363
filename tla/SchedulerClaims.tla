-------------------------- MODULE SchedulerClaims --------------------------
(***************************************************************************)
(* What a comment of the repository says of the scheduler, where the code  *)
(* does something else.                                                    *)
(***************************************************************************)
EXTENDS MCScheduler

\* runtime.cpp:406-407, "Increment active tasks count before scheduling.  This
\* ensures that active_tasks_ > 0 when there are pending tasks in the queue".
\* stop() resets the count last.
CountedWhilePending == pc[Main] # "stopped" /\ queue # <<>> => active > 0

=============================================================================
