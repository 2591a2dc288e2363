--------------------------- MODULE SchedulerQueue ---------------------------
(***************************************************************************)
(* Scheduler seen as a TaskQueue.                                          *)
(***************************************************************************)
EXTENDS Scheduler

\* The places at which an executor answers for the handle that it took.  It no
\* longer does when it has found the coroutine done.
InWork == {"recheck", "got", "body", "yield", "yieldPush", "after", "count", "push"}

\* The state of the TaskQueue.
InQueue == [c \in Coroutines |-> Entries(c)]
AtWork  == [t \in Executors |-> IF pc[t] \in InWork THEN cur[t] ELSE None]
Over    == {c \in Coroutines : co[c] # "suspended"}

Handles == INSTANCE TaskQueue WITH queued <- InQueue, held <- AtWork, over <- Over

\* No handle is lost or made up between schedule(), the queue, the workers and
\* run(): what is taken is put back or belongs to a coroutine that is over, until
\* stop(); only then does a worker drop a handle (the second look at running_),
\* and only when nobody has one is the queue destroyed (runtime.cpp:66-120,
\* 180-219, 399-418, 335-352).
KeepsHandles == Handles!Spec

=============================================================================
