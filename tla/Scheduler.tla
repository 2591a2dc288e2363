----------------------------- MODULE Scheduler -----------------------------
(***************************************************************************)
(* tang::runtime::scheduler (src/runtime.cpp): one FIFO of coroutine       *)
(* handles under queue_mutex_, worker threads that sleep on queue_cv_, the *)
(* thread in run() that works beside them and gives up after a bounded     *)
(* number of idle rounds, stop(), and an atomic count of active tasks that *)
(* no lock ties to the queue.                                              *)
(*                                                                         *)
(* A coroutine that is resumed runs to its end, or suspends.  When it      *)
(* suspends, the thread that resumed it puts it back into the queue,       *)
(* whatever it suspended on; `co_await yield()` queues it a first time     *)
(* while it suspends.  A handle can so be queued twice, and two threads be *)
(* inside one coroutine: that is undefined in C++, and here each of them   *)
(* goes on to any end the coroutine can come to, its end being final.      *)
(*                                                                         *)
(* A critical section is one step, but for the one place where a lock is   *)
(* held across a read that the lock does not protect: a worker evaluates   *)
(* its predicate, which reads running_, and then blocks.  qlock is the     *)
(* worker between the two.                                                 *)
(***************************************************************************)
EXTENDS Integers, FiniteSets, SequencesExt

CONSTANTS
    Workers,        \* threads started by init()
    Main,           \* the thread that calls run(), then stop()
    Wakers,         \* threads that call runtime::schedule (a channel, a sleep)
    Spawners,       \* threads that call task<T>::run
    Coroutines,
    Finished,       \* coroutines that came to their end without suspending
    Void,           \* coroutines of a task<void>
    Target,         \* the coroutine of each waker and spawner
    Yielders,       \* coroutines that use `co_await yield()`
    Turns,          \* bound: suspensions of a coroutine
    MaxNoProgress,  \* bound: MAX_NO_PROGRESS_ITERATIONS, 500 in the code
    DrainRounds,    \* bound: rounds of the extended wait, 100 in the code
    Nobody, None    \* no thread; no coroutine

Executors == Workers \cup {Main}
Clients   == Wakers \cup Spawners
Threads   == Executors \cup Clients

ASSUME SchedulerAssumption ==
    /\ IsFiniteSet(Threads) /\ Workers # {}
    /\ Main \notin Workers \cup Clients
    /\ Workers \cap Clients = {}
    /\ Wakers \cap Spawners = {}
    /\ Target \in [Clients -> Coroutines]
    /\ Finished \subseteq Coroutines
    /\ Void \subseteq Coroutines
    /\ Yielders \subseteq Coroutines
    /\ Turns \in Nat
    /\ MaxNoProgress \in Nat \ {0}
    /\ DrainRounds \in Nat
    /\ Nobody \notin Threads
    /\ None \notin Coroutines

VARIABLES
    queue,    \* task_queue_
    active,   \* active_tasks_, an atomic_int
    running,  \* running_
    qlock,    \* a worker that holds queue_mutex_ and is about to block
    waitset,  \* threads blocked in queue_cv_
    pc,       \* where each thread is
    cur,      \* the handle each thread works on
    home,     \* where a thread goes when it has dealt with its handle
    co,       \* "suspended" (or running), "done", "destroyed"
    turns,    \* suspensions so far
    last,     \* run(): last_active_tasks
    stalls,   \* run(): no_progress_count
    rounds    \* run(): rounds left of the extended wait

runVars  == <<last, stalls, rounds>>
syncVars == <<qlock, waitset>>
coVars   == <<co, turns>>
vars == <<queue, active, running, qlock, waitset, pc, cur, home, co, turns, last, stalls, rounds>>

Init ==
    /\ queue = <<>>
    /\ active = 0
    /\ running = FALSE
    /\ qlock = Nobody
    /\ waitset = {}
    /\ pc = [t \in Threads |-> IF t \in Workers THEN "off" ELSE "idle"]
    /\ cur = [t \in Threads |-> None]
    /\ home = [t \in Threads |-> "end"]
    /\ co = [c \in Coroutines |-> IF c \in Finished THEN "done" ELSE "suspended"]
    /\ turns = [c \in Coroutines |-> 0]
    /\ last = 0
    /\ stalls = 0
    /\ rounds = DrainRounds

\* A definition whose comment starts with FAULT is the definition after it with
\* one plausible mistake: Next does not use it, the property it breaks is named
\* in PROJECT.json.

Goto(t, place) == pc' = [pc EXCEPT ![t] = place]

\* FAULT: front() without pop_front().
PopKeeping(t, place) ==
    /\ queue # <<>>
    /\ cur' = [cur EXCEPT ![t] = Head(queue)]
    /\ home' = [home EXCEPT ![t] = place]
    /\ UNCHANGED queue

\* Take the front of the queue and come back to place afterwards.
Pop(t, place) ==
    /\ queue # <<>>
    /\ cur' = [cur EXCEPT ![t] = Head(queue)]
    /\ home' = [home EXCEPT ![t] = place]
    /\ queue' = Tail(queue)

-----------------------------------------------------------------------------
\* scheduler::schedule(handle) by any thread: the check and the count, then
\* the push and notify_one.

\* FAULT: task_started() is left out.
ScheduleUncounted(t, from, push, back) ==
    /\ pc[t] = from
    /\ Goto(t, IF co[cur[t]] = "done" THEN back ELSE push)
    /\ UNCHANGED <<queue, active, running, syncVars, cur, home, coVars, runVars>>

ScheduleCount(t, from, push, back) ==
    /\ pc[t] = from
    /\ \/ /\ co[cur[t]] = "done"
          /\ Goto(t, back)
          /\ UNCHANGED active
       \/ /\ co[cur[t]] # "done"
          /\ Goto(t, push)
          /\ active' = active + 1
    /\ UNCHANGED <<queue, running, syncVars, cur, home, coVars, runVars>>

\* FAULT: no notify_one.
SchedulePushSilent(t, from, back) ==
    /\ pc[t] = from
    /\ qlock = Nobody
    /\ Goto(t, back)
    /\ queue' = Append(queue, cur[t])
    /\ UNCHANGED <<active, running, syncVars, cur, home, coVars, runVars>>

SchedulePush(t, from, back) ==
    /\ pc[t] = from
    /\ qlock = Nobody
    /\ Goto(t, back)
    /\ queue' = Append(queue, cur[t])
    /\ \/ waitset = {} /\ UNCHANGED waitset
       \/ \E u \in waitset : waitset' = waitset \ {u}
    /\ UNCHANGED <<active, running, qlock, cur, home, coVars, runVars>>

\* task_completed(): the test and the decrement are two accesses.
CompleteTest(t) ==
    /\ pc[t] = "complete"
    /\ \/ active > 0 /\ Goto(t, "decrement")
       \/ active <= 0 /\ Goto(t, home[t])
    /\ UNCHANGED <<queue, active, running, syncVars, cur, home, coVars, runVars>>

Decrement(t) ==
    /\ pc[t] = "decrement"
    /\ Goto(t, home[t])
    /\ active' = active - 1
    /\ UNCHANGED <<queue, running, syncVars, cur, home, coVars, runVars>>

-----------------------------------------------------------------------------
\* The worker loop (scheduler::init)

WorkerLoop(w) ==
    /\ pc[w] = "loop"
    /\ \/ running /\ Goto(w, "fetch")
       \/ ~running /\ Goto(w, "exited")
    /\ UNCHANGED <<queue, active, running, syncVars, cur, home, coVars, runVars>>

\* With the mutex: the predicate of wait(), and what follows it.
WorkerFetch(w) ==
    /\ pc[w] = "fetch"
    /\ w \notin waitset
    /\ qlock = Nobody
    /\ \/ /\ running /\ queue = <<>>
          /\ Goto(w, "blocking")
          /\ qlock' = w
          /\ UNCHANGED <<queue, cur, home>>
       \/ /\ ~running
          /\ Goto(w, "exited")
          /\ UNCHANGED <<queue, qlock, cur, home>>
       \/ /\ running
          /\ Pop(w, "loop")
          /\ Goto(w, "recheck")
          /\ UNCHANGED qlock
    /\ UNCHANGED <<active, running, waitset, coVars, runVars>>

\* Block in queue_cv_ and release the mutex.
WorkerBlock(w) ==
    /\ pc[w] = "blocking"
    /\ Goto(w, "fetch")
    /\ qlock' = Nobody
    /\ waitset' = waitset \cup {w}
    /\ UNCHANGED <<queue, active, running, cur, home, coVars, runVars>>

SpuriousWakeup(w) ==
    /\ w \in waitset
    /\ waitset' = waitset \ {w}
    /\ UNCHANGED <<queue, active, running, qlock, pc, cur, home, coVars, runVars>>

\* The second look at running_: the popped handle is dropped.
WorkerRecheck(w) ==
    /\ pc[w] = "recheck"
    /\ \/ running /\ Goto(w, "got")
       \/ ~running /\ Goto(w, "exited")
    /\ UNCHANGED <<queue, active, running, syncVars, cur, home, coVars, runVars>>

-----------------------------------------------------------------------------
\* What a worker and run() do with a handle

\* A handle that is already done counts as a completed task, and run() skips
\* its progress check.
Dispatch(t) ==
    /\ pc[t] = "got"
    /\ \/ /\ co[cur[t]] = "done"
          /\ Goto(t, "complete")
          /\ home' = [home EXCEPT ![t] = IF @ = "progress" THEN "loop" ELSE @]
       \/ /\ co[cur[t]] # "done"
          /\ Goto(t, "body")
          /\ UNCHANGED home
    /\ UNCHANGED <<queue, active, running, syncVars, cur, coVars, runVars>>

\* handle.resume(): the coroutine reaches its end ...
Finish(t) ==
    /\ pc[t] = "body"
    /\ Goto(t, "after")
    /\ co' = [co EXCEPT ![cur[t]] = "done"]
    /\ UNCHANGED <<queue, active, running, syncVars, cur, home, turns, runVars>>

\* ... or suspends on something, or on yield().
Suspend(t) ==
    /\ pc[t] = "body"
    /\ turns[cur[t]] < Turns
    /\ turns' = [turns EXCEPT ![cur[t]] = @ + 1]
    /\ \/ Goto(t, "after")
       \/ cur[t] \in Yielders /\ Goto(t, "yield")
    /\ UNCHANGED <<queue, active, running, syncVars, cur, home, co, runVars>>

\* FAULT: what is not done after resume() is left to what it waits for.
AfterResumeLeaving(t) ==
    /\ pc[t] = "after"
    /\ Goto(t, IF co[cur[t]] = "done" THEN "complete" ELSE home[t])
    /\ UNCHANGED <<queue, active, running, syncVars, cur, home, coVars, runVars>>

\* Back from resume(): done, or queue it again.
AfterResume(t) ==
    /\ pc[t] = "after"
    /\ \/ co[cur[t]] = "done" /\ Goto(t, "complete")
       \/ co[cur[t]] # "done" /\ Goto(t, "count")
    /\ UNCHANGED <<queue, active, running, syncVars, cur, home, coVars, runVars>>

-----------------------------------------------------------------------------
\* scheduler::run()

MainRun ==
    /\ pc[Main] = "idle"
    /\ running' = TRUE
    /\ pc' = [t \in Threads |-> IF t \in Executors THEN "loop" ELSE pc[t]]
    /\ UNCHANGED <<queue, active, syncVars, cur, home, coVars, runVars>>

\* while (active_tasks_ > 0 || !task_queue_.empty()): two reads, no lock.
MainTestActive ==
    /\ pc[Main] = "loop"
    /\ \/ active > 0 /\ Goto(Main, "take")
       \/ active <= 0 /\ Goto(Main, "testQueue")
    /\ UNCHANGED <<queue, active, running, syncVars, cur, home, coVars, runVars>>

MainTestQueue ==
    /\ pc[Main] = "testQueue"
    /\ \/ queue # <<>> /\ Goto(Main, "take")
       \/ queue = <<>> /\ Goto(Main, "drain")
    /\ UNCHANGED <<queue, active, running, syncVars, cur, home, coVars, runVars>>

\* Take a handle, or wait_for up to 1 ms.
MainTake ==
    /\ pc[Main] = "take"
    /\ Main \notin waitset
    /\ qlock = Nobody
    /\ \/ /\ Pop(Main, "progress")
          /\ Goto(Main, "got")
          /\ UNCHANGED waitset
       \/ /\ queue = <<>>
          /\ waitset' = waitset \cup {Main}
          /\ UNCHANGED <<queue, pc, cur, home>>
    /\ UNCHANGED <<active, running, qlock, coVars, runVars>>

\* The millisecond is over: with the mutex again, take what there is.
MainTimeout ==
    /\ pc[Main] = "take"
    /\ Main \in waitset
    /\ qlock = Nobody
    /\ waitset' = waitset \ {Main}
    /\ \/ Pop(Main, "progress") /\ Goto(Main, "got")
       \/ /\ queue = <<>>
          /\ Goto(Main, "progress")
          /\ UNCHANGED <<queue, cur, home>>
    /\ UNCHANGED <<active, running, qlock, coVars, runVars>>

\* The progress check: active_tasks_ first, task_queue_.empty() second.
MainProgress ==
    /\ pc[Main] = "progress"
    /\ \/ /\ active = last
          /\ Goto(Main, "progressQueue")
          /\ UNCHANGED <<last, stalls>>
       \/ /\ active # last
          /\ Goto(Main, "loop")
          /\ last' = active
          /\ stalls' = 0
    /\ UNCHANGED <<queue, active, running, syncVars, cur, home, coVars, rounds>>

\* FAULT: rounds without progress are not counted.
MainProgressUncounted ==
    /\ pc[Main] = "progressQueue"
    /\ Goto(Main, "loop")
    /\ UNCHANGED <<queue, active, running, syncVars, cur, home, coVars, runVars>>

MainProgressQueue ==
    /\ pc[Main] = "progressQueue"
    /\ \/ /\ queue = <<>>
          /\ stalls' = stalls + 1
          /\ Goto(Main, IF stalls' >= MaxNoProgress THEN "drain" ELSE "loop")
       \/ /\ queue # <<>>
          /\ stalls' = 0
          /\ Goto(Main, "loop")
    /\ UNCHANGED <<queue, active, running, syncVars, cur, home, coVars, last, rounds>>

\* The extended wait: a bounded number of rounds, each reading the queue, then
\* active_tasks_ once or twice, then the queue again.  The timed wait after it goes on whatever its outcome.
MainDrain ==
    /\ pc[Main] = "drain"
    /\ \/ rounds = 0 /\ Goto(Main, "returned") /\ UNCHANGED rounds
       \/ /\ rounds > 0
          /\ rounds' = rounds - 1
          /\ Goto(Main, IF queue = <<>> THEN "drainActive" ELSE "drainCheck")
    /\ UNCHANGED <<queue, active, running, syncVars, cur, home, coVars, last, stalls>>

MainDrainActive ==
    /\ pc[Main] = "drainActive"
    /\ \/ active = 0 /\ Goto(Main, "returned")
       \/ active # 0 /\ Goto(Main, "drainCheck")
    /\ UNCHANGED <<queue, active, running, syncVars, cur, home, coVars, runVars>>

MainDrainCheck ==
    /\ pc[Main] = "drainCheck"
    /\ \/ active > 0 /\ Goto(Main, "drainTake")
       \/ active <= 0 /\ Goto(Main, "drain")
    /\ UNCHANGED <<queue, active, running, syncVars, cur, home, coVars, runVars>>

MainDrainTake ==
    /\ pc[Main] = "drainTake"
    /\ qlock = Nobody
    /\ \/ /\ Pop(Main, "drain")
          /\ Goto(Main, "got")
       \/ /\ queue = <<>>
          /\ Goto(Main, "drain")
          /\ UNCHANGED <<queue, cur, home>>
    /\ UNCHANGED <<active, running, syncVars, coVars, runVars>>

-----------------------------------------------------------------------------
\* scheduler::stop()

StopMark ==
    /\ pc[Main] = "returned"
    /\ Goto(Main, "notify")
    /\ running' = FALSE
    /\ UNCHANGED <<queue, active, syncVars, cur, home, coVars, runVars>>

\* FAULT: notify_all without queue_mutex_.
StopNotifyUnlocked ==
    /\ pc[Main] = "notify"
    /\ Goto(Main, "join")
    /\ waitset' = {}
    /\ UNCHANGED <<queue, active, running, qlock, cur, home, coVars, runVars>>

StopNotify ==
    /\ pc[Main] = "notify"
    /\ qlock = Nobody
    /\ Goto(Main, "join")
    /\ waitset' = {}
    /\ UNCHANGED <<queue, active, running, qlock, cur, home, coVars, runVars>>

\* FAULT: the workers are not joined.
StopUnjoined ==
    /\ pc[Main] = "join"
    /\ Goto(Main, "destroy")
    /\ UNCHANGED <<queue, active, running, syncVars, cur, home, coVars, runVars>>

\* The timed wait for active_tasks_ == 0 after the joins goes on whatever its
\* outcome.
StopJoin ==
    /\ pc[Main] = "join"
    /\ \A w \in Workers : pc[w] = "exited"
    /\ Goto(Main, "destroy")
    /\ UNCHANGED <<queue, active, running, syncVars, cur, home, coVars, runVars>>

StopDestroy ==
    /\ pc[Main] = "destroy"
    /\ qlock = Nobody
    /\ Goto(Main, "reset")
    /\ co' = [c \in Coroutines |-> IF c \in ToSet(queue) /\ co[c] # "done" THEN "destroyed" ELSE co[c]]
    /\ queue' = <<>>
    /\ UNCHANGED <<active, running, syncVars, cur, home, turns, runVars>>

StopReset ==
    /\ pc[Main] = "reset"
    /\ Goto(Main, "stopped")
    /\ active' = 0
    /\ UNCHANGED <<queue, running, syncVars, cur, home, coVars, runVars>>

-----------------------------------------------------------------------------
\* Other threads

\* runtime::schedule(handle).
Wake(t) ==
    /\ pc[t] = "idle"
    /\ Goto(t, "count")
    /\ cur' = [cur EXCEPT ![t] = Target[t]]
    /\ UNCHANGED <<queue, active, running, syncVars, home, coVars, runVars>>

\* What run() itself counts for c: task<T>::run calls task_started(),
\* task<void>::run does not.
Started(c) == IF c \in Void THEN 0 ELSE 1

\* task<T>::run and task<void>::run: task_started() or not, and schedule(),
\* which counts too; or, when the coroutine is done, task_completed(), which
\* nothing counted, and destroy().  The coroutine of go() and spawn() is always
\* done: go_helper::create calls f and never suspends.
Spawn(t) ==
    /\ pc[t] = "idle"
    /\ cur' = [cur EXCEPT ![t] = Target[t]]
    /\ \/ /\ co[Target[t]] = "done"
          /\ Goto(t, "complete")
          /\ home' = [home EXCEPT ![t] = "release"]
          /\ UNCHANGED active
       \/ /\ co[Target[t]] # "done"
          /\ Goto(t, "count")
          /\ active' = active + Started(Target[t])
          /\ UNCHANGED home
    /\ UNCHANGED <<queue, running, syncVars, coVars, runVars>>

Release(t) ==
    /\ pc[t] = "release"
    /\ Goto(t, "end")
    /\ co' = [co EXCEPT ![cur[t]] = "destroyed"]
    /\ UNCHANGED <<queue, active, running, syncVars, cur, home, turns, runVars>>

-----------------------------------------------------------------------------
Schedule(t) ==
    \/ ScheduleCount(t, "count", "push", home[t])
    \/ SchedulePush(t, "push", home[t])
    \/ ScheduleCount(t, "yield", "yieldPush", "after")
    \/ SchedulePush(t, "yieldPush", "after")

TaskCompleted(t) == CompleteTest(t) \/ Decrement(t)

Handle(t) == Dispatch(t) \/ Finish(t) \/ Suspend(t) \/ AfterResume(t)

WorkerStep(w) ==
    \/ WorkerLoop(w) \/ WorkerFetch(w) \/ WorkerBlock(w) \/ WorkerRecheck(w)
    \/ Handle(w) \/ Schedule(w) \/ TaskCompleted(w)

\* run() after init(), then stop().
MainStep ==
    \/ MainTestActive \/ MainTestQueue \/ MainTake \/ MainTimeout
    \/ MainProgress \/ MainProgressQueue
    \/ MainDrain \/ MainDrainActive \/ MainDrainCheck \/ MainDrainTake
    \/ Handle(Main) \/ Schedule(Main) \/ TaskCompleted(Main)
    \/ StopMark \/ StopNotify \/ StopJoin \/ StopDestroy \/ StopReset

\* A call of another thread that has begun.
ClientStep(t) == Schedule(t) \/ TaskCompleted(t) \/ Release(t)

Next ==
    \/ MainRun \/ MainStep
    \/ \E w \in Workers : WorkerStep(w) \/ SpuriousWakeup(w)
    \/ \E t \in Wakers : Wake(t)
    \/ \E t \in Spawners : Spawn(t)
    \/ \E t \in Clients : ClientStep(t)

Spec == Init /\ [][Next]_vars

\* Threads that have begun something go on with it.  Nobody is obliged to
\* call run(), schedule() or go().  Spurious wakeups are not endless: a worker
\* that is woken forever for nothing could keep the mutex from the others.
Fairness ==
    /\ \A w \in Workers : <>[][~SpuriousWakeup(w)]_vars
    /\ WF_vars(MainStep)
    /\ \A w \in Workers : WF_vars(WorkerStep(w))
    /\ \A t \in Clients : WF_vars(ClientStep(t))

FairSpec == Spec /\ Fairness

-----------------------------------------------------------------------------
\* Properties

Places == {"off", "loop", "fetch", "blocking", "recheck", "exited",
           "got", "body", "yield", "yieldPush", "after", "count", "push",
           "complete", "decrement", "idle", "end", "release",
           "testQueue", "take", "progress", "progressQueue",
           "drain", "drainActive", "drainCheck", "drainTake", "returned",
           "notify", "join", "destroy", "reset", "stopped"}

\* The types of the scheduler's fields and of its threads' positions, and the
\* bounds of run()'s two counters (runtime.h:92-100, runtime.cpp:148-150, 249).
TypeOK ==
    /\ queue \in Seq(Coroutines)
    /\ active \in Int
    /\ running \in BOOLEAN
    /\ qlock \in Workers \cup {Nobody}
    /\ waitset \in SUBSET Executors
    /\ pc \in [Threads -> Places]
    /\ cur \in [Threads -> Coroutines \cup {None}]
    /\ home \in [Threads -> {"loop", "progress", "drain", "release", "end"}]
    /\ co \in [Coroutines -> {"suspended", "done", "destroyed"}]
    /\ turns \in [Coroutines -> 0..Turns]
    /\ last \in Int
    /\ stalls \in 0..MaxNoProgress
    /\ rounds \in 0..DrainRounds

\* Executors that hold a handle they popped; the count it was queued with is
\* still theirs.
InHand == {t \in Executors : pc[t] \in {"recheck", "got", "body", "yield", "yieldPush", "after",
                                        "count", "push", "complete", "decrement"}}

\* Threads that have counted a handle on top of that and not pushed it yet.
InPush == {t \in Executors : pc[t] = "yieldPush"} \cup {t \in Clients : pc[t] = "push"}

\* Calls of run() that found their coroutine done and have reported it
\* completed: nothing had counted it.
Uncounted == {t \in Spawners : home[t] = "release" /\ pc[t] \in {"release", "end"}}

\* Every queued handle, every handle a thread works on and every push on its
\* way is counted, until stop() resets the count, but for one each time run()
\* found its coroutine done (task.h:113-121, 223-228).  Nothing else loses a
\* count: not the two accesses of task_completed(), and not a coroutine that is
\* queued twice or found done when it is dequeued (runtime.cpp:66-120, 180-219,
\* 399-418, 441-450).
PendingCounted ==
    pc[Main] # "stopped" =>
        Len(queue) + Cardinality(InHand) + Cardinality(InPush) <= active + Cardinality(Uncounted)

\* Coroutines that only one call schedules, and that do not queue themselves.
Single == {c \in Coroutines \ Yielders : Cardinality({t \in Clients : Target[t] = c}) <= 1}

\* How often c is queued.
Entries(c) == Cardinality({i \in DOMAIN queue : queue[i] = c})

\* The handle of such a coroutine is in one place, the queue or one thread,
\* though whoever resumed it puts it back after every suspension: no two threads
\* are inside it, and nobody completes or destroys it a second time
\* (runtime.cpp:112-120, 210-219).
HandledOnce ==
    \A c \in Single : Entries(c) + Cardinality({t \in InHand \cup InPush : cur[t] = c}) <= 1

\* No worker, and not run(), touches the frame of a destroyed coroutine:
\* stop() destroys what is queued only when the workers are gone.
NoUseAfterDestroy ==
    \A t \in Executors :
        pc[t] \in {"got", "body", "yield", "after", "count"} => co[cur[t]] # "destroyed"

\* While the scheduler runs and a handle is queued, not everyone sleeps on
\* queue_cv_: a worker is awake, or run() has been notified and takes it.
WorkIsSeen ==
    running /\ queue # <<>> => \E t \in Executors : t \notin waitset /\ (t = Main => pc[t] = "take")

\* Once stop() has notified, no worker sleeps or is about to: running_ is
\* changed without queue_mutex_, and yet no worker that read it before
\* misses the notification.
NobodySleepsThroughStop ==
    pc[Main] \in {"join", "destroy", "reset", "stopped"} =>
        \A w \in Workers : w \notin waitset /\ pc[w] # "blocking"

\* run() comes to an end whatever the count says, and so does stop().
RunStopEnds == (pc[Main] # "idle") ~> (pc[Main] = "stopped")

=============================================================================
