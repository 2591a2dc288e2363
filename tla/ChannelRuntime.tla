--------------------------- MODULE ChannelRuntime ---------------------------
(***************************************************************************)
(* A channel whose coroutines are resumed by the workers of the scheduler: *)
(* Channel, with the queue and the worker loop (src/runtime.cpp) in the    *)
(* place of its abstract wakeups, and with the thread that calls each      *)
(* coroutine (include/tang/task.h).                                        *)
(*                                                                         *)
(* A coroutine starts in the thread that calls it.  When it has suspended  *)
(* there, that thread may go on to task<T>::run, while the channel, and    *)
(* then a worker, already has its handle.  Coroutines of Late waited for   *)
(* something else before, a sleep, and begin their operation on a worker.  *)
(*                                                                         *)
(* Of the scheduler there are the queue, here a bag since several workers  *)
(* take from it, and the workers, who are awake when something is queued   *)
(* (Scheduler!WorkIsSeen).  A frame that is looked at when it is destroyed *)
(* is undefined in C++: it looks done, or not, and its memory is not used  *)
(* again.  A crash ends the behaviour and is not modelled.                 *)
(***************************************************************************)
EXTENDS Channel

CONSTANTS
    Workers,    \* threads started by init()
    Late,       \* coroutines that a worker begins
    Nothing     \* no handle

ASSUME RuntimeAssumption ==
    /\ IsFiniteSet(Workers)
    /\ Late \subseteq Driven
    /\ Nothing \notin Coroutines

VARIABLES
    queued,     \* entries of each handle in task_queue_
    frame,      \* each coroutine is "alive", "ended" (done()) or "destroyed"
    caller,     \* where the thread is that called each coroutine
    worker,     \* where each worker is
    hand        \* the handle each worker popped

channelVars == vars
workerVars  == <<worker, hand>>
allVars     == <<vars, queued, frame, caller, workerVars>>

\* "inside": in the coroutine.  "back": the call, or resume(), has returned.
\* "push": in schedule().
CallerPlaces == {"inside", "back", "push", "over"}
WorkerPlaces == {"free", "got", "inside", "back", "push"}

RuntimeInit ==
    /\ Init
    /\ queued = [c \in Coroutines |-> IF c \in Late THEN 1 ELSE 0]
    /\ frame = [c \in Coroutines |-> "alive"]
    /\ caller = [c \in Coroutines |-> IF c \in Late THEN "over" ELSE "inside"]
    /\ worker = [w \in Workers |-> "free"]
    /\ hand = [w \in Workers |-> Nothing]

-----------------------------------------------------------------------------
\* A definition whose comment starts with FAULT is the definition after it with
\* one plausible mistake: RuntimeNext does not use it, the property it breaks is
\* named in PROJECT.json.

LooksDone(c)  == frame[c] \in {"ended", "destroyed"}
LooksAlive(c) == frame[c] \in {"alive", "destroyed"}

\* FAULT: the handles that the channel schedules are not queued.
EnqueueNothing(S) == UNCHANGED queued

\* runtime::schedule of each handle of S, which skips what is done.
Enqueue(S) ==
    \E Q \in SUBSET {c \in S : LooksAlive(c)} :
        /\ {c \in S : ~LooksDone(c)} \subseteq Q
        /\ queued' = [c \in Coroutines |-> IF c \in Q THEN queued[c] + 1 ELSE queued[c]]

Woken == {c \in Coroutines : wakeups'[c] > wakeups[c]}

\* The coroutine's part of its operation, in the thread that is inside it.
Operate(c) ==
    /\ \/ c \in Senders /\ (SendReady(c) \/ SendUnready(c) \/ SendSuspend(c))
       \/ c \in Receivers /\ (RecvReady(c) \/ RecvUnready(c) \/ RecvSuspend(c))
    /\ Enqueue(Woken)
    /\ UNCHANGED frame

\* The coroutine is past its operation and runs to its end.
End(c) ==
    /\ pc[c] = "done"
    /\ frame' = [frame EXCEPT ![c] = IF @ = "alive" THEN "ended" ELSE @]
    /\ UNCHANGED <<channelVars, queued>>

\* schedule() by the thread that drives c: its own look at done(), then the
\* push.  The first push of a coroutine that waits is what Channel calls
\* Requeue.
Drive(c) ==
    \/ /\ LooksDone(c)
       /\ UNCHANGED <<channelVars, queued>>
    \/ /\ queued' = [queued EXCEPT ![c] = @ + 1]
       /\ \/ Requeue(c)
          \/ pc[c] # "suspended" /\ UNCHANGED channelVars

-----------------------------------------------------------------------------
\* The thread that called c.  Who does not run() the task has nothing more to
\* do.

CallerAfter(c) == IF c \in Driven THEN "back" ELSE "over"

CallerOperates(c) ==
    /\ caller[c] = "inside"
    /\ Operate(c)
    /\ caller' = [caller EXCEPT ![c] = IF pc'[c] = "suspended" THEN CallerAfter(c) ELSE @]
    /\ UNCHANGED workerVars

CallerEnds(c) ==
    /\ caller[c] = "inside"
    /\ End(c)
    /\ caller' = [caller EXCEPT ![c] = CallerAfter(c)]
    /\ UNCHANGED workerVars

\* task<T>::run: what is done is destroyed, the rest scheduled.
RunTask(c) ==
    /\ caller[c] = "back"
    /\ \/ /\ frame[c] = "ended"
          /\ frame' = [frame EXCEPT ![c] = "destroyed"]
          /\ caller' = [caller EXCEPT ![c] = "over"]
       \/ /\ frame[c] = "alive"
          /\ caller' = [caller EXCEPT ![c] = "push"]
          /\ UNCHANGED frame
    /\ UNCHANGED <<channelVars, queued, workerVars>>

CallerDrives(c) ==
    /\ caller[c] = "push"
    /\ Drive(c)
    /\ caller' = [caller EXCEPT ![c] = "over"]
    /\ UNCHANGED <<frame, workerVars>>

Caller(c) == CallerOperates(c) \/ CallerEnds(c) \/ RunTask(c) \/ CallerDrives(c)

-----------------------------------------------------------------------------
\* The worker loop

WorkerGoes(w, place) == worker' = [worker EXCEPT ![w] = place]

\* FAULT: front() without pop_front().
TakeKeeping(w, c) ==
    /\ worker[w] = "free"
    /\ queued[c] > 0
    /\ hand' = [hand EXCEPT ![w] = c]
    /\ WorkerGoes(w, "got")
    /\ UNCHANGED <<channelVars, queued, frame, caller>>

Take(w, c) ==
    /\ worker[w] = "free"
    /\ queued[c] > 0
    /\ queued' = [queued EXCEPT ![c] = @ - 1]
    /\ hand' = [hand EXCEPT ![w] = c]
    /\ WorkerGoes(w, "got")
    /\ UNCHANGED <<channelVars, frame, caller>>

\* Skip what is done, resume() the rest: what waits in co_await comes back from
\* it, whoever queued the handle.
Enter(w) ==
    /\ worker[w] = "got"
    /\ \/ /\ LooksDone(hand[w])
          /\ WorkerGoes(w, "free")
          /\ UNCHANGED channelVars
       \/ /\ LooksAlive(hand[w])
          /\ WorkerGoes(w, "inside")
          /\ \/ /\ pc[hand[w]] \in {"suspended", "requeued"}
                /\ pc' = [pc EXCEPT ![hand[w]] = "done"]
                /\ wakeups' = [wakeups EXCEPT ![hand[w]] = @ - 1]
                /\ UNCHANGED <<lists, closed, value, result>>
             \/ /\ pc[hand[w]] \notin {"suspended", "requeued"}
                /\ UNCHANGED channelVars
    /\ UNCHANGED <<queued, frame, caller, hand>>

WorkerOperates(w) ==
    /\ worker[w] = "inside"
    /\ Operate(hand[w])
    /\ worker' = [worker EXCEPT ![w] = IF pc'[hand[w]] = "suspended" THEN "back" ELSE @]
    /\ UNCHANGED <<caller, hand>>

WorkerEnds(w) ==
    /\ worker[w] = "inside"
    /\ End(hand[w])
    /\ WorkerGoes(w, "back")
    /\ UNCHANGED <<caller, hand>>

\* FAULT: what is not done after resume() is left to what it waits for.
LeaveSuspended(w) ==
    /\ worker[w] = "back"
    /\ WorkerGoes(w, "free")
    /\ UNCHANGED <<channelVars, queued, frame, caller, hand>>

\* Back from resume(): done, or schedule it again.
Back(w) ==
    /\ worker[w] = "back"
    /\ \/ LooksDone(hand[w]) /\ WorkerGoes(w, "free")
       \/ LooksAlive(hand[w]) /\ WorkerGoes(w, "push")
    /\ UNCHANGED <<channelVars, queued, frame, caller, hand>>

WorkerDrives(w) ==
    /\ worker[w] = "push"
    /\ Drive(hand[w])
    /\ WorkerGoes(w, "free")
    /\ UNCHANGED <<frame, caller, hand>>

Worker(w) == Enter(w) \/ WorkerOperates(w) \/ WorkerEnds(w) \/ Back(w) \/ WorkerDrives(w)

-----------------------------------------------------------------------------
\* Threads that call try_send, try_recv and close
Other ==
    /\ \/ \E p \in Pushers : TrySend(p) \/ TrySendRefused(p)
       \/ \E q \in Pollers : TryRecv(q) \/ TryRecvRefused(q)
       \/ \E k \in Closers : CloseMark(k) \/ CloseWake(k)
    /\ Enqueue(Woken)
    /\ UNCHANGED <<frame, caller, workerVars>>

CloseGoesOn(k) == CloseWake(k) /\ Enqueue(Woken) /\ UNCHANGED <<frame, caller, workerVars>>

RuntimeNext ==
    \/ \E c \in Coroutines : Caller(c)
    \/ \E w \in Workers : Worker(w)
    \/ \E w \in Workers, c \in Coroutines : Take(w, c)
    \/ Other

RuntimeSpec == RuntimeInit /\ [][RuntimeNext]_allVars

\* Threads that are inside something go on, and the queue is first in, first
\* out: a handle in it has its turn.  Nobody need begin an operation.
RuntimeFairness ==
    /\ \A c \in Coroutines : WF_allVars(Caller(c) /\ (caller[c] = "inside" => pc[c] # "idle"))
    /\ \A w \in Workers : WF_allVars(Worker(w))
    /\ \A c \in Coroutines : SF_allVars(\E w \in Workers : Take(w, c))
    /\ \A k \in Closers : WF_allVars(CloseGoesOn(k))

RuntimeFairSpec == RuntimeSpec /\ RuntimeFairness

-----------------------------------------------------------------------------
\* Properties

\* The handles of c that a worker holds and has not resumed yet.
Holders(c) == {w \in Workers : hand[w] = c /\ worker[w] = "got"}

\* What Channel counts as wakeups of a coroutine that waits are its entries in
\* the queue and the handles that workers popped: none is lost between the
\* channel and the worker, and none is resumed that was not scheduled
\* (channel.h:70, 478; runtime.cpp:66-120).
WakeupsAreHandles ==
    \A c \in Coroutines :
        pc[c] \in {"suspended", "requeued"} => wakeups[c] = queued[c] + Cardinality(Holders(c))

\* The handle of a coroutine that nobody drives is in one place, the queue or
\* one worker, whatever is driven beside it and whoever reaches the channel
\* while the thread that called it is on its way out (channel.h:160; runtime.cpp:66-120).
OneHandle ==
    \A c \in Coroutines \ Driven :
        queued[c] + Cardinality({w \in Workers : hand[w] = c /\ worker[w] # "free"}) <= 1

\* The queue and the workers do what Channel assumes of the scheduler: every
\* step is one of the channel's or invisible to it, and every handle that the
\* channel or a driver schedules is resumed (runtime.cpp:54-120).
ImplementsChannel == FairSpec

\* Every coroutine whose handle is queued comes to its end, whatever it then
\* waits for (runtime.cpp:112-120).
QueuedEnds == \A c \in Coroutines : queued[c] > 0 ~> frame[c] # "alive"

=============================================================================
