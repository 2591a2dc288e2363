-------------------------------- MODULE Task --------------------------------
(***************************************************************************)
(* tang::task<T> (include/tang/task.h, sleep.h): who owns a coroutine      *)
(* frame, and who else holds its handle.                                   *)
(*                                                                         *)
(* A frame is destroyed by the one task object that owns it: a variable of *)
(* the client, a local of the coroutine that awaits it, or the result of a *)
(* coroutine that returned it (which go(f) makes of an f that returns a    *)
(* task).  The queue, the threads of sleep() and a child's continuation    *)
(* hold bare handles and keep nothing alive.  A handle that is used after  *)
(* its frame is destroyed, or a frame that is destroyed again or under a   *)
(* thread inside it, is undefined in C++: `crashed` ends the behaviour, or *)
(* it goes on.                                                             *)
(*                                                                         *)
(* A coroutine starts in the thread that calls it and runs there up to its *)
(* first suspension (suspend_never): stacks of frames.  Of the scheduler   *)
(* there is a queue, which is a bag, as more than one thread takes from    *)
(* it, and these threads; the module Scheduler has the rest.               *)
(***************************************************************************)
EXTENDS Naturals, FiniteSets, SequencesExt

CONSTANTS
    Frames,     \* coroutine frames, numbered in the order of the calls
    Variables,  \* task objects of the client
    Client,     \* the thread that calls coroutines and owns the variables
    Executors,  \* the scheduler's threads: its workers, and who calls run()
    Turns,      \* bound: suspensions of each coroutine
    MaxQueued,  \* bound: entries of a handle that run() adds to
    NoFrame

Threads == {Client} \cup Executors
Objects == Variables \cup Frames    \* where a task object can be

ASSUME TaskAssumption ==
    /\ Variables \cap Frames = {}
    /\ Client \notin Executors
    /\ Turns \in Nat /\ MaxQueued \in Nat
    /\ Frames \subseteq Nat /\ NoFrame \notin Frames

VARIABLES
    state,        \* "unborn", "running", "suspended", "done", "destroyed"
    ended,        \* the frames that have returned or thrown
    holds,        \* the handle of the task object in each place
    continuation, \* promise: who awaits the frame
    turns,        \* suspensions of each so far
    stack,        \* the frames each thread is inside of, the innermost last
    queued,       \* entries of the frame's handle in the task queue
    sleeping,     \* detached threads that will schedule it
    doubled,      \* history: frames scheduled while somebody had the handle
    reaped,       \* frames that stop() destroyed
    stopped,
    crashed

frameVars == <<state, ended, continuation, turns>>
handleVars == <<queued, sleeping, doubled>>
vars == <<frameVars, holds, stack, handleVars, reaped, stopped, crashed>>

Init ==
    /\ state = [f \in Frames |-> "unborn"]
    /\ ended = {}
    /\ holds = [o \in Objects |-> NoFrame]
    /\ continuation = [f \in Frames |-> NoFrame]
    /\ turns = [f \in Frames |-> 0]
    /\ stack = [t \in Threads |-> <<>>]
    /\ queued = [f \in Frames |-> 0]
    /\ sleeping = [f \in Frames |-> 0]
    /\ doubled = {}
    /\ reaped = {}
    /\ stopped = FALSE
    /\ crashed = FALSE

-----------------------------------------------------------------------------
\* A definition whose comment starts with FAULT is the definition after it with
\* one plausible mistake: Next does not use it, the property it breaks is named
\* in PROJECT.json.

OnTop(t, f) == ~crashed /\ stack[t] # <<>> /\ f = Last(stack[t]) /\ state[f] = "running"

\* f has suspended in the co_await of the task it holds, and goes on there.
Awaiting(f) == holds[f] # NoFrame /\ continuation[holds[f]] = f

\* The code in t whose task object o is: the client, or the body of frame o.
Acts(t, o) ==
    IF o \in Variables THEN t = Client /\ ~crashed /\ stack[Client] = <<>>
                       ELSE OnTop(t, o) /\ ~Awaiting(o)

\* f and the frames that are destroyed with it: what the task object in its
\* frame, or in its result, holds.
Chain(f) == {g \in Frames : \A S \in SUBSET Frames :
                f \in S /\ (\A x \in S : holds[x] # NoFrame => holds[x] \in S) => g \in S}

Inside == UNION {ToSet(stack[t]) : t \in Threads}

\* The destructor of a task object that holds f, in a thread: undefined if f is
\* destroyed already, or somebody is inside it.
Undefined(f) == \E g \in Chain(f) : state[g] = "destroyed" \/ g \in Inside

\* The client's code, or a body, goes on after what may be undefined, or not.
Perhaps(undefined) == crashed' \in IF undefined THEN BOOLEAN ELSE {FALSE}

\* The task object in o is destroyed or overwritten with `new`.
Replace(o, new, gone) ==
    /\ state' = [g \in Frames |-> IF g \in gone THEN "destroyed" ELSE state[g]]
    /\ holds' = [p \in Objects |-> IF p = o THEN new ELSE IF p \in gone THEN NoFrame ELSE holds[p]]

\* Somebody is to resume f: its handle is queued, a sleep() will queue it, or an
\* executor has resumed it and will queue it again.
Resumes(e, f) == stack[e] # <<>> /\ Head(stack[e]) = f
HasDriver(f) == queued[f] > 0 \/ \E e \in Executors : Resumes(e, f)
Known(f) == HasDriver(f) \/ sleeping[f] > 0

\* Code that holds the handle of f gives it to one more that will resume f.
Hands(f) == doubled' = IF Known(f) THEN doubled \cup {f} ELSE doubled

\* runtime::schedule(h): not what is done.
Scheduled(f) == IF state[f] = "done" THEN queued ELSE [queued EXCEPT ![f] = @ + 1]

\* f, innermost in t, gives its thread back to what called or resumed it: its
\* caller, the client, or the executor that resumed it, which queues what is not
\* done (runtime.cpp:112-120).
Leave(t) == stack' = [stack EXCEPT ![t] = Front(@)]

\* FAULT: what suspends is left to what it waits for.
RequeuesNot(t) == FALSE

Requeues(t) == t \in Executors /\ Len(stack[t]) = 1

-----------------------------------------------------------------------------
\* Coroutines start

\* get_return_object, then the body, in the thread of the call.
Call(t, o, f) ==
    /\ Acts(t, o)
    /\ holds[o] = NoFrame
    /\ state[f] = "unborn" /\ \A g \in Frames : g < f => state[g] # "unborn"
    /\ state' = [state EXCEPT ![f] = "running"]
    /\ holds' = [holds EXCEPT ![o] = f]
    /\ stack' = [stack EXCEPT ![t] = Append(@, f)]
    /\ UNCHANGED <<ended, continuation, turns, handleVars, reaped, stopped, crashed>>

-----------------------------------------------------------------------------
\* Coroutines end, or suspend

Finish(f) ==
    /\ ended' = ended \cup {f}
    /\ UNCHANGED <<continuation, turns, handleVars, reaped, stopped>>

\* co_return or an exception: the locals are destroyed, and with them a child
\* that was not awaited.  Nobody looks at the continuation.
End(t, f) ==
    /\ OnTop(t, f) /\ ~Awaiting(f)
    /\ Finish(f)
    /\ Leave(t)
    /\ LET gone == IF holds[f] = NoFrame THEN {} ELSE Chain(holds[f])
       IN  /\ Perhaps(holds[f] # NoFrame /\ Undefined(holds[f]))
           /\ state' = [g \in Frames |-> IF g = f THEN "done"
                                          ELSE IF g \in gone THEN "destroyed" ELSE state[g]]
           /\ holds' = [o \in Objects |-> IF o = f \/ o \in gone THEN NoFrame ELSE holds[o]]

\* co_return child(): the task moves into the result (go_helper::create).
EndWithTask(t, f) ==
    /\ OnTop(t, f) /\ ~Awaiting(f)
    /\ holds[f] # NoFrame
    /\ Finish(f)
    /\ Leave(t)
    /\ state' = [state EXCEPT ![f] = "done"]
    /\ UNCHANGED <<holds, crashed>>

\* f suspends; h is scheduled by what it suspends on, and f by the executor that
\* resumed it.
SuspendAnd(t, f, h) ==
    /\ OnTop(t, f) /\ ~Awaiting(f)
    /\ turns[f] < Turns
    /\ turns' = [turns EXCEPT ![f] = @ + 1]
    /\ state' = [state EXCEPT ![f] = "suspended"]
    /\ queued' = [g \in Frames |->
                     queued[g] + (IF g = h /\ state[g] # "done" THEN 1 ELSE 0)
                               + (IF g = f /\ Requeues(t) THEN 1 ELSE 0)]
    /\ Leave(t)
    /\ UNCHANGED <<ended, holds, reaped, stopped>>

\* co_await yield().
Yield(t, f) ==
    /\ SuspendAnd(t, f, f)
    /\ Hands(f)
    /\ UNCHANGED <<continuation, sleeping, crashed>>

\* co_await sleep(d), in the coroutine that sleep() is: a detached thread.
Sleep(t, f) ==
    /\ SuspendAnd(t, f, NoFrame)
    /\ Hands(f)
    /\ sleeping' = [sleeping EXCEPT ![f] = @ + 1]
    /\ UNCHANGED <<continuation, crashed>>

\* co_await of a child that is not done: await_suspend.
Await(t, f) ==
    /\ holds[f] # NoFrame
    /\ holds[f] \notin ended
    /\ SuspendAnd(t, f, holds[f])
    /\ Hands(holds[f])
    /\ continuation' = [continuation EXCEPT ![holds[f]] = f]
    /\ UNCHANGED <<sleeping, crashed>>

\* await_resume, right away if the child is done, else when somebody has resumed
\* f: the exception or the result, which is an empty optional as long as the
\* child is not done.  The task object, a temporary, is destroyed.
AwaitResume(t, f) ==
    /\ OnTop(t, f)
    /\ LET c == holds[f]
       IN  /\ c # NoFrame
           /\ c \in ended \/ Awaiting(f)
           /\ Perhaps(Undefined(c))
           /\ Replace(f, NoFrame, Chain(c))
    /\ UNCHANGED <<ended, continuation, turns, stack, handleVars, reaped, stopped>>

\* A thread whose innermost frame was destroyed under it.
Stumble(t) ==
    /\ ~crashed /\ stack[t] # <<>> /\ state[Last(stack[t])] = "destroyed"
    /\ crashed' = TRUE
    /\ UNCHANGED <<frameVars, holds, stack, handleVars, reaped, stopped>>

-----------------------------------------------------------------------------
\* Task objects are moved, dropped and run

\* FAULT: other.handle is not set to null.
MoveAssignShared(v, w) ==
    /\ Acts(Client, v)
    /\ v # w /\ holds[w] # NoFrame
    /\ LET gone == IF holds[v] = NoFrame THEN {} ELSE Chain(holds[v])
       IN  /\ Perhaps(holds[v] # NoFrame /\ Undefined(holds[v]))
           /\ Replace(v, holds[w], gone)
    /\ UNCHANGED <<ended, continuation, turns, stack, handleVars, reaped, stopped>>

\* v = std::move(w); or the construction of v from it, when v is empty.
MoveAssign(v, w) ==
    /\ Acts(Client, v)
    /\ v # w /\ holds[w] # NoFrame
    /\ LET gone == IF holds[v] = NoFrame THEN {} ELSE Chain(holds[v])
       IN  /\ Perhaps(holds[v] # NoFrame /\ Undefined(holds[v]))
           /\ state' = [g \in Frames |-> IF g \in gone THEN "destroyed" ELSE state[g]]
           /\ holds' = [o \in Objects |-> CASE o = v    -> holds[w]
                                             [] o = w    -> NoFrame
                                             [] o \in gone -> NoFrame
                                             [] OTHER    -> holds[o]]
    /\ UNCHANGED <<ended, continuation, turns, stack, handleVars, reaped, stopped>>

\* ~task().
Drop(v) ==
    /\ Acts(Client, v)
    /\ holds[v] # NoFrame
    /\ Perhaps(Undefined(holds[v]))
    /\ Replace(v, NoFrame, Chain(holds[v]))
    /\ UNCHANGED <<ended, continuation, turns, stack, handleVars, reaped, stopped>>

\* FAULT: handle = nullptr is missing.
RunTaskKept(t, o) ==
    /\ Acts(t, o)
    /\ holds[o] # NoFrame
    /\ LET f == holds[o]
       IN  \/ /\ state[f] = "done"
              /\ Perhaps(Undefined(f))
              /\ Replace(o, f, Chain(f))
              /\ UNCHANGED <<queued, doubled>>
           \/ /\ state[f] # "done" /\ queued[f] < MaxQueued
              /\ Perhaps(state[f] = "destroyed")
              /\ queued' = Scheduled(f)
              /\ Hands(f)
              /\ UNCHANGED <<state, holds>>
    /\ UNCHANGED <<ended, continuation, turns, stack, sleeping, reaped, stopped>>

\* run(), also by go() and spawn(): what is done is destroyed, the rest scheduled.
RunTask(t, o) ==
    /\ Acts(t, o)
    /\ holds[o] # NoFrame
    /\ LET f == holds[o]
       IN  \/ /\ state[f] = "done"
              /\ Perhaps(Undefined(f))
              /\ Replace(o, NoFrame, Chain(f))
              /\ UNCHANGED <<queued, doubled>>
           \/ /\ state[f] # "done" /\ queued[f] < MaxQueued
              /\ Perhaps(state[f] = "destroyed")
              /\ queued' = Scheduled(f)
              /\ Hands(f)
              /\ UNCHANGED <<state, holds>>
    /\ UNCHANGED <<ended, continuation, turns, stack, sleeping, reaped, stopped>>

-----------------------------------------------------------------------------
\* The threads that hold handles

\* A detached thread has slept.
SleepDone(f) ==
    /\ ~crashed /\ sleeping[f] > 0
    /\ sleeping' = [sleeping EXCEPT ![f] = @ - 1]
    /\ Perhaps(state[f] = "destroyed")
    /\ queued' = Scheduled(f)
    /\ UNCHANGED <<frameVars, holds, stack, doubled, reaped, stopped>>

ExecutorFree(e) == ~crashed /\ ~stopped /\ stack[e] = <<>>

\* FAULT: the handle is not asked whether it is done.
TakeAny(e, f) ==
    /\ ExecutorFree(e)
    /\ queued[f] > 0
    /\ queued' = [queued EXCEPT ![f] = @ - 1]
    /\ \/ /\ state[f] \in {"suspended", "running", "done"}
          /\ crashed' = (state[f] = "running")
          /\ state' = [state EXCEPT ![f] = "running"]
          /\ stack' = [stack EXCEPT ![e] = <<f>>]
       \/ /\ state[f] = "destroyed"
          /\ crashed' \in BOOLEAN
          /\ UNCHANGED <<state, stack>>
    /\ UNCHANGED <<ended, continuation, turns, holds, sleeping, doubled, reaped, stopped>>

\* FAULT: the handle stays in the queue.
TakeKeeping(e, f) ==
    /\ ExecutorFree(e)
    /\ queued[f] > 0
    /\ UNCHANGED queued
    /\ \/ /\ state[f] \in {"suspended", "running"}
          /\ crashed' = (state[f] = "running")
          /\ state' = [state EXCEPT ![f] = "running"]
          /\ stack' = [stack EXCEPT ![e] = <<f>>]
       \/ /\ state[f] \in {"done", "destroyed"}
          /\ Perhaps(state[f] = "destroyed")
          /\ UNCHANGED <<state, stack>>
    /\ UNCHANGED <<ended, continuation, turns, holds, sleeping, doubled, reaped, stopped>>

\* An executor takes a handle from the queue and resumes what is not done, also
\* what another thread is inside of: that is undefined, and followed no further
\* than to where both are inside.
Take(e, f) ==
    /\ ExecutorFree(e)
    /\ queued[f] > 0
    /\ queued' = [queued EXCEPT ![f] = @ - 1]
    /\ \/ /\ state[f] \in {"suspended", "running"}
          /\ crashed' = (state[f] = "running")
          /\ state' = [state EXCEPT ![f] = "running"]
          /\ stack' = [stack EXCEPT ![e] = <<f>>]
       \/ /\ state[f] \in {"done", "destroyed"}
          /\ Perhaps(state[f] = "destroyed")
          /\ UNCHANGED <<state, stack>>
    /\ UNCHANGED <<ended, continuation, turns, holds, sleeping, doubled, reaped, stopped>>

\* runtime::stop, when the executors have been joined: the queued coroutines are
\* destroyed, whoever owns them.
StopRuntime ==
    /\ ~crashed /\ ~stopped /\ \A t \in Threads : stack[t] = <<>>
    /\ stopped' = TRUE
    /\ LET pending == {f \in Frames : queued[f] > 0}
           roots   == {f \in pending : state[f] # "done"}
           gone    == UNION {Chain(f) : f \in roots}
       IN  /\ Perhaps(\/ \E f \in roots : Undefined(f) \/ queued[f] > 1
                      \/ \E f \in roots, g \in pending : g # f /\ g \in Chain(f))
           /\ state' = [g \in Frames |-> IF g \in gone THEN "destroyed" ELSE state[g]]
           /\ holds' = [o \in Objects |-> IF o \in gone THEN NoFrame ELSE holds[o]]
           /\ reaped' = reaped \cup roots
    /\ queued' = [f \in Frames |-> 0]
    /\ UNCHANGED <<ended, continuation, turns, stack, sleeping, doubled>>

-----------------------------------------------------------------------------
Body(t) ==
    \/ \E f \in Frames : End(t, f) \/ EndWithTask(t, f) \/ AwaitResume(t, f)
                        \/ Yield(t, f) \/ Sleep(t, f) \/ Await(t, f)
    \/ \E o, f \in Frames : Call(t, o, f)
    \/ \E o \in Frames : RunTask(t, o)
    \/ Stumble(t)

ClientStep ==
    \/ \E v \in Variables, f \in Frames : Call(Client, v, f)
    \/ \E v, w \in Variables : MoveAssign(v, w)
    \/ \E v \in Variables : Drop(v) \/ RunTask(Client, v)

Next ==
    \/ ClientStep
    \/ \E t \in Threads : Body(t)
    \/ \E f \in Frames : SleepDone(f)
    \/ \E e \in Executors, f \in Frames : Take(e, f)
    \/ StopRuntime

Spec == Init /\ [][Next]_vars

\* Bodies go on, and a queued handle is taken in its turn: the queue is first in,
\* first out.  The client need not do anything, nor stop the runtime.
Fairness ==
    /\ \A e \in Executors : WF_vars(Body(e))
    /\ \A f \in Frames : SF_vars(\E e \in Executors : Take(e, f))

FairSpec == Spec /\ Fairness

-----------------------------------------------------------------------------
\* Properties

Born == {f \in Frames : state[f] \in {"running", "suspended", "done"}}

Owners(f) == {o \in Objects : holds[o] = f}

\* A frame that is not destroyed has one task object, which is not itself in a
\* destroyed frame: it will be destroyed once, through moves, co_await of
\* temporaries, results that are tasks, run() and unwinding (task.h:58-82, 104, 113-121).
OneOwner == \A f \in Born : Cardinality(Owners(f)) = 1 /\ f \notin reaped

\* No task object holds a destroyed frame, but for frames that stop() destroyed
\* in the queue without their owners' knowledge (runtime.cpp:371-376).
OnlyStopLeavesOwners == \A f \in Frames : state[f] = "destroyed" /\ Owners(f) # {} => f \in reaped

\* A coroutine that has ended is never inside a thread again, however often its
\* handle is queued; and a coroutine is inside two threads only if somebody
\* scheduled it who was not alone in holding its handle: yield() and sleep() in a
\* coroutine that an executor resumed, co_await of a child that has suspended
\* already, run() of what is queued.  What only waits for its children and is run
\* once stays in one thread (runtime.cpp:85-120; runtime.h:41; task.h:87-91, 113-127).
InsideOnce ==
    /\ Inside \cap ended = {}
    /\ \A t, u \in Threads : \A i \in DOMAIN stack[t], j \in DOMAIN stack[u] :
           stack[t][i] = stack[u][j] /\ <<t, i>> # <<u, j>> => stack[t][i] \in doubled

\* A coroutine whose handle is queued once is driven to its end, whatever it
\* waits for, unless somebody destroys it or stops the runtime (runtime.cpp:112-120).
DrivenEnds ==
    \A f \in Frames : queued[f] > 0 ~> (state[f] \in {"done", "destroyed"} \/ stopped \/ crashed)

=============================================================================
