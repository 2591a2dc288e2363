# Tang in TLA+

Tang is a C++20 coroutine library with Go-like channels, a multi-threaded
scheduler, `select`, an event loop and a runtime scope. This directory holds
TLA+ modules of its core, the TLC configurations that check them on small
instances, and theorems that TLAPS proves for every instance. All paths below
are relative to the repository; `channel.h`, `task.h` ... are in `include/tang/`
and `runtime.cpp` ... in `src/`.

## The system

| Component | State | Operations |
|---|---|---|
| channel (`channel.h`) | `buffer_`, `closed_` (atomic), `send_waiters_`, `recv_waiters_`, one mutex; in each awaiter its value and `result_` | `try_send`, `try_recv`, `<<`, `>>`, `co_await send/recv` (await_ready, then `register_*_waiter`), `close`, the destructor |
| scheduler (`runtime.h`, `runtime.cpp`) | `task_queue_`, `queue_mutex_`, `queue_cv_`, `running_`, `active_tasks_`, worker threads | `init`, `run`, `stop`, `schedule`, `task_started`, `task_completed`, `yield` |
| global runtime (`runtime.cpp:460-551`) | `g_scheduler` | `init`, `run`, `stop`, `schedule` and the two task counters, each creating the scheduler if there is none |
| task (`task.h`) | a coroutine frame owned by one `task` object: result, exception, continuation | call (starts at once), `run`, `co_await`, move, destruction; `go`, `spawn` |
| sleep (`task.h:235`, `sleep.h`) | a detached thread that holds a handle | `co_await sleep(d)` |
| select (`select.h`) | the cases, their shuffled order | `select` (polls), `co_select` (awaiter), the default case |
| event loop (`event_loop.cpp`) | `running_`, timers, descriptors, a poller | `run`, `stop`, `add_timer`, `cancel_timer`, `add_event` ... |
| event poller (`event_poller_linux.cpp`, `event_poller_win.cpp`) | registrations with the kernel | `register`, `modify`, `delete`, `wait` |
| runtime scope (`runtime_scope.h`) | `instance_count_`, two flags, `has_run_` | construct, `run`, destruct |
| defer, logger | a callback; an output stream | not concurrent |

How they interact:

- A coroutine runs in whatever thread calls or resumes it. A task starts when
  its function is called (`suspend_never`), so its first part runs in the
  caller, and only what follows its first suspension is the scheduler's.
- A channel wakes a waiter by writing to the waiter's awaiter through raw
  pointers and calling `runtime::schedule(handle)`, all under its own mutex.
- `schedule` counts the task, queues the handle and notifies one thread. A
  thread (worker, or the one in `run()`) takes a handle, resumes it, and either
  counts a completion or **schedules it again, whatever it waits for**.
  `task<T>::run` does the same for a task that suspended in its caller. A
  coroutine that waits for a channel is therefore in the channel's list and in
  the queue at the same time.
- `run()` gives up after a number of idle rounds; `stop()` joins the workers and
  destroys what is still queued.
- `select` polls channels through `is_empty`, `is_full` and `try_*`; the
  scheduler owns an event loop that it only ever stops.

What is hard in it: `co_await` on a channel is two critical sections;
`close()` sets its flag before it locks; a handle may be queued more than once;
`active_tasks_` is tested and changed in separate accesses, and apart from the
queue; `running_` is changed without the mutex that the waiting workers hold;
waiters and queued handles point into frames that others own. `PROJECT.json`
lists each of these hazards at its line.

What makes each part correct:

- channel: a value is received at most once and lost only where the code says so; a sender
  and a receiver never wait at the same time; a waiter in a list belongs to a
  suspended coroutine; everyone who waits is woken once; `close()` admits nothing
  and releases everybody; `recv` tells the truth; values keep their order.
- scheduler: a queued handle is resumed, once, by one thread; the count covers
  what is pending; no sleeping worker misses work or the stop; `run()` and
  `stop()` end; nothing destroyed is used.
- task: one object owns a frame and destroys it once; no thread is inside a
  coroutine after its end, nor two where one handle is passed on; what is driven ends.
- select: at most one case takes effect, and none only when somebody else was faster
  or a channel was closed; a select that can proceed does.
- event loop and poller: a timer fires once, not after it was cancelled; the wait
  is no longer than the soonest timer has left; the poller's map agrees with the
  kernel's list; an event goes to whom it belongs; `stop` is heeded.
- runtime scope: the scheduler exists from the first scope to the last, nobody is
  inside a deleted one, and none is lost.

## Modules

| Module | What it is |
|---|---|
| `Channel` | `channel<T>` in full: every operation of every kind of caller |
| `ChannelContract` | what a channel promises of its values, as an abstract specification |
| `ChannelOrder` | `Channel` with a history of the order of values |
| `ChannelClaims` | what docs, comments and tests say of a channel and the code does not do |
| `MCChannel` | the refinement `Channel` => `ChannelContract`, and the module of the channel runs |
| `ChannelProofs` | types; nobody waits in vain; what `close()` leaves; each value is in one place |
| `ChannelContractProofs` | `Channel` implements `ChannelContract`; what becomes of its values, and what `recv` says of them; waiters are suspended and woken once |
| `Scheduler` | the class `scheduler`: workers, `run()`, `stop()`, `schedule()`, `yield()`, the effect of `task<T>::run` and `task<void>::run` on it |
| `TaskQueue` | what a scheduler promises of the handles it is given, as an abstract specification |
| `SchedulerQueue` | the refinement `Scheduler` => `TaskQueue` |
| `MCScheduler` | which coroutine each client thread schedules, and the module of the scheduler's run |
| `SchedulerClaims` | what a comment says of the count of tasks and the code does not do |
| `SchedulerProofs` | where each thread can be; queued work is seen; `stop()` misses nobody; it implements `TaskQueue`; which handles are in one place; what the count covers; what is destroyed is left alone |
| `ChannelRuntime` | `Channel` whose coroutines are called by threads and resumed by the workers' loop, through the queue |
| `MCChannelRuntime` | the instance of its run |
| `ChannelRuntimeProofs` | it implements `Channel`, and `TaskQueue`; no handle is lost between channel, queue and workers |
| `Select` | `select()` and `co_await co_select()` over two instances of `Channel` |
| `MCSelect` | the cases of each select, and the module of its run |
| `SelectProofs` | a select uses its channels as `Channel` allows, has one effect, and misses only for a reason; on top of `ChannelContractProofs`, once for each channel |
| `Task` | `task<T>`: who owns a coroutine frame, who else holds its handle, who is inside it |
| `MCTask` | the instance of the task run |
| `TaskProofs` | a frame has one owner; only `stop()` destroys what is owned; what has ended is inside no thread, and which coroutines are inside one at most; who is driven stays driven |
| `EventPoller` | `epoll_event_poller` beside the kernel's interest list |
| `EventLoop` | `event_loop` over `EventPoller`: timers, the wait, the dispatch of events |
| `MCEventLoop`, `EventLoopClaims` | the instance of the loop's run; what `doc/Arch.md` says of timers and the code does not do |
| `EventLoopProofs` | map and interest list agree, timers fire once, events are current, waits are short enough |
| `RuntimeScope` | `RuntimeScope` and the functions of `namespace runtime` over `g_scheduler` |
| `MCRuntimeScope` | the instance of its run |
| `RuntimeScopeProofs` | with one user: calls reach a scheduler that exists, open scopes have one, none is lost |

A definition whose comment starts with `FAULT` is a plausible mistake in the
definition that follows it. No specification uses it; `PROJECT.json` pairs it
with the property it breaks, so that every property is known to be able to fail.

### Channel

A *party* performs one operation. Senders and Receivers are coroutines in
`co_await send/recv`; Pushers and Pollers call `try_send`/`try_recv` (`<<`
and `>>` are one such call) and may retry when refused; Closers call `close()`.
A value has the name of the party that sends it. A function that holds the
mutex is one step; between its two steps a `co_await` has `pc = "unready"`,
and between its flag and its lock a `close()` has `pc = "closing"`.

| Code | Action |
|---|---|
| `try_send` (264-346) | `CanPush`, `Push`; by `SendReady`/`SendUnready` (await_ready) and `TrySend`/`TrySendRefused` |
| `try_recv` (372-440) | `CanPop`, `Pop` (with the promotion of a registered sender into the buffer); by `RecvReady`/`RecvUnready`, `TryRecv`/`TryRecvRefused` |
| `register_send_waiter` (465-493) | `SendSuspend` |
| `register_recv_waiter` (496-527) | `RecvSuspend` |
| a push or a registration serves a receiver (278-294, 478-487); `recv_waiter::resume` (84-103) | `HandOff`; in it `Answer`: value and `result_` written, before the handle is scheduled |
| `close` (530-559) | `CloseMark`, `CloseWake` |
| the scheduler resumes a handle it was given | `Resume` |
| `task<T>::run`, and the thread that resumed a coroutine, queue one that waits | `Requeue`, for the coroutines in `Driven` |

`Driven` separates two ways in which the code uses a channel. A coroutine that is
called and kept, and not `run()`, is woken by its channel alone until it has
come back from its first wait; for those the waiter protocol is as `channel.h`
means it, whatever the others do. A coroutine that the runtime drives is queued
again as soon as it waits. For those `claim_resumed_by_awaiter` shows that
`co_await` returns early, with the waiter still in the list. A value that is then handed
to that waiter is lost: nobody reads `result_` again, and what is written goes to an
awaiter that is gone. `NothingLost` counts a value as received only when a call says so
(`Received`), names those values (`Astray`) and allows no other loss. Both kinds of
coroutines are mixed in the instances, and the rest holds of both: each value is in
one place, both sides never wait together, `close()` releases everybody.

`ChannelContract` sees where a value was written (`got`), not whether anybody looks.

`wakeups[c]` stands for `c`'s entries in the task queue and the workers' hands,
and `Resume` and `Requeue` for all that the runtime does with them. That the runtime
does just that is what `ChannelRuntime` is about.

### Scheduler

Threads: Workers (the loop of `init`), Main (`run()`, then `stop()`), Wakers
(other callers of `runtime::schedule`), Spawners (callers of `task<T>::run`, or of
`task<void>::run` for the coroutines in `Void`). Each access to `active_tasks_`,
`running_` or, outside the mutex, `task_queue_` is a
step of its own; a critical section is one step. The one exception is a worker's
`wait`: its predicate reads `running_`, which the mutex does not protect, so
`qlock` records a worker that has read it and not yet blocked.

| Code | Action |
|---|---|
| `init` 39-55; 54, 57-73, 75-79 | `MainRun`; `WorkerLoop`, `WorkerFetch`/`WorkerBlock`, `WorkerRecheck` (which drops a handle it already popped) |
| dispatch, resume, re-schedule (81-121, 178-220) | `Dispatch`, `Finish` or `Suspend`, `AfterResume` |
| `schedule` 390-418; `yield` (`runtime.h:29-48`) | `ScheduleCount`, `SchedulePush`; entered from `yield` while the coroutine suspends |
| `task_completed` 442-456 | `CompleteTest`, `Decrement` |
| `run` 154; 162-176; 222-235; 246-288 | `MainTestActive`, `MainTestQueue`; `MainTake`, `MainTimeout`; `MainProgress`, `MainProgressQueue`; `MainDrain`, `MainDrainActive`, `MainDrainCheck`, `MainDrainTake` |
| `stop` 314-384 | `StopMark`, `StopNotify`, `StopJoin`, `StopDestroy`, `StopReset` |
| `task<T>::run` (`task.h:107-132`), `task<void>::run` (221-233) | `Spawn` with `Started`, `Release` |

Two threads inside one coroutine, and a destroyed coroutine that is used, are
undefined in C++. The model lets each thread go on to any end that a coroutine
can come to; no passing property is stated of such states except those that
should hold regardless (the run ends, nobody sleeps through the stop).

`Finished` are coroutines that came to their end in the thread that called them, as
those of `go()` and `spawn()` always do (`go_helper::create` never suspends): for
them `run()` reports a completion that nobody counted, and frees the frame.
`task<T>::run` counts a task that has suspended twice, `task<void>::run` once (`Started`).

`TaskQueue` is what is left of all this to one who hands a handle in: it is queued as
often as it was submitted, an executor takes it, and gives it back unless the coroutine
is over; only a stopped scheduler may drop what was taken, and only one in whose
executors nothing is left destroys what is queued. `SchedulerQueue` says where that is in
`Scheduler`: `AtWork` is the handle that a thread answers for, from the pop to the push of
`schedule()` or to the moment it found the coroutine done. A submission may come from anybody,
also from inside the coroutine (`yield`), so that `queued` counts: `HandledOnce` says for
which coroutines it never exceeds one.

Unmodelled in it: exceptions out of `resume()` (a task's promise catches them
all), an invalid handle, thread creation that fails, a second `run()` or `stop()`
(`RuntimeScope` has those, with less of each), `wait_for_completion` (no callers)
and the event loop that `stop()` stops.

### Channel and workers

`ChannelRuntime` extends `Channel`: its variables and the steps of its callers are
the channel's, but a coroutine operates only in a thread that is inside it, every
handle that a critical section schedules goes into the queue, and what `Channel`
does by `Resume` and `Requeue` is done by a worker's loop and by `task<T>::run`.

| Code | Action |
|---|---|
| a call of the coroutine, up to its first suspension or its end (`task.h:34-49`) | `CallerOperates`, `CallerEnds` |
| `task<T>::run` of a task in `Driven` (`task.h:107-132`) | `RunTask`, then `CallerDrives` |
| `runtime::schedule` by `recv_waiter::resume`, `send_waiter::resume`, `close` | `Enqueue` of whom the step woke |
| `scheduler::schedule` (390-418) by a thread that drives a coroutine | `Drive` |
| the worker loop: 57-73; 81-101; the coroutine; 112-120 | `Take`; `Enter`; `WorkerOperates`, `WorkerEnds`; `Back`, `WorkerDrives` |
| `try_send`, `try_recv`, `close` by other threads | `Other` |

`Late` coroutines have waited for something else before (a sleep), so that
their operation begins on a worker, who then drives them; the others begin in the
thread that calls them. The waiter is in the channel before that thread, or that worker, is back
from `co_await`: the steps of others come in between.

The queue is a bag, as in `Task`; `running_`, the condition variable, the count of tasks and
`run()`'s own loop are in `Scheduler` alone. A frame that `run()` has destroyed and that a
worker still looks at gives either answer, and its memory is not used again.

### Select

Two channels are two instances of `Channel`, with all its operations for the
parties that are no cases. A case *is* a party of its channel, a send case a
Pusher and a receive case a Poller, so that executing it is `TrySend`, `TryRecv`
or their refusal. The shuffle before each round is the free choice of the next
case. `is_empty()`/`is_full()` and `is_closed()` are two accesses of `try_ready`;
the flag never falls, so that their outcome is one that a single look gives, and
`Ready` is one.

| Code | Action |
|---|---|
| `select` 254-271, `co_select` | `Begin` |
| `try_ready` of a case; 273-274, 293-294, 177-178, 200-201 | `Pass` or `Choose` |
| `try_execute` and the return after it | `Execute` |
| the end of a round: the busy wait (288-302), or `await_suspend` (187-214) and then nothing | `EndRound` |
| `await_resume` of a coroutine that its driver resumes | `Redriven` |

`wake_up` has no callers. That callbacks run after a successful operation is part
of `Execute`.

### Task

A frame is `unborn`, `running` (it is in the stack of a thread), `suspended`,
`done` or `destroyed`. `holds` says which task object owns it: a variable of the
client, or the one in the frame of another coroutine, as its local or its result.
Threads, queue entries and continuations are bare handles. Destroying a frame
destroys what the objects in it own (`Chain`). Undefined behaviour (a destroyed
frame used, a frame destroyed under a thread inside it) sets `crashed`, or goes
on: both are behaviours. An executor that takes a handle resumes whatever is not done,
also what another executor is inside of: `crashed` is set, and the behaviour ends
there, with both inside. `doubled` is a history variable: the frames whose handle somebody gave
away (`Hands`) while it was queued, asleep or with an executor that will queue it.

| Code | Action |
|---|---|
| a call of a coroutine function (`task.h:29-44`) | `Call` |
| `co_return`, an exception; a result that is a task (`go_helper`) | `End`; `EndWithTask` |
| `co_await` of a task (84-105) | `Await`, `AwaitResume` |
| `yield`; `sleep` and its detached thread (`task.h:235`, `sleep.h`) | `Yield`; `Sleep`, `SleepDone` |
| move, destructor (52-82) | `MoveAssign`, `Drop` |
| `run`, `go`, `spawn` (107-132) | `RunTask` |
| one of the scheduler's threads resumes a handle, and queues what is not done (`runtime.cpp:81-121`) | `Take`, and `SuspendAnd` |
| `stop` destroys what is queued (361-384) | `StopRuntime` |

The queue is a bag here, since with several threads the order in which handles are
*resumed* is not that of the queue; `Scheduler` has the queue as a list.

### Event poller and event loop

`EventPoller` has the poller's map (`sourceOf`) beside what the kernel keeps
(`watched`, `interest`, `ready`) and the operations on both, with descriptors that
are closed behind its back and whose numbers come back. Readiness is
edge-triggered, as `to_epoll_events` asks for. `EventLoop` extends it with the loop.
Time is counted in ticks, several to a millisecond, so that the rounding of
`duration_cast` shows; `ToInt` is the cast to the `int` that `epoll_wait` takes.

| Code | Action |
|---|---|
| `register_event`, `modify_event`, `delete_event` | `RegisterEvent`, `ModifyEvent`, `DeleteEvent`, in `Subscribe`, `Unsubscribe` |
| `wait` of the poller | `EnterWait`, then `WaitDelivers`, `WaitEnds` or `WaitInterrupted` |
| `add_timer`, `cancel_timer` | `AddTimer`, `CancelTimer` |
| `run`, its test of `running_` | `Run`, `Loop` |
| `handle_timers`, one timer at a time; the callback | `VisitTimer`; `CallbackReturns` |
| the loop over the events; `on_event` | `Dispatch`; `EventReturns` |
| `stop` | `Stop` |
| time, the kernel, other users of descriptors | `TickClock`, `Readiness`, `CloseDescriptor`, `OpenDescriptor` |

`AddTimer`, `CancelTimer`, `Subscribe` and `Unsubscribe` are calls of the loop's own
thread, between the start and the return of a callback or before `run()`: the code
locks neither `timers_` nor `fd_to_source_`, so that a call from elsewhere is a data
race. Excluded as well, because it is undefined at once: a callback that cancels
the timer it belongs to.

### Runtime scope

`RuntimeScope` has the scopes' counter and flags, `g_scheduler`, the life of every
scheduler that is made, and for each thread where it is in `init`, `stop`, `run` or a
call. Of a scheduler it keeps what others see: it runs or not, whose threads the
workers are, who is inside it.

| Code | Action |
|---|---|
| constructor, destructor, `run` (`runtime_scope.h:34-95`) | `Open`, `Raise`; `Close`, `Lower`; `ScopeRun` |
| `init` (`runtime.cpp:460-475`) | `InitStart`, the actions of `stop`, `Create` |
| `stop` (490-502), `scheduler::stop` | `StopStart`, `Mark`, `Join`, `Free` |
| `run` (477-488) | `Run`, `Start`, `Leave` |
| `schedule`, `task_started`, `task_completed` (504-551) | `CallTest`, `CallEnter`, `Leave` |
| a worker leaves its loop | `WorkerExit` |
| `init`, `run`, `stop` without a scope | `Direct` |

`Spec` has the detached threads of `sleep()` (`Late`) at any time, as the code does. The properties
are stated of `TimelySpec`, of programs in which none of them is in a call while there is no
scheduler or one is deleted (`SleepersInTime`): the code leaves that to its user.

## Runs

| Run | Instance | Shows |
|---|---|---|
| `channel_rendezvous` | capacity 0; 2 senders, 2 receivers (one of each driven), a pusher, a poller, 2 closers | `OneSideWaits`, `ClosedQuiet`, `ClosedReleases` |
| `channel_buffered` | capacity 1; 2 senders, 2 receivers (one of them driven), 2 pushers, a poller, 2 closers | `TypeOK`, `ExactlyOnce`, `NothingLost`, `WaiterIsSuspended`, `WokenOnce`, `RecvTruth`, `ClosedAdmitsNothing`, and `KeepsContract`: every step is a step of `ChannelContract` |
| `scheduler` | a worker and `run()`; a coroutine that a waker schedules, a `task<void>` that yields and is `run()`, a finished task that is `run()`, as by `go()`; spurious wakeups | `PendingCounted`, `HandledOnce`, `NoUseAfterDestroy`, `WorkIsSeen`, `NobodySleepsThroughStop`, `RunStopEnds`, and `KeepsHandles`: every step is a step of `TaskQueue` |
| `select_poll` | two channels of capacity 1; a select over both, a `co_select`, a select with a default; a sender, a receiver, 2 closers | `OneEffect`, `MissesOnlyWithRivals`, `SelectReturns` |
| `task` | 2 frames, 2 variables, 2 executors; each frame suspends twice | `OneOwner`, `OnlyStopLeavesOwners`, `InsideOnce`, `DrivenEnds` |
| `event_loop` | 2 timers; 3 sources, two of them on one descriptor that is closed and reused | `Armed`, `FiresOnce`, `StaleOnlyInBatch`, `WaitsForTheSoonest`, `TimersFire`, `StopIsHeeded` |
| `runtime_scope` | a user with 3 scopes, 2 workers, a thread of `sleep()`, 3 schedulers; `TimelyFairSpec` | `NoCallIntoDeleted`, `SchedulerWhileScope`, `NoOrphan`, `UserGoesOn` |
| `runtime` | capacity 0; a sender that begins on a worker, a receiver that its channel alone resumes, one that is `run()`, a closer; 2 workers | `WakeupsAreHandles`, `OneHandle`, `QueuedEnds`, and `ImplementsChannel`: `Channel!FairSpec` with its fairness |
| `claim_fifo` | capacity 1 | `Fifo` fails |
| `claim_resumed_by_awaiter` | a driven receiver | `ResumedByAwaiter` fails |
| `claim_every_timer` | as `event_loop` | `EveryTimerFires` fails |
| `claim_pending` | as `scheduler` | `CountedWhilePending` fails |

### Bounds

- Capacity 0 and 1 are the two regimes of the code: a full buffer is a constant,
  or depends on its content; at 1 a promotion refills the buffer it just
  emptied. Two parties per side give lists of length two, so that order and
  identity in a list matter, and a party outside it that races; a second closer
  is the destructor's. A party performs one operation: the channel keeps nothing
  of a party beyond its operation.
- `Turns` bounds the suspensions of a coroutine (1: it suspends, is queued again,
  and ends). `MaxNoProgress` and `DrainRounds` stand for 500 and 100 rounds and
  are 1 or 2: the code compares a counter with them and does nothing else, and
  every wait before them is a nondeterministic time-out. One worker beside `run()` are
  two threads that take from the queue, enough for two entries of one coroutine to be
  taken at once and for a wakeup that goes to the wrong thread; a second worker
  would add ten million states, and is in the theorems. One coroutine is scheduled by
  a waker, so that `Single` is not empty, one by its `yield` and its driver, and one is done at
  its `run()`. That `task<T>::run` counts twice is in the theorems, not in the instance.
- In `select_poll` one channel is used by the receive case alone on its side, so
  that `MissesOnlyWithRivals` says something, and the other is contended.
- `task`: two frames are a parent and its child, in any of the places a task object
  can be; with two suspensions each the driver comes back to the parent before and
  after the child has ended. Two executors are what it takes to be inside one coroutine
  twice: the instance reaches that, by a `yield`. `MaxQueued` bounds what `run()` adds to the queue.
- `event_loop`: `Tick = 2` makes half a millisecond, which rounds to none; one timer
  expires within the first millisecond and one after it; `MaxScan = 1` lets a tick
  pass between two timers of one scan, so that the `now` of `handle_timers` is old.
  `IntMax = 3` is beyond every delay here: that a longer delay is cast to a negative
  time is stated by the assumption of a theorem (below). `Reused` is the one descriptor whose
  number comes back, as that of the next source. One mask and one signal are
  enough, since no property tells event types apart.
- `runtime_scope`: three scopes overlap in every order that one thread can make;
  three schedulers are one for the scopes, one made by a call after the last of them, and
  one that replaces it. A single user, and a thread of `sleep()` that is in time, are not bounds but
  conditions: see 5 below.
- `runtime`: one coroutine of each way to be resumed, so that the late one is woken by its
  channel while a worker is about to queue it, and two workers so that both entries
  are taken at once. Threads outside reach the scheduler only by the handles they
  queue, as `close()` does; `try_send` and `try_recv` from outside are in the theorems
  about `ChannelRuntime`, not in the instance.
- No symmetry is declared: most runs check liveness or actions, and the instances
  are small enough without.
- Deadlock is not checked: parties that have done their operation, a channel
  nobody closes and a stopped scheduler rightly do nothing more. That threads do
  not all wait forever is what the liveness properties say.

### Fairness

`Channel!Fairness`: a thread inside `await_suspend` or `close()` goes on; a driver
queues the coroutine it drives; a scheduled handle is resumed. The last is
what `WorkIsSeen` shows of the scheduler while it runs. Nobody is obliged to start an
operation. Weak fairness is enough because each of these steps, once enabled,
stays enabled until it is taken (the mutex is free between steps).

`ChannelRuntime!RuntimeFairness`: the thread that calls a coroutine, a worker with a
handle and a `close()` go on, and a handle in the queue is taken in its turn (strong fairness,
since workers are free again and again and the real queue is first in, first out). Nobody
is obliged to begin an operation. `ImplementsChannel` derives from it the fairness that
`Channel` assumes of its scheduler.

`Scheduler!Fairness`: each thread that has begun something goes on with it; nobody is
obliged to call `run()`, `schedule()` or `task<T>::run`. Spurious wakeups of a
condition variable are allowed, but not for ever. That is weak fairness per
thread, which an operating system gives; no fairness among the waiters of
`queue_cv_` is assumed, so `notify_one` may choose any of them.

`EventLoop!Fairness`: the thread in `run()` goes on, callbacks return, timed waits
end, and time passes. Nothing else is obliged to happen: a loop without timers waits
for ever.

`Task!Fairness`: the body that an executor is inside goes on (it
suspends at most `Turns` times), and an entry of the queue is taken in its turn by
one of them: strong fairness, since they are free again and again and the real queue
is first in, first out, so that no entry is passed over for ever. The client is
obliged to nothing.

`RuntimeScope!Fairness`: threads go on with what they began, calls return. A worker
looks at `running_` between two coroutines, hence strong fairness of `WorkerExit`:
it is enabled again and again between its calls into the runtime. A thread of `sleep()`
calls once, so that it does not hold up a deletion for ever.

`Select!Fairness`: a thread inside `select()` goes on. The other users of the
channels are obliged to nothing.

### Types

`channel_buffered` checks `TypeOK` of `Channel`; the type invariants of `Scheduler`,
`Select` and `EventLoop` are not checked again by TLC, since they are proved (below).

## Where the code does something else

With a run each:

1. **Order** (`claim_fifo`). `register_recv_waiter` does not look at the buffer,
   and `try_send` serves a registered receiver before the buffer: a value that is
   buffered between a receiver's two critical sections is overtaken by the next
   one. Without a next value the receiver stays suspended next to the first.
   `channel.h:239`, "Use list for FIFO".
2. **`co_await` returns early** (`claim_resumed_by_awaiter`). `runtime.cpp:118`
   and `219` schedule a coroutine that waits for a channel: `recv` returns
   false on an open channel, and the channel keeps pointers into an awaiter that is
   gone. `runtime_scope.h:84`, "coroutines will properly suspend/resume via awaiters".
3. **A timer that no wait counts** (`claim_every_timer`). A callback of
   `handle_timers` may add a timer behind the iterator; the minimum of
   `event_loop.cpp:95-110` misses it, and with no other timer the poller waits
   without end. `doc/Arch.md:337`.
4. **An uncounted completion** (`claim_pending`). `go()` and `spawn()` run a task that is done
   already, and `run()` then calls `task_completed()` (`task.h:117`, `226`) though no
   `task_started()` and no `schedule()` counted it: the count that covered a queued handle is
   gone. `runtime.cpp:407`, "This ensures that active_tasks_ > 0 when there are pending
   tasks in the queue". `PendingCounted` says what is left: the count is short by no more
   than the number of such calls (`Uncounted`).

Met while modelling, without a run:

5. *Runtime scope.* Two threads that open and close scopes, or a thread of `sleep()`
   that wakes after the last scope closed or is in a call when it closes, break all three invariants of
   `runtime_scope`: the count and the initialisation are two steps
   (`runtime_scope.h:36-39`), and nothing locks `g_scheduler`. A late `schedule()` makes a
   scheduler that nobody runs.
6. *Scheduler.* Every suspension leaves `active_tasks_` one too high, because
   `schedule` counts again (`runtime.cpp:118-119`, `408`), so `run()` usually ends
   by its idle bound, also while a worker is inside a coroutine; `task_completed()`
   tests and decrements in two accesses, so that two threads that read 1 take it below
   zero (`runtime.cpp:444`, "Only decrement if active_tasks_ > 0 to avoid underflow"); one `yield()` makes two
   queue entries, since the thread that resumed the coroutine queues it
   as well; a worker that popped a handle and sees the stop drops it (75-79);
   `stop()` asks `done()` of a handle it destroyed an iteration before, when that
   was queued twice (371-374), and returns before it destroys anything when the scheduler
   was never run.
7. *Channel.* When `register_send_waiter` finds a receiver it resumes the receiver and
   returns (479-487), and nobody schedules the sender; only a driver brings it back.
   A value handed to the waiter that a driven receiver left behind is lost (item 2), where
   `doc/Arch.md:198` has a waiting receiver get it ("直接传递给接收者").
   A driven coroutine that its channel wakes as well has two entries, which two workers may resume at
   once; and if it ends on a worker while `task<T>::run` looks at it, `run()` destroys the
   frame (`task.h:118`) that the worker then asks `done()` of (`runtime.cpp:113`).
8. *Task.* A coroutine that yields, or that is run or awaited while it is queued already, can be
   inside two workers at once: `yield()` queues it and the worker that resumed it queues it
   as well, and a worker asks no more than `done()` (`runtime.cpp:85`, `runtime.h:41`).
   `stop()` destroys queued frames that task objects still own, which destroy them
   again (`doc/Arch.md:403` has the task's destructor alone destroy a frame); a second
   queue entry, as `yield` makes one, is still there when the frame has ended at the
   first and been destroyed; `go(f)` with an `f` that returns a
   task destroys the inner coroutine at once. `final_suspend` resumes nobody (`task.h:42`): a
   parent that awaits a task is resumed by its own driver, perhaps before its child is
   done, and `await_resume` then dereferences an empty optional; `doc/Arch.md:92`
   has `final_suspend` resume the continuation.
9. *Event loop.* A callback that cancels its own timer erases the node that
   `handle_timers` then erases through its iterator (101-102); an insertion that
   rehashes `timers_` invalidates it (the model keeps the iterator valid); `stop()` before
   `run()` is forgotten, `stop()` does not wake `epoll_wait`, and a `run()` that follows
   at once finds the flag down and enters a loop that another thread has not left;
   a timer more than 2^31 milliseconds away gives a negative time-out, which is none.
10. *Select.* It returns with nothing done when the chosen case is
   refused (274-277, where `doc/Arch.md:266` has `try_ready() && try_execute()`), or
   its channel is closed; a default case may run although another case is ready (it is
   shuffled among them, 371, and the search of 280-286, "If no immediately executable
   case", never finds one); a waiting counterpart does not make a case ready, so that
   a select over an unbuffered channel polls until that is closed; a suspended
   `co_select` is registered nowhere.

## Proofs

Everything but liveness that the runs check is
proved for every value of the constants: every capacity and every set of parties,
every number of threads and of coroutines and every bound, every set of timers,
delays and sources. The assumptions are the named ones of the modules:
`ChannelAssumption`, `SchedulerAssumption` (the kinds of threads are disjoint and
finite, there is a worker: the constructor makes at least one thread), `PollerAssumption`,
`LoopAssumption`, `RuntimeAssumption` (workers are finitely many, and who is resumed by a
worker first is driven by it), `SelectAssumption`, `PartiesAssumption`, `TaskAssumption` and
`ScopeAssumption`. Marked theorems assume more:

- `+` assumes `OwnSpawns`: no other client schedules or runs a coroutine that `run()` is
  called for; it may have ended at its first part, as that of `go()` has. Without it the
  theorem is false: `run()` destroys a frame that it finds done and another thread is about to
  look at (`task.h:113-118`);
- `-` assumes `ShortDelays`: no delay reaches 2^31 milliseconds, beyond which
  `event_poller_linux.cpp:52` passes a negative number;
- `(1)` assumes `OneUser`, that one thread opens and closes scopes and calls the runtime, and is
  a theorem about `TimelySpec`, in which workers and any number of threads of `sleep()` call
  too, but no thread of `sleep()` while its scheduler is deleted. Without either they are
  false (item 5 above): the code locks nothing there.

| Theorem | Property | Inductive invariant |
|---|---|---|
| `ChannelProofs!TypeCorrect` | `TypeOK` | itself |
| `EachValueOnce` | `ExactlyOnce` | `OnceInv` |
| `NobodyWaitsInVain` | `OneSideWaits` | itself |
| `CloseLeavesNobody` | `ClosedQuiet` | `CloseInv` |
| `Implements` | `KeepsContract` | `KeepInv` |
| `NothingEntersClosed` | `ClosedAdmitsNothing` | `KeepInv` |
| `NoValueIsLost` | `NothingLost` | `KeepInv` and `NothingLost` |
| `WaitersAreSuspended`, `WaitersAreWokenOnce` | `WaiterIsSuspended`, `WokenOnce` | `WakeInv` |
| `RecvTellsTheTruth` | `RecvTruth` | `TruthInv` |
| `RuntimeImplementsChannel` | `Spec` of `Channel`; hence `RuntimeKeepsChannel`: all of the above but the types, with the exceptions each of them names | `RuntimeInv` |
| `RuntimeKeepsHandles` | `Spec` of `TaskQueue`, of the workers of `ChannelRuntime` | `RuntimeInv` |
| `NoHandleIsLost` | `WakeupsAreHandles` | `RuntimeInv` |
| `UndrivenHasOneHandle` | `OneHandle` | `RuntimeInv` |
| `SchedulerTypes` | `TypeOK` | `BaseInv` |
| `StopWakesEveryone` | `NobodySleepsThroughStop` | `BaseInv` |
| `QueuedWorkIsSeen` | `WorkIsSeen` | `SeenInv` |
| `SchedulerKeepsHandles` | `KeepsHandles`: `Spec` of `TaskQueue` | `BaseInv` |
| `HandlesAreInOnePlace` | `HandledOnce` | `OnceInv`, `YieldInv` |
| `DestroyedIsLeftAlone`+ | `NoUseAfterDestroy` | `DestroyInv`, `FreshInv` |
| `WorkIsCounted` | `PendingCounted` | `CountInv` |
| `WatchedIsKnown` | `Armed` | `PollerInv` |
| `EventLoopProofs!TypeCorrect` | `TypeOK` | `BaseInv` |
| `CallbacksAreCalledOnce` | `FiresOnce` | `TimerInv` |
| `EventsAreCurrent` | `StaleOnlyInBatch` | `BatchInv` |
| `NeverWaitsTooLong`- | `WaitsForTheSoonest` | `ScanInv` |
| `SelectProofs!TypeCorrect` | `TypeOK` | `SelInv` |
| `SelectsUseChannels` | `Spec` of `Channel`, of both channels | `SelInv` |
| `SelectedChannelsImplement`, `SelectedValuesAreKept` | `KeepsContract`; `NothingLost`, `ExactlyOnce`; of both channels | the same |
| `SelectsTakeEffectOnce` | `OneEffect` | `SelInv` |
| `MissesHaveCauses` | `MissesOnlyWithRivals` | `SelInv` |
| `FramesHaveOneOwner`, `OnlyStopDestroysOwned` | `OneOwner`, `OnlyStopLeavesOwners` | `OwnInv` |
| `EndedStaysOut` | `InsideOnce` | `DriveInv` |
| `DriversStay` | `DriverStays`, the safety part of `DrivenEnds` | `DriveInv` |
| `CallsAreSafe`(1) | `NoCallIntoDeleted` | `RuntimeScopeProofs!IInv` |
| `ScopesHaveScheduler`(1) | `SchedulerWhileScope` | the same |
| `NoneIsLost`(1) | `NoOrphan` | the same |

Of the channel:

- `TypeOK` carries `Len(buffer) <= Capacity`; the step that needs an argument is the
  promotion in `Pop`, which takes a value out before it puts another in.
- `OnceInv` adds to `ExactlyOnce` that a value in the channel belongs to a party that is
  past the point where it gave the value away. Without that a party could bring
  its value in twice: `await_ready` fails, and `await_suspend` tries again.
- `OneSideWaits` is inductive because whoever registers looks at the other
  list in the same critical section.
- `CloseInv` adds to `ClosedQuiet` that only one closer wins the exchange, and that a closer
  past it implies the flag: what one close has emptied no other step fills.
- `KeepInv` adds that a taker that is unserved (before its critical section, or
  registered) has nothing in its destination: so a hand-off overwrites nothing.
  Each critical section is then one step of the contract: a push passes or
  stores, a pop takes, a registration offers, the exchange closes, the clearing
  discards. `StoredFits` counts the buffer's values. That values are kept and that
  none enters after a close is derived from the contract's steps, not from
  the channel's.
- `WakeInv` counts for each coroutine the handles that are queued for it or will be when its
  waiter is served (`Due`): none before it suspends; one while it is suspended, unless it
  is a sender whose value was taken; at most one later, and one more that its driver
  queues; none later for one that nobody drives. `Wakes(W)` is what every critical section
  does: those of `W` leave their list and are scheduled, nobody else changes, so that serving a
  waiter leaves the count as it is. `KeepInv` comes in because the excuse of the stranded
  sender has to last: what was received stays so.
- `TruthInv` adds that a receiver's answer is right from the moment somebody schedules it, and
  `NothingLost` follows from the contract and from `RecvTruth`: what is written somewhere is received
  or astray.

Of the channel and its workers:

- `RuntimeInv` says of each coroutine where its handles are. Before it waits one thread
  has it, and nobody else knows it (`Begins`). While it waits its wakeups are its
  handles, and at most one thread, which was inside it when it suspended, is still to queue it
  (`Waits`): so the first push of a driver is a `Requeue`, and the first worker that enters is
  its `Resume`. What nobody drives moreover has one handle, and none while it is
  registered (`Undriven`). After its operation a driven coroutine may be anywhere:
  nothing is claimed of it, and the channel does not see it.
- Every step is then one of the channel's or leaves its variables alone (`ChannelStep`), so
  that `Spec`, and each safety theorem about `Channel`, carries over.
- Seen from the queue the same steps are those of `TaskQueue` while it runs: a critical section
  submits whom it woke, a worker takes, gives back, or completes what it found over. `Scheduler`
  implements the same specification, so that what `ChannelRuntime` leaves of the scheduler is
  what the scheduler was proved to promise.

Of the scheduler:

- `BaseInv` says for each kind of thread where it can be and what it has in hand there
  (`WorkerPlace`, `MainPlace`, `ClientPlace`), that `running_` follows from where `run()` and
  `stop()` are, that `qlock` is the one worker between its predicate and its block
  (`LockPlace`), and that from its notification on nobody sleeps or is about to (`StopPlace`).
  The last is where the mutex in `stop()` counts: with `qlock = Nobody` no worker holds a
  value of `running_` that it read before.
- `SeenInv` strengthens `WorkIsSeen`: while somebody sleeps, at least as many threads are
  awake as handles are queued, and nothing is queued while a worker is about to block.
  `notify_one` wakes one thread per push, and the thread that takes one handle must
  not be the only one that would have taken the next.
- That the scheduler implements `TaskQueue` rests on `BaseInv` alone: what a thread has in
  hand follows from where it is. Pushes and pops count as the bag says (`PushedEntries`,
  `PoppedEntries`), the steps of a body and of `schedule()` up to its push are invisible but
  for the end of a coroutine (`WorkGoesOn`), and a worker lets go of a handle at its
  push, at the end of its coroutine, or in `WorkerRecheck` after the stop (`WorkMoves`).
- `OnceInv` relates, for a coroutine of `Single`, its entries in the queue to the threads
  that have it: at most one of all of them. Each step keeps the
  handles, pushes one that a thread lets go of, or pops one that a thread takes
  (`StepKinds`). `YieldInv` keeps coroutines that do not yield out of the places of `yield`.
- `FreshInv` says that what is to be run is as it was made and nobody else has touched it, also
  later if it was done then: so a client completes and releases only what is `Finished` and its own.
  `DestroyInv` then has destruction only there and where `stop()` has joined everyone.
- `CountInv` follows from `CountStep`, whatever coroutines the clients share: no step but the reset
  brings more into the queue and into hands than it counts, and the one decrement that
  nothing counted adds its thread to `Uncounted`.

Of the event loop:

- `PollerInv` adds to `Armed` that a source is filed under its own descriptor, that what is
  not watched has no registration and nothing to report: so a stale entry is
  overwritten before the kernel reports anything under its number.
- `TimerInv` ties each timer's status to the calls of its callback and to the iterator: what
  is yet to be visited is pending, and so is the timer whose callback runs.
- `BatchInv` has for each event that is still to be handed out that its source is
  registered or was dropped since the batch was fetched.
- `ScanInv` bounds `soonest` by what every visited timer that is still pending has left, less what
  passed since; rounding down (`Quotients`) and the cast (`Milliseconds`) keep it.

Of the select: every step is one of `Channel` in the channel it touches, and none in the other
(`SelectsUseChannels`), so that `ChannelContractProofs`, twice by `INSTANCE`, gives the contract
of both. `SelInv` has for each channel its `OnceInv`, from `ChannelProofs` by
`INSTANCE`; that a case is untouched but for the one its select returned with (`FreshInv`);
and that the case about to be executed has a rival, a closed channel, or what it
needs in the buffer (`SafeInv`). `BufferKeeps` is why the last lasts from `try_ready` to
`try_execute`: registered waiters, their promotion and `close()` never take a value out of the
buffer or fill it. A step of anybody else leaves a case as it is (`ElsewhereKeeps`).

Of the task:

- `OwnInv` has for each frame that exists its one owner, and that a frame owns only what was
  called after it (`FrameInv`): so no frame is in the chain that its own task object destroys
  (`ChainGoesUp`). A chain has nothing but what is owned in it (`ChainLeast`), so that
  whoever else holds a destroyed frame holds what `stop()` left (`Goes`, `Destroys`).
- `InsideInv`: a frame enters a stack when it is called, or resumed while somebody has its
  handle, and leaves it when it suspends or ends; what is on a stack has not ended.
- `HandleInv` is why one thread is all for what is not `doubled`: it has one handle at most, in
  the queue, with a sleep or with the executor that resumed it, and whoever passes it on has
  that one. What the client's thread, or a body, called and is still in its first part
  is neither queued nor asleep, and nobody else reaches it (`FirstInv`).
- `DriveInv` is all of these, and that what runs is inside a thread (`RunInv`):
  a coroutine that was queued, or that an executor resumed, stays one or the other until its end (`DriversStay`).

Of the runtime scope: `IInv` has where the user is when the global scheduler is stopped
(between the exchange and the deletion), that workers are threads of the global
scheduler and are none when it is deleted (`WorkerInv`, `UserInv`), that
`instance_count_` is the number of scopes opening or open, and that none is open while
the user is in `init` or `stop` (`ScopeInv`): a second scope that finds the count above 0
finds a scheduler.

Only model-checked: liveness (`ClosedReleases`, `RunStopEnds`, `SelectReturns`, `DrivenEnds`,
`TimersFire`, `StopIsHeeded`, `UserGoesOn`, `QueuedEnds`, and the part of `ImplementsChannel`
that is fairness; its steps are `RuntimeImplementsChannel`). There are no recursive definitions.

## What is left

- `ChannelRuntime` with `run()`'s own loop and `stop()` in it: a stop while coroutines wait.
- Task objects that own the frames in `ChannelRuntime`: `~task()` and `go(f)` may destroy a
  coroutine that a channel still has (`task.h:78-82, 118`). There a frame is destroyed
  only by `run()`, and `Task` has no channels.

## Not modelled, and why

- The Windows poller (`event_poller_win.cpp`): nothing under `src/` posts an overlapped
  operation, so that no completion it could return ever occurs.
- The class `sleep_task` and `wait_for_completion`, `is_completed`: no callers that change
  state.
- `defer` is one guard object in one thread. The logger formats and prints, without
  state that others read.
- The values and exceptions that coroutines return: `Task` has when a result exists,
  not what it is.
- Tests and examples were read for what they expect.
