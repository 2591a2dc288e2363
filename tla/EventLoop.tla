----------------------------- MODULE EventLoop -----------------------------
(***************************************************************************)
(* tang::event_loop (src/event_loop.cpp) over the Linux poller: a loop     *)
(* that runs the callbacks of due timers, waits in the poller for the      *)
(* shortest time that is left, and hands the events it got to their        *)
(* sources.                                                                *)
(*                                                                         *)
(* One thread runs the loop.  Nothing in it is locked, so that all but     *)
(* stop() is for that thread to call: before run(), or from a callback,    *)
(* that is while handle_timers iterates over timers_, or while run()       *)
(* iterates over the events it was given.  stop() may come from anywhere   *)
(* (scheduler::stop calls it).                                             *)
(*                                                                         *)
(* Time passes in Tick-th parts of a millisecond.  The code subtracts one  *)
(* time point from another and uses none by itself; so does the model:     *)
(* `left` is what remains of a timer, `elapsed` how old the `now` of       *)
(* handle_timers is.                                                       *)
(***************************************************************************)
EXTENDS EventPoller, Integers

CONSTANTS
    Timers,     \* timer handles: next_timer_id_ gives each out once
    Delay,      \* the delay that each is added with, in ticks
    Tick,       \* ticks in a millisecond
    MaxScan,    \* bound: the ticks that pass during one scan of the timers
    IntMax,     \* the largest int: 2^31 - 1 in the code
    NoTimer

ASSUME LoopAssumption ==
    /\ Delay \in [Timers -> Nat]
    /\ Tick \in Nat \ {0}
    /\ MaxScan \in Nat
    /\ IntMax \in Nat
    /\ NoTimer \notin Timers

VARIABLES
    running,     \* running_
    pc,          \* where the thread of run() is
    status,      \* "fresh", "pending" (in timers_), "fired", "cancelled"
    left,        \* expire_time of each, less the time it is
    calls,       \* history: calls of each timer's callback
    elapsed,     \* handle_timers: the time it is, less its `now`
    visit,       \* handle_timers: what its iterator has yet to reach
    current,     \* handle_timers: the timer whose callback runs
    soonest,     \* handle_timers: next_timeout, in milliseconds; Never is max()
    missed,      \* history: added behind the iterator of this scan
    waitTime,    \* what epoll_wait is given
    events,      \* run(): the events it got
    at,          \* run(): how many of them are dealt with
    dropped      \* history: deleted or closed by an on_event of this batch

timerVars == <<status, left, calls>>
scanVars  == <<elapsed, visit, current, soonest, missed>>
batchVars == <<waitTime, events, at>>
vars == <<pollerVars, running, pc, timerVars, scanVars, batchVars, dropped>>

Never   == -1
Pending == {t \in Timers : status[t] = "pending"}

Init ==
    /\ PollerInit
    /\ running = FALSE
    /\ pc = "idle"
    /\ status = [t \in Timers |-> "fresh"]
    /\ left = [t \in Timers |-> 0]
    /\ calls = [t \in Timers |-> 0]
    /\ elapsed = 0 /\ visit = {} /\ current = NoTimer /\ soonest = Never /\ missed = {}
    /\ waitTime = 0 /\ events = <<>> /\ at = 0
    /\ dropped = {}

-----------------------------------------------------------------------------
\* Calls of the user: before run(), or from a callback.

UserTurn == pc \in {"idle", "timer", "event"}

\* An insertion puts the new timer before or behind the iterator of a scan.  (A
\* rehash, which reorders the rest, needs more timers than an instance has.)
AddTimer(t) ==
    /\ UserTurn
    /\ status[t] = "fresh"
    /\ status' = [status EXCEPT ![t] = "pending"]
    /\ left' = [left EXCEPT ![t] = Delay[t]]
    /\ \/ pc = "timer" /\ visit' = visit \cup {t} /\ UNCHANGED missed
       \/ pc = "timer" /\ missed' = missed \cup {t} /\ UNCHANGED visit
       \/ pc # "timer" /\ UNCHANGED <<visit, missed>>
    /\ UNCHANGED <<pollerVars, running, pc, calls, elapsed, current, soonest, batchVars, dropped>>

\* FAULT: the scan goes over a copy of timers_.
CancelTimerUnseen(t) ==
    /\ UserTurn
    /\ status[t] = "pending" /\ t # current
    /\ status' = [status EXCEPT ![t] = "cancelled"]
    /\ left' = [left EXCEPT ![t] = 0]
    /\ UNCHANGED <<pollerVars, running, pc, calls, scanVars, batchVars, dropped>>

\* Not the timer whose callback runs: handle_timers erases that one through an
\* iterator which this call would have made invalid.
CancelTimer(t) ==
    /\ UserTurn
    /\ status[t] = "pending" /\ t # current
    /\ status' = [status EXCEPT ![t] = "cancelled"]
    /\ left' = [left EXCEPT ![t] = 0]
    /\ visit' = visit \ {t}
    /\ UNCHANGED <<pollerVars, running, pc, calls, elapsed, current, soonest, missed, batchVars, dropped>>

\* register_event, modify_event, delete_event; and what users do to descriptors.
Subscribe ==
    /\ UserTurn
    /\ \/ \E s \in Sources, m \in Masks : RegisterEvent(s, m) \/ ModifyEvent(s, m)
       \/ \E d \in Descriptors : OpenDescriptor(d)
    /\ UNCHANGED <<running, pc, timerVars, scanVars, batchVars, dropped>>

Unsubscribe ==
    /\ UserTurn
    /\ \E d \in Descriptors :
        /\ CloseDescriptor(d) \/ \E s \in Sources : Fd[s] = d /\ DeleteEvent(s)
        /\ dropped' = IF d \in watched /\ pc = "event" THEN dropped \cup {registrar[d]} ELSE dropped
    /\ UNCHANGED <<running, pc, timerVars, scanVars, batchVars>>

\* stop(), by anyone at any time; before run() it is forgotten.
Stop ==
    /\ running' = FALSE
    /\ UNCHANGED <<pollerVars, pc, timerVars, scanVars, batchVars, dropped>>

-----------------------------------------------------------------------------
\* run()

\* A second run() finds the flag set and returns.
Run ==
    /\ pc = "idle" /\ ~running
    /\ running' = TRUE
    /\ pc' = "top"
    /\ UNCHANGED <<pollerVars, timerVars, scanVars, batchVars, dropped>>

\* FAULT: while (true).
LoopDeaf ==
    /\ pc = "top"
    /\ pc' = "scan"
    /\ elapsed' = 0 /\ visit' = Pending /\ soonest' = Never /\ missed' = {}
    /\ UNCHANGED <<pollerVars, running, timerVars, current, batchVars, dropped>>

\* while (running_.load()): into handle_timers, or out.
Loop ==
    /\ pc = "top"
    /\ \/ /\ running
          /\ pc' = "scan"
          /\ elapsed' = 0 /\ visit' = Pending /\ soonest' = Never /\ missed' = {}
          /\ UNCHANGED current
       \/ /\ ~running
          /\ pc' = "idle"
          /\ UNCHANGED scanVars
    /\ UNCHANGED <<pollerVars, running, timerVars, batchVars, dropped>>

\* FAULT: the longest time instead of the shortest.
Longer(ms) == IF soonest = Never \/ ms > soonest THEN ms ELSE soonest

\* timeout < next_timeout
Shorter(ms) == IF soonest = Never \/ ms < soonest THEN ms ELSE soonest

\* handle_timers looks at one timer: its callback, or the milliseconds left,
\* rounded down.
VisitTimer(t) ==
    /\ pc = "scan" /\ t \in visit
    /\ visit' = visit \ {t}
    /\ \/ /\ left[t] + elapsed <= 0
          /\ pc' = "timer" /\ current' = t
          /\ calls' = [calls EXCEPT ![t] = @ + 1]
          /\ UNCHANGED soonest
       \/ /\ left[t] + elapsed > 0
          /\ soonest' = Shorter((left[t] + elapsed) \div Tick)
          /\ UNCHANGED <<pc, current, calls>>
    /\ UNCHANGED <<pollerVars, running, status, left, elapsed, missed, batchVars, dropped>>

\* The callback returns and its timer is erased.
CallbackReturns ==
    /\ pc = "timer"
    /\ pc' = "scan" /\ current' = NoTimer
    /\ status' = [status EXCEPT ![current] = "fired"]
    /\ left' = [left EXCEPT ![current] = 0]
    /\ UNCHANGED <<pollerVars, running, calls, elapsed, visit, soonest, missed, batchVars, dropped>>

\* static_cast<int> of the milliseconds; what is negative, epoll_wait takes for
\* ever.
ToInt(ms) == ((ms + IntMax + 1) % (2 * (IntMax + 1))) - (IntMax + 1)

\* FAULT: the events of the round before are still there.
EnterWaitDirty ==
    /\ pc = "scan" /\ visit = {}
    /\ pc' = "wait"
    /\ waitTime' = IF soonest = Never THEN -1 ELSE ToInt(soonest)
    /\ UNCHANGED <<pollerVars, running, timerVars, scanVars, events, at, dropped>>

\* FAULT: no time left is taken for no timer.
EnterWaitForever ==
    /\ pc = "scan" /\ visit = {}
    /\ pc' = "wait"
    /\ waitTime' = IF soonest \in {Never, 0} THEN -1 ELSE ToInt(soonest)
    /\ events' = <<>>
    /\ UNCHANGED <<pollerVars, running, timerVars, scanVars, at, dropped>>

\* handle_timers is through: clear the events and enter the poller's wait.
EnterWait ==
    /\ pc = "scan" /\ visit = {}
    /\ pc' = "wait"
    /\ waitTime' = IF soonest = Never THEN -1 ELSE ToInt(soonest)
    /\ events' = <<>>
    /\ UNCHANGED <<pollerVars, running, timerVars, scanVars, at, dropped>>

\* What handle_timers knew is gone with its frame, and so is the time to wait.
LeaveWait ==
    /\ elapsed' = 0 /\ soonest' = Never /\ missed' = {} /\ waitTime' = 0
    /\ UNCHANGED <<visit, current>>

\* The poller returns events (fewer than MAX_EVENTS descriptors: all of them).
WaitDelivers ==
    /\ pc = "wait" /\ epoll /\ SomethingReady
    /\ \E order \in SetToSeqs(Collected) : events' = events \o order
    /\ Collect
    /\ pc' = "dispatch"
    /\ LeaveWait
    /\ UNCHANGED <<running, timerVars, at, dropped>>

\* The poller returns 0 when the time is over, and -1 at once when it has no
\* epoll descriptor.
WaitEnds ==
    /\ pc = "wait"
    /\ ~epoll \/ (waitTime >= 0 /\ ~SomethingReady)
    /\ pc' = "top"
    /\ LeaveWait
    /\ UNCHANGED <<pollerVars, running, timerVars, events, at, dropped>>

\* epoll_wait fails with EINTR.
WaitInterrupted ==
    /\ pc = "wait" /\ epoll
    /\ pc' = "top"
    /\ LeaveWait
    /\ UNCHANGED <<pollerVars, running, timerVars, events, at, dropped>>

\* on_event of the next event's source is called ...
Dispatch ==
    /\ pc = "dispatch"
    /\ \/ at < Len(events) /\ pc' = "event" /\ UNCHANGED <<at, dropped>>
       \/ at = Len(events) /\ pc' = "top" /\ at' = 0 /\ dropped' = {}
    /\ UNCHANGED <<pollerVars, running, timerVars, scanVars, waitTime, events>>

\* ... and returns.
EventReturns ==
    /\ pc = "event"
    /\ pc' = "dispatch"
    /\ at' = at + 1
    /\ UNCHANGED <<pollerVars, running, timerVars, scanVars, waitTime, events, dropped>>

-----------------------------------------------------------------------------
\* The world outside

\* A timer that has been due for as long as a scan may last is due in all of
\* it, and need not grow older.
TickClock ==
    /\ pc \in {"scan", "timer"} => elapsed < MaxScan
    /\ elapsed' = IF pc \in {"scan", "timer"} THEN elapsed + 1 ELSE elapsed
    /\ left' = [t \in Timers |-> IF t \in Pending /\ left[t] > -MaxScan THEN left[t] - 1 ELSE left[t]]
    /\ UNCHANGED <<pollerVars, running, pc, status, calls, visit, current, soonest, missed, batchVars, dropped>>

Readiness ==
    /\ \E d \in Descriptors, k \in Signals : Signal(d, k)
    /\ UNCHANGED <<running, pc, timerVars, scanVars, batchVars, dropped>>

LoopStep ==
    \/ Loop \/ \E t \in Timers : VisitTimer(t)
    \/ CallbackReturns \/ EnterWait \/ WaitDelivers \/ WaitEnds
    \/ Dispatch \/ EventReturns

UserStep ==
    \/ \E t \in Timers : AddTimer(t) \/ CancelTimer(t)
    \/ Subscribe \/ Unsubscribe

Next == LoopStep \/ UserStep \/ Run \/ Stop \/ WaitInterrupted \/ TickClock \/ Readiness

Spec == Init /\ [][Next]_vars

\* The thread in run() goes on, callbacks return, timed waits end, time passes.
\* Nobody is obliged to add, register or stop anything, no descriptor to become
\* ready, no signal to interrupt a wait.
Fairness == WF_vars(LoopStep) /\ WF_vars(TickClock)

FairSpec == Spec /\ Fairness

-----------------------------------------------------------------------------
\* Properties

\* The types of the loop's and the poller's fields and of what a scan and a batch
\* carry between steps (event_loop.h:35-39, event_poller_linux.cpp:25-27).
TypeOK ==
    /\ PollerTypeOK
    /\ running \in BOOLEAN
    /\ pc \in {"idle", "top", "scan", "timer", "wait", "dispatch", "event"}
    /\ status \in [Timers -> {"fresh", "pending", "fired", "cancelled"}]
    /\ left \in [Timers -> Int]
    /\ calls \in [Timers -> Nat]
    /\ elapsed \in 0..MaxScan
    /\ visit \subseteq Timers
    /\ current \in Timers \cup {NoTimer}
    /\ soonest \in Nat \cup {Never}
    /\ missed \subseteq Timers
    /\ waitTime \in Int
    /\ events \in Seq([source : Sources, events : SUBSET EventTypes])
    /\ at \in 0..Len(events)
    /\ dropped \subseteq Sources \cup {NoSource}

\* A timer's callback is called once, when its time has come, and never for a
\* timer that was cancelled, though timers are cancelled and added while
\* handle_timers iterates over them (event_loop.cpp:91-113).
FiresOnce ==
    \A t \in Timers :
        /\ calls[t] <= 1
        /\ status[t] \in {"fresh", "cancelled"} => calls[t] = 0
        /\ calls[t] = 1 => status[t] = "fired" \/ (t = current /\ left[t] <= 0)

\* The wait is never longer than what was left of any pending timer when the
\* scan began, but for timers that a callback added behind the iterator
\* (event_loop.cpp:92-108).
WaitsForTheSoonest ==
    [][pc # "wait" /\ pc' = "wait" =>
          \A t \in Pending \ missed : 0 <= waitTime' /\ waitTime' * Tick <= left[t] + elapsed]_vars

\* An event that run() hands out belongs to a source that is registered, or that
\* was until this round's earlier callbacks deleted it (event_loop.cpp:27-36).
StaleOnlyInBatch ==
    pc = "event" =>
        LET s == events[at + 1].source
        IN  registrar[Fd[s]] = s \/ s \in dropped

\* A timer that the loop sees when it starts a round fires, or is cancelled, or
\* the loop is stopped (event_loop.cpp:24-25, 91-113).
TimersFire ==
    \A t \in Timers : (pc = "top" /\ running /\ status[t] = "pending") ~> (status[t] # "pending" \/ ~running)

\* A loop that is stopped while it is neither in the poller's wait nor about to
\* enter it comes out of run(), unless it is run again (event_loop.cpp:24-36, 48-50).
StopIsHeeded == (~running /\ pc \in {"dispatch", "event", "top"}) ~> (pc = "idle" \/ running)

=============================================================================
