---------------------------- MODULE RuntimeScope ----------------------------
(***************************************************************************)
(* tang::RuntimeScope (include/tang/runtime_scope.h) and the functions of  *)
(* namespace tang::runtime under it (src/runtime.cpp): one global pointer, *)
(* g_scheduler, that scopes make and delete, that init, run, stop,         *)
(* schedule, task_started and task_completed use, and that nothing locks.  *)
(*                                                                         *)
(* A worker of a scheduler calls back into the runtime while it is inside  *)
(* a coroutine.  It is joined before its scheduler is deleted; a detached  *)
(* thread of sleep() is not.                                               *)
(***************************************************************************)
EXTENDS Naturals, FiniteSets

CONSTANTS
    Users,          \* threads that open scopes and call the runtime
    Workers,        \* the threads of a scheduler that has been run
    Late,           \* threads that nobody joins
    Scopes,         \* RuntimeScope objects
    MaxSchedulers   \* bound: schedulers made

ASSUME ScopeAssumption ==
    /\ Users \cap Workers = {} /\ Users \cap Late = {} /\ Workers \cap Late = {}
    /\ IsFiniteSet(Scopes)
    /\ MaxSchedulers \in Nat

Threads    == Users \cup Workers \cup Late
Schedulers == 1..MaxSchedulers
Null       == 0

VARIABLES
    instances,      \* instance_count_
    ready,          \* runtime_initialized_ and runtime_running_
    scope,          \* of each: "none", "opening", "open", "closing", "closed"
    hasRun,         \* has_run_ of each
    g,              \* g_scheduler
    life,           \* "unmade", "made", "running" (running_), "stopped", "deleted"
    made,           \* history: schedulers made
    worksFor,       \* the scheduler whose thread each worker is
    pc,             \* where each thread is in the runtime
    after,          \* and where it goes after init or stop
    making,         \* it deletes the scheduler that init found
    inside          \* the scheduler that it has called

scopeVars == <<instances, ready, scope, hasRun>>
schedulerVars == <<g, life, made, worksFor>>
threadVars == <<pc, after, making, inside>>
vars == <<scopeVars, schedulerVars, threadVars>>

Init ==
    /\ instances = 0 /\ ready = FALSE
    /\ scope = [s \in Scopes |-> "none"]
    /\ hasRun = [s \in Scopes |-> FALSE]
    /\ g = Null
    /\ life = [i \in Schedulers |-> "unmade"]
    /\ made = 0
    /\ worksFor = [w \in Workers |-> Null]
    /\ pc = [t \in Threads |-> "idle"]
    /\ after = [t \in Threads |-> "idle"]
    /\ making = [t \in Threads |-> FALSE]
    /\ inside = [t \in Threads |-> Null]

-----------------------------------------------------------------------------
\* A definition whose comment starts with FAULT is the definition after it with
\* one plausible mistake: Next does not use it, the property it breaks is named
\* in PROJECT.json.

Goto(t, place) == pc' = [pc EXCEPT ![t] = place] /\ UNCHANGED <<after, making, inside>>

\* t calls init, or stop, and goes on at `then`.
Calls(t, function, then) ==
    /\ pc' = [pc EXCEPT ![t] = function]
    /\ after' = [after EXCEPT ![t] = then]
    /\ UNCHANGED <<making, inside>>

-----------------------------------------------------------------------------
\* runtime::init and runtime::stop

\* FAULT: the scheduler that is there is forgotten.
InitStartFresh(t) ==
    /\ pc[t] = "init"
    /\ Goto(t, "create")
    /\ UNCHANGED <<scopeVars, schedulerVars>>

\* A scheduler that is there is deleted first.
InitStart(t) ==
    /\ pc[t] = "init"
    /\ \/ g = Null /\ Goto(t, "create")
       \/ /\ g # Null
          /\ pc' = [pc EXCEPT ![t] = "mark"]
          /\ making' = [making EXCEPT ![t] = TRUE]
          /\ UNCHANGED <<after, inside>>
    /\ UNCHANGED <<scopeVars, schedulerVars>>

Create(t) ==
    /\ pc[t] = "create"
    /\ made < MaxSchedulers
    /\ made' = made + 1
    /\ g' = made + 1
    /\ life' = [life EXCEPT ![made + 1] = "made"]
    /\ Goto(t, after[t])
    /\ UNCHANGED <<scopeVars, worksFor>>

StopStart(t) ==
    /\ pc[t] = "stop"
    /\ Goto(t, IF g = Null THEN after[t] ELSE "mark")
    /\ UNCHANGED <<scopeVars, schedulerVars>>

\* FAULT: running_ is not cleared.
MarkNot(t) ==
    /\ pc[t] = "mark"
    /\ Goto(t, IF life[g] = "running" THEN "join" ELSE "free")
    /\ UNCHANGED <<scopeVars, schedulerVars>>

\* scheduler::stop, called or in ~scheduler: running_.exchange(false), and
\* nothing more if it was never run.
Mark(t) ==
    /\ pc[t] = "mark"
    /\ \/ g # Null /\ life[g] = "running"
          /\ life' = [life EXCEPT ![g] = "stopped"]
          /\ Goto(t, "join")
       \/ g # Null /\ life[g] # "running" /\ Goto(t, "free") /\ UNCHANGED life
    /\ UNCHANGED <<scopeVars, g, made, worksFor>>

\* FAULT: the threads are detached.
JoinNot(t) ==
    /\ pc[t] = "join"
    /\ Goto(t, "free")
    /\ UNCHANGED <<scopeVars, schedulerVars>>

Join(t) ==
    /\ pc[t] = "join"
    /\ \A w \in Workers : worksFor[w] # g
    /\ Goto(t, "free")
    /\ UNCHANGED <<scopeVars, schedulerVars>>

\* delete g_scheduler; g_scheduler = nullptr.
Free(t) ==
    /\ pc[t] = "free"
    /\ life' = IF g = Null THEN life ELSE [life EXCEPT ![g] = "deleted"]
    /\ g' = Null
    /\ pc' = [pc EXCEPT ![t] = IF making[t] THEN "create" ELSE after[t]]
    /\ making' = [making EXCEPT ![t] = FALSE]
    /\ UNCHANGED <<scopeVars, made, worksFor, after, inside>>

-----------------------------------------------------------------------------
\* runtime::run

\* The global scheduler's run(): init() starts its threads, unless it runs.
Start(t) ==
    /\ pc[t] = "start"
    /\ g # Null
    /\ life' = [life EXCEPT ![g] = "running"]
    /\ worksFor' = IF life[g] = "made" THEN [w \in Workers |-> g] ELSE worksFor
    /\ pc' = [pc EXCEPT ![t] = "running"]
    /\ inside' = [inside EXCEPT ![t] = g]
    /\ UNCHANGED <<scopeVars, g, made, after, making>>

Run(t) == IF g = Null THEN Calls(t, "init", "start") ELSE Goto(t, "start")

-----------------------------------------------------------------------------
\* runtime::schedule, task_started and task_completed: the pointer is read twice.

\* A user calls whenever it likes (go), a worker in a coroutine, a late thread
\* when it has slept.
MayCall(t) == pc[t] = "idle" /\ (t \in Workers => worksFor[t] # Null)

CallTest(t) ==
    /\ MayCall(t)
    /\ IF g = Null THEN Calls(t, "init", "enter") ELSE Goto(t, "enter")
    /\ UNCHANGED <<scopeVars, schedulerVars>>

CallEnter(t) ==
    /\ pc[t] = "enter"
    /\ pc' = [pc EXCEPT ![t] = "calling"]
    /\ inside' = [inside EXCEPT ![t] = g]
    /\ UNCHANGED <<scopeVars, schedulerVars, after, making>>

\* Out of the scheduler again: a call, or run().
Leave(t) ==
    /\ pc[t] \in {"calling", "running"}
    /\ pc' = [pc EXCEPT ![t] = "idle"]
    /\ inside' = [inside EXCEPT ![t] = Null]
    /\ UNCHANGED <<scopeVars, schedulerVars, after, making>>

\* A worker's loop sees running_ false.
WorkerExit(w) ==
    /\ pc[w] = "idle" /\ worksFor[w] # Null
    /\ life[worksFor[w]] = "stopped"
    /\ worksFor' = [worksFor EXCEPT ![w] = Null]
    /\ UNCHANGED <<scopeVars, g, life, made, threadVars>>

-----------------------------------------------------------------------------
\* What a user does: scopes, or the functions themselves where there is none

Open(u, s) ==
    /\ pc[u] = "idle"
    /\ scope[s] = "none"
    /\ instances' = instances + 1
    /\ \/ instances = 0 /\ scope' = [scope EXCEPT ![s] = "opening"] /\ Calls(u, "init", "raise")
       \/ instances > 0 /\ scope' = [scope EXCEPT ![s] = "open"] /\ UNCHANGED threadVars
    /\ UNCHANGED <<ready, hasRun, schedulerVars>>

Raise(u) ==
    /\ pc[u] = "raise"
    /\ ready' = TRUE
    /\ scope' = [s \in Scopes |-> IF scope[s] = "opening" THEN "open" ELSE scope[s]]
    /\ Goto(u, "idle")
    /\ UNCHANGED <<instances, hasRun, schedulerVars>>

\* run() of a scope runs once.
ScopeRun(u, s) ==
    /\ pc[u] = "idle"
    /\ scope[s] = "open" /\ ~hasRun[s] /\ ready
    /\ hasRun' = [hasRun EXCEPT ![s] = TRUE]
    /\ Run(u)
    /\ UNCHANGED <<instances, ready, scope, schedulerVars>>

\* FAULT: each scope stops the runtime.
CloseEach(u, s) ==
    /\ pc[u] = "idle"
    /\ scope[s] = "open"
    /\ instances' = instances - 1
    /\ scope' = [scope EXCEPT ![s] = "closing"]
    /\ Calls(u, "stop", "lower")
    /\ UNCHANGED <<ready, hasRun, schedulerVars>>

Close(u, s) ==
    /\ pc[u] = "idle"
    /\ scope[s] = "open"
    /\ instances' = instances - 1
    /\ \/ instances = 1 /\ scope' = [scope EXCEPT ![s] = "closing"] /\ Calls(u, "stop", "lower")
       \/ instances > 1 /\ scope' = [scope EXCEPT ![s] = "closed"] /\ UNCHANGED threadVars
    /\ UNCHANGED <<ready, hasRun, schedulerVars>>

Lower(u) ==
    /\ pc[u] = "lower"
    /\ ready' = FALSE
    /\ scope' = [s \in Scopes |-> IF scope[s] = "closing" THEN "closed" ELSE scope[s]]
    /\ Goto(u, "idle")
    /\ UNCHANGED <<instances, hasRun, schedulerVars>>

Direct(u) ==
    /\ pc[u] = "idle"
    /\ instances = 0
    /\ Calls(u, "init", "idle") \/ Calls(u, "stop", "idle") \/ Run(u)
    /\ UNCHANGED <<scopeVars, schedulerVars>>

-----------------------------------------------------------------------------
\* A thread goes on with what it has begun.
Step(t) ==
    \/ InitStart(t) \/ Create(t) \/ StopStart(t) \/ Mark(t) \/ Join(t) \/ Free(t)
    \/ Start(t) \/ CallEnter(t) \/ Leave(t) \/ Raise(t) \/ Lower(t)

Next ==
    \/ \E t \in Threads : Step(t) \/ CallTest(t)
    \/ \E w \in Workers : WorkerExit(w)
    \/ \E u \in Users : Direct(u) \/ \E s \in Scopes : Open(u, s) \/ ScopeRun(u, s) \/ Close(u, s)

Spec == Init /\ [][Next]_vars

\* What the code leaves to the program that uses it: nobody deletes a scheduler
\* while a thread of sleep() is in a call, and none calls when there is no
\* scheduler (it would make one that nobody stops).
SleepersInTime == \A t \in Late : pc[t] # "idle" => g # Null

TimelySpec == Init /\ [][Next /\ SleepersInTime']_vars

\* Threads go on, calls return, and a worker looks at running_ between two
\* coroutines; threads of sleep() do not keep a scheduler from being deleted for
\* ever, as each calls once.  Nobody need begin anything.
Fairness ==
    /\ \A t \in Threads : WF_vars(Step(t))
    /\ \A w \in Workers : SF_vars(WorkerExit(w))

TimelyFairSpec == TimelySpec /\ Fairness

-----------------------------------------------------------------------------
\* Properties

\* A thread that is inside a scheduler, in run() or in a call, is inside one that
\* exists: workers and sleepers may schedule while the last scope closes, and
\* workers are joined before the scheduler is deleted (runtime.cpp:336-343,
\* 490-502, task.h:245-251).
NoCallIntoDeleted ==
    \A t \in Threads : pc[t] \in {"calling", "running"} => inside[t] # Null /\ life[inside[t]] # "deleted"

\* As long as a scope is open there is a scheduler, and nobody has stopped it:
\* scopes may overlap, and the first to open need not be the last to close
\* (runtime_scope.h:34-57).
SchedulerWhileScope ==
    (\E s \in Scopes : scope[s] = "open") => g # Null /\ life[g] \in {"made", "running"}

\* A scheduler that was made is the global one, or is deleted: none is lost with
\* its threads when init, run or schedule make another (runtime.cpp:460-475).
NoOrphan == \A i \in Schedulers : life[i] \in {"made", "running", "stopped"} => i = g

\* Whoever opens or closes a scope, or stops the runtime, gets done with it: the
\* join ends although workers go on calling (unless the bound on schedulers holds
\* it up).
UserGoesOn == \A u \in Users : (pc[u] # "idle") ~> (pc[u] \in {"idle", "create"})

=============================================================================
