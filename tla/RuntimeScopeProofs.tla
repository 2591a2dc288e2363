------------------------- MODULE RuntimeScopeProofs -------------------------
(***************************************************************************)
(* Theorems about RuntimeScope where one thread opens and closes scopes    *)
(* and calls the runtime beside the scheduler's workers and the threads of *)
(* sleep(), for every number of workers, sleepers, scopes and schedulers.  *)
(***************************************************************************)
EXTENDS RuntimeScope, FiniteSetTheorems, TLAPS

\* What the code needs, as nothing locks g_scheduler.
OneUser == \A u, v \in Users : u = v

-----------------------------------------------------------------------------
\* The inductive invariant.

\* Inside init; inside stop, or where init deletes a scheduler.
Initialising(u) == pc[u] \in {"init", "create"} \/ making[u]
Deleting(u) == pc[u] \in {"mark", "join", "free"}

\* The scopes that instance_count_ counts.
Counted == {s \in Scopes : scope[s] \in {"opening", "open"}}

Types ==
    /\ scope \in [Scopes -> {"none", "opening", "open", "closing", "closed"}]
    /\ g \in Nat /\ made \in 0..MaxSchedulers
    /\ life \in [Schedulers -> {"unmade", "made", "running", "stopped", "deleted"}]
    /\ worksFor \in [Workers -> Nat]
    /\ pc \in [Threads -> {"idle", "init", "create", "stop", "mark", "join", "free", "start", "enter",
                           "calling", "running", "raise", "lower"}]
    /\ after \in [Threads -> {"idle", "raise", "lower", "enter", "start"}]
    /\ making \in [Threads -> BOOLEAN]
    /\ inside \in [Threads -> Nat]

\* The schedulers: those that are not deleted are the global one.
LifeInv ==
    /\ g \in 0..made
    /\ g # Null => life[g] \in {"made", "running", "stopped"}
    /\ \A i \in Schedulers : life[i] \in {"made", "running", "stopped"} => i = g
    /\ \A i \in Schedulers : i > made => life[i] = "unmade"

\* The workers belong to the global scheduler while it runs, and call into it.
WorkerInv ==
    \A w \in Workers :
        /\ pc[w] \in {"idle", "enter", "calling"}
        /\ worksFor[w] # Null => worksFor[w] = g /\ life[g] \in {"running", "stopped"}
        /\ pc[w] # "idle" => worksFor[w] # Null
        /\ pc[w] = "calling" => inside[w] = g

\* The user: what it has found, and where it goes.
UserInv ==
    \A u \in Users :
        /\ pc[u] \in {"mark", "join", "free", "start", "enter", "calling", "running", "raise"} => g # Null
        /\ pc[u] = "create" => g = Null
        /\ g # Null /\ life[g] = "stopped" => pc[u] \in {"join", "free"}
        /\ pc[u] = "join" => life[g] = "stopped"
        /\ pc[u] = "free" => \A w \in Workers : worksFor[w] = Null
        /\ pc[u] \in {"calling", "running"} => inside[u] = g
        /\ making[u] => Deleting(u)
        /\ Initialising(u) => after[u] # "lower"
        /\ (pc[u] = "stop" \/ (Deleting(u) /\ ~making[u])) => after[u] \in {"idle", "lower"}

\* The scopes: none is open while the user makes or deletes a scheduler.
ScopeInv ==
    /\ instances = Cardinality(Counted)
    /\ \A u \in Users :
        /\ pc[u] \in {"init", "create", "stop", "mark", "join", "free", "raise", "lower"} =>
               \A s \in Scopes : scope[s] # "open"
        /\ \A s \in Scopes : scope[s] = "opening" =>
               pc[u] = "raise" \/ (Initialising(u) /\ after[u] = "raise")
    /\ (\E s \in Scopes : scope[s] \in {"open", "opening"}) => Users # {}
    /\ (\E s \in Scopes : scope[s] = "open") => g # Null

\* The sleepers: they call the global scheduler.
LateInv ==
    \A t \in Late :
        /\ pc[t] \in {"idle", "enter", "calling"}
        /\ pc[t] # "idle" => g # Null
        /\ pc[t] = "calling" => inside[t] = g

Core == Types /\ LifeInv /\ WorkerInv /\ UserInv /\ ScopeInv
IInv == Core /\ LateInv

-----------------------------------------------------------------------------
\* Who is where, and how many scopes there are.

\* Where one user is the only other, a thread is that user or a worker, and a
\* thread that is in init, in stop or in a scope is the user.
LEMMA WhoIsWhere ==
    ASSUME OneUser, IInv, NEW t \in Threads,
           pc[t] \notin {"idle", "enter", "calling"}
    PROVE  t \in Users /\ t \notin Workers /\ \A u \in Users : u = t
BY ScopeAssumption DEF OneUser, IInv, Core, WorkerInv, LateInv, Threads

LEMMA UserIsNoWorker == \A u \in Users : u \in Threads /\ u \notin Workers
BY ScopeAssumption DEF Threads

LEMMA WorkerIsNoUser == \A w \in Workers : w \in Threads /\ w \notin Users
BY ScopeAssumption DEF Threads

\* The count is a number, and is 0 when no scope counts and only then.
LEMMA CountIsNat ==
    ASSUME IInv
    PROVE  instances \in Nat /\ IsFiniteSet(Counted) /\ (instances = 0 <=> Counted = {})
<1>1. IsFiniteSet(Counted)
  BY ScopeAssumption, FS_Subset DEF Counted
<1> QED  BY <1>1, FS_CardinalityType, FS_EmptySet DEF IInv, Core, ScopeInv

\* A global scheduler is one of the schedulers.
LEMMA GlobalIsMade ==
    ASSUME Types, LifeInv, g # Null
    PROVE  g \in Schedulers
<1>1. g \in Int /\ made \in Int /\ MaxSchedulers \in Int /\ g <= made /\ made <= MaxSchedulers /\ 0 <= g
  BY ScopeAssumption DEF Types, LifeInv
<1>2. 1 <= g
  BY <1>1 DEF Null
<1> QED  BY <1>1, <1>2 DEF Schedulers

LEMMA InitIInv ==
    ASSUME Init
    PROVE  IInv
<1>1. Counted = {}
  BY DEF Init, Counted
<1>2. Types
  BY ScopeAssumption DEF Init, Types, Null
<1>3. LifeInv
  BY ScopeAssumption DEF Init, LifeInv, Null, Schedulers
<1>4. WorkerInv
  BY DEF Init, WorkerInv, Threads
<1>5. UserInv
  BY DEF Init, UserInv, Threads, Initialising, Deleting
<1>6. ScopeInv
  BY <1>1, FS_EmptySet DEF Init, ScopeInv
<1>7. LateInv
  BY DEF Init, LateInv, Threads
<1> QED  BY <1>2, <1>3, <1>4, <1>5, <1>6, <1>7 DEF IInv, Core

-----------------------------------------------------------------------------
\* The steps of init and stop

LEMMA InitStartStep ==
    ASSUME OneUser, IInv, NEW t \in Threads, InitStart(t)
    PROVE  Core'
<1> USE DEF InitStart, Goto, scopeVars, schedulerVars, IInv, Core
<1>1. t \in Users /\ t \notin Workers /\ \A u \in Users : u = t
  BY WhoIsWhere
<1>2. Counted' = Counted
  BY DEF Counted
<1>3. Types'
  BY DEF Types
<1>4. LifeInv'
  BY DEF LifeInv
<1>5. WorkerInv'
  BY <1>1, WorkerIsNoUser DEF WorkerInv, Types
<1>6. UserInv'
  BY <1>1, UserIsNoWorker DEF UserInv, Types, LifeInv, Initialising, Deleting
<1>7. ScopeInv'
  BY <1>1, <1>2, UserIsNoWorker DEF ScopeInv, Types, Initialising, Deleting
<1> QED  BY <1>3, <1>4, <1>5, <1>6, <1>7

LEMMA CreateStep ==
    ASSUME OneUser, IInv, NEW t \in Threads, Create(t)
    PROVE  Core'
<1> USE DEF Create, Goto, scopeVars, IInv, Core
<1>1. t \in Users /\ t \notin Workers /\ \A u \in Users : u = t
  BY WhoIsWhere
<1>2. Counted' = Counted
  BY DEF Counted
<1>3. /\ made \in Nat /\ MaxSchedulers \in Nat /\ made + 1 \in Schedulers
      /\ g = Null /\ g' = made + 1 /\ g' # Null /\ life'[g'] = "made"
      /\ \A i \in Schedulers : i # g' => life'[i] = life[i]
  BY <1>1, ScopeAssumption DEF Types, UserInv, Schedulers, Null
<1>4. Types'
  BY <1>3 DEF Types, Schedulers
<1>5. LifeInv'
  BY <1>3 DEF LifeInv, Schedulers, Null
<1>6. WorkerInv'
  BY <1>1, <1>3, WorkerIsNoUser DEF WorkerInv, Types, LifeInv
<1>7. UserInv'
  BY <1>1, <1>3, <1>6, UserIsNoWorker DEF UserInv, Types, WorkerInv, Initialising, Deleting
<1>8. ScopeInv'
  BY <1>1, <1>2, <1>3, UserIsNoWorker DEF ScopeInv, UserInv, Types, Initialising, Deleting
<1> QED  BY <1>4, <1>5, <1>6, <1>7, <1>8

LEMMA StopStartStep ==
    ASSUME OneUser, IInv, NEW t \in Threads, StopStart(t)
    PROVE  Core'
<1> USE DEF StopStart, Goto, scopeVars, schedulerVars, IInv, Core
<1>1. t \in Users /\ t \notin Workers /\ \A u \in Users : u = t
  BY WhoIsWhere
<1>2. Counted' = Counted
  BY DEF Counted
<1>3. Types'
  BY DEF Types
<1>4. LifeInv'
  BY DEF LifeInv
<1>5. WorkerInv'
  BY <1>1, WorkerIsNoUser DEF WorkerInv, Types
<1>6. UserInv'
  BY <1>1, UserIsNoWorker DEF UserInv, Types, LifeInv, Initialising, Deleting
<1>7. ScopeInv'
  BY <1>1, <1>2, UserIsNoWorker DEF ScopeInv, UserInv, Types, Initialising, Deleting
<1> QED  BY <1>3, <1>4, <1>5, <1>6, <1>7

LEMMA MarkStep ==
    ASSUME OneUser, IInv, NEW t \in Threads, Mark(t)
    PROVE  Core'
<1> USE DEF Mark, Goto, scopeVars, IInv, Core
<1>1. t \in Users /\ t \notin Workers /\ \A u \in Users : u = t
  BY WhoIsWhere
<1>2. Counted' = Counted
  BY DEF Counted
<1>3. g \in Schedulers /\ \A i \in Schedulers : i # g => life'[i] = life[i]
  BY GlobalIsMade DEF Types
<1>4. Types'
  BY <1>3 DEF Types
<1>5. LifeInv'
  BY <1>3 DEF LifeInv, Types
<1>6. WorkerInv'
  BY <1>1, <1>3, WorkerIsNoUser DEF WorkerInv, Types
<1>7. UserInv'
  BY <1>1, <1>3, UserIsNoWorker DEF UserInv, WorkerInv, Types, LifeInv, Initialising, Deleting
<1>8. ScopeInv'
  BY <1>1, <1>2, UserIsNoWorker DEF ScopeInv, UserInv, Types, Initialising, Deleting
<1> QED  BY <1>4, <1>5, <1>6, <1>7, <1>8

LEMMA JoinStep ==
    ASSUME OneUser, IInv, NEW t \in Threads, Join(t)
    PROVE  Core'
<1> USE DEF Join, Goto, scopeVars, schedulerVars, IInv, Core
<1>1. t \in Users /\ t \notin Workers /\ \A u \in Users : u = t
  BY WhoIsWhere
<1>2. Counted' = Counted
  BY DEF Counted
<1>3. Types'
  BY DEF Types
<1>4. LifeInv'
  BY DEF LifeInv
<1>5. WorkerInv'
  BY <1>1, WorkerIsNoUser DEF WorkerInv, Types
<1>6. UserInv'
  BY <1>1, UserIsNoWorker DEF UserInv, WorkerInv, Types, LifeInv, Initialising, Deleting
<1>7. ScopeInv'
  BY <1>1, <1>2, UserIsNoWorker DEF ScopeInv, UserInv, Types, Initialising, Deleting
<1> QED  BY <1>3, <1>4, <1>5, <1>6, <1>7

LEMMA FreeStep ==
    ASSUME OneUser, IInv, NEW t \in Threads, Free(t)
    PROVE  Core'
<1> USE DEF Free, scopeVars, IInv, Core
<1>1. t \in Users /\ t \notin Workers /\ \A u \in Users : u = t
  BY WhoIsWhere
<1>2. Counted' = Counted
  BY DEF Counted
<1>3. /\ g \in Schedulers /\ g' = Null /\ life'[g] = "deleted"
      /\ \A i \in Schedulers : i # g => life'[i] = life[i]
      /\ \A w \in Workers : worksFor[w] = Null
  BY <1>1, GlobalIsMade DEF Types, UserInv
<1>4. Types'
  BY <1>3 DEF Types, Null
<1>5. LifeInv'
  BY <1>3 DEF LifeInv, Types, Null, Schedulers
<1>6. WorkerInv'
  BY <1>1, <1>3, WorkerIsNoUser DEF WorkerInv, Types
<1>7. UserInv'
  BY <1>1, <1>3, UserIsNoWorker DEF UserInv, Types, Initialising, Deleting
<1>8. ScopeInv'
  BY <1>1, <1>2, <1>3, UserIsNoWorker DEF ScopeInv, UserInv, Types, Initialising, Deleting
<1> QED  BY <1>4, <1>5, <1>6, <1>7, <1>8

-----------------------------------------------------------------------------
\* run, and the calls

LEMMA StartStep ==
    ASSUME OneUser, IInv, NEW t \in Threads, Start(t)
    PROVE  Core'
<1> USE DEF Start, scopeVars, IInv, Core
<1>1. t \in Users /\ t \notin Workers /\ \A u \in Users : u = t
  BY WhoIsWhere
<1>2. Counted' = Counted
  BY DEF Counted
<1>3. /\ g \in Schedulers /\ life'[g] = "running" /\ life[g] \in {"made", "running"}
      /\ \A i \in Schedulers : i # g => life'[i] = life[i]
      /\ g' = g /\ g \in Nat
  BY <1>1, GlobalIsMade DEF Types, LifeInv, UserInv
<1>4. Types'
  BY <1>3 DEF Types
<1>5. LifeInv'
  BY <1>3 DEF LifeInv, Types
<1>6. WorkerInv'
  BY <1>1, <1>3, WorkerIsNoUser DEF WorkerInv, Types
<1>7. UserInv'
  BY <1>1, <1>3, UserIsNoWorker DEF UserInv, Types, Initialising, Deleting
<1>8. ScopeInv'
  BY <1>1, <1>2, UserIsNoWorker DEF ScopeInv, UserInv, Types, Initialising, Deleting
<1> QED  BY <1>4, <1>5, <1>6, <1>7, <1>8

\* The parts of the invariant that a step of the threads alone leaves as they are.
LEMMA OnlyThreads ==
    ASSUME IInv, UNCHANGED <<scopeVars, schedulerVars>>, Types'
    PROVE  LifeInv' /\ Counted' = Counted
BY DEF IInv, Core, LifeInv, Counted, scopeVars, schedulerVars

LEMMA CallTestStep ==
    ASSUME OneUser, IInv, NEW t \in Threads, CallTest(t)
    PROVE  Core'
<1> USE DEF CallTest, MayCall, Calls, Goto, IInv, Core
<1>1. Types'
  BY DEF Types, scopeVars, schedulerVars
<1>2. LifeInv' /\ Counted' = Counted
  BY <1>1, OnlyThreads
<1>3. WorkerInv'
  BY WorkerIsNoUser DEF WorkerInv, Types, LifeInv, schedulerVars
<1>4. UserInv'
  BY UserIsNoWorker DEF UserInv, Types, LifeInv, Initialising, Deleting, schedulerVars
<1>5. ScopeInv'
  BY <1>2, UserIsNoWorker DEF ScopeInv, UserInv, Types, Initialising, Deleting, scopeVars, schedulerVars
<1> QED  BY <1>1, <1>2, <1>3, <1>4, <1>5

LEMMA CallEnterStep ==
    ASSUME OneUser, IInv, NEW t \in Threads, CallEnter(t)
    PROVE  Core'
<1> USE DEF CallEnter, IInv, Core
<1>1. Types'
  BY DEF Types, scopeVars, schedulerVars
<1>2. LifeInv' /\ Counted' = Counted
  BY <1>1, OnlyThreads
<1>3. WorkerInv'
  BY WorkerIsNoUser DEF WorkerInv, Types, LifeInv, schedulerVars
<1>4. UserInv'
  BY UserIsNoWorker DEF UserInv, Types, LifeInv, Initialising, Deleting, schedulerVars
<1>5. ScopeInv'
  BY <1>2, UserIsNoWorker DEF ScopeInv, UserInv, Types, Initialising, Deleting, scopeVars, schedulerVars
<1> QED  BY <1>1, <1>2, <1>3, <1>4, <1>5

LEMMA LeaveStep ==
    ASSUME OneUser, IInv, NEW t \in Threads, Leave(t)
    PROVE  Core'
<1> USE DEF Leave, IInv, Core
<1>1. Types'
  BY DEF Types, scopeVars, schedulerVars, Null
<1>2. LifeInv' /\ Counted' = Counted
  BY <1>1, OnlyThreads
<1>3. WorkerInv'
  BY WorkerIsNoUser DEF WorkerInv, Types, LifeInv, schedulerVars
<1>4. UserInv'
  BY UserIsNoWorker DEF UserInv, Types, LifeInv, Initialising, Deleting, schedulerVars
<1>5. ScopeInv'
  BY <1>2, UserIsNoWorker DEF ScopeInv, UserInv, Types, Initialising, Deleting, scopeVars, schedulerVars
<1> QED  BY <1>1, <1>2, <1>3, <1>4, <1>5

LEMMA WorkerExitStep ==
    ASSUME OneUser, IInv, NEW w \in Workers, WorkerExit(w)
    PROVE  Core'
<1> USE DEF WorkerExit, scopeVars, threadVars, IInv, Core
<1>1. Types'
  BY DEF Types, Null
<1>2. LifeInv' /\ Counted' = Counted
  BY DEF LifeInv, Counted
<1>3. WorkerInv'
  BY WorkerIsNoUser DEF WorkerInv, Types, LifeInv
<1>4. UserInv'
  BY <1>1, UserIsNoWorker DEF UserInv, Types, LifeInv, Initialising, Deleting
<1>5. ScopeInv'
  BY <1>2 DEF ScopeInv, Initialising, Deleting
<1> QED  BY <1>1, <1>2, <1>3, <1>4, <1>5

-----------------------------------------------------------------------------
\* Scopes

LEMMA OpenStep ==
    ASSUME OneUser, IInv, NEW u \in Users, NEW s \in Scopes, Open(u, s)
    PROVE  Core'
<1> USE DEF Open, Calls, IInv, Core
<1>1. u \in Threads /\ u \notin Workers /\ \A v \in Users : v = u
  BY UserIsNoWorker DEF OneUser
<1>2. Counted' = Counted \cup {s} /\ s \notin Counted
  BY DEF Counted, Types
<1>3. Types' /\ instances' = Cardinality(Counted')
  <2>1. Types'
    BY <1>1 DEF Types, schedulerVars, threadVars
  <2>2. instances' = Cardinality(Counted')
    BY <1>2, CountIsNat, FS_AddElement DEF ScopeInv
  <2> QED  BY <2>1, <2>2
<1>4. LifeInv'
  BY DEF LifeInv, schedulerVars
<1>5. WorkerInv'
  BY <1>1, WorkerIsNoUser DEF WorkerInv, Types, schedulerVars, threadVars
<1>6. UserInv'
  BY <1>1, UserIsNoWorker DEF UserInv, Types, LifeInv, Initialising, Deleting, schedulerVars, threadVars
<1>7. ScopeInv'
  <2>1. CASE instances = 0
    BY <2>1, <1>1, <1>2, <1>3, CountIsNat
       DEF ScopeInv, UserInv, Counted, Types, Initialising, Deleting, schedulerVars
  <2>2. CASE instances > 0
    <3>1. \A v \in Scopes : scope[v] # "opening"
      BY <1>1 DEF ScopeInv, UserInv, Initialising, Deleting
    <3>2. \E v \in Scopes : scope[v] = "open"
      BY <2>2, <3>1, CountIsNat DEF Counted
    <3>3. scope' = [scope EXCEPT ![s] = "open"] /\ UNCHANGED threadVars
      BY <2>2, CountIsNat
    <3> QED  BY <1>1, <1>3, <3>1, <3>2, <3>3
             DEF ScopeInv, Types, Initialising, Deleting, schedulerVars, threadVars
  <2> QED  BY <2>1, <2>2
<1> QED  BY <1>3, <1>4, <1>5, <1>6, <1>7

LEMMA RaiseStep ==
    ASSUME OneUser, IInv, NEW t \in Threads, Raise(t)
    PROVE  Core'
<1> USE DEF Raise, Goto, schedulerVars, IInv, Core
<1>1. t \in Users /\ t \notin Workers /\ \A u \in Users : u = t
  BY WhoIsWhere
<1>2. Counted' = Counted
  BY DEF Counted
<1>3. Types'
  BY DEF Types
<1>4. LifeInv'
  BY DEF LifeInv
<1>5. WorkerInv'
  BY <1>1, WorkerIsNoUser DEF WorkerInv, Types
<1>6. UserInv'
  BY <1>1, UserIsNoWorker DEF UserInv, Types, LifeInv, Initialising, Deleting
<1>7. ScopeInv'
  BY <1>1, <1>2, UserIsNoWorker DEF ScopeInv, UserInv, Types, Initialising, Deleting
<1> QED  BY <1>3, <1>4, <1>5, <1>6, <1>7

LEMMA ScopeRunStep ==
    ASSUME OneUser, IInv, NEW u \in Users, NEW s \in Scopes, ScopeRun(u, s)
    PROVE  Core'
<1> USE DEF ScopeRun, Run, Calls, Goto, schedulerVars, IInv, Core
<1>1. u \in Threads /\ u \notin Workers /\ \A v \in Users : v = u
  BY UserIsNoWorker DEF OneUser
<1>2. Counted' = Counted /\ g # Null
  BY DEF Counted, ScopeInv
<1>3. Types'
  BY <1>1 DEF Types
<1>4. LifeInv'
  BY DEF LifeInv
<1>5. WorkerInv'
  BY <1>1, WorkerIsNoUser DEF WorkerInv, Types
<1>6. UserInv'
  BY <1>1, <1>2, UserIsNoWorker DEF UserInv, Types, LifeInv, Initialising, Deleting
<1>7. ScopeInv'
  BY <1>1, <1>2, UserIsNoWorker DEF ScopeInv, UserInv, Types, Initialising, Deleting
<1> QED  BY <1>3, <1>4, <1>5, <1>6, <1>7

LEMMA CloseStep ==
    ASSUME OneUser, IInv, NEW u \in Users, NEW s \in Scopes, Close(u, s)
    PROVE  Core'
<1> USE DEF Close, Calls, IInv, Core
<1>1. u \in Threads /\ u \notin Workers /\ \A v \in Users : v = u
  BY UserIsNoWorker DEF OneUser
<1>2. Counted' = Counted \ {s} /\ s \in Counted
  BY DEF Counted, Types
<1>3. Types' /\ instances' = Cardinality(Counted')
  <2>1. Types'
    BY <1>1 DEF Types, schedulerVars, threadVars
  <2>2. instances' = Cardinality(Counted')
    BY <1>2, CountIsNat, FS_RemoveElement DEF ScopeInv
  <2> QED  BY <2>1, <2>2
<1>4. LifeInv'
  BY DEF LifeInv, schedulerVars
<1>5. WorkerInv'
  BY <1>1, WorkerIsNoUser DEF WorkerInv, Types, schedulerVars, threadVars
<1>6. UserInv'
  BY <1>1, UserIsNoWorker DEF UserInv, Types, LifeInv, Initialising, Deleting, schedulerVars, threadVars
<1>7. ScopeInv'
  <2>0. g # Null /\ \A v \in Scopes : scope[v] # "opening"
    BY <1>1 DEF ScopeInv, UserInv, Initialising, Deleting
  <2>1. CASE instances = 1
    <3>1. instances' = 0 /\ IsFiniteSet(Counted')
      BY <2>1, <1>2, CountIsNat, FS_Subset
    <3>2. Counted' = {}
      BY <3>1, <1>3, FS_EmptySet
    <3> QED  BY <2>0, <2>1, <3>2, <1>1, <1>3
             DEF ScopeInv, Counted, Types, Initialising, Deleting, schedulerVars
  <2>2. CASE instances > 1
    BY <2>0, <2>2, <1>1, <1>3 DEF ScopeInv, Types, Initialising, Deleting, schedulerVars, threadVars
  <2> QED  BY <2>1, <2>2
<1> QED  BY <1>3, <1>4, <1>5, <1>6, <1>7

LEMMA LowerStep ==
    ASSUME OneUser, IInv, NEW t \in Threads, Lower(t)
    PROVE  Core'
<1> USE DEF Lower, Goto, schedulerVars, IInv, Core
<1>1. t \in Users /\ t \notin Workers /\ \A u \in Users : u = t
  BY WhoIsWhere
<1>2. Counted' = Counted
  BY DEF Counted
<1>3. Types'
  BY DEF Types
<1>4. LifeInv'
  BY DEF LifeInv
<1>5. WorkerInv'
  BY <1>1, WorkerIsNoUser DEF WorkerInv, Types
<1>6. UserInv'
  BY <1>1, UserIsNoWorker DEF UserInv, Types, LifeInv, Initialising, Deleting
<1>7. ScopeInv'
  BY <1>1, <1>2, UserIsNoWorker DEF ScopeInv, UserInv, Types, Initialising, Deleting
<1> QED  BY <1>3, <1>4, <1>5, <1>6, <1>7

LEMMA DirectStep ==
    ASSUME OneUser, IInv, NEW u \in Users, Direct(u)
    PROVE  Core'
<1> USE DEF Direct, Run, Calls, Goto, IInv, Core
<1>1. u \in Threads /\ u \notin Workers /\ \A v \in Users : v = u
  BY UserIsNoWorker DEF OneUser
<1>2. Counted' = Counted /\ \A s \in Scopes : scope[s] \notin {"opening", "open"}
  BY CountIsNat DEF Counted, scopeVars
<1>3. Types'
  BY <1>1 DEF Types, scopeVars, schedulerVars
<1>4. LifeInv'
  BY DEF LifeInv, schedulerVars
<1>5. WorkerInv'
  BY <1>1, WorkerIsNoUser DEF WorkerInv, Types, schedulerVars
<1>6. UserInv'
  BY <1>1, UserIsNoWorker DEF UserInv, Types, LifeInv, Initialising, Deleting, schedulerVars
<1>7. ScopeInv'
  BY <1>1, <1>2 DEF ScopeInv, scopeVars
<1> QED  BY <1>3, <1>4, <1>5, <1>6, <1>7

\* Every step.
LEMMA CoreStep ==
    ASSUME OneUser, IInv, [Next]_vars
    PROVE  Core'
<1>1. CASE UNCHANGED vars
  BY <1>1 DEF vars, scopeVars, schedulerVars, threadVars, IInv, Core, Types, LifeInv, WorkerInv, UserInv,
              ScopeInv, Counted, Initialising, Deleting
<1>2. ASSUME NEW t \in Threads, Step(t)
      PROVE  Core'
  BY <1>2, InitStartStep, CreateStep, StopStartStep, MarkStep, JoinStep, FreeStep, StartStep,
     CallEnterStep, LeaveStep, RaiseStep, LowerStep DEF Step
<1> QED  BY <1>1, <1>2, CallTestStep, WorkerExitStep, DirectStep, OpenStep, ScopeRunStep, CloseStep
         DEF Next

\* A step changes g only if there was, or then is, no scheduler; and a sleeper is
\* moved by its own calls only.
LEMMA LateStep ==
    ASSUME OneUser, IInv, [Next]_vars, SleepersInTime'
    PROVE  LateInv'
<1> USE ScopeAssumption DEF scopeVars, schedulerVars, threadVars
<1> SUFFICES ASSUME NEW t \in Late
             PROVE  /\ pc'[t] \in {"idle", "enter", "calling"}
                    /\ pc'[t] # "idle" => g' # Null
                    /\ pc'[t] = "calling" => inside'[t] = g'
  BY DEF LateInv
<1>1. /\ t \in Threads /\ t \notin Users /\ t \notin Workers
      /\ pc[t] \in {"idle", "enter", "calling"}
      /\ pc[t] # "idle" => g # Null
      /\ pc[t] = "calling" => inside[t] = g
      /\ pc'[t] # "idle" => g' # Null
  BY DEF Threads, IInv, LateInv, SleepersInTime
<1> DEFINE Right == /\ pc'[t] \in {"idle", "enter", "calling"}
                    /\ pc'[t] # "idle" => g' # Null
                    /\ pc'[t] = "calling" => inside'[t] = g'
<1>2. ASSUME pc'[t] = pc[t], inside'[t] = inside[t], g' = g \/ g = Null \/ g' = Null
      PROVE  Right
  BY <1>1, <1>2
<1>3. \A u \in Threads : u # t => \A l : pc' = [pc EXCEPT ![u] = l] => pc'[t] = pc[t]
  BY <1>1 DEF IInv, Core, Types
<1>4. \A u \in Threads : u # t => \A i : inside' = [inside EXCEPT ![u] = i] => inside'[t] = inside[t]
  BY <1>1 DEF IInv, Core, Types
<1>5. ASSUME NEW u \in Threads, u # t, Step(u) \/ CallTest(u)
      PROVE  Right
  <2>1. \E l : pc' = [pc EXCEPT ![u] = l]
    BY <1>5 DEF Step, InitStart, Create, StopStart, Mark, Join, Free, Start, CallEnter, Leave, Raise, Lower,
                CallTest, Goto, Calls
  <2>2. UNCHANGED inside \/ \E i : inside' = [inside EXCEPT ![u] = i]
    BY <1>5 DEF Step, InitStart, Create, StopStart, Mark, Join, Free, Start, CallEnter, Leave, Raise, Lower,
                CallTest, Goto, Calls
  <2>3. g' = g \/ g = Null \/ g' = Null
    <3>1. CASE Create(u)
      <4>1. u \in Users
        BY <3>1, WhoIsWhere DEF Create
      <4>2. QED
        BY <3>1, <4>1 DEF Create, IInv, Core, UserInv
    <3>2. CASE ~Create(u)
      BY <1>5, <3>2 DEF Step, InitStart, StopStart, Mark, Join, Free, Start, CallEnter, Leave, Raise, Lower, CallTest
    <3>3. QED
      BY <3>1, <3>2
  <2>4. QED
    BY <1>2, <1>3, <1>4, <1>5, <2>1, <2>2, <2>3
<1>6. CASE Step(t) \/ CallTest(t)
  <2>1. CASE CallTest(t)
    BY <1>1, <2>1 DEF CallTest, Goto, Calls, IInv, Core, Types
  <2>2. CASE CallEnter(t)
    BY <1>1, <2>2 DEF CallEnter, IInv, Core, Types
  <2>3. CASE Leave(t)
    BY <1>1, <2>3 DEF Leave, IInv, Core, Types
  <2>4. ~(InitStart(t) \/ Create(t) \/ StopStart(t) \/ Mark(t) \/ Join(t) \/ Free(t) \/ Start(t) \/ Raise(t) \/ Lower(t))
    BY <1>1 DEF InitStart, Create, StopStart, Mark, Join, Free, Start, Raise, Lower
  <2>5. QED
    BY <1>6, <2>1, <2>2, <2>3, <2>4 DEF Step
<1>7. ASSUME NEW u \in Users, Direct(u) \/ \E s \in Scopes : Open(u, s) \/ ScopeRun(u, s) \/ Close(u, s)
      PROVE  Right
  <2>1. u \in Threads /\ u # t
    BY <1>1 DEF Threads
  <2>2. UNCHANGED pc \/ \E l : pc' = [pc EXCEPT ![u] = l]
    BY <1>7 DEF Direct, Open, ScopeRun, Close, Run, Goto, Calls
  <2>3. UNCHANGED <<inside, g>>
    BY <1>7 DEF Direct, Open, ScopeRun, Close, Run, Goto, Calls
  <2>4. QED
    BY <1>2, <1>3, <2>1, <2>2, <2>3
<1>8. ASSUME UNCHANGED <<pc, inside, g>> PROVE Right
  BY <1>2, <1>8
<1>9. QED
  BY <1>5, <1>6, <1>7, <1>8 DEF Next, WorkerExit, vars

-----------------------------------------------------------------------------
\* Theorems

LEMMA Invariant == ASSUME OneUser PROVE TimelySpec => []IInv
<1>1. IInv /\ [Next /\ SleepersInTime']_vars => IInv'
  <2>1. CASE Next /\ SleepersInTime'
    BY <2>1, CoreStep, LateStep DEF IInv
  <2>2. CASE UNCHANGED vars
    <3>1. IInv /\ UNCHANGED vars => LateInv'
      BY DEF vars, threadVars, schedulerVars, IInv, LateInv
    <3>2. QED
      BY <2>2, <3>1, CoreStep DEF IInv
  <2>3. QED
    BY <2>1, <2>2
<1>2. QED
  BY <1>1, InitIInv, PTL DEF TimelySpec

\* Workers and sleepers may schedule while the last scope closes or the runtime is
\* stopped, and no call of theirs or of the user goes into a deleted scheduler
\* (runtime.cpp:336-343, 490-502): stop joins the workers first, and no sleeper is
\* in a call when it deletes, which is what TimelySpec asks of the program.
THEOREM CallsAreSafe == ASSUME OneUser PROVE TimelySpec => []NoCallIntoDeleted
<1>1. ASSUME OneUser, IInv PROVE NoCallIntoDeleted
  <2> SUFFICES ASSUME NEW t \in Threads, pc[t] \in {"calling", "running"}
               PROVE  inside[t] # Null /\ life[inside[t]] # "deleted"
    BY DEF NoCallIntoDeleted
  <2>1. g # Null /\ inside[t] = g
    BY <1>1 DEF IInv, Core, LifeInv, UserInv, WorkerInv, LateInv, Threads
  <2> QED  BY <1>1, <2>1 DEF IInv, Core, LifeInv
<1> QED  BY <1>1, Invariant, PTL

\* An open scope has a scheduler that nobody has stopped, in whatever order the
\* scopes that overlap are closed (runtime_scope.h:34-57).
THEOREM ScopesHaveScheduler == ASSUME OneUser PROVE TimelySpec => []SchedulerWhileScope
<1>1. ASSUME OneUser, IInv PROVE SchedulerWhileScope
  BY <1>1 DEF IInv, Core, LifeInv, UserInv, ScopeInv, SchedulerWhileScope
<1> QED  BY <1>1, Invariant, PTL

\* No scheduler is lost with its threads when init, run or schedule make another
\* (runtime.cpp:460-475).
THEOREM NoneIsLost == ASSUME OneUser PROVE TimelySpec => []NoOrphan
<1>1. IInv => NoOrphan
  BY DEF IInv, Core, LifeInv, NoOrphan
<1> QED  BY <1>1, Invariant, PTL

=============================================================================
