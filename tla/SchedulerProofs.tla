-------------------------- MODULE SchedulerProofs --------------------------
(***************************************************************************)
(* Theorems about Scheduler, for every set of threads and coroutines and   *)
(* every bound.                                                            *)
(***************************************************************************)
EXTENDS SchedulerQueue, FiniteSetTheorems, TLAPS

-----------------------------------------------------------------------------
\* Where each kind of thread can be, and what it has in hand there.

\* The places at which a thread has a handle.
Holding == {"recheck", "got", "body", "yield", "yieldPush", "after", "count", "push", "complete", "decrement"}

\* The places of stop() from its notification on.
Stopping == {"join", "destroy", "reset", "stopped"}

WorkerPlace ==
    \A w \in Workers :
        /\ pc[w] \in {"off", "loop", "fetch", "blocking", "exited"} \cup Holding
        /\ pc[w] \in Holding => cur[w] \in Coroutines /\ home[w] = "loop"
        /\ pc[w] = "off" <=> pc[Main] = "idle"

MainPlace ==
    /\ pc[Main] \in {"idle", "loop", "testQueue", "take", "progress", "progressQueue", "drain", "drainActive",
                     "drainCheck", "drainTake", "returned", "notify"} \cup (Holding \ {"recheck"}) \cup Stopping
    /\ pc[Main] \in Holding => cur[Main] \in Coroutines /\ home[Main] \in {"loop", "progress", "drain"}
    /\ running <=> pc[Main] \notin {"idle", "notify"} \cup Stopping

ClientPlace ==
    \A t \in Clients :
        /\ pc[t] \in {"idle", "count", "push", "complete", "decrement", "release", "end"}
        /\ pc[t] \notin {"idle", "end"} => cur[t] = Target[t]
        /\ pc[t] \in {"idle", "count", "push"} => home[t] = "end"
        /\ pc[t] \in {"complete", "decrement"} => home[t] = "release"
        /\ pc[t] \in {"complete", "decrement", "release"} => t \in Spawners

\* The mutex and the condition variable.
LockPlace ==
    /\ \A w \in Workers : pc[w] = "blocking" <=> qlock = w
    /\ \A w \in Workers : w \in waitset => pc[w] = "fetch"
    /\ Main \in waitset => pc[Main] = "take"

\* What stop() has seen to.
StopPlace ==
    /\ pc[Main] \in Stopping => \A w \in Workers : w \notin waitset /\ pc[w] # "blocking"
    /\ pc[Main] \in Stopping \ {"join"} => \A w \in Workers : pc[w] = "exited"

\* run() counts its idle rounds in its first loop only.
StallPlace ==
    stalls = MaxNoProgress =>
        \/ pc[Main] \in {"drain", "drainActive", "drainCheck", "drainTake", "returned", "notify"} \cup Stopping
        \/ pc[Main] \in Holding /\ home[Main] = "drain"

PlaceInv == WorkerPlace /\ MainPlace /\ ClientPlace /\ LockPlace /\ StopPlace /\ StallPlace

BaseInv == TypeOK /\ PlaceInv

-----------------------------------------------------------------------------
\* The front and the rest of a list that is not empty.
LEMMA HeadTail ==
    ASSUME NEW S, NEW q \in Seq(S), q # <<>>
    PROVE  /\ Head(q) \in S
           /\ Tail(q) \in Seq(S)
           /\ Len(Tail(q)) = Len(q) - 1
           /\ Len(q) \in Nat \ {0}
OBVIOUS

\* Appending keeps the type and adds one to the length.
LEMMA AppendType ==
    ASSUME NEW S, NEW q \in Seq(S), NEW e \in S
    PROVE  Append(q, e) \in Seq(S) /\ Len(Append(q, e)) = Len(q) + 1
OBVIOUS

\* The first state.
LEMMA BaseInit == Init => BaseInv
<1> SUFFICES ASSUME Init PROVE BaseInv
  OBVIOUS
<1> USE SchedulerAssumption DEF Init, Threads, Executors
<1>1. TypeOK
  <2>1. <<>> \in Seq(Coroutines)
    OBVIOUS
  <2>2. /\ pc \in [Threads -> Places]
        /\ cur \in [Threads -> Coroutines \cup {None}]
        /\ home \in [Threads -> {"loop", "progress", "drain", "release", "end"}]
    BY DEF Places
  <2>3. /\ co \in [Coroutines -> {"suspended", "done", "destroyed"}]
        /\ turns \in [Coroutines -> 0..Turns]
    OBVIOUS
  <2>4. stalls \in 0..MaxNoProgress /\ rounds \in 0..DrainRounds /\ active \in Int /\ last \in Int
    OBVIOUS
  <2>5. queue \in Seq(Coroutines) /\ running \in BOOLEAN /\ qlock \in Workers \cup {Nobody} /\ waitset \in SUBSET Executors
    BY <2>1
  <2> HIDE DEF Init, Threads, Executors
  <2>6. QED
    BY <2>2, <2>3, <2>4, <2>5 DEF TypeOK
<1>2. PlaceInv
  BY DEF PlaceInv, WorkerPlace, MainPlace, ClientPlace, LockPlace, StopPlace, StallPlace, Holding, Stopping
<1>3. QED
  BY <1>1, <1>2 DEF BaseInv

\* An executor that deals with its handle, or has just taken one, goes on within
\* what it does with handles, or comes back.
LEMMA HandleMoves ==
    ASSUME BaseInv, NEW t \in Executors, pc[t] \in Holding,
           NEW l \in (Holding \ {"recheck"}) \cup {home'[t]},
           pc' = [pc EXCEPT ![t] = l],
           home' = home \/ (home' = [home EXCEPT ![t] = "loop"] /\ home[t] # "drain"),
           waitset' \subseteq waitset, UNCHANGED <<cur, running, qlock, stalls>>
    PROVE  PlaceInv'
<1> USE SchedulerAssumption DEF BaseInv, PlaceInv, TypeOK, Threads, Executors
<1>1. CASE t \in Workers
  <2>0. home[t] = "loop"
    BY <1>1 DEF WorkerPlace
  <2>1. l \in Holding \cup {"loop"} /\ home'[t] = "loop" /\ pc'[t] = l
        /\ \A u \in Threads \ {t} : pc'[u] = pc[u] /\ home'[u] = home[u]
    BY <1>1, <2>0
  <2> HIDE DEF TypeOK
  <2>2. WorkerPlace'
    BY <1>1, <2>1 DEF WorkerPlace, Holding
  <2>3. MainPlace' /\ StallPlace' /\ ClientPlace'
    BY <1>1, <2>1 DEF MainPlace, StallPlace, ClientPlace
  <2>4. LockPlace'
    BY <1>1, <2>1 DEF LockPlace, Holding
  <2>5. StopPlace'
    BY <1>1, <2>1 DEF StopPlace, Holding, Stopping
  <2>6. QED
    BY <2>2, <2>3, <2>4, <2>5
<1>2. CASE t = Main
  <2>0. home[Main] \in {"loop", "progress", "drain"}
    BY <1>2 DEF MainPlace
  <2>1. l \in (Holding \ {"recheck"}) \cup {"loop", "progress", "drain"}
        /\ home'[Main] \in {"loop", "progress", "drain"} /\ pc'[Main] = l
        /\ \A u \in Threads \ {t} : pc'[u] = pc[u] /\ home'[u] = home[u]
    BY <1>2, <2>0
  <2>2. home[Main] = "drain" => home'[Main] = "drain" /\ l \in Holding \cup {"drain"}
    BY <1>2, <2>1
  <2> HIDE DEF TypeOK
  <2>3. MainPlace'
    BY <1>2, <2>1 DEF MainPlace, Holding, Stopping
  <2>4. WorkerPlace' /\ ClientPlace'
    BY <1>2, <2>1 DEF WorkerPlace, ClientPlace, Holding
  <2>5. LockPlace'
    BY <1>2, <2>1 DEF LockPlace, Holding
  <2>6. StopPlace' /\ StallPlace'
    BY <1>2, <2>1, <2>2 DEF StopPlace, StallPlace, Holding, Stopping
  <2>7. QED
    BY <2>3, <2>4, <2>5, <2>6
<1>3. QED
  BY <1>1, <1>2

\* A thread that moves stays in a known place.
LEMMA GotoType ==
    ASSUME TypeOK, NEW t \in Threads, NEW l \in Places, Goto(t, l)
    PROVE  pc' \in [Threads -> Places]
BY DEF TypeOK, Goto

\* Type correctness of the steps of one thread: Handle, Schedule, TaskCompleted.
LEMMA ThreadStepType ==
    ASSUME BaseInv, NEW t \in Threads, Handle(t) \/ Schedule(t) \/ TaskCompleted(t)
    PROVE  TypeOK'
<1> USE SchedulerAssumption DEF syncVars, coVars, runVars
<1>0. /\ pc[t] \in Holding => cur[t] \in Coroutines
      /\ home[t] \in {"loop", "progress", "drain", "release", "end"} /\ home[t] \in Places
      /\ \A p \in Holding : p \in Places
  <2>1. home[t] \in {"loop", "progress", "drain", "release", "end"} /\ home[t] \in Places
    BY DEF BaseInv, TypeOK, Places
  <2>2. t \in Workers /\ pc[t] \in Holding => cur[t] \in Coroutines
    BY DEF BaseInv, PlaceInv, WorkerPlace
  <2>3. t = Main /\ pc[t] \in Holding => cur[t] \in Coroutines
    BY DEF BaseInv, PlaceInv, MainPlace
  <2>4. t \in Clients /\ pc[t] \in Holding => cur[t] \in Coroutines
    BY DEF BaseInv, PlaceInv, ClientPlace, Holding
  <2>5. \A p \in Holding : p \in Places
    BY DEF Holding, Places
  <2>6. t \in Workers \/ t = Main \/ t \in Clients
    BY DEF Threads, Executors
  <2>7. QED
    BY <2>1, <2>2, <2>3, <2>4, <2>5, <2>6
<1> USE DEF BaseInv
<1>1. CASE Dispatch(t)
  <2>1. PICK l \in {"complete", "body"} : Goto(t, l)
    BY <1>1 DEF Dispatch
  <2>2. home' \in [Threads -> {"loop", "progress", "drain", "release", "end"}]
    BY <1>1 DEF Dispatch, TypeOK
  <2>3. QED
    BY <1>0, <1>1, <2>1, <2>2, GotoType DEF Dispatch, TypeOK, Holding
<1>2. CASE Finish(t)
  <2>1. Goto(t, "after") /\ cur[t] \in Coroutines
    BY <1>0, <1>2 DEF Finish, Holding
  <2>2. co' \in [Coroutines -> {"suspended", "done", "destroyed"}]
    BY <1>2, <2>1 DEF Finish, TypeOK
  <2>3. QED
    BY <1>0, <1>2, <2>1, <2>2, GotoType DEF Finish, TypeOK, Holding
<1>3. CASE Suspend(t)
  <2>1. PICK l \in {"after", "yield"} : Goto(t, l)
    BY <1>3 DEF Suspend
  <2>2. cur[t] \in Coroutines /\ turns[cur[t]] < Turns
    BY <1>0, <1>3 DEF Suspend, Holding
  <2>3. turns[cur[t]] + 1 \in 0..Turns
    BY <2>2 DEF TypeOK
  <2>4. turns' \in [Coroutines -> 0..Turns]
    BY <1>3, <2>3 DEF Suspend, TypeOK
  <2>5. QED
    BY <1>0, <1>3, <2>1, <2>4, GotoType DEF Suspend, TypeOK, Holding
<1>4. CASE AfterResume(t)
  <2>1. PICK l \in {"complete", "count"} : Goto(t, l)
    BY <1>4 DEF AfterResume
  <2>2. QED
    BY <1>0, <1>4, <2>1, GotoType DEF AfterResume, TypeOK, Holding
<1>5. CASE CompleteTest(t) \/ Decrement(t)
  <2>1. PICK l \in {"decrement", home[t]} : Goto(t, l)
    BY <1>5 DEF CompleteTest, Decrement
  <2>2. pc' \in [Threads -> Places]
    BY <1>0, <2>1, GotoType DEF Holding
  <2>3. active' \in Int
    BY <1>5 DEF CompleteTest, Decrement, TypeOK
  <2>4. QED
    BY <1>5, <2>2, <2>3 DEF CompleteTest, Decrement, TypeOK
<1>6. ASSUME NEW from \in {"count", "yield"}, NEW push \in {"push", "yieldPush"}, NEW back \in {home[t], "after"},
             ScheduleCount(t, from, push, back)
      PROVE  TypeOK'
  <2>1. PICK l \in {push, back} : Goto(t, l)
    BY <1>6 DEF ScheduleCount
  <2>2. l \in Places
    BY <1>0, <2>1 DEF Holding
  <2>3. active' \in Int
    BY <1>6 DEF ScheduleCount, TypeOK
  <2>4. QED
    BY <1>6, <2>1, <2>2, <2>3, GotoType DEF ScheduleCount, TypeOK
<1>7. ASSUME NEW from \in {"push", "yieldPush"}, NEW back \in {home[t], "after"}, SchedulePush(t, from, back)
      PROVE  TypeOK'
  <2>1. back \in Places /\ cur[t] \in Coroutines
    BY <1>0, <1>7 DEF Holding, SchedulePush
  <2>2. queue' \in Seq(Coroutines)
    BY <1>7, <2>1, AppendType DEF SchedulePush, TypeOK
  <2>3. waitset' \in SUBSET Executors
    BY <1>7 DEF SchedulePush, TypeOK
  <2>4. QED
    BY <1>7, <2>1, <2>2, <2>3, GotoType DEF SchedulePush, TypeOK
<1>8. QED
  BY <1>1, <1>2, <1>3, <1>4, <1>5, <1>6, <1>7 DEF Handle, TaskCompleted, Schedule

\* Taking a handle keeps the types.
LEMMA PopType ==
    ASSUME TypeOK, NEW t \in Threads, NEW place \in {"loop", "progress", "drain"}, Pop(t, place)
    PROVE  /\ queue' \in Seq(Coroutines)
           /\ cur' \in [Threads -> Coroutines \cup {None}]
           /\ home' \in [Threads -> {"loop", "progress", "drain", "release", "end"}]
           /\ cur'[t] \in Coroutines /\ home'[t] = place
           /\ \A u \in Threads \ {t} : cur'[u] = cur[u] /\ home'[u] = home[u]
BY HeadTail DEF TypeOK, Pop

\* Handle, Schedule and TaskCompleted in a worker or in run().
LEMMA ExecutorStepPlace ==
    ASSUME BaseInv, NEW t \in Executors, Handle(t) \/ Schedule(t) \/ TaskCompleted(t)
    PROVE  PlaceInv'
<1> USE DEF Goto, syncVars, coVars, runVars
<1>1. CASE Dispatch(t)
  <2>1. home' = home \/ (home' = [home EXCEPT ![t] = "loop"] /\ home[t] # "drain")
    <3>1. home' = home \/ home' = [home EXCEPT ![t] = IF @ = "progress" THEN "loop" ELSE @]
      BY <1>1 DEF Dispatch
    <3>2. home \in [Threads -> {"loop", "progress", "drain", "release", "end"}]
      BY DEF BaseInv, TypeOK
    <3>3. QED
      BY <3>1, <3>2
  <2>2. pc[t] = "got" /\ \E l \in {"complete", "body"} : pc' = [pc EXCEPT ![t] = l]
    BY <1>1 DEF Dispatch
  <2>3. UNCHANGED <<cur, running, qlock, waitset, stalls>>
    BY <1>1 DEF Dispatch
  <2>4. QED
    BY <2>1, <2>2, <2>3, HandleMoves DEF Holding
<1>2. CASE Finish(t) \/ Suspend(t) \/ AfterResume(t) \/ TaskCompleted(t)
  <2>1. pc[t] \in Holding /\ \E l \in (Holding \ {"recheck"}) \cup {home[t]} : pc' = [pc EXCEPT ![t] = l]
    BY <1>2 DEF Finish, Suspend, AfterResume, TaskCompleted, CompleteTest, Decrement, Holding
  <2>2. UNCHANGED <<cur, home, running, qlock, waitset, stalls>>
    BY <1>2 DEF Finish, Suspend, AfterResume, TaskCompleted, CompleteTest, Decrement
  <2>3. QED
    BY <2>1, <2>2, HandleMoves
<1>3. CASE Schedule(t)
  <2>1. pc[t] \in Holding /\ \E l \in (Holding \ {"recheck"}) \cup {home[t]} : pc' = [pc EXCEPT ![t] = l]
    BY <1>3 DEF Schedule, ScheduleCount, SchedulePush, Holding
  <2>2. waitset' \subseteq waitset /\ UNCHANGED <<cur, home, running, qlock, stalls>>
    BY <1>3 DEF Schedule, ScheduleCount, SchedulePush
  <2>3. QED
    BY <2>1, <2>2, HandleMoves
<1>4. QED
  BY <1>1, <1>2, <1>3 DEF Handle

\* The loop of a worker.
LEMMA WorkerKeeps ==
    ASSUME BaseInv, NEW w \in Workers, WorkerLoop(w) \/ WorkerFetch(w) \/ WorkerBlock(w) \/ WorkerRecheck(w)
    PROVE  BaseInv'
<1> USE SchedulerAssumption DEF syncVars, coVars, runVars
<1>0. w \in Threads /\ w \in Executors /\ w # Main /\ w \notin Clients /\ Main \in Threads /\ Main \notin Clients
  BY DEF Threads, Executors
<1>1. CASE WorkerLoop(w)
  <2>1. PICK l \in {"fetch", "exited"} : Goto(w, l) /\ (l = "fetch" => running)
    BY <1>1 DEF WorkerLoop
  <2>2. UNCHANGED <<queue, active, running, syncVars, cur, home, coVars, runVars>> /\ pc[w] = "loop"
    BY <1>1 DEF WorkerLoop
  <2>3. TypeOK'
    BY <1>0, <2>1, <2>2, GotoType DEF BaseInv, TypeOK, Places
  <2>4. pc'[w] = l /\ \A u \in Threads \ {w} : pc'[u] = pc[u]
    BY <1>0, <2>1 DEF BaseInv, TypeOK, Goto
  <2>5. PlaceInv'
    BY <1>0, <2>1, <2>2, <2>4 DEF BaseInv, PlaceInv, WorkerPlace, MainPlace, ClientPlace, LockPlace, StopPlace,
                                  StallPlace, Holding, Stopping, Threads, Executors
  <2>6. QED
    BY <2>3, <2>5 DEF BaseInv
<1>2. CASE WorkerBlock(w)
  <2>1. Goto(w, "fetch") /\ pc[w] = "blocking" /\ qlock' = Nobody /\ waitset' = waitset \cup {w}
    BY <1>2 DEF WorkerBlock
  <2>2. UNCHANGED <<queue, active, running, cur, home, coVars, runVars>>
    BY <1>2 DEF WorkerBlock
  <2>3. TypeOK'
    BY <1>0, <2>1, <2>2, GotoType DEF BaseInv, TypeOK, Places
  <2>4. pc'[w] = "fetch" /\ \A u \in Threads \ {w} : pc'[u] = pc[u]
    BY <1>0, <2>1 DEF BaseInv, TypeOK, Goto
  <2>5. PlaceInv'
    BY <1>0, <2>1, <2>2, <2>4 DEF BaseInv, PlaceInv, WorkerPlace, MainPlace, ClientPlace, LockPlace, StopPlace,
                                  StallPlace, Holding, Stopping, Threads, Executors
  <2>6. QED
    BY <2>3, <2>5 DEF BaseInv
<1>3. CASE WorkerRecheck(w)
  <2>1. PICK l \in {"got", "exited"} : Goto(w, l)
    BY <1>3 DEF WorkerRecheck
  <2>2. UNCHANGED <<queue, active, running, syncVars, cur, home, coVars, runVars>> /\ pc[w] = "recheck"
    BY <1>3 DEF WorkerRecheck
  <2>3. TypeOK'
    BY <1>0, <2>1, <2>2, GotoType DEF BaseInv, TypeOK, Places
  <2>4. pc'[w] = l /\ \A u \in Threads \ {w} : pc'[u] = pc[u]
    BY <1>0, <2>1 DEF BaseInv, TypeOK, Goto
  <2>5. PlaceInv'
    BY <1>0, <2>1, <2>2, <2>4 DEF BaseInv, PlaceInv, WorkerPlace, MainPlace, ClientPlace, LockPlace, StopPlace,
                                  StallPlace, Holding, Stopping, Threads, Executors
  <2>6. QED
    BY <2>3, <2>5 DEF BaseInv
<1>4. CASE WorkerFetch(w)
  <2>0. pc[w] = "fetch" /\ w \notin waitset /\ qlock = Nobody
        /\ UNCHANGED <<active, running, waitset, coVars, runVars>>
    BY <1>4 DEF WorkerFetch
  <2>1. CASE running /\ queue = <<>> /\ Goto(w, "blocking") /\ qlock' = w /\ UNCHANGED <<queue, cur, home>>
    <3>1. TypeOK'
      BY <1>0, <2>0, <2>1, GotoType DEF BaseInv, TypeOK, Places
    <3>2. pc'[w] = "blocking" /\ \A u \in Threads \ {w} : pc'[u] = pc[u]
      BY <1>0, <2>1 DEF BaseInv, TypeOK, Goto
    <3>3. PlaceInv'
      BY <1>0, <2>0, <2>1, <3>2 DEF BaseInv, PlaceInv, WorkerPlace, MainPlace, ClientPlace, LockPlace, StopPlace,
                                    StallPlace, Holding, Stopping, Threads, Executors
    <3>4. QED
      BY <3>1, <3>3 DEF BaseInv
  <2>2. CASE Goto(w, "exited") /\ UNCHANGED <<queue, qlock, cur, home>>
    <3>1. TypeOK'
      BY <1>0, <2>0, <2>2, GotoType DEF BaseInv, TypeOK, Places
    <3>2. pc'[w] = "exited" /\ \A u \in Threads \ {w} : pc'[u] = pc[u]
      BY <1>0, <2>2 DEF BaseInv, TypeOK, Goto
    <3>3. PlaceInv'
      BY <1>0, <2>0, <2>2, <3>2 DEF BaseInv, PlaceInv, WorkerPlace, MainPlace, ClientPlace, LockPlace, StopPlace,
                                    StallPlace, Holding, Stopping, Threads, Executors
    <3>4. QED
      BY <3>1, <3>3 DEF BaseInv
  <2>3. CASE running /\ Pop(w, "loop") /\ Goto(w, "recheck") /\ UNCHANGED qlock
    <3>1. /\ queue' \in Seq(Coroutines) /\ cur' \in [Threads -> Coroutines \cup {None}]
          /\ home' \in [Threads -> {"loop", "progress", "drain", "release", "end"}]
          /\ cur'[w] \in Coroutines /\ home'[w] = "loop"
          /\ \A u \in Threads \ {w} : cur'[u] = cur[u] /\ home'[u] = home[u]
      BY <1>0, <2>3, PopType DEF BaseInv
    <3>2. TypeOK'
      BY <1>0, <2>0, <2>3, <3>1, GotoType DEF BaseInv, TypeOK, Places
    <3>3. pc'[w] = "recheck" /\ \A u \in Threads \ {w} : pc'[u] = pc[u]
      BY <1>0, <2>3 DEF BaseInv, TypeOK, Goto
    <3>4. PlaceInv'
      BY <1>0, <2>0, <2>3, <3>1, <3>3 DEF BaseInv, PlaceInv, WorkerPlace, MainPlace, ClientPlace, LockPlace,
                                          StopPlace, StallPlace, Holding, Stopping, Threads, Executors
    <3>5. QED
      BY <3>2, <3>4 DEF BaseInv
  <2>4. QED
    BY <1>4, <2>1, <2>2, <2>3 DEF WorkerFetch
<1>5. QED
  BY <1>1, <1>2, <1>3, <1>4

\* run() takes a handle.
LEMMA MainPops ==
    ASSUME BaseInv, pc[Main] \in {"take", "drainTake"}, NEW place \in {"progress", "drain"},
           pc[Main] = "drainTake" => place = "drain",
           Pop(Main, place), Goto(Main, "got"), waitset' \subseteq waitset \ {Main},
           UNCHANGED <<active, running, qlock, coVars, runVars>>
    PROVE  BaseInv'
<1> USE SchedulerAssumption DEF coVars, runVars
<1>0. Main \in Threads /\ Main \in Executors /\ Main \notin Workers \cup Clients
  BY DEF Threads, Executors
<1>1. /\ queue' \in Seq(Coroutines) /\ cur' \in [Threads -> Coroutines \cup {None}]
      /\ home' \in [Threads -> {"loop", "progress", "drain", "release", "end"}]
      /\ cur'[Main] \in Coroutines /\ home'[Main] = place
      /\ \A u \in Threads \ {Main} : cur'[u] = cur[u] /\ home'[u] = home[u]
  BY <1>0, PopType DEF BaseInv
<1>2. TypeOK'
  BY <1>0, <1>1, GotoType DEF BaseInv, TypeOK, Places
<1>3. pc'[Main] = "got" /\ \A u \in Threads \ {Main} : pc'[u] = pc[u]
  BY <1>0 DEF BaseInv, TypeOK, Goto
<1>4. PlaceInv'
  BY <1>0, <1>1, <1>3 DEF BaseInv, PlaceInv, WorkerPlace, MainPlace, ClientPlace, LockPlace, StopPlace, StallPlace,
                          Holding, Stopping, Threads, Executors
<1>5. QED
  BY <1>2, <1>4 DEF BaseInv

\* run() goes from place to place in its two loops.
LEMMA MainMoves ==
    ASSUME BaseInv,
           \/ MainTestActive \/ MainTestQueue \/ MainTake \/ MainTimeout \/ MainProgress \/ MainProgressQueue
           \/ MainDrain \/ MainDrainActive \/ MainDrainCheck \/ MainDrainTake
    PROVE  BaseInv'
<1> USE SchedulerAssumption DEF syncVars, coVars, runVars
<1>0. Main \in Threads /\ Main \in Executors /\ Main \notin Workers \cup Clients
  BY DEF Threads, Executors
<1>1. ASSUME NEW l \in {"loop", "testQueue", "take", "progress", "progressQueue", "drain", "drainActive", "drainCheck", "drainTake",
                        "returned"},
             pc[Main] \in {"loop", "testQueue", "take", "progress", "progressQueue", "drain", "drainActive",
                           "drainCheck", "drainTake"},
             Goto(Main, l), Main \notin waitset', waitset' \subseteq waitset,
             UNCHANGED <<queue, active, running, qlock, cur, home, coVars>>,
             last' \in Int, rounds' \in 0..DrainRounds, stalls' \in 0..MaxNoProgress,
             stalls' = MaxNoProgress => l \in {"drain", "drainActive", "drainCheck", "drainTake", "returned"}
      PROVE  BaseInv'
  <2>1. TypeOK'
    BY <1>0, <1>1, GotoType DEF BaseInv, TypeOK, Places
  <2>2. pc'[Main] = l /\ \A u \in Threads \ {Main} : pc'[u] = pc[u]
    BY <1>0, <1>1 DEF BaseInv, TypeOK, Goto
  <2>3. PlaceInv'
    BY <1>0, <1>1, <2>2 DEF BaseInv, PlaceInv, WorkerPlace, MainPlace, ClientPlace, LockPlace, StopPlace, StallPlace,
                            Holding, Stopping, Threads, Executors
  <2>4. QED
    BY <2>1, <2>3 DEF BaseInv
<1>2. /\ stalls \in 0..MaxNoProgress /\ rounds \in 0..DrainRounds /\ last \in Int /\ active \in Int
      /\ stalls = MaxNoProgress /\ pc[Main] \notin Holding
             => pc[Main] \in {"drain", "drainActive", "drainCheck", "drainTake", "returned", "notify"} \cup Stopping
      /\ Main \in waitset => pc[Main] = "take"
  BY DEF BaseInv, TypeOK, PlaceInv, StallPlace, LockPlace
<1>3. CASE MainTestActive \/ MainTestQueue \/ MainDrainActive \/ MainDrainCheck
  BY <1>1, <1>2, <1>3 DEF MainTestActive, MainTestQueue, MainDrainActive, MainDrainCheck, Holding, Stopping
<1>4. CASE MainTake
  <2>1. CASE Pop(Main, "progress") /\ Goto(Main, "got") /\ UNCHANGED waitset
    BY <1>4, <2>1, MainPops DEF MainTake
  <2>2. CASE waitset' = waitset \cup {Main} /\ UNCHANGED <<queue, pc, cur, home>>
    <3>1. pc[Main] = "take" /\ UNCHANGED <<active, running, qlock, coVars, runVars>>
      BY <1>4 DEF MainTake
    <3>2. TypeOK'
      BY <1>0, <2>2, <3>1 DEF BaseInv, TypeOK
    <3>3. PlaceInv'
      BY <1>0, <2>2, <3>1 DEF BaseInv, PlaceInv, WorkerPlace, MainPlace, ClientPlace, LockPlace, StopPlace,
                              StallPlace, Holding, Stopping
    <3>4. QED
      BY <3>2, <3>3 DEF BaseInv
  <2>3. QED
    BY <1>4, <2>1, <2>2 DEF MainTake
<1>5. CASE MainTimeout
  <2>1. CASE Pop(Main, "progress") /\ Goto(Main, "got")
    BY <1>5, <2>1, MainPops DEF MainTimeout
  <2>2. CASE Goto(Main, "progress") /\ UNCHANGED <<queue, cur, home>>
    BY <1>1, <1>2, <1>5, <2>2 DEF MainTimeout, Holding, Stopping
  <2>3. QED
    BY <1>5, <2>1, <2>2 DEF MainTimeout
<1>6. CASE MainProgress
  BY <1>1, <1>2, <1>6 DEF MainProgress, Holding, Stopping
<1>7. CASE MainProgressQueue
  <2>1. pc[Main] = "progressQueue" /\ stalls + 1 \in 0..MaxNoProgress
    BY <1>2, <1>7 DEF MainProgressQueue, Holding, Stopping
  <2>2. UNCHANGED <<queue, active, running, syncVars, cur, home, coVars, last, rounds>>
    BY <1>7 DEF MainProgressQueue
  <2>3. CASE stalls' = stalls + 1 /\ Goto(Main, IF stalls' >= MaxNoProgress THEN "drain" ELSE "loop")
    BY <1>1, <1>2, <2>1, <2>2, <2>3
  <2>4. CASE stalls' = 0 /\ Goto(Main, "loop")
    BY <1>1, <1>2, <2>1, <2>2, <2>4
  <2>5. QED
    BY <1>7, <2>3, <2>4 DEF MainProgressQueue
<1>8. CASE MainDrain
  <2>1. pc[Main] = "drain" /\ UNCHANGED <<queue, active, running, syncVars, cur, home, coVars, last, stalls>>
    BY <1>8 DEF MainDrain
  <2>2. PICK l \in {"returned", "drainActive", "drainCheck"} : Goto(Main, l)
    BY <1>8 DEF MainDrain
  <2>3. rounds' \in 0..DrainRounds
    BY <1>2, <1>8 DEF MainDrain
  <2>4. QED
    BY <1>1, <1>2, <2>1, <2>2, <2>3
<1>9. CASE MainDrainTake
  <2>1. CASE Pop(Main, "drain") /\ Goto(Main, "got")
    BY <1>2, <1>9, <2>1, MainPops DEF MainDrainTake
  <2>2. CASE Goto(Main, "drain") /\ UNCHANGED <<queue, cur, home>>
    BY <1>1, <1>2, <1>9, <2>2 DEF MainDrainTake, Holding, Stopping
  <2>3. QED
    BY <1>9, <2>1, <2>2 DEF MainDrainTake
<1>10. QED
  BY <1>3, <1>4, <1>5, <1>6, <1>7, <1>8, <1>9

\* run() is called: init() starts the workers.
LEMMA RunKeeps == BaseInv /\ MainRun => BaseInv'
<1> SUFFICES ASSUME BaseInv, MainRun PROVE BaseInv'
  OBVIOUS
<1> USE SchedulerAssumption DEF syncVars, coVars, runVars
<1>1. /\ pc[Main] = "idle" /\ running' = TRUE
      /\ pc' = [t \in Threads |-> IF t \in Executors THEN "loop" ELSE pc[t]]
      /\ UNCHANGED <<queue, active, syncVars, cur, home, coVars, runVars>>
  BY DEF MainRun
<1>2. Main \in Executors /\ Workers \subseteq Executors /\ Clients \cap Executors = {}
      /\ Executors \subseteq Threads /\ Clients \subseteq Threads
  BY DEF Threads, Executors
<1>3. pc' \in [Threads -> Places]
  BY <1>1 DEF BaseInv, TypeOK, Places
<1>4. TypeOK'
  BY <1>1, <1>3 DEF BaseInv, TypeOK
<1>5. (\A t \in Executors : pc'[t] = "loop") /\ (\A t \in Clients : pc'[t] = pc[t])
  BY <1>1, <1>2
<1>6. PlaceInv'
  BY <1>1, <1>2, <1>5 DEF BaseInv, PlaceInv, WorkerPlace, MainPlace, ClientPlace, LockPlace, StopPlace, StallPlace,
                          Holding, Stopping
<1>7. QED
  BY <1>4, <1>6 DEF BaseInv

\* The steps of stop().
LEMMA StopKeeps ==
    ASSUME BaseInv, StopMark \/ StopNotify \/ StopJoin \/ StopDestroy \/ StopReset
    PROVE  BaseInv'
<1> USE SchedulerAssumption DEF syncVars, coVars, runVars
<1>0. Main \in Threads /\ Main \in Executors /\ Main \notin Workers \cup Clients
  BY DEF Threads, Executors
<1>1. PICK l \in {"notify"} \cup Stopping : Goto(Main, l) /\ pc[Main] \in {"returned", "notify"} \cup Stopping
  BY DEF StopMark, StopNotify, StopJoin, StopDestroy, StopReset, Stopping
<1>2. UNCHANGED <<qlock, cur, home, turns, runVars>>
  BY DEF StopMark, StopNotify, StopJoin, StopDestroy, StopReset
<1>3. pc'[Main] = l /\ \A u \in Threads \ {Main} : pc'[u] = pc[u]
  BY <1>0, <1>1 DEF BaseInv, TypeOK, Goto
<1>4. TypeOK'
  <2>1. l \in Places
    BY DEF Stopping, Places
  <2>2. /\ queue' \in Seq(Coroutines) /\ active' \in Int /\ running' \in BOOLEAN
        /\ waitset' \in SUBSET Executors /\ co' \in [Coroutines -> {"suspended", "done", "destroyed"}]
    <3>1. <<>> \in Seq(Coroutines)
      OBVIOUS
    <3>2. CASE StopDestroy
      BY <3>1, <3>2 DEF StopDestroy, BaseInv, TypeOK
    <3>3. CASE StopMark \/ StopNotify
      BY <3>3 DEF StopMark, StopNotify, BaseInv, TypeOK
    <3>4. CASE StopJoin \/ StopReset
      BY <3>4 DEF StopJoin, StopReset, BaseInv, TypeOK
    <3>5. QED
      BY <3>2, <3>3, <3>4
  <2>3. QED
    BY <1>0, <1>1, <1>2, <2>1, <2>2, GotoType DEF BaseInv, TypeOK
<1>5. PlaceInv'
  <2>1. CASE StopMark
    BY <1>0, <1>2, <1>3, <2>1 DEF StopMark, Goto, BaseInv, TypeOK, PlaceInv, WorkerPlace, MainPlace, ClientPlace,
                                  LockPlace, StopPlace, StallPlace, Holding, Stopping, Threads, Executors
  <2>2. CASE StopNotify
    BY <1>0, <1>2, <1>3, <2>2 DEF StopNotify, Goto, BaseInv, TypeOK, PlaceInv, WorkerPlace, MainPlace, ClientPlace,
                                  LockPlace, StopPlace, StallPlace, Holding, Stopping, Threads, Executors
  <2>3. CASE StopJoin
    BY <1>0, <1>2, <1>3, <2>3 DEF StopJoin, Goto, BaseInv, TypeOK, PlaceInv, WorkerPlace, MainPlace, ClientPlace,
                                  LockPlace, StopPlace, StallPlace, Holding, Stopping, Threads, Executors
  <2>4. CASE StopDestroy
    BY <1>0, <1>2, <1>3, <2>4 DEF StopDestroy, Goto, BaseInv, TypeOK, PlaceInv, WorkerPlace, MainPlace, ClientPlace,
                                  LockPlace, StopPlace, StallPlace, Holding, Stopping, Threads, Executors
  <2>5. CASE StopReset
    BY <1>0, <1>2, <1>3, <2>5 DEF StopReset, Goto, BaseInv, TypeOK, PlaceInv, WorkerPlace, MainPlace, ClientPlace,
                                  LockPlace, StopPlace, StallPlace, Holding, Stopping, Threads, Executors
  <2>6. QED
    BY <2>1, <2>2, <2>3, <2>4, <2>5
<1>6. QED
  BY <1>4, <1>5 DEF BaseInv

\* The calls of other threads.
LEMMA ClientKeeps ==
    ASSUME BaseInv, NEW t \in Clients, (t \in Wakers /\ Wake(t)) \/ (t \in Spawners /\ Spawn(t)) \/ ClientStep(t)
    PROVE  BaseInv'
<1> USE SchedulerAssumption DEF syncVars, coVars, runVars
<1>0. t \in Threads /\ t \notin Executors /\ Target[t] \in Coroutines /\ Main \in Executors /\ Workers \subseteq Executors
  BY DEF Threads, Executors
<1>1. pc[t] \in {"idle", "count", "push", "complete", "decrement", "release", "end"} /\ home[t] \in {"end", "release"} \cup {home[t]}
  BY DEF BaseInv, PlaceInv, ClientPlace
<1>2. TypeOK'
  <2>1. CASE Schedule(t) \/ TaskCompleted(t)
    BY <1>0, <2>1, ThreadStepType
  <2>2. CASE Wake(t) \/ Spawn(t)
    <3>1. PICK l \in {"count", "complete"} : Goto(t, l)
      BY <2>2 DEF Wake, Spawn
    <3>2. pc' \in [Threads -> Places]
      BY <1>0, <3>1, GotoType DEF BaseInv, Places
    <3>3. cur' \in [Threads -> Coroutines \cup {None}]
      <4>1. cur' = [cur EXCEPT ![t] = Target[t]]
        BY <2>2 DEF Wake, Spawn
      <4>2. QED
        BY <1>0, <4>1 DEF BaseInv, TypeOK
    <3>4. active' \in Int
      BY <2>2 DEF Wake, Spawn, Started, BaseInv, TypeOK
    <3>5. home' \in [Threads -> {"loop", "progress", "drain", "release", "end"}]
      BY <2>2 DEF Wake, Spawn, BaseInv, TypeOK
    <3>6. QED
      BY <2>2, <3>2, <3>3, <3>4, <3>5 DEF Wake, Spawn, BaseInv, TypeOK
  <2>3. CASE Release(t)
    <3>1. pc' \in [Threads -> Places]
      BY <1>0, <2>3, GotoType DEF Release, BaseInv, Places
    <3>2. co' \in [Coroutines -> {"suspended", "done", "destroyed"}]
      BY <2>3 DEF Release, BaseInv, TypeOK
    <3>3. QED
      BY <2>3, <3>1, <3>2 DEF Release, BaseInv, TypeOK
  <2>4. QED
    BY <2>1, <2>2, <2>3 DEF ClientStep
<1>3. /\ ClientPlace'
      /\ \A u \in Threads \ {t} : pc'[u] = pc[u] /\ cur'[u] = cur[u] /\ home'[u] = home[u]
      /\ waitset' \subseteq waitset /\ UNCHANGED <<running, qlock, stalls>>
  <2>1. CASE (t \in Wakers /\ Wake(t)) \/ (t \in Spawners /\ Spawn(t))
    <3>1. /\ \/ pc' = [pc EXCEPT ![t] = "count"] /\ home' = home
             \/ pc' = [pc EXCEPT ![t] = "complete"] /\ home' = [home EXCEPT ![t] = "release"] /\ t \in Spawners
          /\ pc[t] = "idle" /\ cur' = [cur EXCEPT ![t] = Target[t]] /\ UNCHANGED <<running, qlock, waitset, stalls>>
      BY <2>1 DEF Wake, Spawn, Goto
    <3>2. QED
      BY <1>0, <3>1 DEF BaseInv, TypeOK, PlaceInv, ClientPlace, Threads
  <2>2. CASE Schedule(t)
    BY <1>0, <1>1, <2>2 DEF Schedule, ScheduleCount, SchedulePush, Goto, BaseInv, TypeOK, PlaceInv, ClientPlace,
                            Threads
  <2>3. CASE TaskCompleted(t) \/ Release(t)
    BY <1>0, <1>1, <2>3 DEF TaskCompleted, CompleteTest, Decrement, Release, Goto, BaseInv, TypeOK, PlaceInv,
                            ClientPlace, Threads
  <2>4. QED
    BY <2>1, <2>2, <2>3 DEF ClientStep
<1>4. PlaceInv'
  BY <1>0, <1>3 DEF BaseInv, PlaceInv, WorkerPlace, MainPlace, ClientPlace, LockPlace, StopPlace, StallPlace,
                    Holding, Stopping, Threads, Executors
<1>5. QED
  BY <1>2, <1>4 DEF BaseInv

\* Every step.
LEMMA BaseStep == BaseInv /\ [Next]_vars => BaseInv'
<1> SUFFICES ASSUME BaseInv, [Next]_vars PROVE BaseInv'
  OBVIOUS
<1>1. ASSUME NEW t \in Executors, Handle(t) \/ Schedule(t) \/ TaskCompleted(t) PROVE BaseInv'
  BY <1>1, ExecutorStepPlace, ThreadStepType DEF BaseInv, Threads
<1>2. ASSUME NEW w \in Workers, WorkerStep(w) PROVE BaseInv'
  BY <1>1, <1>2, WorkerKeeps DEF WorkerStep, Executors
<1>3. ASSUME NEW w \in Workers, SpuriousWakeup(w) PROVE BaseInv'
  BY <1>3 DEF SpuriousWakeup, coVars, runVars, TypeOK, BaseInv, PlaceInv, WorkerPlace, MainPlace, ClientPlace,
              LockPlace, StopPlace, StallPlace, Holding, Stopping
<1>4. CASE MainStep
  BY <1>1, <1>4, MainMoves, StopKeeps DEF MainStep, Executors
<1>5. ASSUME NEW t \in Clients, (t \in Wakers /\ Wake(t)) \/ (t \in Spawners /\ Spawn(t)) \/ ClientStep(t) PROVE BaseInv'
  BY <1>5, ClientKeeps
<1>6. CASE UNCHANGED vars
  BY <1>6 DEF vars, TypeOK, BaseInv, PlaceInv, WorkerPlace, MainPlace, ClientPlace, LockPlace, StopPlace, StallPlace,
              Holding, Stopping
<1>7. QED
  BY <1>2, <1>3, <1>4, <1>5, <1>6, RunKeeps DEF Next, Clients

\* The fields of the scheduler and the places of its threads have their types; run()'s
\* counters stay within their bounds.
THEOREM SchedulerTypes == Spec => []TypeOK
<1>1. BaseInv => TypeOK
  BY DEF BaseInv
<1>2. QED
  BY <1>1, BaseInit, BaseStep, PTL DEF Spec

\* Once stop() has notified, no worker sleeps or is about to: a worker that has read
\* running_ before stop() cleared it blocks before the notification, which takes the
\* mutex, or sees the new value.
THEOREM StopWakesEveryone == Spec => []NobodySleepsThroughStop
<1>1. BaseInv => NobodySleepsThroughStop
  BY DEF BaseInv, PlaceInv, StopPlace, Stopping, NobodySleepsThroughStop
<1>2. QED
  BY <1>1, BaseInit, BaseStep, PTL DEF Spec

-----------------------------------------------------------------------------
\* Who will see a handle that is queued.
Awake == {t \in Executors : t \notin waitset /\ (t = Main => pc[t] = "take")}

\* A push wakes somebody, or nobody sleeps: each queued handle has somebody of its
\* own who is awake.  While a worker holds the mutex and is about to block, the
\* queue is empty.
SeenInv ==
    /\ qlock # Nobody => queue = <<>>
    /\ running /\ waitset # {} => Len(queue) <= Cardinality(Awake)

\* More awake, and one more queued.
LEMMA MoreAwake ==
    ASSUME NEW A \in SUBSET Executors, NEW B \in SUBSET Executors, A \subseteq B
    PROVE  /\ Cardinality(A) \in Nat /\ Cardinality(B) \in Nat /\ Cardinality(A) <= Cardinality(B)
           /\ \A u \in B \ A : Cardinality(A) + 1 <= Cardinality(B)
           /\ Cardinality(A) = 0 => A = {}
<1>1. IsFiniteSet(A) /\ IsFiniteSet(B)
  BY SchedulerAssumption, FS_Subset DEF Threads
<1>2. ASSUME NEW u \in B \ A PROVE Cardinality(A) + 1 <= Cardinality(B)
  <2>1. Cardinality(A \cup {u}) = Cardinality(A) + 1 /\ IsFiniteSet(A \cup {u})
    BY <1>1, <1>2, FS_AddElement
  <2>2. A \cup {u} \subseteq B
    BY <1>2
  <2>3. QED
    BY <1>1, <2>1, <2>2, FS_Subset
<1>3. QED
  BY <1>1, <1>2, FS_CardinalityType, FS_Subset, FS_EmptySet

\* A step that lets nobody fall asleep and queues nothing.
LEMMA SeenQuiet ==
    ASSUME BaseInv, SeenInv, qlock' \in {qlock, Nobody}, running' => running, waitset' \subseteq waitset,
           queue' \in Seq(Coroutines), Len(queue') <= Len(queue), Awake \subseteq Awake'
    PROVE  SeenInv'
<1>1. Len(queue) \in Nat /\ Len(queue') \in Nat /\ (Len(queue) = 0 <=> queue = <<>>) /\ (Len(queue') = 0 <=> queue' = <<>>)
  BY DEF BaseInv, TypeOK
<1>2. Awake \in SUBSET Executors /\ Awake' \in SUBSET Executors
  BY DEF Awake
<1>3. Cardinality(Awake) \in Nat /\ Cardinality(Awake') \in Nat /\ Cardinality(Awake) <= Cardinality(Awake')
  BY <1>2, MoreAwake
<1>4. qlock' # Nobody => queue' = <<>>
  BY <1>1 DEF SeenInv
<1>5. QED
  BY <1>1, <1>3, <1>4 DEF SeenInv

\* A push.
LEMMA SeenPush ==
    ASSUME BaseInv, SeenInv, NEW t \in Threads, NEW from \in {"push", "yieldPush"}, NEW back,
           SchedulePush(t, from, back), cur[t] \in Coroutines
    PROVE  SeenInv'
<1>1. /\ pc[t] = from /\ qlock = Nobody /\ queue' = Append(queue, cur[t]) /\ UNCHANGED <<qlock, running>>
      /\ pc' = [pc EXCEPT ![t] = back]
  BY DEF SchedulePush, Goto
<1>2. Len(queue) \in Nat /\ Len(queue') = Len(queue) + 1
  BY <1>1, AppendType DEF BaseInv, TypeOK
<1>3. CASE waitset = {} /\ UNCHANGED waitset
  BY <1>1, <1>3 DEF SeenInv
<1>4. ASSUME NEW u \in waitset, waitset' = waitset \ {u} PROVE SeenInv'
  <2>1. u \in Executors /\ (u = Main => pc[u] = "take") /\ t \in Threads /\ (t # Main => pc'[Main] = pc[Main])
    BY <1>1, <1>4 DEF BaseInv, TypeOK, PlaceInv, LockPlace
  <2>2. Awake \subseteq Awake' /\ u \in Awake' \ Awake /\ Awake \in SUBSET Executors /\ Awake' \in SUBSET Executors
    BY <1>1, <1>4, <2>1 DEF Awake
  <2>3. Cardinality(Awake) + 1 <= Cardinality(Awake') /\ Cardinality(Awake) \in Nat /\ Cardinality(Awake') \in Nat
    BY <2>2, MoreAwake
  <2>4. QED
    BY <1>1, <1>2, <1>4, <2>3 DEF SeenInv
<1>5. QED
  BY <1>3, <1>4 DEF SchedulePush

\* Taking a handle shortens the queue.
LEMMA PopShortens ==
    ASSUME TypeOK, NEW t \in Threads, NEW place \in {"loop", "progress", "drain"}, Pop(t, place)
    PROVE  Len(queue') = Len(queue) - 1 /\ Len(queue) \in Nat \ {0} /\ queue' \in Seq(Coroutines)
BY HeadTail DEF TypeOK, Pop

\* Every step preserves it.
LEMMA SeenStep == BaseInv /\ SeenInv /\ [Next]_vars => SeenInv'
<1> SUFFICES ASSUME BaseInv, SeenInv, [Next]_vars PROVE SeenInv'
  OBVIOUS
<1> USE DEF syncVars, coVars, runVars
<1>0. /\ queue \in Seq(Coroutines) /\ Len(queue) \in Nat /\ (Len(queue) = 0 <=> queue = <<>>)
      /\ Main \in Executors /\ Executors \subseteq Threads /\ Clients \subseteq Threads /\ Main \notin Workers \cup Clients
      /\ Workers \subseteq Executors
  BY SchedulerAssumption DEF BaseInv, TypeOK, Threads, Executors
\* A thread that is not run() at "take" goes somewhere else.
<1>1. ASSUME NEW t \in Threads, NEW l, Goto(t, l), ~(t = Main /\ pc[Main] = "take"), UNCHANGED waitset
      PROVE  Awake \subseteq Awake'
  BY <1>1 DEF Goto, Awake, BaseInv, TypeOK
<1>2. ASSUME NEW t \in Threads, Handle(t) \/ TaskCompleted(t) PROVE SeenInv'
  <2>1. PICK l : Goto(t, l) /\ pc[t] # "take" /\ UNCHANGED <<queue, running, qlock, waitset>>
    BY <1>2 DEF Handle, Dispatch, Finish, Suspend, AfterResume, TaskCompleted, CompleteTest, Decrement
  <2>2. QED
    BY <1>0, <1>1, <2>1, SeenQuiet
<1>3. ASSUME NEW t \in Threads, Schedule(t) PROVE SeenInv'
  <2>1. ASSUME NEW from \in {"count", "yield"}, NEW push, NEW back, ScheduleCount(t, from, push, back) PROVE SeenInv'
    <3>1. PICK l : Goto(t, l) /\ pc[t] # "take" /\ UNCHANGED <<queue, running, qlock, waitset>>
      BY <2>1 DEF ScheduleCount
    <3>2. QED
      BY <1>0, <1>1, <3>1, SeenQuiet
  <2>2. pc[t] \in {"push", "yieldPush"} => cur[t] \in Coroutines
    <3>1. t \in Executors /\ pc[t] \in Holding => cur[t] \in Coroutines
      BY DEF BaseInv, PlaceInv, WorkerPlace, MainPlace, Executors
    <3>2. t \in Clients /\ pc[t] \in {"push", "yieldPush"} => cur[t] \in Coroutines
      BY SchedulerAssumption DEF BaseInv, PlaceInv, ClientPlace
    <3>3. QED
      BY <3>1, <3>2 DEF Threads, Holding
  <2>3. ASSUME NEW from \in {"push", "yieldPush"}, NEW back, SchedulePush(t, from, back) PROVE SeenInv'
    BY <2>2, <2>3, SeenPush DEF SchedulePush
  <2>4. QED
    BY <1>3, <2>1, <2>3 DEF Schedule
<1>4. ASSUME NEW w \in Workers, WorkerLoop(w) \/ WorkerRecheck(w) PROVE SeenInv'
  <2>1. PICK l : Goto(w, l) /\ UNCHANGED <<queue, running, qlock, waitset>>
    BY <1>4 DEF WorkerLoop, WorkerRecheck
  <2>2. QED
    BY <1>0, <1>1, <2>1, SeenQuiet
<1>5. ASSUME NEW w \in Workers, WorkerFetch(w) PROVE SeenInv'
  <2>1. PICK l : Goto(w, l) /\ UNCHANGED <<running, waitset>> /\ qlock = Nobody
    BY <1>5 DEF WorkerFetch
  <2>2. Awake \subseteq Awake'
    BY <1>0, <1>1, <2>1
  <2>3. CASE queue = <<>> /\ UNCHANGED queue
    <3>1. Len(queue') = 0 /\ Cardinality(Awake') \in Nat
      BY <2>3, MoreAwake DEF Awake
    <3>2. QED
      BY <2>3, <3>1 DEF SeenInv
  <2>4. CASE UNCHANGED <<queue, qlock>>
    BY <1>0, <2>1, <2>2, <2>4, SeenQuiet
  <2>5. CASE Pop(w, "loop") /\ UNCHANGED qlock
    <3>1. Len(queue') <= Len(queue) /\ queue' \in Seq(Coroutines)
      BY <1>0, <2>5, PopShortens DEF BaseInv
    <3>2. QED
      BY <1>0, <2>1, <2>2, <2>5, <3>1, SeenQuiet
  <2>6. QED
    BY <1>5, <2>3, <2>4, <2>5 DEF WorkerFetch
<1>6. ASSUME NEW w \in Workers, WorkerBlock(w) PROVE SeenInv'
  <2>1. queue = <<>> /\ UNCHANGED queue /\ qlock' = Nobody
    BY <1>6, SchedulerAssumption DEF WorkerBlock, SeenInv, BaseInv, PlaceInv, LockPlace, Threads, Executors
  <2>2. Len(queue') = 0 /\ Cardinality(Awake') \in Nat
    BY <2>1, MoreAwake DEF Awake
  <2>3. QED
    BY <2>1, <2>2 DEF SeenInv
<1>7. ASSUME NEW w \in Workers, SpuriousWakeup(w) PROVE SeenInv'
  <2>1. waitset' \subseteq waitset /\ UNCHANGED <<queue, running, qlock, pc>>
    BY <1>7 DEF SpuriousWakeup
  <2>2. Awake \subseteq Awake'
    BY <2>1 DEF Awake
  <2>3. QED
    BY <1>0, <2>1, <2>2, SeenQuiet
<1>8. CASE MainTestActive \/ MainTestQueue \/ MainProgress \/ MainProgressQueue \/ MainDrain \/ MainDrainActive \/ MainDrainCheck \/ StopJoin
           \/ StopMark \/ StopReset
  <2>1. PICK l : Goto(Main, l) /\ pc[Main] # "take" /\ UNCHANGED <<queue, qlock, waitset>> /\ (running' => running)
    <3>1. CASE MainTestActive \/ MainTestQueue \/ MainDrain \/ MainDrainActive \/ MainDrainCheck
      BY <3>1 DEF MainTestActive, MainTestQueue, MainDrain, MainDrainActive, MainDrainCheck
    <3>2. CASE MainProgress \/ MainProgressQueue
      BY <3>2 DEF MainProgress, MainProgressQueue
    <3>3. CASE StopJoin \/ StopMark \/ StopReset
      BY <3>3 DEF StopJoin, StopMark, StopReset
    <3>4. QED
      BY <1>8, <3>1, <3>2, <3>3
  <2>2. QED
    BY <1>0, <1>1, <2>1, SeenQuiet
<1>9. CASE MainTake
  <2>0. pc[Main] = "take" /\ Main \notin waitset /\ qlock = Nobody /\ UNCHANGED <<running, qlock>>
    BY <1>9 DEF MainTake
  <2>1. CASE Pop(Main, "progress") /\ Goto(Main, "got") /\ UNCHANGED waitset
    <3>1. Len(queue') = Len(queue) - 1
      BY <1>0, <2>1, PopShortens DEF BaseInv
    <3>2. Main \in Awake /\ Awake' = Awake \ {Main} /\ Awake \in SUBSET Executors
      BY <1>0, <2>0, <2>1 DEF Awake, Goto, BaseInv, TypeOK
    <3>3. IsFiniteSet(Awake)
      BY <3>2, SchedulerAssumption, FS_Subset DEF Threads
    <3>4. Cardinality(Awake') = Cardinality(Awake) - 1 /\ Cardinality(Awake) \in Nat
      BY <3>2, <3>3, FS_RemoveElement, FS_CardinalityType
    <3>5. QED
      BY <1>0, <2>0, <2>1, <3>1, <3>4 DEF SeenInv
  <2>2. CASE queue = <<>> /\ UNCHANGED queue
    <3>1. Len(queue') = 0 /\ Cardinality(Awake') \in Nat
      BY <2>2, MoreAwake DEF Awake
    <3>2. QED
      BY <2>0, <2>2, <3>1 DEF SeenInv
  <2>3. QED
    BY <1>9, <2>1, <2>2 DEF MainTake
<1>10. CASE MainTimeout
  <2>1. pc[Main] = "take" /\ Main \in waitset /\ waitset' = waitset \ {Main} /\ UNCHANGED <<running, qlock>>
        /\ \E l : Goto(Main, l)
    BY <1>10 DEF MainTimeout
  <2>2. Awake \subseteq Awake'
    BY <2>1 DEF Awake, Goto, BaseInv, TypeOK
  <2>3. Len(queue') <= Len(queue) /\ queue' \in Seq(Coroutines)
    BY <1>0, <1>10, PopShortens DEF MainTimeout, BaseInv
  <2>4. QED
    BY <2>1, <2>2, <2>3, SeenQuiet
<1>11. CASE MainDrainTake
  <2>1. PICK l : Goto(Main, l) /\ pc[Main] # "take" /\ UNCHANGED <<running, qlock, waitset>>
    BY <1>11 DEF MainDrainTake
  <2>2. Len(queue') <= Len(queue) /\ queue' \in Seq(Coroutines)
    BY <1>0, <1>11, PopShortens DEF MainDrainTake, BaseInv
  <2>3. QED
    BY <1>0, <1>1, <2>1, <2>2, SeenQuiet
<1>12. CASE StopNotify \/ StopDestroy
  <2>1. ~running' /\ UNCHANGED qlock /\ queue' \in {queue, <<>>}
    BY <1>12 DEF StopNotify, StopDestroy, BaseInv, PlaceInv, MainPlace, Stopping
  <2>2. QED
    BY <2>1 DEF SeenInv
<1>13. CASE MainRun
  <2>1. waitset' = {} /\ UNCHANGED <<queue, qlock>>
    BY <1>13, <1>0 DEF MainRun, BaseInv, TypeOK, PlaceInv, LockPlace, WorkerPlace, Executors
  <2>2. QED
    BY <2>1 DEF SeenInv
<1>14. ASSUME NEW t \in Clients, Wake(t) \/ Spawn(t) \/ Release(t) PROVE SeenInv'
  <2>1. PICK l : Goto(t, l) /\ UNCHANGED <<queue, running, qlock, waitset>>
    BY <1>14 DEF Wake, Spawn, Release
  <2>2. QED
    BY <1>0, <1>1, <2>1, SeenQuiet
<1>15. CASE UNCHANGED vars
  BY <1>15 DEF vars, SeenInv, Awake
<1>16. ASSUME NEW w \in Workers, WorkerStep(w) PROVE SeenInv'
  BY <1>0, <1>2, <1>3, <1>4, <1>5, <1>6, <1>16 DEF WorkerStep
<1>17. CASE MainStep
  BY <1>0, <1>2, <1>3, <1>8, <1>9, <1>10, <1>11, <1>12, <1>17 DEF MainStep
<1>18. ASSUME NEW t \in Clients, ClientStep(t) PROVE SeenInv'
  BY <1>0, <1>2, <1>3, <1>14, <1>18 DEF ClientStep
<1>19. QED
  BY <1>7, <1>13, <1>14, <1>15, <1>16, <1>17, <1>18 DEF Next, Clients

\* While the scheduler runs and a handle is queued, not everyone sleeps: no wakeup is
\* lost, and none that run() gets in a worker's stead is wasted.
THEOREM QueuedWorkIsSeen == Spec => []WorkIsSeen
<1>1. Init => SeenInv
  BY DEF Init, SeenInv
<1>2. BaseInv /\ SeenInv => WorkIsSeen
  <2> SUFFICES ASSUME BaseInv, SeenInv, running, queue # <<>> PROVE Awake # {}
    BY DEF WorkIsSeen, Awake
  <2>1. CASE waitset = {}
    BY <2>1, SchedulerAssumption DEF Awake, Executors, Clients
  <2>2. CASE waitset # {}
    <3>1. Len(queue) \in Nat \ {0}
      BY HeadTail DEF BaseInv, TypeOK
    <3>2. QED
      BY <2>2, <3>1, FS_EmptySet DEF SeenInv
  <2>3. QED
    BY <2>1, <2>2
<1>3. QED
  BY <1>1, <1>2, BaseInit, BaseStep, SeenStep, PTL DEF Spec

-----------------------------------------------------------------------------
\* What the scheduler does with each handle: it is queued once, one thread is
\* inside its coroutine, it is counted, and it is not used when it is destroyed.

\* What a step does to the queue and to the threads that have handles.

\* t is to schedule c, or works on it.
Has(t, c) ==
    \/ t \in Clients /\ Target[t] = c /\ pc[t] \in {"idle", "count", "push"}
    \/ t \in Executors /\ cur[t] = c /\ pc[t] \in Holding

\* What a push or a pop, and every other step, does to the handles.
Pushes(t) ==
    /\ queue' = Append(queue, cur[t])
    /\ cur[t] \in Coroutines /\ Has(t, cur[t])
    /\ \/ \A c \in Coroutines : ~Has(t, c)'
       \/ pc[t] = "yieldPush" /\ \A c \in Coroutines : Has(t, c)' => Has(t, c)
    /\ \A u \in Threads \ {t}, c \in Coroutines : Has(u, c)' => Has(u, c)

Pops(t) ==
    /\ queue # <<>> /\ queue' = Tail(queue)
    /\ t \in Executors
    /\ \A c \in Coroutines : Has(t, c)' => c = Head(queue)
    /\ \A u \in Threads \ {t}, c \in Coroutines : Has(u, c)' => Has(u, c)

Keeps ==
    /\ queue' \in {queue, <<>>}
    /\ \A u \in Threads, c \in Coroutines : Has(u, c)' => Has(u, c)

\* A thread that moves, and whose handle is the same.
LEMMA MoveKeeps ==
    ASSUME BaseInv, NEW t \in Threads, NEW l, Goto(t, l), UNCHANGED <<queue, cur>>,
           t \in Executors /\ l \in Holding => pc[t] \in Holding,
           t \in Clients /\ l \in {"idle", "count", "push"} => pc[t] \in {"idle", "count", "push"}
    PROVE  Keeps
<1>1. pc'[t] = l /\ \A u \in Threads \ {t} : pc'[u] = pc[u]
  BY DEF Goto, BaseInv, TypeOK
<1>2. QED
  BY <1>1 DEF Keeps, Has

\* Every step is one of the three.
LEMMA StepKinds ==
    ASSUME BaseInv, [Next]_vars
    PROVE  Keeps \/ \E t \in Threads : Pushes(t) \/ Pops(t)
<1> USE DEF syncVars, coVars, runVars
<1>0. /\ Main \in Executors /\ Executors \subseteq Threads /\ Clients \subseteq Threads /\ Main \notin Workers \cup Clients
      /\ Workers \subseteq Executors /\ Workers \cap Clients = {} /\ Executors \cap Clients = {}
      /\ \A t \in Executors : t \notin Clients /\ (t = Main \/ t \in Workers)
      /\ \A t \in Threads : t \in Executors \/ t \in Clients
  BY SchedulerAssumption DEF Threads, Executors
<1>1. \A t \in Executors : pc[t] \in Holding => cur[t] \in Coroutines /\ home[t] \in {"loop", "progress", "drain"}
  BY <1>0 DEF BaseInv, PlaceInv, WorkerPlace, MainPlace
<1>2. \A t \in Clients : /\ pc[t] \in {"idle", "count", "push", "complete", "decrement", "release", "end"}
                         /\ pc[t] \notin {"idle", "end"} => cur[t] = Target[t] /\ cur[t] \in Coroutines
                         /\ home[t] \in {"end", "release"} \/ pc[t] \notin {"count", "push", "complete", "decrement"}
  BY SchedulerAssumption DEF BaseInv, PlaceInv, ClientPlace
<1>3. ASSUME NEW t \in Executors, Handle(t) \/ TaskCompleted(t) PROVE Keeps
  <2>1. PICK l : Goto(t, l) /\ l # "idle" /\ pc[t] \in Holding /\ UNCHANGED <<queue, cur>>
    BY <1>1, <1>3 DEF Handle, Dispatch, Finish, Suspend, AfterResume, TaskCompleted, CompleteTest, Decrement, Holding
  <2>2. QED
    BY <1>0, <2>1, MoveKeeps
<1>4. ASSUME NEW t \in Executors, Schedule(t) PROVE Keeps \/ Pushes(t)
  <2>1. ASSUME NEW from \in {"count", "yield"}, NEW push \in {"push", "yieldPush"}, NEW back \in {home[t], "after"},
               ScheduleCount(t, from, push, back)
        PROVE  Keeps
    <3>1. PICK l : Goto(t, l) /\ l # "idle" /\ pc[t] \in Holding /\ UNCHANGED <<queue, cur>>
      BY <1>1, <2>1 DEF ScheduleCount, Holding
    <3>2. QED
      BY <1>0, <3>1, MoveKeeps
  <2>2. CASE SchedulePush(t, "push", home[t])
    <3>1. pc[t] = "push" /\ Goto(t, home[t]) /\ queue' = Append(queue, cur[t]) /\ UNCHANGED cur
          /\ home[t] \notin Holding /\ cur[t] \in Coroutines
      BY <1>1, <2>2 DEF SchedulePush, Holding
    <3>2. pc'[t] = home[t] /\ \A u \in Threads \ {t} : pc'[u] = pc[u]
      BY <1>0, <3>1 DEF Goto, BaseInv, TypeOK
    <3>3. QED
      BY <1>0, <3>1, <3>2 DEF Pushes, Has, Holding
  <2>3. CASE SchedulePush(t, "yieldPush", "after")
    <3>1. pc[t] = "yieldPush" /\ Goto(t, "after") /\ queue' = Append(queue, cur[t]) /\ UNCHANGED cur
          /\ cur[t] \in Coroutines
      BY <1>1, <2>3 DEF SchedulePush, Holding
    <3>2. pc'[t] = "after" /\ \A u \in Threads \ {t} : pc'[u] = pc[u]
      BY <1>0, <3>1 DEF Goto, BaseInv, TypeOK
    <3>3. QED
      BY <1>0, <3>1, <3>2 DEF Pushes, Has, Holding
  <2>4. QED
    BY <1>4, <2>1, <2>2, <2>3 DEF Schedule
<1>5. ASSUME NEW w \in Workers, WorkerLoop(w) \/ WorkerBlock(w) \/ WorkerRecheck(w) PROVE Keeps
  <2>1. PICK l : Goto(w, l) /\ l # "idle" /\ (l \in Holding => pc[w] \in Holding) /\ UNCHANGED <<queue, cur>>
    BY <1>5 DEF WorkerLoop, WorkerBlock, WorkerRecheck, Holding
  <2>2. QED
    BY <1>0, <2>1, MoveKeeps
<1>6. ASSUME NEW t \in Executors, NEW place, NEW l, Pop(t, place), Goto(t, l) PROVE Pops(t)
  <2>1. queue # <<>> /\ queue' = Tail(queue) /\ cur'[t] = Head(queue)
        /\ \A u \in Threads \ {t} : pc'[u] = pc[u] /\ cur'[u] = cur[u]
    BY <1>0, <1>6 DEF Pop, Goto, BaseInv, TypeOK
  <2>2. QED
    BY <1>0, <2>1 DEF Pops, Has
<1>7. ASSUME NEW w \in Workers, WorkerFetch(w) PROVE Keeps \/ Pops(w)
  <2>1. CASE Pop(w, "loop") /\ Goto(w, "recheck")
    BY <1>0, <1>6, <2>1
  <2>2. CASE (Goto(w, "blocking") \/ Goto(w, "exited")) /\ UNCHANGED <<queue, cur>>
    BY <1>0, <2>2, MoveKeeps DEF Holding
  <2>3. QED
    BY <1>7, <2>1, <2>2 DEF WorkerFetch
<1>8. CASE MainTestActive \/ MainTestQueue \/ MainProgress \/ MainProgressQueue \/ MainDrain \/ MainDrainActive \/ MainDrainCheck
  <2>1. PICK l : Goto(Main, l) /\ l \notin Holding \cup {"idle"} /\ UNCHANGED <<queue, cur>>
    BY <1>8 DEF MainTestActive, MainTestQueue, MainProgress, MainProgressQueue, MainDrain, MainDrainActive, MainDrainCheck, Holding
  <2>2. QED
    BY <1>0, <2>1, MoveKeeps
<1>9. CASE MainTake \/ MainTimeout \/ MainDrainTake
  <2>1. CASE \E place : Pop(Main, place) /\ Goto(Main, "got")
    BY <1>0, <1>6, <2>1
  <2>2. CASE (Goto(Main, "progress") \/ Goto(Main, "drain")) /\ UNCHANGED <<queue, cur>>
    BY <1>0, <2>2, MoveKeeps DEF Holding
  <2>3. CASE UNCHANGED <<queue, pc, cur>>
    BY <2>3 DEF Keeps, Has
  <2>4. QED
    BY <1>0, <1>9, <2>1, <2>2, <2>3 DEF MainTake, MainTimeout, MainDrainTake
<1>10. CASE StopMark \/ StopNotify \/ StopJoin \/ StopReset
  <2>1. PICK l : Goto(Main, l) /\ l \notin Holding \cup {"idle"} /\ UNCHANGED <<queue, cur>>
    BY <1>10 DEF StopMark, StopNotify, StopJoin, StopReset, Holding
  <2>2. QED
    BY <1>0, <2>1, MoveKeeps
<1>11. CASE StopDestroy
  <2>1. pc'[Main] = "reset" /\ (\A u \in Threads \ {Main} : pc'[u] = pc[u]) /\ UNCHANGED cur /\ queue' = <<>>
    BY <1>0, <1>11 DEF StopDestroy, Goto, BaseInv, TypeOK
  <2>2. QED
    BY <1>0, <2>1 DEF Keeps, Has, Holding
<1>12. CASE MainRun
  <2>1. UNCHANGED <<queue, cur>> /\ \A t \in Threads : pc'[t] = IF t \in Executors THEN "loop" ELSE pc[t]
    BY <1>12 DEF MainRun
  <2>2. QED
    BY <1>0, <2>1 DEF Keeps, Has, Holding
<1>13. ASSUME NEW t \in Clients, Wake(t) \/ Spawn(t) PROVE Keeps
  <2>1. pc[t] = "idle" /\ UNCHANGED queue /\ cur' = [cur EXCEPT ![t] = Target[t]]
        /\ \E l \in {"count", "complete"} : Goto(t, l)
    BY <1>13 DEF Wake, Spawn
  <2>2. \A u \in Threads \ {t} : pc'[u] = pc[u] /\ cur'[u] = cur[u]
    BY <1>0, <2>1 DEF Goto, BaseInv, TypeOK
  <2>3. QED
    BY <1>0, <2>1, <2>2 DEF Keeps, Has
<1>14. ASSUME NEW t \in Clients, ClientStep(t) PROVE Keeps \/ Pushes(t)
  <2>1. CASE TaskCompleted(t) \/ Release(t)
    <3>1. PICK l : Goto(t, l) /\ l \notin {"idle", "count", "push"} /\ pc[t] \in {"complete", "decrement", "release"}
                   /\ UNCHANGED <<queue, cur>>
      BY <1>2, <2>1 DEF TaskCompleted, CompleteTest, Decrement, Release
    <3>2. \A u \in Threads \ {t} : pc'[u] = pc[u]
      BY <1>0, <3>1 DEF Goto, BaseInv, TypeOK
    <3>3. pc'[t] = l
      BY <1>0, <3>1 DEF Goto, BaseInv, TypeOK
    <3>4. QED
      BY <1>0, <3>1, <3>2, <3>3 DEF Keeps, Has
  <2>2. CASE ScheduleCount(t, "count", "push", home[t])
    <3>1. PICK l : Goto(t, l) /\ l # "idle" /\ (l = "push" \/ l \notin Holding) /\ pc[t] = "count" /\ UNCHANGED <<queue, cur>>
      BY <1>2, <2>2 DEF ScheduleCount, Holding
    <3>2. QED
      BY <1>0, <3>1, MoveKeeps
  <2>3. CASE SchedulePush(t, "push", home[t])
    <3>1. pc[t] = "push" /\ Goto(t, home[t]) /\ queue' = Append(queue, cur[t]) /\ UNCHANGED cur
          /\ home[t] \in {"end", "release"} /\ cur[t] \in Coroutines /\ cur[t] = Target[t]
      BY <1>2, <2>3 DEF SchedulePush
    <3>2. pc'[t] = home[t] /\ \A u \in Threads \ {t} : pc'[u] = pc[u]
      BY <1>0, <3>1 DEF Goto, BaseInv, TypeOK
    <3>3. QED
      BY <1>0, <3>1, <3>2 DEF Pushes, Has
  <2>4. ~ScheduleCount(t, "yield", "yieldPush", "after") /\ ~SchedulePush(t, "yieldPush", "after")
    BY <1>2 DEF ScheduleCount, SchedulePush
  <2>5. QED
    BY <1>14, <2>1, <2>2, <2>3, <2>4 DEF ClientStep, Schedule
<1>15. ASSUME UNCHANGED <<queue, pc, cur>> PROVE Keeps
  BY <1>15 DEF Keeps, Has
<1>16. QED
  <2>1. ASSUME NEW w \in Workers, WorkerStep(w) \/ SpuriousWakeup(w) PROVE Keeps \/ Pushes(w) \/ Pops(w)
    BY <1>0, <1>3, <1>4, <1>5, <1>7, <1>15, <2>1 DEF WorkerStep, SpuriousWakeup
  <2>2. CASE MainStep
    BY <1>0, <1>3, <1>4, <1>8, <1>9, <1>10, <1>11, <2>2 DEF MainStep
  <2>3. QED
    BY <1>0, <1>12, <1>13, <1>14, <1>15, <2>1, <2>2 DEF Next, Clients, vars

-----------------------------------------------------------------------------
\* One handle, one place.

\* A coroutine that one call schedules, and that never queues itself, is in one
\* place: an entry of the queue, or a thread that has it.
OnceInv ==
    \A c \in Single :
        /\ \A i, j \in 1..Len(queue) : queue[i] = c /\ queue[j] = c => i = j
        /\ (\E i \in 1..Len(queue) : queue[i] = c) => \A t \in Threads : ~Has(t, c)
        /\ \A t, u \in Threads : Has(t, c) /\ Has(u, c) => t = u

\* Only coroutines that yield are queued by yield().
YieldInv == \A t \in Executors : pc[t] \in {"yield", "yieldPush"} => cur[t] \in Yielders

\* Every step preserves that.
LEMMA YieldStep == BaseInv /\ YieldInv /\ [Next]_vars => YieldInv'
<1> SUFFICES ASSUME BaseInv, YieldInv, [Next]_vars, NEW t \in Executors, pc'[t] \in {"yield", "yieldPush"}
             PROVE  cur'[t] \in Yielders
  BY DEF YieldInv
<1> USE DEF syncVars, coVars, runVars
<1>0. t \in Threads /\ t \notin Clients /\ Main \in Executors /\ Executors \subseteq Threads
      /\ Workers \subseteq Executors /\ Clients \subseteq Threads
  BY SchedulerAssumption DEF Threads, Executors
<1>1. home[t] \notin {"yield", "yieldPush"}
  BY <1>0 DEF BaseInv, TypeOK
<1>2. \A u \in Threads : \A l : Goto(u, l) => pc'[t] = IF u = t THEN l ELSE pc[t]
  BY <1>0 DEF Goto, BaseInv, TypeOK
<1>3. ASSUME NEW u \in Executors, Handle(u) PROVE cur'[t] \in Yielders
  BY <1>0, <1>2, <1>3 DEF Handle, Dispatch, Finish, Suspend, AfterResume, YieldInv
<1>4. ASSUME NEW u \in Threads, TaskCompleted(u) PROVE cur'[t] \in Yielders
  BY <1>0, <1>1, <1>2, <1>4 DEF TaskCompleted, CompleteTest, Decrement, YieldInv
<1>5. ASSUME NEW u \in Threads, Schedule(u) PROVE cur'[t] \in Yielders
  BY <1>0, <1>1, <1>2, <1>5 DEF Schedule, ScheduleCount, SchedulePush, YieldInv
<1>6. \A u \in Threads : \A l, place : Goto(u, l) /\ Pop(u, place) /\ l \notin {"yield", "yieldPush"}
          => cur'[t] \in Yielders
  <2> SUFFICES ASSUME NEW u \in Threads, NEW l, NEW place, Goto(u, l), Pop(u, place), l \notin {"yield", "yieldPush"}
               PROVE  cur'[t] \in Yielders
    OBVIOUS
  <2>1. u # t /\ pc'[t] = pc[t]
    BY <1>2
  <2>2. cur'[t] = cur[t]
    BY <1>0, <2>1 DEF Pop, BaseInv, TypeOK
  <2>3. QED
    BY <2>1, <2>2 DEF YieldInv
<1>7. \A u \in Threads : \A l : Goto(u, l) /\ UNCHANGED cur /\ l \notin {"yield", "yieldPush"} => cur'[t] \in Yielders
  BY <1>2 DEF YieldInv
<1>8. ASSUME NEW w \in Workers, WorkerLoop(w) \/ WorkerFetch(w) \/ WorkerBlock(w) \/ WorkerRecheck(w)
      PROVE  cur'[t] \in Yielders
  BY <1>0, <1>6, <1>7, <1>8 DEF WorkerLoop, WorkerFetch, WorkerBlock, WorkerRecheck
<1>9. ASSUME \/ MainTestActive \/ MainTestQueue \/ MainProgress \/ MainProgressQueue \/ MainDrain \/ MainDrainActive \/ MainDrainCheck
             \/ StopMark \/ StopNotify \/ StopJoin \/ StopDestroy \/ StopReset
      PROVE  cur'[t] \in Yielders
  <2>1. UNCHANGED cur /\ \E l : Goto(Main, l) /\ l \notin {"yield", "yieldPush"}
    BY <1>9 DEF MainTestActive, MainTestQueue, MainProgress, MainProgressQueue, MainDrain, MainDrainActive, MainDrainCheck,
                StopMark, StopNotify, StopJoin, StopDestroy, StopReset
  <2>2. QED
    BY <1>0, <1>7, <2>1
<1>10. ASSUME MainTake \/ MainTimeout \/ MainDrainTake PROVE cur'[t] \in Yielders
  <2>1. \/ UNCHANGED <<pc, cur>>
        \/ \E l : Goto(Main, l) /\ l \notin {"yield", "yieldPush"} /\ (UNCHANGED cur \/ \E place : Pop(Main, place))
    BY <1>10 DEF MainTake, MainTimeout, MainDrainTake
  <2>2. QED
    BY <1>0, <1>6, <1>7, <2>1 DEF YieldInv
<1>11. ASSUME NEW u \in Clients, Wake(u) \/ Spawn(u) \/ Release(u) PROVE cur'[t] \in Yielders
  <2>1. cur'[t] = cur[t]
    BY <1>0, <1>11 DEF Wake, Spawn, Release, BaseInv, TypeOK
  <2>2. pc'[t] = pc[t]
    BY <1>0, <1>2, <1>11 DEF Wake, Spawn, Release
  <2>3. QED
    BY <2>1, <2>2 DEF YieldInv
<1>12. CASE MainRun
  BY <1>0, <1>12 DEF MainRun
<1>13. CASE UNCHANGED <<pc, cur>>
  BY <1>13 DEF YieldInv
<1>14. ASSUME NEW w \in Workers, WorkerStep(w) \/ SpuriousWakeup(w) PROVE cur'[t] \in Yielders
  BY <1>0, <1>3, <1>4, <1>5, <1>8, <1>13, <1>14 DEF WorkerStep, SpuriousWakeup
<1>15. CASE MainStep
  BY <1>0, <1>3, <1>4, <1>5, <1>9, <1>10, <1>15 DEF MainStep
<1>16. ASSUME NEW u \in Clients, ClientStep(u) PROVE cur'[t] \in Yielders
  BY <1>0, <1>4, <1>5, <1>11, <1>16 DEF ClientStep
<1>17. QED
  BY <1>11, <1>12, <1>13, <1>14, <1>15, <1>16 DEF Next, Clients, vars

\* The elements of a list that an element is added to.
LEMMA AppendElements ==
    ASSUME NEW S, NEW q \in Seq(S), NEW e \in S
    PROVE  /\ Len(Append(q, e)) = Len(q) + 1 /\ Len(q) \in Nat
           /\ \A i \in 1..Len(q) + 1 : Append(q, e)[i] = IF i = Len(q) + 1 THEN e ELSE q[i]
OBVIOUS

\* The elements of a list that the front is taken from.
LEMMA TailElements ==
    ASSUME NEW S, NEW q \in Seq(S), q # <<>>
    PROVE  /\ Len(Tail(q)) = Len(q) - 1 /\ Len(q) \in Nat \ {0} /\ Head(q) = q[1]
           /\ \A i \in 1..Len(q) - 1 : Tail(q)[i] = q[i + 1]
OBVIOUS

\* Every step preserves OnceInv.
LEMMA OnceStep == BaseInv /\ YieldInv /\ OnceInv /\ [Next]_vars => OnceInv'
<1> SUFFICES ASSUME BaseInv, YieldInv, OnceInv, [Next]_vars, NEW c \in Single
             PROVE  /\ \A i, j \in 1..Len(queue') : queue'[i] = c /\ queue'[j] = c => i = j
                    /\ (\E i \in 1..Len(queue') : queue'[i] = c) => \A t \in Threads : ~Has(t, c)'
                    /\ \A t, u \in Threads : Has(t, c)' /\ Has(u, c)' => t = u
  BY DEF OnceInv, Single
<1>0. queue \in Seq(Coroutines) /\ Len(queue) \in Nat /\ c \in Coroutines
  BY DEF BaseInv, TypeOK, Single
<1>1. /\ \A i, j \in 1..Len(queue) : queue[i] = c /\ queue[j] = c => i = j
      /\ (\E i \in 1..Len(queue) : queue[i] = c) => \A t \in Threads : ~Has(t, c)
      /\ \A t, u \in Threads : Has(t, c) /\ Has(u, c) => t = u
  BY DEF OnceInv
<1>2. CASE Keeps
  <2>1. CASE queue' = queue
    BY <1>1, <1>2, <2>1 DEF Keeps, Single
  <2>2. CASE queue' = <<>>
    BY <1>1, <1>2, <2>2 DEF Keeps, Single
  <2>3. QED
    BY <1>2, <2>1, <2>2 DEF Keeps
<1>3. ASSUME NEW t \in Threads, Pushes(t) PROVE
             /\ \A i, j \in 1..Len(queue') : queue'[i] = c /\ queue'[j] = c => i = j
             /\ (\E i \in 1..Len(queue') : queue'[i] = c) => \A u \in Threads : ~Has(u, c)'
             /\ \A r, u \in Threads : Has(r, c)' /\ Has(u, c)' => r = u
  <2>1. Len(queue') = Len(queue) + 1 /\ \A i \in 1..Len(queue') : queue'[i] = IF i = Len(queue) + 1 THEN cur[t] ELSE queue[i]
    BY <1>0, <1>3, AppendElements DEF Pushes
  <2>2. \A u \in Threads : Has(u, c)' => Has(u, c)
    BY <1>0, <1>3 DEF Pushes
  <2>3. CASE cur[t] = c
    <3>1. Has(t, c) /\ \A i \in 1..Len(queue) : queue[i] # c
      BY <1>1, <1>3, <2>3 DEF Pushes
    <3>2. ~Has(t, c)'
      <4>1. pc[t] # "yieldPush"
        BY <1>0, <2>3, <3>1 DEF YieldInv, Single, Has
      <4>2. QED
        BY <1>0, <1>3, <4>1 DEF Pushes
    <3>3. \A u \in Threads : ~Has(u, c)'
      BY <1>1, <2>2, <3>1, <3>2
    <3>4. QED
      BY <1>0, <2>1, <2>3, <3>1, <3>3
  <2>4. CASE cur[t] # c
    BY <1>0, <1>1, <2>1, <2>2, <2>4
  <2>5. QED
    BY <2>3, <2>4
<1>4. ASSUME NEW t \in Threads, Pops(t) PROVE
             /\ \A i, j \in 1..Len(queue') : queue'[i] = c /\ queue'[j] = c => i = j
             /\ (\E i \in 1..Len(queue') : queue'[i] = c) => \A u \in Threads : ~Has(u, c)'
             /\ \A r, u \in Threads : Has(r, c)' /\ Has(u, c)' => r = u
  <2>1. /\ Len(queue') = Len(queue) - 1 /\ Len(queue) \in Nat \ {0} /\ Head(queue) = queue[1]
        /\ \A i \in 1..Len(queue') : queue'[i] = queue[i + 1]
    BY <1>0, <1>4, TailElements DEF Pops
  <2>2. \A u \in Threads \ {t} : Has(u, c)' => Has(u, c)
    BY <1>0, <1>4 DEF Pops
  <2>3. Has(t, c)' => queue[1] = c
    BY <1>0, <1>4, <2>1 DEF Pops
  <2>4. \A i \in 1..Len(queue') : i + 1 \in 1..Len(queue)
    BY <2>1
  <2>5. \A i, j \in 1..Len(queue') : queue'[i] = c /\ queue'[j] = c => i = j
    BY <1>1, <2>1, <2>4
  <2>6. (\E i \in 1..Len(queue') : queue'[i] = c) => queue[1] # c
    BY <1>1, <2>1, <2>4
  <2>7. (\E i \in 1..Len(queue') : queue'[i] = c) => \A u \in Threads : ~Has(u, c)'
    BY <1>1, <2>1, <2>2, <2>3, <2>4, <2>6
  <2>8. \A r, u \in Threads : Has(r, c)' /\ Has(u, c)' => r = u
    BY <1>1, <2>1, <2>2, <2>3
  <2>9. QED
    BY <2>5, <2>7, <2>8
<1>5. QED
  BY <1>2, <1>3, <1>4, StepKinds

\* In the first state a coroutine belongs to the one call that is to schedule it.
LEMMA OnceInit == Init => YieldInv /\ OnceInv
<1> SUFFICES ASSUME Init PROVE YieldInv /\ OnceInv
  OBVIOUS
<1>1. \A t \in Threads : pc[t] = IF t \in Workers THEN "off" ELSE "idle"
  BY DEF Init
<1>2. YieldInv
  BY <1>1 DEF YieldInv, Threads
<1>3. ASSUME NEW c \in Single, NEW t \in Threads, NEW u \in Threads, Has(t, c), Has(u, c) PROVE t = u
  <2>1. t \in Clients /\ u \in Clients /\ Target[t] = c /\ Target[u] = c
    BY <1>1, <1>3 DEF Has, Holding
  <2> DEFINE T == {v \in Clients : Target[v] = c}
  <2>2. Cardinality(T) <= 1
    BY DEF Single
  <2>3. IsFiniteSet(T) /\ Cardinality(T) \in Nat
    BY SchedulerAssumption, FS_Subset, FS_CardinalityType DEF Threads
  <2>4. {t, u} \subseteq T
    BY <2>1
  <2> HIDE DEF T
  <2>5. Cardinality({t, u}) <= 1
    BY <2>2, <2>3, <2>4, FS_Subset, FS_CardinalityType
  <2>6. t # u => Cardinality({t, u}) = 2
    <3> SUFFICES ASSUME t # u PROVE Cardinality({t, u}) = 2
      OBVIOUS
    <3>1. IsFiniteSet({t}) /\ Cardinality({t}) = 1
      BY FS_Singleton
    <3>2. Cardinality({t} \cup {u}) = Cardinality({t}) + 1
      <4>1. u \notin {t}
        OBVIOUS
      <4>2. QED
        BY <3>1, <4>1, FS_AddElement
    <3>3. {t, u} = {t} \cup {u}
      OBVIOUS
    <3>4. QED
      BY <3>1, <3>2, <3>3
  <2>7. QED
    BY <2>5, <2>6
<1>4. QED
  BY <1>2, <1>3 DEF Init, OnceInv

\* A set whose elements are all equal has at most one.
LEMMA AtMostOne ==
    ASSUME NEW S, \A x, y \in S : x = y
    PROVE  Cardinality(S) = IF S = {} THEN 0 ELSE 1
<1>1. CASE S = {}
  BY <1>1, FS_EmptySet
<1>2. ASSUME NEW x \in S PROVE Cardinality(S) = 1
  <2>1. S = {x}
    OBVIOUS
  <2>2. QED
    BY <2>1, FS_Singleton
<1>3. QED
  BY <1>1, <1>2

\* The handle of a coroutine that one call schedules and that does not queue
\* itself is in one place, though whoever resumed it puts it back after every
\* suspension.
THEOREM HandlesAreInOnePlace == Spec => []HandledOnce
<1>1. BaseInv /\ OnceInv => HandledOnce
  <2> SUFFICES ASSUME BaseInv, OnceInv, NEW c \in Single
               PROVE  Entries(c) + Cardinality({t \in InHand \cup InPush : cur[t] = c}) <= 1
    BY DEF HandledOnce
  <2> DEFINE Q == {i \in DOMAIN queue : queue[i] = c}
             T == {t \in InHand \cup InPush : cur[t] = c}
  <2>1. DOMAIN queue = 1..Len(queue)
    <3>1. queue \in Seq(Coroutines)
      BY DEF BaseInv, TypeOK
    <3>2. QED
      BY <3>1
  <2>2. \A i, j \in Q : i = j
    BY <2>1 DEF OnceInv
  <2>3. \A t \in T : t \in Threads /\ Has(t, c)
    BY DEF InHand, InPush, Has, Holding, Threads, BaseInv, PlaceInv, ClientPlace
  <2>4. \A t, u \in T : t = u
    BY <2>3 DEF OnceInv
  <2>5. Q # {} => T = {}
    BY <2>1, <2>3 DEF OnceInv
  <2> HIDE DEF Q, T
  <2>6. Cardinality(Q) + Cardinality(T) <= 1
    <3>1. Cardinality(Q) = IF Q = {} THEN 0 ELSE 1
      BY <2>2, AtMostOne
    <3>2. Cardinality(T) = IF T = {} THEN 0 ELSE 1
      BY <2>4, AtMostOne
    <3>3. QED
      BY <2>5, <3>1, <3>2
  <2>7. QED
    BY <2>6 DEF Q, T, Entries
<1>2. QED
  BY <1>1, BaseInit, BaseStep, OnceInit, YieldStep, OnceStep, PTL DEF Spec

-----------------------------------------------------------------------------
\* The scheduler is a TaskQueue.

\* Who is who.
LEMMA WhoIsWho ==
    /\ Main \in Executors /\ Workers \subseteq Executors /\ Executors \subseteq Threads /\ Clients \subseteq Threads
    /\ Workers \cap Clients = {} /\ Main \notin Workers \cup Clients
    /\ \A t \in Executors : t \notin Clients /\ (t = Main \/ t \in Workers)
    /\ \A t \in Clients : Target[t] \in Coroutines
BY SchedulerAssumption DEF Threads, Executors

\* The indices at which an element stands in a list.
PlacesIn(q, e) == {i \in 1..Len(q) : q[i] = e}

LEMMA PlacesAre ==
    ASSUME NEW S, NEW q \in Seq(S), NEW e
    PROVE  /\ {i \in DOMAIN q : q[i] = e} = PlacesIn(q, e)
           /\ IsFiniteSet(PlacesIn(q, e))
           /\ Cardinality(PlacesIn(q, e)) \in Nat
           /\ Cardinality(PlacesIn(q, e)) > 0 <=> \E i \in 1..Len(q) : q[i] = e
<1>1. DOMAIN q = 1..Len(q) /\ Len(q) \in Nat
  OBVIOUS
<1>2. IsFiniteSet(PlacesIn(q, e)) /\ Cardinality(PlacesIn(q, e)) \in Nat
  <2>1. IsFiniteSet(1..Len(q))
    BY <1>1, FS_Interval
  <2>2. IsFiniteSet(PlacesIn(q, e))
    BY <2>1, FS_Subset DEF PlacesIn
  <2>3. QED
    BY <2>2, FS_CardinalityType
<1>3. Cardinality(PlacesIn(q, e)) = 0 <=> PlacesIn(q, e) = {}
  BY <1>2, FS_EmptySet
<1>4. QED
  BY <1>1, <1>2, <1>3 DEF PlacesIn

\* The entries of a coroutine, before and after a step.
LEMMA EntriesAre ==
    ASSUME BaseInv, BaseInv', NEW c
    PROVE  /\ Entries(c) = Cardinality(PlacesIn(queue, c))
           /\ Entries(c)' = Cardinality(PlacesIn(queue', c))
           /\ IsFiniteSet(PlacesIn(queue, c)) /\ IsFiniteSet(PlacesIn(queue', c))
           /\ Entries(c) \in Nat
           /\ Entries(c) > 0 <=> \E i \in 1..Len(queue) : queue[i] = c
<1>1. queue \in Seq(Coroutines) /\ queue' \in Seq(Coroutines)
  BY DEF BaseInv, TypeOK
<1>2. Entries(c) = Cardinality(PlacesIn(queue, c)) /\ Entries(c)' = Cardinality(PlacesIn(queue', c))
  BY <1>1, PlacesAre DEF Entries
<1>3. QED
  BY <1>1, <1>2, PlacesAre

\* What a push does to the entries ...
LEMMA PushedEntries ==
    ASSUME BaseInv, BaseInv', NEW e \in Coroutines, queue' = Append(queue, e)
    PROVE  InQueue' = [c \in Coroutines |-> IF c \in {e} THEN InQueue[c] + 1 ELSE InQueue[c]]
<1> SUFFICES ASSUME NEW c \in Coroutines
             PROVE  Entries(c)' = IF c = e THEN Entries(c) + 1 ELSE Entries(c)
  BY DEF InQueue
<1> DEFINE Q == PlacesIn(queue, c)
           R == PlacesIn(queue', c)
           n == Len(queue) + 1
<1>1. /\ Len(queue') = n /\ Len(queue) \in Nat
      /\ \A i \in 1..n : queue'[i] = IF i = n THEN e ELSE queue[i]
  BY AppendElements DEF BaseInv, TypeOK
<1>2. IsFiniteSet(Q) /\ Entries(c) = Cardinality(Q) /\ Entries(c)' = Cardinality(R)
  BY EntriesAre
<1>3. n \notin Q
  BY <1>1 DEF PlacesIn
<1>4. CASE c = e
  <2>1. R = Q \cup {n}
    BY <1>1, <1>4 DEF PlacesIn
  <2> HIDE DEF Q, R, n
  <2>2. QED
    BY <1>2, <1>3, <1>4, <2>1, FS_AddElement
<1>5. CASE c # e
  <2>1. R = Q
    BY <1>1, <1>5 DEF PlacesIn
  <2>2. QED
    BY <1>2, <1>5, <2>1
<1>6. QED
  BY <1>4, <1>5

\* ... and a pop.
LEMMA PoppedEntries ==
    ASSUME BaseInv, BaseInv', queue # <<>>, queue' = Tail(queue)
    PROVE  /\ Head(queue) \in Coroutines /\ InQueue[Head(queue)] > 0
           /\ InQueue' = [InQueue EXCEPT ![Head(queue)] = @ - 1]
<1>1. /\ Len(queue') = Len(queue) - 1 /\ Len(queue) \in Nat \ {0} /\ Head(queue) = queue[1]
      /\ \A i \in 1..Len(queue) - 1 : queue'[i] = queue[i + 1]
  BY TailElements DEF BaseInv, TypeOK
<1>2. Head(queue) \in Coroutines
  BY HeadTail DEF BaseInv, TypeOK
<1>3. Entries(Head(queue)) > 0
  <2>1. \E i \in 1..Len(queue) : queue[i] = Head(queue)
    BY <1>1
  <2>2. QED
    BY <1>2, <2>1, EntriesAre
<1>4. ASSUME NEW c \in Coroutines PROVE Entries(c)' = IF c = Head(queue) THEN Entries(c) - 1 ELSE Entries(c)
  <2> DEFINE Q == PlacesIn(queue, c)
             R == PlacesIn(queue', c)
             S == Q \ {1}
             f == [i \in R |-> i + 1]
  <2>1. /\ IsFiniteSet(Q) /\ IsFiniteSet(R)
        /\ Entries(c) = Cardinality(Q) /\ Entries(c)' = Cardinality(R) /\ Cardinality(Q) \in Nat
    BY EntriesAre
  <2>2. f \in Bijection(R, S)
    <3>1. f \in [R -> S]
      BY <1>1 DEF PlacesIn
    <3>2. \A i, j \in R : f[i] = f[j] => i = j
      BY <1>1 DEF PlacesIn
    <3>3. \A j \in S : \E i \in R : f[i] = j
      <4> TAKE j \in S
      <4>1. j - 1 \in R /\ f[j - 1] = j
        BY <1>1 DEF PlacesIn
      <4>2. QED
        BY <4>1
    <3> HIDE DEF f, S, R, Q
    <3>4. QED
      BY <3>1, <3>2, <3>3 DEF Bijection, Injection, Surjection, IsInjective
  <2>3. Cardinality(R) = Cardinality(S)
    <3> HIDE DEF f, S, R, Q
    <3>1. ExistsBijection(R, S)
      BY <2>2 DEF ExistsBijection
    <3>2. QED
      BY <2>1, <3>1, FS_Bijection
  <2>4. CASE c = Head(queue)
    <3>1. 1 \in Q
      BY <1>1, <2>4 DEF PlacesIn
    <3> HIDE DEF f, R, Q
    <3>2. Cardinality(S) = Cardinality(Q) - 1
      BY <2>1, <3>1, FS_RemoveElement
    <3>3. QED
      BY <2>1, <2>3, <2>4, <3>2
  <2>5. CASE c # Head(queue)
    <3>1. S = Q
      BY <1>1, <2>5 DEF PlacesIn
    <3>2. QED
      BY <2>1, <2>3, <2>5, <3>1
  <2>6. QED
    BY <2>4, <2>5
<1>5. QED
  BY <1>2, <1>3, <1>4 DEF InQueue

\* What the TaskQueue sees of a step that moves one executor ...
LEMMA WorkMoves ==
    ASSUME BaseInv, NEW t \in Executors, NEW l, Goto(t, l), \A u \in Executors \ {t} : cur'[u] = cur[u]
    PROVE  AtWork' = [AtWork EXCEPT ![t] = IF l \in InWork THEN cur'[t] ELSE None]
<1>1. pc'[t] = l /\ \A u \in Executors \ {t} : pc'[u] = pc[u]
  BY WhoIsWho DEF Goto, BaseInv, TypeOK
<1>2. QED
  BY <1>1 DEF AtWork

\* ... but does not change whether it has its handle ...
LEMMA WorkGoesOn ==
    ASSUME BaseInv, NEW t \in Executors, NEW l, Goto(t, l), UNCHANGED cur, l \in InWork <=> pc[t] \in InWork
    PROVE  AtWork' = AtWork
<1>1. AtWork' = [AtWork EXCEPT ![t] = IF l \in InWork THEN cur'[t] ELSE None]
  BY WorkMoves
<1>2. QED
  BY <1>1 DEF AtWork

\* ... or moves a client.
LEMMA ClientsDoNotWork ==
    ASSUME BaseInv, NEW t \in Clients, NEW l, Goto(t, l), \A u \in Executors : cur'[u] = cur[u]
    PROVE  AtWork' = AtWork
<1>1. \A u \in Executors : pc'[u] = pc[u]
  BY WhoIsWho DEF Goto, BaseInv, TypeOK
<1>2. QED
  BY <1>1 DEF AtWork

\* A step that the TaskQueue does not see.
LEMMA Unseen ==
    ASSUME UNCHANGED <<queue, running, co>>, AtWork' = AtWork
    PROVE  UNCHANGED Handles!vars
BY DEF Handles!vars, InQueue, Entries, Over

\* What an executor does with its handle.
LEMMA ExecutorSteps ==
    ASSUME BaseInv, BaseInv', NEW t \in Executors, Handle(t) \/ Schedule(t) \/ TaskCompleted(t)
    PROVE  [Handles!Next]_(Handles!vars)
<1> USE DEF syncVars, coVars, runVars
<1>0. /\ pc[t] \in Holding => cur[t] \in Coroutines
      /\ home[t] \notin InWork
      /\ pc[t] \in Holding /\ co[cur[t]] # "suspended" => cur[t] \in Over
      /\ AtWork[t] = IF pc[t] \in InWork THEN cur[t] ELSE None
  <2>1. pc[t] \in Holding => cur[t] \in Coroutines
    BY WhoIsWho DEF BaseInv, PlaceInv, WorkerPlace, MainPlace
  <2>2. home[t] \notin InWork
    BY WhoIsWho DEF BaseInv, TypeOK, InWork
  <2>3. QED
    BY <2>1, <2>2 DEF Over, AtWork
<1>1. ASSUME NEW l, Goto(t, l), l \notin InWork, pc[t] \in InWork, co[cur[t]] # "suspended",
             UNCHANGED <<queue, running, cur, co>>
      PROVE  Handles!Complete(t)
  <2>1. AtWork' = [AtWork EXCEPT ![t] = None]
    BY <1>1, WorkMoves
  <2>2. AtWork[t] \in Over
    BY <1>0, <1>1 DEF InWork, Holding
  <2>3. InQueue' = InQueue /\ Over' = Over
    BY <1>1 DEF InQueue, Entries, Over
  <2>4. QED
    BY <1>1, <2>1, <2>2, <2>3 DEF Handles!Complete, Handles!LetGo
<1>2. ASSUME NEW l, Goto(t, l), l \in InWork <=> pc[t] \in InWork, UNCHANGED <<queue, running, cur, co>>
      PROVE  UNCHANGED Handles!vars
  BY <1>2, WorkGoesOn, Unseen
<1>3. CASE Dispatch(t)
  <2>1. CASE co[cur[t]] = "done" /\ Goto(t, "complete")
    <3>1. Handles!Complete(t)
      BY <1>1, <1>3, <2>1 DEF Dispatch, InWork
    <3>2. QED
      BY <3>1 DEF Handles!Next
  <2>2. CASE Goto(t, "body")
    BY <1>2, <1>3, <2>2 DEF Dispatch, InWork
  <2>3. QED
    BY <1>3, <2>1, <2>2 DEF Dispatch
<1>4. CASE Finish(t)
  <2>1. cur[t] \in Coroutines
    BY <1>0, <1>4 DEF Finish, Holding
  <2>2. AtWork' = AtWork
    BY <1>4, WorkGoesOn DEF Finish, InWork
  <2>3. Over' = Over \cup {cur[t]}
    BY <1>4, <2>1 DEF Finish, Over, BaseInv, TypeOK
  <2>4. Handles!End(cur[t])
    BY <1>4, <2>2, <2>3 DEF Finish, Handles!End, InQueue, Entries
  <2>5. QED
    BY <2>1, <2>4 DEF Handles!Next
<1>5. CASE Suspend(t)
  <2>1. PICK l \in {"after", "yield"} : Goto(t, l)
    BY <1>5 DEF Suspend
  <2>2. QED
    BY <1>2, <1>5, <2>1 DEF Suspend, InWork
<1>6. CASE AfterResume(t)
  <2>1. CASE co[cur[t]] = "done" /\ Goto(t, "complete")
    <3>1. Handles!Complete(t)
      BY <1>1, <1>6, <2>1 DEF AfterResume, InWork
    <3>2. QED
      BY <3>1 DEF Handles!Next
  <2>2. CASE Goto(t, "count")
    BY <1>2, <1>6, <2>2 DEF AfterResume, InWork
  <2>3. QED
    BY <1>6, <2>1, <2>2 DEF AfterResume
<1>7. CASE TaskCompleted(t)
  <2>1. PICK l \in {"decrement", home[t]} : Goto(t, l)
    BY <1>7 DEF TaskCompleted, CompleteTest, Decrement
  <2>2. l \notin InWork /\ pc[t] \notin InWork /\ UNCHANGED <<queue, running, cur, co>>
    BY <1>0, <1>7, <2>1 DEF TaskCompleted, CompleteTest, Decrement, InWork
  <2>3. QED
    BY <1>2, <2>1, <2>2
<1>8. CASE ScheduleCount(t, "count", "push", home[t])
  <2>1. CASE co[cur[t]] = "done" /\ Goto(t, home[t])
    <3>1. Handles!Complete(t)
      BY <1>0, <1>1, <1>8, <2>1 DEF ScheduleCount, InWork
    <3>2. QED
      BY <3>1 DEF Handles!Next
  <2>2. CASE Goto(t, "push")
    BY <1>2, <1>8, <2>2 DEF ScheduleCount, InWork
  <2>3. QED
    BY <1>8, <2>1, <2>2 DEF ScheduleCount
<1>9. CASE ScheduleCount(t, "yield", "yieldPush", "after")
  <2>1. PICK l \in {"yieldPush", "after"} : Goto(t, l)
    BY <1>9 DEF ScheduleCount
  <2>2. QED
    BY <1>2, <1>9, <2>1 DEF ScheduleCount, InWork
<1>10. CASE SchedulePush(t, "push", home[t])
  <2>1. /\ cur[t] \in Coroutines /\ AtWork[t] = cur[t]
        /\ queue' = Append(queue, cur[t]) /\ UNCHANGED <<running, cur, co>>
    BY <1>0, <1>10 DEF SchedulePush, Holding, InWork
  <2>2. AtWork' = [AtWork EXCEPT ![t] = None]
    BY <1>0, <1>10, WorkMoves DEF SchedulePush
  <2>3. InQueue' = [InQueue EXCEPT ![AtWork[t]] = @ + 1]
    BY <2>1, PushedEntries DEF InQueue
  <2>4. AtWork[t] # None
    BY <2>1, SchedulerAssumption
  <2>5. Handles!Return(t)
    BY <2>1, <2>2, <2>3, <2>4 DEF Handles!Return, Handles!LetGo, Over
  <2>6. QED
    BY <2>5 DEF Handles!Next
<1>11. CASE SchedulePush(t, "yieldPush", "after")
  <2>1. cur[t] \in Coroutines /\ queue' = Append(queue, cur[t]) /\ UNCHANGED <<running, cur, co>>
    BY <1>0, <1>11 DEF SchedulePush, Holding
  <2>2. AtWork' = AtWork
    BY <1>11, WorkGoesOn DEF SchedulePush, InWork
  <2>3. InQueue' = [c \in Coroutines |-> IF c \in {cur[t]} THEN InQueue[c] + 1 ELSE InQueue[c]]
    BY <2>1, PushedEntries
  <2>4. Handles!Submit({cur[t]})
    BY <2>1, <2>2, <2>3 DEF Handles!Submit, Over
  <2>5. QED
    BY <2>1, <2>4 DEF Handles!Next
<1>12. QED
  BY <1>3, <1>4, <1>5, <1>6, <1>7, <1>8, <1>9, <1>10, <1>11 DEF Handle, Schedule

\* An executor takes the front of the queue.
LEMMA PopSteps ==
    ASSUME BaseInv, BaseInv', NEW t \in Executors, NEW place, NEW l \in {"recheck", "got"},
           Pop(t, place), Goto(t, l), running, pc[t] \notin InWork, UNCHANGED <<running, co>>
    PROVE  [Handles!Next]_(Handles!vars)
<1>1. /\ queue # <<>> /\ queue' = Tail(queue) /\ cur'[t] = Head(queue)
      /\ \A u \in Executors \ {t} : cur'[u] = cur[u]
  BY WhoIsWho DEF Pop, BaseInv, TypeOK
<1>2. AtWork' = [AtWork EXCEPT ![t] = Head(queue)]
  BY <1>1, WorkMoves DEF InWork
<1>3. /\ Head(queue) \in Coroutines /\ InQueue[Head(queue)] > 0
      /\ InQueue' = [InQueue EXCEPT ![Head(queue)] = @ - 1]
  BY <1>1, PoppedEntries
<1>4. AtWork[t] = None
  BY DEF AtWork
<1>5. Handles!Take(t, Head(queue))
  BY <1>2, <1>3, <1>4 DEF Handles!Take, Over
<1>6. QED
  BY <1>3, <1>5 DEF Handles!Next

\* The loop of a worker.
LEMMA WorkerSteps ==
    ASSUME BaseInv, BaseInv', NEW w \in Workers,
           WorkerLoop(w) \/ WorkerFetch(w) \/ WorkerBlock(w) \/ WorkerRecheck(w) \/ SpuriousWakeup(w)
    PROVE  [Handles!Next]_(Handles!vars)
<1> USE WhoIsWho DEF syncVars, coVars, runVars
<1>1. CASE WorkerLoop(w)
  <2>1. PICK l \in {"fetch", "exited"} : Goto(w, l)
    BY <1>1 DEF WorkerLoop
  <2>2. QED
    BY <1>1, <2>1, WorkGoesOn, Unseen DEF WorkerLoop, InWork
<1>2. CASE WorkerBlock(w)
  BY <1>2, WorkGoesOn, Unseen DEF WorkerBlock, InWork
<1>3. CASE WorkerRecheck(w)
  <2>1. CASE Goto(w, "got")
    BY <1>3, <2>1, WorkGoesOn, Unseen DEF WorkerRecheck, InWork
  <2>2. CASE ~running /\ Goto(w, "exited")
    <3>1. AtWork' = [AtWork EXCEPT ![w] = None]
      BY <1>3, <2>2, WorkMoves DEF WorkerRecheck, InWork
    <3>2. InQueue' = InQueue /\ Over' = Over
      BY <1>3 DEF WorkerRecheck, InQueue, Entries, Over
    <3>3. Handles!Drop(w)
      BY <1>3, <2>2, <3>1, <3>2 DEF WorkerRecheck, Handles!Drop, Handles!LetGo
    <3>4. QED
      BY <3>3 DEF Handles!Next
  <2>3. QED
    BY <1>3, <2>1, <2>2 DEF WorkerRecheck
<1>4. CASE WorkerFetch(w)
  <2>1. CASE (Goto(w, "blocking") \/ Goto(w, "exited")) /\ UNCHANGED <<queue, cur>>
    <3>1. PICK l \in {"blocking", "exited"} : Goto(w, l)
      BY <2>1
    <3>2. QED
      BY <1>4, <2>1, <3>1, WorkGoesOn, Unseen DEF WorkerFetch, InWork
  <2>2. CASE running /\ Pop(w, "loop") /\ Goto(w, "recheck")
    BY <1>4, <2>2, PopSteps DEF WorkerFetch, InWork
  <2>3. QED
    BY <1>4, <2>1, <2>2 DEF WorkerFetch
<1>5. CASE SpuriousWakeup(w)
  BY <1>5, Unseen DEF SpuriousWakeup, AtWork
<1>6. QED
  BY <1>1, <1>2, <1>3, <1>4, <1>5

\* The two loops of run(), its start, and stop().
LEMMA MainSteps ==
    ASSUME BaseInv, BaseInv',
           \/ MainRun \/ MainTestActive \/ MainTestQueue \/ MainTake \/ MainTimeout \/ MainProgress \/ MainProgressQueue
           \/ MainDrain \/ MainDrainActive \/ MainDrainCheck \/ MainDrainTake
           \/ StopMark \/ StopNotify \/ StopJoin \/ StopDestroy \/ StopReset
    PROVE  [Handles!Next]_(Handles!vars)
<1> USE WhoIsWho DEF syncVars, coVars, runVars
<1>1. CASE \/ MainTestActive \/ MainTestQueue \/ MainProgress \/ MainProgressQueue \/ MainDrain \/ MainDrainActive \/ MainDrainCheck
           \/ StopNotify \/ StopJoin \/ StopReset
  <2>1. PICK l : /\ Goto(Main, l) /\ l \notin InWork /\ pc[Main] \notin InWork
                 /\ UNCHANGED <<queue, running, cur, co>>
    BY <1>1 DEF MainTestActive, MainTestQueue, MainProgress, MainProgressQueue, MainDrain, MainDrainActive, MainDrainCheck,
                StopNotify, StopJoin, StopReset, InWork
  <2>2. QED
    BY <2>1, WorkGoesOn, Unseen
<1>2. CASE MainTake \/ MainTimeout \/ MainDrainTake
  <2>1. pc[Main] \in {"take", "drainTake"} /\ pc[Main] \notin InWork /\ UNCHANGED <<running, co>>
    BY <1>2 DEF MainTake, MainTimeout, MainDrainTake, InWork
  <2>2. running
    BY <2>1 DEF BaseInv, PlaceInv, MainPlace, Stopping
  <2>3. CASE \E place : Pop(Main, place) /\ Goto(Main, "got")
    BY <2>1, <2>2, <2>3, PopSteps
  <2>4. CASE (Goto(Main, "progress") \/ Goto(Main, "drain")) /\ UNCHANGED <<queue, cur>>
    <3>1. PICK l \in {"progress", "drain"} : Goto(Main, l)
      BY <2>4
    <3>2. QED
      BY <2>1, <2>4, <3>1, WorkGoesOn, Unseen DEF InWork
  <2>5. CASE UNCHANGED <<queue, pc, cur>>
    BY <2>1, <2>5, Unseen DEF AtWork
  <2>6. QED
    BY <1>2, <2>3, <2>4, <2>5 DEF MainTake, MainTimeout, MainDrainTake
<1>3. CASE MainRun
  <2>1. \A w \in Workers : pc[w] = "off"
    BY <1>3 DEF MainRun, BaseInv, PlaceInv, WorkerPlace
  <2>2. \A t \in Executors : pc[t] \notin InWork /\ pc'[t] \notin InWork
    BY <1>3, <2>1 DEF MainRun, InWork
  <2>3. AtWork' = AtWork
    BY <2>2 DEF AtWork
  <2>4. ~running /\ running' = TRUE
    BY <1>3 DEF MainRun, BaseInv, PlaceInv, MainPlace
  <2>5. Handles!Start
    BY <1>3, <2>3, <2>4 DEF MainRun, Handles!Start, InQueue, Entries, Over
  <2>6. QED
    BY <2>5 DEF Handles!Next
<1>4. CASE StopMark
  <2>1. AtWork' = AtWork
    BY <1>4, WorkGoesOn DEF StopMark, InWork
  <2>2. running /\ running' = FALSE
    BY <1>4 DEF StopMark, BaseInv, PlaceInv, MainPlace, Stopping
  <2>3. Handles!Stop
    BY <1>4, <2>1, <2>2 DEF StopMark, Handles!Stop, InQueue, Entries, Over
  <2>4. QED
    BY <2>3 DEF Handles!Next
<1>5. CASE StopDestroy
  <2>1. ~running /\ pc[Main] \notin InWork /\ \A w \in Workers : pc[w] \notin InWork
    BY <1>5 DEF StopDestroy, BaseInv, PlaceInv, MainPlace, StopPlace, Stopping, InWork
  <2>2. \A t \in Executors : AtWork[t] = None
    BY <2>1 DEF AtWork
  <2>3. AtWork' = AtWork
    BY <1>5, WorkGoesOn DEF StopDestroy, InWork
  <2>4. \A c \in Coroutines : c \in ToSet(queue) <=> InQueue[c] > 0
    <3>1. queue \in Seq(Coroutines)
      BY DEF BaseInv, TypeOK
    <3>2. QED
      BY <3>1, EntriesAre DEF InQueue, ToSet
  <2>5. Over' = Over \cup {c \in Coroutines : InQueue[c] > 0}
    BY <1>5, <2>4 DEF StopDestroy, Over
  <2>6. InQueue' = [c \in Coroutines |-> 0]
    <3>1. queue' = <<>>
      BY <1>5 DEF StopDestroy
    <3>2. ASSUME NEW c \in Coroutines PROVE Entries(c)' = 0
      <4>1. PlacesIn(queue', c) = {}
        BY <3>1 DEF PlacesIn
      <4>2. QED
        BY <4>1, EntriesAre, FS_EmptySet
    <3>3. QED
      BY <3>2 DEF InQueue
  <2>7. Handles!Discard
    BY <1>5, <2>1, <2>2, <2>3, <2>5, <2>6 DEF StopDestroy, Handles!Discard
  <2>8. QED
    BY <2>7 DEF Handles!Next
<1>6. QED
  BY <1>1, <1>2, <1>3, <1>4, <1>5

\* The threads that schedule something from outside.
LEMMA ClientSteps ==
    ASSUME BaseInv, BaseInv', NEW t \in Clients, Wake(t) \/ Spawn(t) \/ ClientStep(t)
    PROVE  [Handles!Next]_(Handles!vars)
<1> USE WhoIsWho DEF syncVars, coVars, runVars
<1>1. /\ pc[t] \in {"idle", "count", "push", "complete", "decrement", "release", "end"}
      /\ pc[t] \notin {"idle", "end"} => cur[t] \in Coroutines
  BY DEF BaseInv, PlaceInv, ClientPlace
<1>2. CASE Wake(t) \/ Spawn(t)
  <2>1. /\ \E l : Goto(t, l)
        /\ cur' = [cur EXCEPT ![t] = Target[t]]
        /\ UNCHANGED <<queue, running, co>>
    BY <1>2 DEF Wake, Spawn
  <2>2. \A u \in Executors : cur'[u] = cur[u]
    BY <2>1 DEF BaseInv, TypeOK
  <2>3. QED
    BY <2>1, <2>2, ClientsDoNotWork, Unseen
<1>3. CASE ScheduleCount(t, "count", "push", home[t]) \/ TaskCompleted(t)
  <2>1. (\E l : Goto(t, l)) /\ UNCHANGED <<queue, running, cur, co>>
    BY <1>3 DEF ScheduleCount, TaskCompleted, CompleteTest, Decrement
  <2>2. QED
    BY <2>1, ClientsDoNotWork, Unseen
<1>4. CASE SchedulePush(t, "push", home[t])
  <2>1. cur[t] \in Coroutines /\ queue' = Append(queue, cur[t]) /\ UNCHANGED <<running, cur, co>>
    BY <1>1, <1>4 DEF SchedulePush
  <2>2. AtWork' = AtWork
    BY <1>4, ClientsDoNotWork DEF SchedulePush
  <2>3. InQueue' = [c \in Coroutines |-> IF c \in {cur[t]} THEN InQueue[c] + 1 ELSE InQueue[c]]
    BY <2>1, PushedEntries
  <2>4. Handles!Submit({cur[t]})
    BY <2>1, <2>2, <2>3 DEF Handles!Submit, Over
  <2>5. QED
    BY <2>1, <2>4 DEF Handles!Next
<1>5. CASE Release(t)
  <2>1. cur[t] \in Coroutines
    BY <1>1, <1>5 DEF Release
  <2>2. AtWork' = AtWork
    BY <1>5, ClientsDoNotWork DEF Release
  <2>3. Over' = Over \cup {cur[t]}
    BY <1>5, <2>1 DEF Release, Over, BaseInv, TypeOK
  <2>4. Handles!End(cur[t])
    BY <1>5, <2>2, <2>3 DEF Release, Handles!End, InQueue, Entries
  <2>5. QED
    BY <2>1, <2>4 DEF Handles!Next
<1>6. ~ScheduleCount(t, "yield", "yieldPush", "after") /\ ~SchedulePush(t, "yieldPush", "after")
  BY <1>1 DEF ScheduleCount, SchedulePush
<1>7. QED
  BY <1>2, <1>3, <1>4, <1>5, <1>6 DEF ClientStep, Schedule

\* The scheduler keeps the promise of a TaskQueue: what is taken is put back or
\* belongs to a coroutine that is over, until stop().
THEOREM SchedulerKeepsHandles == Spec => KeepsHandles
<1>1. Init => Handles!Init
  <2> SUFFICES ASSUME Init PROVE Handles!Init
    OBVIOUS
  <2>1. ASSUME NEW c \in Coroutines PROVE Entries(c) \in Nat
    <3>1. BaseInv
      BY BaseInit
    <3>2. queue \in Seq(Coroutines)
      BY <3>1 DEF BaseInv, TypeOK
    <3>3. Entries(c) = Cardinality(PlacesIn(queue, c)) /\ Cardinality(PlacesIn(queue, c)) \in Nat
      BY <3>2, PlacesAre DEF Entries
    <3>4. QED
      BY <3>3
  <2>2. AtWork = [t \in Executors |-> None]
    BY DEF Init, AtWork, InWork, Threads
  <2>3. QED
    BY <2>1, <2>2 DEF Init, Handles!Init, InQueue, Over
<1>2. BaseInv /\ BaseInv' /\ [Next]_vars => [Handles!Next]_(Handles!vars)
  <2> SUFFICES ASSUME BaseInv, BaseInv', [Next]_vars PROVE [Handles!Next]_(Handles!vars)
    OBVIOUS
  <2>1. ASSUME NEW w \in Workers, WorkerStep(w) \/ SpuriousWakeup(w) PROVE [Handles!Next]_(Handles!vars)
    BY <2>1, WhoIsWho, WorkerSteps, ExecutorSteps DEF WorkerStep
  <2>2. CASE MainStep \/ MainRun
    BY <2>2, WhoIsWho, MainSteps, ExecutorSteps DEF MainStep
  <2>3. ASSUME NEW t \in Clients, Wake(t) \/ Spawn(t) \/ ClientStep(t) PROVE [Handles!Next]_(Handles!vars)
    BY <2>3, ClientSteps
  <2>4. CASE UNCHANGED vars
    BY <2>4, Unseen DEF vars, AtWork
  <2>5. QED
    BY <2>1, <2>2, <2>3, <2>4 DEF Next, Clients
<1>3. QED
  BY <1>1, <1>2, BaseInit, BaseStep, PTL DEF Spec, KeepsHandles, Handles!Spec

-----------------------------------------------------------------------------
\* Counting, and destroying.

\* Whoever runs a task is the only one to schedule its coroutine, as long as
\* nobody else has resumed it: a task that is done when it is run, as those of
\* go() and spawn() are, is destroyed whoever else has it (task.h:113-121).
OwnSpawns == \A p \in Spawners : \A t \in Clients \ {p} : Target[t] # Target[p]

\* Somebody but p has c, or had it last, or it is queued.
Touched(c, p) == (\E t \in Threads \ {p} : cur[t] = c) \/ (\E i \in 1..Len(queue) : queue[i] = c)

\* What is to be run is as it was made, and nobody else's; it stays so if it was
\* done then.  Only such a coroutine is completed and released by its run().
FreshInv ==
    /\ \A p \in Spawners :
          /\ pc[p] = "idle" => co[Target[p]] = IF Target[p] \in Finished THEN "done" ELSE "suspended"
          /\ pc[p] = "idle" \/ Target[p] \in Finished => ~Touched(Target[p], p)
          /\ Target[p] \in Finished => pc[p] \notin {"count", "push"}
    /\ \A t \in Clients : pc[t] \in {"complete", "decrement", "release"} => t \in Spawners /\ Target[t] \in Finished

\* What a step touches was touched before, is what another client begins with, or
\* is queued by p; and a step changes only what is touched, or what p releases.
TouchesLittle(c, p) ==
    /\ Touched(c, p)' => Touched(c, p) \/ (\E t \in Clients \ {p} : Target[t] = c) \/ pc[p] = "push"
    /\ co'[c] # co[c] =>
          /\ Touched(c, p) \/ pc[p] = "release"
          /\ co'[c] = "destroyed" => StopDestroy \/ \E t \in Clients : Release(t) /\ cur[t] = c

\* Every step is like that.
LEMMA TouchStep ==
    ASSUME BaseInv, [Next]_vars, NEW c \in Coroutines, NEW p, p \notin Executors
    PROVE  TouchesLittle(c, p)
<1> USE DEF syncVars, coVars, runVars, TouchesLittle
<1>0. /\ Main \in Threads /\ Executors \subseteq Threads /\ Workers \subseteq Threads /\ Clients \subseteq Threads
      /\ queue \in Seq(Coroutines) /\ Len(queue) \in Nat
      /\ Main \in Executors /\ Workers \subseteq Executors
  BY DEF Threads, Executors, BaseInv, TypeOK
<1>1. ASSUME UNCHANGED <<queue, cur, co>> PROVE TouchesLittle(c, p)
  BY <1>1 DEF Touched
<1>2. ASSUME NEW t \in Executors, NEW place, Pop(t, place), UNCHANGED co PROVE TouchesLittle(c, p)
  <2>1. /\ Len(queue') = Len(queue) - 1 /\ Len(queue) \in Nat \ {0} /\ Head(queue) = queue[1]
        /\ \A i \in 1..Len(queue') : queue'[i] = queue[i + 1]
    BY <1>0, <1>2, TailElements DEF Pop
  <2>2. \A u \in Threads : cur'[u] = cur[u] \/ cur'[u] = queue[1]
    BY <1>2, <2>1 DEF Pop, BaseInv, TypeOK
  <2>3. \A i \in 1..Len(queue') : i + 1 \in 1..Len(queue)
    BY <2>1
  <2>4. 1 \in 1..Len(queue)
    BY <2>1
  <2>5. QED
    BY <1>2, <2>1, <2>2, <2>3, <2>4 DEF Touched
<1>3. ASSUME NEW t \in Threads, queue' = Append(queue, cur[t]), cur[t] \in Coroutines, t = p => pc[t] = "push",
             UNCHANGED <<cur, co>>
      PROVE  TouchesLittle(c, p)
  <2>1. Len(queue') = Len(queue) + 1 /\ \A i \in 1..Len(queue') : queue'[i] = IF i = Len(queue) + 1 THEN cur[t] ELSE queue[i]
    BY <1>0, <1>3, AppendElements
  <2>2. QED
    BY <1>0, <1>3, <2>1 DEF Touched
<1>4. ASSUME NEW t \in Threads, TaskCompleted(t) PROVE TouchesLittle(c, p)
  BY <1>1, <1>4 DEF TaskCompleted, CompleteTest, Decrement
<1>5. ASSUME NEW t \in Threads, Schedule(t) PROVE TouchesLittle(c, p)
  <2>1. pc[t] \in {"push", "yieldPush"} => cur[t] \in Coroutines
    <3>1. t \in Executors /\ pc[t] \in Holding => cur[t] \in Coroutines
      BY DEF BaseInv, PlaceInv, WorkerPlace, MainPlace, Executors
    <3>2. t \in Clients /\ pc[t] \in {"push", "yieldPush"} => cur[t] \in Coroutines
      BY SchedulerAssumption DEF BaseInv, PlaceInv, ClientPlace
    <3>3. QED
      BY <3>1, <3>2 DEF Threads, Holding
  <2>2. UNCHANGED <<cur, co>> /\ (UNCHANGED queue \/ (queue' = Append(queue, cur[t]) /\ pc[t] \in {"push", "yieldPush"}))
    BY <1>5 DEF Schedule, ScheduleCount, SchedulePush
  <2>3. t = p => pc[t] # "yieldPush"
    BY DEF Threads, BaseInv, PlaceInv, ClientPlace
  <2>4. QED
    BY <1>1, <1>3, <2>1, <2>2, <2>3
<1>6. ASSUME NEW t \in Executors, Handle(t) PROVE TouchesLittle(c, p)
  <2>1. CASE Finish(t)
    <3>1. co' = [co EXCEPT ![cur[t]] = "done"] /\ UNCHANGED <<queue, cur>>
      BY <2>1 DEF Finish
    <3>2. co'[c] # co[c] => c = cur[t] /\ co'[c] = "done"
      BY <3>1 DEF BaseInv, TypeOK
    <3>3. QED
      BY <1>0, <3>1, <3>2 DEF Touched
  <2>2. CASE Dispatch(t) \/ Suspend(t) \/ AfterResume(t)
    BY <1>1, <2>2 DEF Dispatch, Suspend, AfterResume
  <2>3. QED
    BY <1>6, <2>1, <2>2 DEF Handle
<1>7. ASSUME NEW w \in Workers, WorkerStep(w) \/ SpuriousWakeup(w) PROVE TouchesLittle(c, p)
  <2>1. CASE WorkerLoop(w) \/ WorkerBlock(w) \/ WorkerRecheck(w) \/ SpuriousWakeup(w)
    BY <1>1, <2>1 DEF WorkerLoop, WorkerBlock, WorkerRecheck, SpuriousWakeup
  <2>2. CASE WorkerFetch(w)
    BY <1>0, <1>1, <1>2, <2>2 DEF WorkerFetch
  <2>3. QED
    BY <1>0, <1>4, <1>5, <1>6, <1>7, <2>1, <2>2 DEF WorkerStep, Executors
<1>8. CASE MainStep
  <2>1. CASE MainTestActive \/ MainTestQueue \/ MainProgress \/ MainProgressQueue \/ MainDrain \/ MainDrainActive \/ MainDrainCheck
    BY <1>1, <2>1 DEF MainTestActive, MainTestQueue, MainProgress, MainProgressQueue, MainDrain, MainDrainActive, MainDrainCheck
  <2>2. CASE MainTake \/ MainTimeout \/ MainDrainTake
    BY <1>0, <1>1, <1>2, <2>2 DEF MainTake, MainTimeout, MainDrainTake
  <2>3. CASE StopMark \/ StopNotify \/ StopJoin \/ StopReset
    BY <1>1, <2>3 DEF StopMark, StopNotify, StopJoin, StopReset
  <2>4. CASE StopDestroy
    <3>1. queue' = <<>> /\ UNCHANGED cur /\ co' = [x \in Coroutines |-> IF x \in ToSet(queue) /\ co[x] # "done" THEN "destroyed" ELSE co[x]]
      BY <2>4 DEF StopDestroy
    <3>2. c \in ToSet(queue) => Touched(c, p)
      BY <1>0 DEF ToSet, Touched
    <3>3. QED
      BY <2>4, <3>1, <3>2 DEF Touched
  <2>5. QED
    BY <1>0, <1>4, <1>5, <1>6, <1>8, <2>1, <2>2, <2>3, <2>4 DEF MainStep, Executors
<1>9. ASSUME NEW t \in Clients, Wake(t) \/ Spawn(t) PROVE TouchesLittle(c, p)
  <2>1. pc[t] = "idle" /\ UNCHANGED <<queue, co>> /\ cur' = [cur EXCEPT ![t] = Target[t]] /\ pc'[t] # "idle"
    BY <1>0, <1>9 DEF Wake, Spawn, Goto, BaseInv, TypeOK
  <2>2. \A u \in Threads : cur'[u] = cur[u] \/ (u = t /\ cur'[u] = Target[t])
    BY <1>0, <2>1 DEF BaseInv, TypeOK
  <2>3. QED
    BY <1>0, <1>9, <2>1, <2>2 DEF Touched
<1>10. ASSUME NEW t \in Clients, ClientStep(t) PROVE TouchesLittle(c, p)
  <2>1. CASE Release(t)
    <3>1. co' = [co EXCEPT ![cur[t]] = "destroyed"] /\ UNCHANGED <<queue, cur>>
      BY <2>1 DEF Release
    <3>2. co'[c] # co[c] => c = cur[t]
      BY <3>1 DEF BaseInv, TypeOK
    <3>3. pc[t] = "release" /\ t \in Threads
      BY <1>0, <2>1 DEF Release
    <3>4. QED
      BY <1>0, <2>1, <3>1, <3>2, <3>3 DEF Touched
  <2>2. QED
    BY <1>0, <1>4, <1>5, <1>10, <2>1 DEF ClientStep
<1>11. CASE MainRun \/ UNCHANGED vars
  BY <1>1, <1>11 DEF MainRun, vars
<1>12. QED
  BY <1>7, <1>8, <1>9, <1>10, <1>11 DEF Next, Clients

\* No client comes back to "idle"; a call schedules its coroutine to its end, or
\* completes and releases it to its end, if it found it done.
ClientGoesOn(t) ==
    /\ pc'[t] = "idle" => pc[t] = "idle"
    /\ pc'[t] \in {"count", "push"} =>
          pc[t] \in {"count", "push"} \/ (pc[t] = "idle" /\ (t \in Spawners => co[Target[t]] # "done"))
    /\ pc'[t] \in {"complete", "decrement", "release"} =>
          \/ pc[t] \in {"complete", "decrement", "release"}
          \/ pc[t] = "idle" /\ t \in Spawners /\ co[Target[t]] = "done"

\* Every step is like that.
LEMMA ClientPlaces ==
    ASSUME BaseInv, [Next]_vars, NEW t \in Clients
    PROVE  ClientGoesOn(t)
<1> USE DEF syncVars, coVars, runVars
<1>0. /\ t \in Threads /\ t \notin Executors /\ Main \in Executors /\ Workers \subseteq Executors /\ Clients \subseteq Threads
      /\ Executors \subseteq Threads
  BY SchedulerAssumption DEF Threads, Executors
<1>1. pc'[t] = pc[t] => ClientGoesOn(t)
  BY DEF ClientGoesOn
<1>2. \A u \in Threads : \A l : Goto(u, l) => pc'[t] = IF u = t THEN l ELSE pc[t]
  BY <1>0 DEF Goto, BaseInv, TypeOK
<1>3. ASSUME NEW u \in Executors, \/ UNCHANGED pc \/ \E l : Goto(u, l)
      PROVE  pc'[t] = pc[t]
  BY <1>0, <1>2, <1>3
<1>4. ASSUME NEW u \in Executors, Handle(u) \/ Schedule(u) \/ TaskCompleted(u) PROVE pc'[t] = pc[t]
  <2>1. \E l : Goto(u, l)
    BY <1>4 DEF Handle, Dispatch, Finish, Suspend, AfterResume, Schedule, ScheduleCount, SchedulePush,
                TaskCompleted, CompleteTest, Decrement
  <2>2. QED
    BY <1>3, <2>1
<1>5. ASSUME NEW w \in Workers, WorkerStep(w) \/ SpuriousWakeup(w) PROVE pc'[t] = pc[t]
  <2>1. WorkerLoop(w) \/ WorkerFetch(w) \/ WorkerBlock(w) \/ WorkerRecheck(w) \/ SpuriousWakeup(w)
            => UNCHANGED pc \/ \E l : Goto(w, l)
    BY DEF WorkerLoop, WorkerFetch, WorkerBlock, WorkerRecheck, SpuriousWakeup
  <2>2. QED
    BY <1>0, <1>3, <1>4, <1>5, <2>1 DEF WorkerStep
<1>6. CASE MainStep
  <2>1. MainTestActive \/ MainTestQueue \/ MainTake \/ MainTimeout \/ MainProgress \/ MainProgressQueue
        \/ MainDrain \/ MainDrainActive \/ MainDrainCheck \/ MainDrainTake => UNCHANGED pc \/ \E l : Goto(Main, l)
    BY DEF MainTestActive, MainTestQueue, MainTake, MainTimeout, MainProgress, MainProgressQueue,
           MainDrain, MainDrainActive, MainDrainCheck, MainDrainTake
  <2>2. StopMark \/ StopNotify \/ StopJoin \/ StopDestroy \/ StopReset => \E l : Goto(Main, l)
    BY DEF StopMark, StopNotify, StopJoin, StopDestroy, StopReset
  <2>3. \/ UNCHANGED pc \/ \E l : Goto(Main, l)
        \/ Handle(Main) \/ Schedule(Main) \/ TaskCompleted(Main)
    BY <1>6, <2>1, <2>2 DEF MainStep
  <2>4. pc'[t] = pc[t]
    BY <1>0, <1>3, <1>4, <2>3
  <2>5. QED
    BY <1>1, <2>4
<1>7. CASE MainRun
  BY <1>0, <1>1, <1>7 DEF MainRun
<1>8. ASSUME NEW u \in Clients, (u \in Wakers /\ Wake(u)) \/ (u \in Spawners /\ Spawn(u)) \/ ClientStep(u)
      PROVE  ClientGoesOn(t)
  <2>1. /\ pc[u] \in {"idle", "count", "push", "complete", "decrement", "release", "end"}
        /\ pc[u] \in {"count", "push"} => home[u] = "end"
        /\ pc[u] \in {"complete", "decrement"} => home[u] = "release"
    BY DEF BaseInv, PlaceInv, ClientPlace
  <2>2. CASE u = t
    <3>1. CASE (t \in Wakers /\ Wake(t)) \/ (t \in Spawners /\ Spawn(t))
      BY <1>0, <1>2, <3>1, SchedulerAssumption DEF Wake, Spawn, ClientGoesOn
    <3>2. CASE Schedule(t)
      BY <1>0, <1>2, <2>1, <2>2, <3>2 DEF Schedule, ScheduleCount, SchedulePush, ClientGoesOn
    <3>3. CASE TaskCompleted(t) \/ Release(t)
      BY <1>0, <1>2, <2>1, <2>2, <3>3 DEF TaskCompleted, CompleteTest, Decrement, Release, ClientGoesOn
    <3>4. QED
      BY <1>8, <2>2, <3>1, <3>2, <3>3 DEF ClientStep
  <2>3. CASE u # t
    <3>1. \E l : Goto(u, l)
      BY <1>8 DEF Wake, Spawn, ClientStep, Schedule, ScheduleCount, SchedulePush, TaskCompleted, CompleteTest,
                  Decrement, Release
    <3>2. QED
      BY <1>0, <1>1, <1>2, <2>3, <3>1
  <2>4. QED
    BY <2>2, <2>3
<1>9. CASE UNCHANGED vars
  BY <1>1, <1>9 DEF vars
<1>10. QED
  BY <1>1, <1>5, <1>6, <1>7, <1>8, <1>9 DEF Next, Clients

\* Every step preserves FreshInv.
LEMMA FreshStep ==
    ASSUME OwnSpawns, BaseInv, FreshInv, [Next]_vars
    PROVE  FreshInv'
<1>1. ASSUME NEW p \in Spawners
      PROVE  /\ pc'[p] = "idle" => co'[Target[p]] = IF Target[p] \in Finished THEN "done" ELSE "suspended"
             /\ pc'[p] = "idle" \/ Target[p] \in Finished => ~Touched(Target[p], p)'
             /\ Target[p] \in Finished => pc'[p] \notin {"count", "push"}
  <2>1. p \in Clients /\ p \notin Executors /\ Target[p] \in Coroutines
    BY SchedulerAssumption DEF Clients, Executors
  <2>2. ClientGoesOn(p) /\ TouchesLittle(Target[p], p)
    BY <2>1, ClientPlaces, TouchStep
  <2>3. ~\E t \in Clients \ {p} : Target[t] = Target[p]
    BY DEF OwnSpawns
  <2>4. /\ pc[p] = "idle" => co[Target[p]] = IF Target[p] \in Finished THEN "done" ELSE "suspended"
        /\ pc[p] = "idle" \/ Target[p] \in Finished => ~Touched(Target[p], p)
        /\ Target[p] \in Finished => pc[p] \notin {"count", "push"}
    BY DEF FreshInv
  <2>5. QED
    BY <2>2, <2>3, <2>4 DEF ClientGoesOn, TouchesLittle
<1>2. ASSUME NEW t \in Clients, pc'[t] \in {"complete", "decrement", "release"}
      PROVE  t \in Spawners /\ Target[t] \in Finished
  BY <1>2, ClientPlaces DEF FreshInv, ClientGoesOn
<1>3. QED
  BY <1>1, <1>2 DEF FreshInv

\* The first state.
LEMMA FreshInit == Init => FreshInv
<1> SUFFICES ASSUME Init PROVE FreshInv
  OBVIOUS
<1>1. \A t \in Clients : pc[t] = "idle"
  BY SchedulerAssumption DEF Init, Threads
<1>2. ASSUME NEW p \in Spawners
      PROVE  /\ co[Target[p]] = IF Target[p] \in Finished THEN "done" ELSE "suspended"
             /\ ~Touched(Target[p], p)
             /\ p \in Clients
  BY SchedulerAssumption DEF Init, Clients, Touched, Threads
<1>3. QED
  BY <1>1, <1>2 DEF FreshInv

\* A task that was done when it was run.
RunDone(c) == c \in Finished /\ \E p \in Spawners : Target[p] = c

\* Where any other coroutine is destroyed, stop() has joined everyone.
DestroyInv == \A c \in Coroutines : co[c] = "destroyed" => pc[Main] \in {"reset", "stopped"} \/ RunDone(c)

\* stop() does not come back from its end.
LEMMA OverIsOver ==
    ASSUME BaseInv, [Next]_vars, pc[Main] \in {"reset", "stopped"}
    PROVE  pc'[Main] \in {pc[Main], "stopped"}
<1> USE DEF syncVars, coVars, runVars
<1>0. /\ Main \in Threads /\ Main \notin Workers \cup Clients /\ Workers \subseteq Threads /\ Clients \subseteq Threads
      /\ home[Main] \notin Holding
  BY SchedulerAssumption DEF Threads, Executors, BaseInv, TypeOK, Holding
<1>1. \A u \in Threads \ {Main} : \A l : Goto(u, l) => pc'[Main] = pc[Main]
  BY <1>0 DEF Goto, BaseInv, TypeOK
<1>2. ASSUME NEW u \in Threads \ {Main}, Handle(u) \/ Schedule(u) \/ TaskCompleted(u) PROVE pc'[Main] = pc[Main]
  <2>1. \E l : Goto(u, l)
    BY <1>2 DEF Handle, Dispatch, Finish, Suspend, AfterResume, Schedule, ScheduleCount, SchedulePush,
                TaskCompleted, CompleteTest, Decrement
  <2>2. QED
    BY <1>1, <2>1
<1>3. ASSUME NEW w \in Workers, WorkerStep(w) \/ SpuriousWakeup(w) PROVE pc'[Main] = pc[Main]
  <2>1. WorkerLoop(w) \/ WorkerFetch(w) \/ WorkerBlock(w) \/ WorkerRecheck(w) \/ SpuriousWakeup(w)
            => UNCHANGED pc \/ \E l : Goto(w, l)
    BY DEF WorkerLoop, WorkerFetch, WorkerBlock, WorkerRecheck, SpuriousWakeup
  <2>2. QED
    BY <1>0, <1>1, <1>2, <1>3, <2>1 DEF WorkerStep
<1>4. ASSUME NEW u \in Clients, Wake(u) \/ Spawn(u) \/ ClientStep(u) PROVE pc'[Main] = pc[Main]
  <2>1. Wake(u) \/ Spawn(u) \/ Release(u) => \E l : Goto(u, l)
    BY DEF Wake, Spawn, Release
  <2>2. QED
    BY <1>0, <1>1, <1>2, <1>4, <2>1 DEF ClientStep
<1>5. CASE MainStep
  <2>1. ~Handle(Main) /\ ~Schedule(Main) /\ ~TaskCompleted(Main)
    BY DEF Handle, Dispatch, Finish, Suspend, AfterResume, Schedule, ScheduleCount, SchedulePush,
           TaskCompleted, CompleteTest, Decrement
  <2>2. ~MainTestActive /\ ~MainTestQueue /\ ~MainTake /\ ~MainTimeout /\ ~MainProgress /\ ~MainProgressQueue
        /\ ~MainDrain /\ ~MainDrainActive /\ ~MainDrainCheck /\ ~MainDrainTake
    BY DEF MainTestActive, MainTestQueue, MainTake, MainTimeout, MainProgress, MainProgressQueue,
           MainDrain, MainDrainActive, MainDrainCheck, MainDrainTake
  <2>3. StopReset
    BY <1>5, <2>1, <2>2 DEF MainStep, StopMark, StopNotify, StopJoin, StopDestroy
  <2>4. QED
    BY <1>0, <2>3 DEF StopReset, Goto, BaseInv, TypeOK
<1>6. ~MainRun
  BY DEF MainRun
<1>7. CASE UNCHANGED vars
  BY <1>7 DEF vars
<1>8. QED
  BY <1>3, <1>4, <1>5, <1>6, <1>7 DEF Next, Clients

\* Every step preserves DestroyInv.
LEMMA DestroyStep ==
    ASSUME BaseInv, FreshInv, DestroyInv, [Next]_vars
    PROVE  DestroyInv'
<1> SUFFICES ASSUME NEW c \in Coroutines, co'[c] = "destroyed", ~RunDone(c) PROVE pc'[Main] \in {"reset", "stopped"}
  BY DEF DestroyInv, RunDone
<1>1. CASE co[c] = "destroyed"
  BY <1>1, OverIsOver DEF DestroyInv
<1>2. CASE co[c] # "destroyed"
  <2>1. StopDestroy \/ \E t \in Clients : Release(t) /\ cur[t] = c
    <3>1. Nobody \notin Executors
      BY SchedulerAssumption DEF Threads
    <3>2. QED
      BY <1>2, <3>1, TouchStep DEF TouchesLittle
  <2>2. ~\E t \in Clients : Release(t) /\ cur[t] = c
    <3> SUFFICES ASSUME NEW t \in Clients, pc[t] = "release", cur[t] = c PROVE FALSE
      BY DEF Release
    <3>1. t \in Spawners /\ Target[t] \in Finished
      BY DEF FreshInv
    <3>2. Target[t] = c
      BY DEF BaseInv, PlaceInv, ClientPlace
    <3>3. QED
      BY <3>1, <3>2 DEF RunDone
  <2>3. Main \in Threads
    BY DEF Threads, Executors
  <2>4. QED
    BY <2>1, <2>2, <2>3 DEF StopDestroy, Goto, BaseInv, TypeOK
<1>3. QED
  BY <1>1, <1>2

\* No worker, and not run(), touches the frame of a destroyed coroutine: stop()
\* destroys what is queued only when the workers are gone, and task<T>::run only
\* what was done before anybody could schedule it.
THEOREM DestroyedIsLeftAlone == ASSUME OwnSpawns PROVE Spec => []NoUseAfterDestroy
<1>1. Init => DestroyInv
  BY DEF Init, DestroyInv
<1>2. BaseInv /\ FreshInv /\ DestroyInv => NoUseAfterDestroy
  <2> SUFFICES ASSUME BaseInv, FreshInv, DestroyInv, NEW t \in Executors,
                      pc[t] \in {"got", "body", "yield", "after", "count"}, co[cur[t]] = "destroyed"
               PROVE  FALSE
    BY DEF NoUseAfterDestroy
  <2>1. cur[t] \in Coroutines
    BY DEF BaseInv, PlaceInv, WorkerPlace, MainPlace, Executors, Holding
  <2>2. ~RunDone(cur[t])
    BY SchedulerAssumption DEF RunDone, FreshInv, Touched, Threads, Clients, Executors
  <2>3. pc[Main] \in {"reset", "stopped"}
    BY <2>1, <2>2 DEF DestroyInv
  <2>4. QED
    BY <2>3 DEF BaseInv, PlaceInv, StopPlace, Stopping, Executors
<1>3. FreshInv /\ BaseInv /\ DestroyInv /\ [Next]_vars => DestroyInv'
  BY DestroyStep
<1>4. FreshInv /\ BaseInv /\ [Next]_vars => FreshInv'
  BY FreshStep
<1>5. QED
  BY <1>1, <1>2, <1>3, <1>4, FreshInit, BaseInit, BaseStep, PTL DEF Spec

\* What is queued, in hand, or on its way to the queue, less the completions that
\* nothing had counted.
Pending == Len(queue) + Cardinality(InHand) + Cardinality(InPush) - Cardinality(Uncounted)

\* What a thread adds to it from its place.
Hand(t, place) == IF t \in Executors /\ place \in Holding THEN 1 ELSE 0
Push(t, place) == IF (t \in Executors /\ place = "yieldPush") \/ (t \in Clients /\ place = "push") THEN 1 ELSE 0
Unc(t, place, after) == IF t \in Spawners /\ after = "release" /\ place \in {"release", "end"} THEN 1 ELSE 0

\* It is a number.
LEMMA PendingType ==
    ASSUME BaseInv, BaseInv'
    PROVE  Pending \in Int /\ Pending' \in Int
<1>1. /\ InHand \subseteq Threads /\ InPush \subseteq Threads /\ Uncounted \subseteq Threads
      /\ InHand' \subseteq Threads /\ InPush' \subseteq Threads /\ Uncounted' \subseteq Threads
  BY DEF InHand, InPush, Uncounted, Threads, Clients
<1>2. /\ IsFiniteSet(InHand) /\ IsFiniteSet(InPush) /\ IsFiniteSet(Uncounted)
      /\ IsFiniteSet(InHand') /\ IsFiniteSet(InPush') /\ IsFiniteSet(Uncounted')
  BY <1>1, SchedulerAssumption, FS_Subset
<1>3. /\ Cardinality(InHand) \in Nat /\ Cardinality(InPush) \in Nat /\ Cardinality(Uncounted) \in Nat
      /\ Cardinality(InHand') \in Nat /\ Cardinality(InPush') \in Nat /\ Cardinality(Uncounted') \in Nat
  BY <1>2, FS_CardinalityType
<1>4. Len(queue) \in Nat /\ Len(queue') \in Nat
  BY DEF BaseInv, TypeOK
<1>5. QED
  BY <1>3, <1>4 DEF Pending

\* A set that one element may join or leave.
LEMMA OneApart ==
    ASSUME NEW S, IsFiniteSet(S), NEW T, NEW t, T = S \cup {t} \/ T = S \ {t}
    PROVE  /\ Cardinality(S) \in Nat /\ Cardinality(T) \in Nat
           /\ Cardinality(T) - (IF t \in T THEN 1 ELSE 0) = Cardinality(S) - (IF t \in S THEN 1 ELSE 0)
<1>1. Cardinality(S) \in Nat
  BY FS_CardinalityType
<1>2. CASE T = S \cup {t}
  <2>1. t \in T /\ Cardinality(T) = IF t \in S THEN Cardinality(S) ELSE Cardinality(S) + 1
    BY <1>2, FS_AddElement
  <2>2. QED
    BY <1>1, <2>1
<1>3. CASE T = S \ {t}
  <2>1. t \notin T /\ Cardinality(T) = IF t \in S THEN Cardinality(S) - 1 ELSE Cardinality(S)
    BY <1>3, FS_RemoveElement
  <2>2. Cardinality(T) \in Nat
    BY <1>3, FS_RemoveElement, FS_CardinalityType
  <2>3. QED
    BY <1>1, <2>1, <2>2
<1>4. QED
  BY <1>2, <1>3

\* The count follows from what a single move does.
LEMMA MoveCounts ==
    ASSUME BaseInv, BaseInv', NEW t \in Threads, NEW l, Goto(t, l), \A u \in Spawners \ {t} : home'[u] = home[u],
           Len(queue') + Hand(t, l) + Push(t, l) - Unc(t, l, home'[t]) - active'
             <= Len(queue) + Hand(t, pc[t]) + Push(t, pc[t]) - Unc(t, pc[t], home[t]) - active
    PROVE  Pending' - active' <= Pending - active
<1>1. /\ pc'[t] = l /\ \A u \in Threads \ {t} : pc'[u] = pc[u]
      /\ Len(queue) \in Nat /\ Len(queue') \in Nat /\ active \in Int /\ active' \in Int
  BY DEF Goto, BaseInv, TypeOK
<1>2. Executors \subseteq Threads /\ Clients \subseteq Threads /\ Spawners \subseteq Threads
  BY DEF Threads, Clients
<1>3. IsFiniteSet(InHand) /\ IsFiniteSet(InPush) /\ IsFiniteSet(Uncounted)
  <2>1. InHand \subseteq Threads /\ InPush \subseteq Threads /\ Uncounted \subseteq Threads
    BY <1>2 DEF InHand, InPush, Uncounted
  <2>2. QED
    BY <2>1, SchedulerAssumption, FS_Subset
<1>4. InHand' = InHand \cup {t} \/ InHand' = InHand \ {t}
  BY <1>1, <1>2 DEF InHand
<1>5. InPush' = InPush \cup {t} \/ InPush' = InPush \ {t}
  BY <1>1, <1>2 DEF InPush
<1>6. Uncounted' = Uncounted \cup {t} \/ Uncounted' = Uncounted \ {t}
  BY <1>1, <1>2 DEF Uncounted
<1>7. /\ Hand(t, pc[t]) = IF t \in InHand THEN 1 ELSE 0
      /\ Hand(t, l) = IF t \in InHand' THEN 1 ELSE 0
  BY <1>1 DEF Hand, InHand, Holding
<1>8. /\ Push(t, pc[t]) = IF t \in InPush THEN 1 ELSE 0
      /\ Push(t, l) = IF t \in InPush' THEN 1 ELSE 0
  BY <1>1 DEF Push, InPush
<1>9. /\ Unc(t, pc[t], home[t]) = IF t \in Uncounted THEN 1 ELSE 0
      /\ Unc(t, l, home'[t]) = IF t \in Uncounted' THEN 1 ELSE 0
  BY <1>1 DEF Unc, Uncounted
<1>10. /\ Cardinality(InHand) \in Nat /\ Cardinality(InHand') \in Nat
       /\ Cardinality(InHand') - Hand(t, l) = Cardinality(InHand) - Hand(t, pc[t])
  <2>1. IsFiniteSet(InHand)
    BY <1>3
  <2>2. QED
    BY <2>1, <1>4, <1>7, OneApart
<1>11. /\ Cardinality(InPush) \in Nat /\ Cardinality(InPush') \in Nat
       /\ Cardinality(InPush') - Push(t, l) = Cardinality(InPush) - Push(t, pc[t])
  <2>1. IsFiniteSet(InPush)
    BY <1>3
  <2>2. QED
    BY <2>1, <1>5, <1>8, OneApart
<1>12. /\ Cardinality(Uncounted) \in Nat /\ Cardinality(Uncounted') \in Nat
       /\ Cardinality(Uncounted') - Unc(t, l, home'[t]) = Cardinality(Uncounted) - Unc(t, pc[t], home[t])
  <2>1. IsFiniteSet(Uncounted)
    BY <1>3
  <2>2. QED
    BY <2>1, <1>6, <1>9, OneApart
<1>13. PICK x \in Int, xx \in Int, y \in Int, yy \in Int, z \in Int, zz \in Int :
            /\ x = Hand(t, pc[t]) /\ xx = Hand(t, l) /\ y = Push(t, pc[t]) /\ yy = Push(t, l)
            /\ z = Unc(t, pc[t], home[t]) /\ zz = Unc(t, l, home'[t])
  BY DEF Hand, Push, Unc
<1>14. PICK h \in Int, hh \in Int, p \in Int, pp \in Int, n \in Int, nn \in Int :
            /\ h = Cardinality(InHand) /\ hh = Cardinality(InHand')
            /\ p = Cardinality(InPush) /\ pp = Cardinality(InPush')
            /\ n = Cardinality(Uncounted) /\ nn = Cardinality(Uncounted')
  <2>1. /\ Cardinality(InHand) \in Int /\ Cardinality(InHand') \in Int
        /\ Cardinality(InPush) \in Int /\ Cardinality(InPush') \in Int
        /\ Cardinality(Uncounted) \in Int /\ Cardinality(Uncounted') \in Int
    BY <1>10, <1>11, <1>12
  <2>2. QED
    BY <2>1
<1>15. PICK q \in Int, qq \in Int, a \in Int, aa \in Int : q = Len(queue) /\ qq = Len(queue') /\ a = active /\ aa = active'
  BY <1>1
<1>16. hh - xx = h - x /\ pp - yy = p - y /\ nn - zz = n - z
  BY <1>10, <1>11, <1>12, <1>13, <1>14
<1>17. qq + xx + yy - zz - aa <= q + x + y - z - a
  BY <1>13, <1>15
<1>18. (qq + hh + pp - nn) - aa <= (q + h + p - n) - a
  BY <1>16, <1>17
<1>19. QED
  BY <1>14, <1>15, <1>18 DEF Pending

\* No step but the reset of stop() brings more into the scheduler than it counts.
LEMMA CountStep ==
    ASSUME BaseInv, BaseInv', [Next]_vars
    PROVE  StopReset \/ Pending' - active' <= Pending - active
<1> USE DEF syncVars, coVars, runVars
<1>0. /\ Main \in Executors /\ Executors \subseteq Threads /\ Clients \subseteq Threads /\ Workers \subseteq Executors
      /\ \A t \in Executors : t \notin Clients
      /\ \A t \in Clients : t \notin Executors
      /\ Spawners \subseteq Clients
      /\ queue \in Seq(Coroutines) /\ queue' \in Seq(Coroutines) /\ Len(queue) \in Nat /\ active \in Int
  BY SchedulerAssumption DEF Threads, Executors, Clients, BaseInv, TypeOK
<1>1. \A t \in Executors : home[t] \notin Holding
  BY <1>0 DEF BaseInv, TypeOK, Holding
<1>2. \A t \in Clients :
          /\ pc[t] \in {"idle", "count", "push", "complete", "decrement", "release", "end"}
          /\ pc[t] \in {"idle", "count", "push"} => home[t] = "end"
          /\ pc[t] \in {"complete", "decrement"} => home[t] = "release"
          /\ pc[t] \in {"complete", "decrement"} => t \in Spawners
  BY DEF BaseInv, PlaceInv, ClientPlace
<1> DEFINE Kept(t) == \A u \in Spawners \ {t} : home'[u] = home[u]
           Counted(t, l) == /\ Goto(t, l) /\ Kept(t)
                            /\ Len(queue') + Hand(t, l) + Push(t, l) - Unc(t, l, home'[t]) - active'
                                 <= Len(queue) + Hand(t, pc[t]) + Push(t, pc[t]) - Unc(t, pc[t], home[t]) - active
           Moved(t, l) == /\ Goto(t, l) /\ Kept(t)
                          /\ Len(queue') + Hand(t, l) + Push(t, l) - active'
                               <= Len(queue) + Hand(t, pc[t]) + Push(t, pc[t]) - active
           Fine == Pending' - active' <= Pending - active
<1>3. ASSUME NEW t \in Threads, NEW l, Counted(t, l) PROVE Fine
  BY <1>3, MoveCounts
<1>4. ASSUME NEW t \in Executors, NEW l, Moved(t, l) PROVE Fine
  <2>1. Unc(t, l, home'[t]) = 0 /\ Unc(t, pc[t], home[t]) = 0
    BY <1>0 DEF Unc
  <2>2. /\ Hand(t, l) \in Int /\ Push(t, l) \in Int /\ Hand(t, pc[t]) \in Int /\ Push(t, pc[t]) \in Int
        /\ Len(queue') \in Int /\ active' \in Int
    BY <1>0 DEF Hand, Push, BaseInv, TypeOK
  <2>3. Counted(t, l)
    BY <1>0, <1>4, <2>1, <2>2
  <2>4. QED
    BY <1>0, <1>3, <2>3
<1>5. UNCHANGED <<queue, active, InHand, InPush, Uncounted>> => Fine
  <2>1. Pending \in Int
    BY PendingType
  <2>2. UNCHANGED <<queue, active, InHand, InPush, Uncounted>> => UNCHANGED <<Pending, active>>
    BY DEF Pending
  <2>3. QED
    BY <1>0, <2>1, <2>2
<1>6. UNCHANGED <<queue, active, pc, home>> => Fine
  <2>1. UNCHANGED <<pc, home>> => UNCHANGED <<InHand, InPush, Uncounted>>
    BY DEF InHand, InPush, Uncounted
  <2>2. QED
    BY <1>5, <2>1
<1> SUFFICES StopReset \/ Fine
  OBVIOUS
<1> HIDE DEF Fine
<1>7. ASSUME NEW t \in Executors, Handle(t) \/ TaskCompleted(t) PROVE Fine
  <2>1. Handle(t) => /\ \E l \in Holding \ {"yieldPush"} : Goto(t, l) /\ pc[t] \in Holding /\ UNCHANGED <<queue, active>>
                     /\ Kept(t)
    BY <1>0 DEF Handle, Dispatch, Finish, Suspend, AfterResume, Holding, BaseInv, TypeOK
  <2>2. CompleteTest(t) => /\ \E l \in {"decrement", home[t]} : Goto(t, l) /\ pc[t] = "complete" /\ UNCHANGED <<queue, active>>
                           /\ Kept(t)
    BY DEF CompleteTest
  <2>3. Decrement(t) => Goto(t, home[t]) /\ pc[t] = "decrement" /\ UNCHANGED queue /\ active' = active - 1 /\ Kept(t)
    BY DEF Decrement
  <2>4. CASE Handle(t)
    <3>1. PICK l \in Holding \ {"yieldPush"} : Goto(t, l) /\ pc[t] \in Holding /\ UNCHANGED <<queue, active>>
      BY <2>1, <2>4
    <3>2. Hand(t, l) = 1 /\ Push(t, l) = 0 /\ Hand(t, pc[t]) = 1 /\ Push(t, pc[t]) \in {0, 1}
      BY <1>0, <3>1 DEF Hand, Push
    <3>3. Moved(t, l)
      BY <1>0, <2>1, <2>4, <3>1, <3>2
    <3>4. QED
      BY <1>0, <1>4, <3>3
  <2>5. CASE CompleteTest(t)
    <3>1. PICK l \in {"decrement", home[t]} : Goto(t, l) /\ pc[t] = "complete" /\ UNCHANGED <<queue, active>>
      BY <2>2, <2>5
    <3>2. Hand(t, l) \in {0, 1} /\ Push(t, l) = 0 /\ Hand(t, "complete") = 1 /\ Push(t, "complete") = 0
      BY <1>0, <1>1, <3>1 DEF Hand, Push, Holding
    <3>3. Moved(t, l)
      BY <1>0, <2>2, <2>5, <3>1, <3>2
    <3>4. QED
      BY <1>0, <1>4, <3>3
  <2>6. CASE Decrement(t)
    <3>1. Hand(t, home[t]) = 0 /\ Push(t, home[t]) = 0 /\ Hand(t, "decrement") = 1 /\ Push(t, "decrement") = 0
      BY <1>0, <1>1 DEF Hand, Push, Holding
    <3>2. Moved(t, home[t])
      BY <1>0, <2>3, <2>6, <3>1
    <3>3. QED
      BY <1>0, <1>4, <3>2
  <2>7. QED
    BY <1>7, <2>4, <2>5, <2>6 DEF TaskCompleted
<1>8. ASSUME NEW t \in Threads, Schedule(t) PROVE Fine
  <2>0. /\ Kept(t) /\ home'[t] = home[t]
        /\ \A l \in {"count", "push", "yield", "yieldPush", "after", home[t]} :
              pc[t] \in {"count", "push", "yield", "yieldPush"} => Unc(t, l, home[t]) = 0
    <3>1. UNCHANGED home
      BY <1>8 DEF Schedule, ScheduleCount, SchedulePush
    <3>2. t \in Spawners /\ pc[t] \in {"count", "push", "yield", "yieldPush"} => home[t] = "end"
      BY <1>0, <1>2
    <3>3. QED
      BY <3>1, <3>2 DEF Unc
  <2>1. CASE ScheduleCount(t, "count", "push", home[t])
    <3>1. /\ pc[t] = "count" /\ queue' = queue
          /\ (Goto(t, home[t]) /\ active' = active) \/ (Goto(t, "push") /\ active' = active + 1)
      BY <2>1 DEF ScheduleCount
    <3>2. /\ Hand(t, "count") \in Int /\ Hand(t, home[t]) \in Int /\ Hand(t, home[t]) <= Hand(t, "count")
          /\ Push(t, "count") = 0 /\ Push(t, home[t]) = 0
          /\ Hand(t, "push") = Hand(t, "count") /\ Push(t, "push") \in {0, 1}
      BY <1>0, <1>1, <1>2, <3>1 DEF Hand, Push, Holding, Threads
    <3>3. \E l : Counted(t, l)
      BY <1>0, <2>0, <3>1, <3>2
    <3>4. QED
      BY <1>3, <3>3
  <2>2. CASE SchedulePush(t, "push", home[t])
    <3>1. pc[t] = "push" /\ Len(queue') = Len(queue) + 1 /\ active' = active /\ Goto(t, home[t])
      BY <1>0, <2>2 DEF SchedulePush
    <3>2. Hand(t, "push") + Push(t, "push") = 1 /\ Hand(t, home[t]) = 0 /\ Push(t, home[t]) = 0
          /\ Hand(t, "push") \in Int /\ Push(t, "push") \in Int
      BY <1>0, <1>1, <1>2, <3>1 DEF Hand, Push, Holding, Threads
    <3>3. Counted(t, home[t])
      BY <1>0, <2>0, <3>1, <3>2
    <3>4. QED
      BY <1>3, <3>3
  <2>3. CASE ScheduleCount(t, "yield", "yieldPush", "after")
    <3>1. /\ pc[t] = "yield" /\ queue' = queue
          /\ (Goto(t, "after") /\ active' = active) \/ (Goto(t, "yieldPush") /\ active' = active + 1)
      BY <2>3 DEF ScheduleCount
    <3>2. /\ Hand(t, "yield") = 1 /\ Hand(t, "after") = 1 /\ Hand(t, "yieldPush") = 1
          /\ Push(t, "yield") = 0 /\ Push(t, "after") = 0 /\ Push(t, "yieldPush") = 1
      BY <1>0, <1>2, <3>1 DEF Hand, Push, Holding, Threads
    <3>3. \E l : Counted(t, l)
      BY <1>0, <2>0, <3>1, <3>2
    <3>4. QED
      BY <1>3, <3>3
  <2>4. CASE SchedulePush(t, "yieldPush", "after")
    <3>1. pc[t] = "yieldPush" /\ Len(queue') = Len(queue) + 1 /\ active' = active /\ Goto(t, "after")
      BY <1>0, <2>4 DEF SchedulePush
    <3>2. Hand(t, "yieldPush") = 1 /\ Push(t, "yieldPush") = 1 /\ Hand(t, "after") = 1 /\ Push(t, "after") = 0
      BY <1>0, <1>2, <3>1 DEF Hand, Push, Holding, Threads
    <3>3. Counted(t, "after")
      BY <1>0, <2>0, <3>1, <3>2
    <3>4. QED
      BY <1>3, <3>3
  <2>5. QED
    BY <1>8, <2>1, <2>2, <2>3, <2>4 DEF Schedule
<1>9. ASSUME NEW t \in Executors, NEW place, NEW l \in Holding \ {"yieldPush"}, Pop(t, place), Goto(t, l), pc[t] \notin Holding,
             UNCHANGED active
      PROVE  Fine
  <2>1. Len(queue') = Len(queue) - 1
    BY <1>0, <1>9, HeadTail DEF Pop
  <2>2. Hand(t, l) = 1 /\ Push(t, l) = 0 /\ Hand(t, pc[t]) = 0 /\ Push(t, pc[t]) = 0
    BY <1>0, <1>9 DEF Hand, Push, Holding
  <2>3. Kept(t)
    BY <1>0, <1>9 DEF Pop, BaseInv, TypeOK
  <2>4. Moved(t, l)
    BY <1>0, <1>9, <2>1, <2>2, <2>3
  <2>5. QED
    BY <1>0, <1>4, <2>4
<1>10. ASSUME NEW t \in Executors, NEW l, Goto(t, l), l \notin Holding \/ (l # "yieldPush" /\ pc[t] \in Holding), UNCHANGED <<queue, active, home>>
      PROVE  Fine
  <2>1. /\ Hand(t, l) \in Int /\ Hand(t, pc[t]) \in Int /\ Hand(t, l) <= Hand(t, pc[t])
        /\ Push(t, l) \in Int /\ Push(t, pc[t]) \in Int /\ Push(t, l) <= Push(t, pc[t])
    BY <1>0, <1>10 DEF Hand, Push, Holding
  <2>2. Moved(t, l)
    BY <1>0, <1>10, <2>1
  <2>3. QED
    BY <1>0, <1>4, <2>2
<1> HIDE DEF Counted, Moved, Kept
<1>11. ASSUME NEW w \in Workers, WorkerStep(w) \/ SpuriousWakeup(w) PROVE Fine
  <2>1. CASE WorkerLoop(w) \/ WorkerBlock(w) \/ WorkerRecheck(w)
    <3>1. PICK l : Goto(w, l) /\ (l \notin Holding \/ (l # "yieldPush" /\ pc[w] \in Holding)) /\ UNCHANGED <<queue, active, home>>
      BY <2>1 DEF WorkerLoop, WorkerBlock, WorkerRecheck, Holding
    <3>2. QED
      BY <1>0, <1>10, <3>1
  <2>2. CASE WorkerFetch(w)
    <3>1. pc[w] \notin Holding /\ active' = active
      BY <2>2 DEF WorkerFetch, Holding
    <3>2. CASE Pop(w, "loop") /\ Goto(w, "recheck")
      <4>1. "recheck" \in Holding \ {"yieldPush"}
        BY DEF Holding
      <4>2. QED
        BY <1>0, <1>9, <3>1, <3>2, <4>1
    <3>3. CASE UNCHANGED <<queue, home>> /\ (Goto(w, "blocking") \/ Goto(w, "exited"))
      <4>1. "blocking" \notin Holding /\ "exited" \notin Holding
        BY DEF Holding
      <4>2. QED
        BY <1>0, <1>10, <3>1, <3>3, <4>1
    <3>4. QED
      BY <2>2, <3>2, <3>3 DEF WorkerFetch
  <2>3. CASE SpuriousWakeup(w)
    BY <1>6, <2>3 DEF SpuriousWakeup
  <2>4. QED
    BY <1>0, <1>7, <1>8, <1>11, <2>1, <2>2, <2>3 DEF WorkerStep
<1>12. CASE MainTestActive \/ MainTestQueue \/ MainProgress \/ MainProgressQueue \/ MainDrain \/ MainDrainActive \/ MainDrainCheck
            \/ StopMark \/ StopNotify \/ StopJoin
  <2>1. PICK l : Goto(Main, l) /\ l \notin Holding /\ UNCHANGED <<queue, active, home>>
    BY <1>12 DEF MainTestActive, MainTestQueue, MainProgress, MainProgressQueue, MainDrain, MainDrainActive, MainDrainCheck,
                 StopMark, StopNotify, StopJoin, Holding
  <2>2. QED
    BY <1>0, <1>10, <2>1
<1>13. CASE MainTake \/ MainTimeout \/ MainDrainTake
  <2>1. pc[Main] \notin Holding /\ active' = active
    BY <1>13 DEF MainTake, MainTimeout, MainDrainTake, Holding
  <2>2. CASE \E place : Pop(Main, place) /\ Goto(Main, "got")
    <3>1. "got" \in Holding \ {"yieldPush"}
      BY DEF Holding
    <3>2. QED
      BY <1>0, <1>9, <2>1, <2>2, <3>1
  <2>3. CASE (Goto(Main, "progress") \/ Goto(Main, "drain")) /\ UNCHANGED <<queue, home>>
    <3>1. "progress" \notin Holding /\ "drain" \notin Holding
      BY DEF Holding
    <3>2. QED
      BY <1>0, <1>10, <2>1, <2>3, <3>1
  <2>4. CASE UNCHANGED <<queue, pc, home>>
    BY <1>6, <2>1, <2>4
  <2>5. QED
    BY <1>13, <2>2, <2>3, <2>4 DEF MainTake, MainTimeout, MainDrainTake
<1>14. CASE StopDestroy
  <2>1. Goto(Main, "reset") /\ queue' = <<>> /\ active' = active /\ Len(queue') = 0 /\ Kept(Main)
    BY <1>14 DEF StopDestroy, Kept
  <2>2. /\ Hand(Main, "reset") = 0 /\ Push(Main, "reset") = 0
        /\ Hand(Main, pc[Main]) \in Nat /\ Push(Main, pc[Main]) \in Nat
    BY <1>0 DEF Hand, Push, Holding
  <2>3. Moved(Main, "reset")
    BY <1>0, <2>1, <2>2 DEF Moved
  <2>4. QED
    BY <1>0, <1>4, <2>3
<1>15. CASE MainRun
  <2>1. UNCHANGED <<queue, active, home>> /\ pc' = [t \in Threads |-> IF t \in Executors THEN "loop" ELSE pc[t]] /\ pc[Main] = "idle"
    BY <1>15 DEF MainRun
  <2>2. \A t \in Executors : pc[t] \notin Holding
    BY <2>1 DEF BaseInv, PlaceInv, WorkerPlace, Executors, Holding
  <2>3. InHand' = InHand
    BY <1>0, <2>1, <2>2 DEF InHand, Holding
  <2>4. InPush' = InPush
    BY <1>0, <2>1, <2>2 DEF InPush, Holding
  <2>5. Uncounted' = Uncounted
    BY <1>0, <2>1 DEF Uncounted
  <2>6. QED
    BY <1>5, <2>1, <2>3, <2>4, <2>5
<1>16. ASSUME NEW t \in Clients, (t \in Wakers /\ Wake(t)) \/ (t \in Spawners /\ Spawn(t)) PROVE Fine
  <2>1. /\ pc[t] = "idle" /\ queue' = queue /\ Kept(t)
        /\ (Goto(t, "count") /\ UNCHANGED home) \/ Goto(t, "complete")
        /\ active' = active \/ active' = active + 1
    BY <1>0, <1>16 DEF Wake, Spawn, Started, Kept, BaseInv, TypeOK
  <2>2. /\ Hand(t, "idle") = 0 /\ Push(t, "idle") = 0 /\ Hand(t, "count") = 0 /\ Push(t, "count") = 0
        /\ Hand(t, "complete") = 0 /\ Push(t, "complete") = 0
        /\ Unc(t, "idle", home[t]) = 0 /\ Unc(t, "count", home'[t]) = 0 /\ Unc(t, "complete", home'[t]) = 0
    BY <1>0 DEF Hand, Push, Unc
  <2>3. \E l : Counted(t, l)
    BY <1>0, <2>1, <2>2 DEF Counted
  <2>4. QED
    BY <1>0, <1>3, <2>3
<1>17. ASSUME NEW t \in Clients, ClientStep(t) PROVE Fine
  <2>1. CASE TaskCompleted(t)
    <3>1. /\ t \in Spawners /\ home[t] = "release" /\ UNCHANGED <<queue, home>> /\ Kept(t)
          /\ \/ pc[t] = "complete" /\ Goto(t, "decrement") /\ active' = active
             \/ pc[t] = "complete" /\ Goto(t, "release") /\ active' = active
             \/ pc[t] = "decrement" /\ Goto(t, "release") /\ active' = active - 1
      BY <1>2, <2>1 DEF TaskCompleted, CompleteTest, Decrement, Kept
    <3>2. /\ \A l \in {"complete", "decrement", "release"} : Hand(t, l) = 0 /\ Push(t, l) = 0
          /\ Unc(t, "complete", "release") = 0 /\ Unc(t, "decrement", "release") = 0 /\ Unc(t, "release", "release") = 1
      BY <1>0, <3>1 DEF Hand, Push, Unc
    <3>3. \E l : Counted(t, l)
      BY <1>0, <3>1, <3>2 DEF Counted
    <3>4. QED
      BY <1>0, <1>3, <3>3
  <2>2. CASE Release(t)
    <3>1. pc[t] = "release" /\ Goto(t, "end") /\ UNCHANGED <<queue, active, home>> /\ Kept(t)
      BY <2>2 DEF Release, Kept
    <3>2. /\ Hand(t, "release") = 0 /\ Push(t, "release") = 0 /\ Hand(t, "end") = 0 /\ Push(t, "end") = 0
          /\ Unc(t, "end", home[t]) = Unc(t, "release", home[t]) /\ Unc(t, "end", home[t]) \in Int
      BY <1>0 DEF Hand, Push, Unc
    <3>3. Counted(t, "end")
      BY <1>0, <3>1, <3>2 DEF Counted
    <3>4. QED
      BY <1>0, <1>3, <3>3
  <2>3. QED
    BY <1>0, <1>8, <1>17, <2>1, <2>2 DEF ClientStep
<1>18. CASE UNCHANGED vars
  BY <1>6, <1>18 DEF vars
<1>19. QED
  BY <1>0, <1>7, <1>8, <1>11, <1>12, <1>13, <1>14, <1>15, <1>16, <1>17, <1>18 DEF Next, MainStep, Clients

\* The invariant: stop() ends with the reset, and nothing is counted after it.
CountInv == pc[Main] # "stopped" => Pending <= active

\* Every step preserves it.
LEMMA CountKeeps ==
    ASSUME BaseInv, BaseInv', CountInv, [Next]_vars
    PROVE  CountInv'
<1> SUFFICES ASSUME pc'[Main] # "stopped" PROVE Pending' <= active'
  BY DEF CountInv
<1>1. ~StopReset
  BY DEF StopReset, Goto, BaseInv, TypeOK, Threads, Executors
<1>2. pc[Main] # "stopped"
  BY OverIsOver
<1>3. Pending <= active /\ Pending' - active' <= Pending - active
  BY <1>1, <1>2, CountStep DEF CountInv
<1>4. Pending \in Int /\ Pending' \in Int
  BY PendingType
<1>5. active \in Int /\ active' \in Int
  BY DEF BaseInv, TypeOK
<1>6. PICK p \in Int, pp \in Int, a \in Int, aa \in Int : p = Pending /\ pp = Pending' /\ a = active /\ aa = active'
  BY <1>4, <1>5
<1>7. p <= a /\ pp - aa <= p - a
  BY <1>3, <1>6
<1>8. pp <= aa
  BY <1>7
<1>9. QED
  BY <1>6, <1>8

\* Every queued handle, every handle a thread works on and every push on its way
\* is counted, until stop() resets the count, but for one for each task that was
\* done when it was run.
THEOREM WorkIsCounted == Spec => []PendingCounted
<1>1. Init => CountInv
  <2> SUFFICES ASSUME Init PROVE Pending <= active
    BY DEF CountInv
  <2>1. InHand = {} /\ InPush = {} /\ Uncounted = {}
    BY SchedulerAssumption DEF Init, InHand, InPush, Uncounted, Threads, Executors, Clients
  <2>2. Len(queue) = 0 /\ active = 0
    BY DEF Init
  <2>3. QED
    BY <2>1, <2>2, FS_EmptySet DEF Pending
<1>2. BaseInv /\ CountInv => PendingCounted
  <2> SUFFICES ASSUME BaseInv, Pending <= active
               PROVE  Len(queue) + Cardinality(InHand) + Cardinality(InPush) <= active + Cardinality(Uncounted)
    BY DEF CountInv, PendingCounted
  <2>1. InHand \subseteq Threads /\ InPush \subseteq Threads /\ Uncounted \subseteq Threads
    BY DEF InHand, InPush, Uncounted, Threads, Clients
  <2>2. Cardinality(InHand) \in Nat /\ Cardinality(InPush) \in Nat /\ Cardinality(Uncounted) \in Nat
    BY <2>1, SchedulerAssumption, FS_Subset, FS_CardinalityType
  <2>3. Len(queue) \in Nat /\ active \in Int
    BY DEF BaseInv, TypeOK
  <2>4. QED
    BY <2>2, <2>3 DEF Pending
<1>3. BaseInv /\ BaseInv' /\ CountInv /\ [Next]_vars => CountInv'
  BY CountKeeps
<1>4. QED
  BY <1>1, <1>2, <1>3, BaseInit, BaseStep, PTL DEF Spec

=============================================================================
