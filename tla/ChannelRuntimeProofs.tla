------------------------ MODULE ChannelRuntimeProofs ------------------------
(***************************************************************************)
(* Theorems about ChannelRuntime, for every capacity, every set of parties *)
(* and of workers, driven or not.                                          *)
(***************************************************************************)
EXTENDS ChannelContractProofs, ChannelRuntime

-----------------------------------------------------------------------------
\* The inductive invariant.

\* The workers that have the handle of c in hand, and those of them that have
\* resumed it.
Hands(c)   == {w \in Workers : hand[w] = c /\ worker[w] # "free"}
Drivers(c) == {w \in Workers : hand[w] = c /\ worker[w] \in {"inside", "back", "push"}}

RuntimeTypes ==
    /\ queued \in [Coroutines -> Nat]
    /\ frame \in [Coroutines -> {"alive", "ended", "destroyed"}]
    /\ caller \in [Coroutines -> CallerPlaces]
    /\ worker \in [Workers -> WorkerPlaces]
    /\ hand \in [Workers -> Coroutines \cup {Nothing}]
    /\ \A w \in Workers : worker[w] # "free" => hand[w] \in Coroutines

\* Until c waits, one thread has it: its caller, or for one of Late the queue or
\* one worker.
Begins(c) ==
    /\ frame[c] = "alive" /\ wakeups[c] = 0 /\ ~Registered(c)
    /\ IF c \in Late
       THEN /\ caller[c] = "over"
            /\ \/ pc[c] = "idle" /\ queued[c] = 1 /\ Hands(c) = {}
               \/ /\ queued[c] = 0
                  /\ \E w \in Workers :
                        /\ Hands(c) = {w}
                        /\ worker[w] = "inside" \/ (pc[c] = "idle" /\ worker[w] = "got")
       ELSE caller[c] = "inside" /\ queued[c] = 0 /\ Hands(c) = {}

\* While it waits its wakeups are handles, and at most one thread is still to
\* requeue it.
Waits(c) ==
    /\ frame[c] = "alive"
    /\ wakeups[c] = queued[c] + Cardinality(Holders(c))
    /\ IF pc[c] = "suspended" /\ c \in Late
       THEN caller[c] = "over" /\ \E w \in Workers : Drivers(c) = {w} /\ worker[w] \in {"back", "push"}
       ELSE /\ Drivers(c) = {}
            /\ IF pc[c] = "suspended" /\ c \in Driven THEN caller[c] \in {"back", "push"}
                                                     ELSE caller[c] = "over"

\* What nobody drives: it is registered as long as it waits and was not woken.
Undriven(c) ==
    /\ pc[c] # "requeued" /\ frame[c] # "destroyed" /\ caller[c] \in {"inside", "over"}
    /\ Registered(c) => pc[c] = "suspended" /\ wakeups[c] = 0
    /\ pc[c] = "suspended" => wakeups[c] <= 1
    /\ queued[c] + Cardinality(Hands(c)) <= 1

Good(c) ==
    /\ pc[c] \in {"idle", "unready"} => Begins(c)
    /\ pc[c] \in {"suspended", "requeued"} => Waits(c)
    /\ c \in Late => caller[c] = "over"
    /\ c \notin Driven => Undriven(c)

RuntimeInv ==
    /\ TypeOK /\ Distinct
    /\ RuntimeTypes
    /\ \A c \in Coroutines : Good(c)

-----------------------------------------------------------------------------
\* Counting workers.

LEMMA HandSets ==
    ASSUME NEW c \in Coroutines
    PROVE  /\ IsFiniteSet(Holders(c)) /\ IsFiniteSet(Hands(c))
           /\ Cardinality(Holders(c)) \in Nat /\ Cardinality(Hands(c)) \in Nat
           /\ IsFiniteSet(Holders(c)') /\ IsFiniteSet(Hands(c)')
           /\ Cardinality(Holders(c)') \in Nat /\ Cardinality(Hands(c)') \in Nat
<1>1. IsFiniteSet(Workers)
  BY RuntimeAssumption
<1>2. /\ Holders(c) \subseteq Workers /\ Hands(c) \subseteq Workers
      /\ Holders(c)' \subseteq Workers /\ Hands(c)' \subseteq Workers
  BY DEF Holders, Hands
<1>3. QED
  BY <1>1, <1>2, FS_Subset, FS_CardinalityType

\* A worker has resumed what it has in hand, or not yet.
LEMMA HandsOf ==
    ASSUME RuntimeTypes, NEW c \in Coroutines, Drivers(c) = {}
    PROVE  Hands(c) = Holders(c)
BY DEF RuntimeTypes, WorkerPlaces, Hands, Drivers, Holders

LEMMA LateAreDriven == Late \subseteq Driven /\ Driven \subseteq Coroutines /\ Coroutines \subseteq Parties
BY RuntimeAssumption, ChannelAssumption DEF Parties

-----------------------------------------------------------------------------
\* What does not move.

\* No worker takes or lets go of the handle of c.
HandsStay(c) == \A w \in Workers : hand[w] = c \/ hand'[w] = c => hand'[w] = hand[w] /\ worker'[w] = worker[w]

LEMMA HandsStayEqual ==
    ASSUME NEW c, HandsStay(c)
    PROVE  /\ Hands(c)' = Hands(c) /\ Holders(c)' = Holders(c) /\ Drivers(c)' = Drivers(c)
           /\ \A w \in Hands(c) : worker'[w] = worker[w]
           /\ \A w \in Drivers(c) : worker'[w] = worker[w]
BY DEF HandsStay, Hands, Holders, Drivers

\* Nothing of c changes.
LEMMA StaysGood ==
    ASSUME NEW c \in Coroutines, Good(c), HandsStay(c),
           pc'[c] = pc[c], wakeups'[c] = wakeups[c], Registered(c)' <=> Registered(c),
           queued'[c] = queued[c], frame'[c] = frame[c], caller'[c] = caller[c]
    PROVE  Good(c)'
<1>1. Begins(c) => Begins(c)'
  BY HandsStayEqual DEF Begins
<1>2. Waits(c) => Waits(c)'
  BY HandsStayEqual DEF Waits
<1>3. Undriven(c) => Undriven(c)'
  BY HandsStayEqual DEF Undriven
<1>4. QED
  BY <1>1, <1>2, <1>3 DEF Good

\* c is woken or stays registered, or not, by a step of somebody else.
Notified(c) ==
    IF c \in Woken THEN Registered(c) /\ ~Registered(c)' /\ wakeups'[c] = wakeups[c] + 1
                   ELSE (Registered(c)' <=> Registered(c)) /\ wakeups'[c] = wakeups[c]

\* What Enqueue does to one handle.
LEMMA Enqueued ==
    ASSUME NEW c \in Coroutines, RuntimeTypes, Enqueue(Woken)
    PROVE  /\ c \notin Woken => queued'[c] = queued[c]
           /\ c \in Woken /\ frame[c] = "alive" => queued'[c] = queued[c] + 1
BY DEF Enqueue, LooksAlive, LooksDone, RuntimeTypes

LEMMA NotifiedGood ==
    ASSUME NEW c \in Coroutines, RuntimeTypes, TypeOK, Good(c), HandsStay(c), Notified(c), Enqueue(Woken),
           pc'[c] = pc[c], frame'[c] = frame[c], caller'[c] = caller[c]
    PROVE  Good(c)'
<1>1. CASE c \notin Woken
  BY <1>1, Enqueued, StaysGood DEF Notified
<1>2. CASE c \in Woken
  <2>1. Registered(c) /\ ~Registered(c)' /\ wakeups'[c] = wakeups[c] + 1
    BY <1>2 DEF Notified
  <2>2. wakeups[c] \in Nat /\ queued[c] \in Nat
    BY DEF TypeOK, RuntimeTypes
  <2>3. pc[c] \notin {"idle", "unready"}
    BY <2>1 DEF Good, Begins
  <2>4. ASSUME pc[c] \in {"suspended", "requeued"} PROVE Waits(c)'
    <3>1. Waits(c) /\ queued'[c] = queued[c] + 1
      BY <1>2, <2>4, Enqueued DEF Good, Waits
    <3>2. wakeups'[c] = queued'[c] + Cardinality(Holders(c))
      BY <2>1, <2>2, <3>1, HandSets DEF Waits
    <3>3. QED
      BY <3>1, <3>2, HandsStayEqual DEF Waits
  <2>5. ASSUME c \notin Driven PROVE Undriven(c)'
    <3>1. Undriven(c) /\ pc[c] = "suspended" /\ wakeups[c] = 0 /\ Waits(c)
      BY <2>1, <2>5 DEF Good, Undriven
    <3>2. Drivers(c) = {} /\ frame[c] = "alive"
      BY <2>5, <3>1, LateAreDriven DEF Waits
    <3>3. Cardinality(Hands(c)) = 0 /\ queued[c] = 0
      BY <2>2, <3>1, <3>2, HandsOf, HandSets DEF Waits
    <3>4. queued'[c] = 1
      BY <1>2, <3>2, <3>3, Enqueued
    <3>5. QED
      BY <2>1, <3>1, <3>3, <3>4, HandsStayEqual DEF Undriven
  <2>6. QED
    BY <2>3, <2>4, <2>5 DEF Good
<1>3. QED
  BY <1>1, <1>2

-----------------------------------------------------------------------------
\* What an operation does to the one who performs it and to everyone else.

\* Who is woken leaves the list, the others stay.
LEMMA WakesNotify ==
    ASSUME TypeOK, NEW W, Wakes(W)
    PROVE  \A c \in Coroutines : Notified(c)
<1> SUFFICES ASSUME NEW c \in Coroutines PROVE Notified(c)
  OBVIOUS
<1>1. wakeups[c] \in Nat
  BY DEF TypeOK
<1>2. c \in W <=> c \in Woken
  BY <1>1 DEF Wakes, Woken
<1>3. QED
  BY <1>2 DEF Wakes, Notified

\* a moves; it was not registered and had no wakeup.
Moves(a) ==
    /\ Distinct'
    /\ \A c \in Coroutines \ {a} : Notified(c) /\ pc'[c] = pc[c]
    /\ \/ pc[a] = "idle" /\ pc'[a] \in {"unready", "done"} /\ wakeups'[a] = 0 /\ ~Registered(a)'
       \/ /\ pc[a] = "unready" /\ pc'[a] = "suspended"
          /\ wakeups'[a] = (IF a \in Woken THEN 1 ELSE 0)
          /\ Registered(a)' => wakeups'[a] = 0

LEMMA GotoMoves ==
    ASSUME TypeOK, NEW a \in Coroutines, NEW l, Goto(a, l)
    PROVE  pc'[a] = l /\ \A c \in Coroutines \ {a} : pc'[c] = pc[c]
BY LateAreDriven DEF TypeOK, Goto

\* await_ready, whether it is through or not.
LEMMA ReadyMoves ==
    ASSUME TypeOK, Distinct, NEW a \in Coroutines, pc[a] = "idle", wakeups[a] = 0, ~Registered(a),
           NEW l \in {"unready", "done"}, Goto(a, l), Distinct', NEW W, Wakes(W)
    PROVE  Moves(a)
<1>1. \A c \in Coroutines : Notified(c)
  BY WakesNotify
<1>2. wakeups'[a] = 0 /\ ~Registered(a)'
  BY <1>1 DEF Notified
<1>3. QED
  BY <1>1, <1>2, GotoMoves DEF Moves

LEMMA SendReadyMoves ==
    ASSUME TypeOK, Distinct, NEW s \in Senders, wakeups[s] = 0, ~Registered(s),
           SendReady(s) \/ SendUnready(s)
    PROVE  Moves(s)
<1>1. s \in Coroutines /\ pc[s] = "idle" /\ \E l \in {"unready", "done"} : Goto(s, l)
  BY DEF Coroutines, SendReady, SendUnready
<1>2. Distinct' /\ \E W : Wakes(W)
  BY PushWakes, NobodyWakes DEF SendReady, SendUnready, lists
<1>3. QED
  BY <1>1, <1>2, ReadyMoves

LEMMA RecvReadyMoves ==
    ASSUME TypeOK, Distinct, NEW r \in Receivers, wakeups[r] = 0, ~Registered(r),
           RecvReady(r) \/ RecvUnready(r)
    PROVE  Moves(r)
<1>1. r \in Coroutines /\ pc[r] = "idle" /\ \E l \in {"unready", "done"} : Goto(r, l)
  BY DEF Coroutines, RecvReady, RecvUnready
<1>2. Distinct' /\ \E W : Wakes(W)
  BY PopWakes, NobodyWakes DEF RecvReady, RecvUnready, lists
<1>3. QED
  BY <1>1, <1>2, ReadyMoves

\* Only a is scheduled, and the lists stay.
LEMMA AloneMoves ==
    ASSUME TypeOK, Distinct, NEW a \in Coroutines, pc[a] = "unready", wakeups[a] = 0, ~Registered(a),
           Goto(a, "suspended"), UNCHANGED <<sendWaiters, recvWaiters>>, Schedule({a})
    PROVE  Moves(a)
<1>1. \A c \in Coroutines : /\ wakeups[c] \in Nat
                            /\ wakeups'[c] = IF c = a THEN 1 ELSE wakeups[c]
                            /\ Registered(c)' <=> Registered(c)
  BY DEF Schedule, TypeOK, Registered
<1>2. Distinct' /\ a \in Woken /\ \A c \in Coroutines \ {a} : c \notin Woken
  BY <1>1 DEF Distinct, Woken
<1>3. \A c \in Coroutines \ {a} : Notified(c)
  BY <1>1, <1>2 DEF Notified
<1>4. QED
  BY <1>1, <1>2, <1>3, GotoMoves DEF Moves

\* a registers at the end of one list.
LEMMA RegisteringMoves ==
    ASSUME TypeOK, Distinct, NEW a \in Coroutines, pc[a] = "unready", wakeups[a] = 0, ~Registered(a),
           Goto(a, "suspended"), UNCHANGED wakeups,
           \/ sendWaiters' = Append(sendWaiters, a) /\ UNCHANGED recvWaiters /\ a \in Senders
           \/ recvWaiters' = Append(recvWaiters, a) /\ UNCHANGED sendWaiters /\ a \in Receivers
    PROVE  Moves(a)
<1>1. /\ Distinct'
      /\ \A c \in Coroutines \ {a} : Registered(c)' <=> Registered(c)
  <2>1. CASE sendWaiters' = Append(sendWaiters, a) /\ UNCHANGED recvWaiters /\ a \in Senders
    <3>1. ToSet(sendWaiters') = ToSet(sendWaiters) \cup {a} /\ IsInjective(sendWaiters')
      BY <2>1, AppendHolds DEF TypeOK, Distinct, Registered
    <3>2. QED
      BY <2>1, <3>1 DEF Distinct, Registered
  <2>2. CASE recvWaiters' = Append(recvWaiters, a) /\ UNCHANGED sendWaiters /\ a \in Receivers
    <3>1. ToSet(recvWaiters') = ToSet(recvWaiters) \cup {a} /\ IsInjective(recvWaiters')
      BY <2>2, AppendHolds DEF TypeOK, Distinct, Registered
    <3>2. QED
      BY <2>2, <3>1 DEF Distinct, Registered
  <2>3. QED
    BY <2>1, <2>2
<1>2. \A c \in Coroutines : c \notin Woken
  BY DEF Woken, TypeOK
<1>3. \A c \in Coroutines \ {a} : Notified(c)
  BY <1>1, <1>2 DEF Notified
<1>4. QED
  BY <1>1, <1>2, <1>3, GotoMoves DEF Moves

\* register_send_waiter.
LEMMA SendSuspendMoves ==
    ASSUME TypeOK, Distinct, NEW s \in Senders, wakeups[s] = 0, ~Registered(s), SendSuspend(s)
    PROVE  Moves(s)
<1>1. s \in Coroutines /\ pc[s] = "unready" /\ Goto(s, "suspended")
  BY DEF Coroutines, SendSuspend
<1>2. CASE closed
  BY <1>1, <1>2, AloneMoves DEF SendSuspend, lists
<1>3. CASE ~closed /\ recvWaiters # <<>>
  <2>1. Wakes({Head(recvWaiters)}) /\ Distinct'
    BY <1>3, HandOffWakes DEF SendSuspend
  <2>2. \A c \in Coroutines : Notified(c)
    BY <2>1, WakesNotify
  <2>3. wakeups'[s] = 0 /\ s \notin Woken
    BY <1>1, <2>2 DEF Notified
  <2>4. QED
    BY <1>1, <2>1, <2>2, <2>3, GotoMoves DEF Moves
<1>4. CASE ~closed /\ recvWaiters = <<>>
  BY <1>1, <1>4, RegisteringMoves DEF SendSuspend
<1>5. QED
  BY <1>2, <1>3, <1>4

\* register_recv_waiter.
LEMMA RecvSuspendMoves ==
    ASSUME TypeOK, Distinct, NEW r \in Receivers, wakeups[r] = 0, ~Registered(r), RecvSuspend(r)
    PROVE  Moves(r)
<1>1. r \in Coroutines /\ pc[r] = "unready" /\ Goto(r, "suspended")
  BY DEF Coroutines, RecvSuspend
<1>2. CASE closed
  BY <1>1, <1>2, AloneMoves DEF RecvSuspend
<1>3. CASE ~closed /\ sendWaiters # <<>>
  <2> DEFINE s == Head(sendWaiters)
  <2>1. sendWaiters' = Tail(sendWaiters) /\ UNCHANGED recvWaiters /\ Schedule({r, s})
    BY <1>3 DEF RecvSuspend
  <2>2. /\ ToSet(sendWaiters) = {s} \cup ToSet(sendWaiters')
        /\ s \notin ToSet(sendWaiters') /\ IsInjective(sendWaiters')
    BY <1>3, <2>1, TailHolds DEF TypeOK, Distinct
  <2>3. s \notin ToSet(recvWaiters) /\ s # r
    BY <2>2, SideOf DEF Registered
  <2>4. \A c \in Coroutines : /\ wakeups[c] \in Nat
                              /\ wakeups'[c] = IF c \in {r, s} THEN wakeups[c] + 1 ELSE wakeups[c]
    BY <2>1 DEF Schedule, TypeOK
  <2>5. \A c \in Coroutines : c \in Woken <=> c \in {r, s}
    BY <2>4 DEF Woken
  <2>6. \A c \in Coroutines \ {r} : Notified(c)
    BY <2>1, <2>2, <2>3, <2>4, <2>5 DEF Registered, Notified
  <2>7. Distinct' /\ ~Registered(r)' /\ wakeups'[r] = 1 /\ r \in Woken
    BY <1>1, <2>1, <2>2, <2>4, <2>5 DEF Registered, Distinct
  <2>8. QED
    BY <1>1, <2>6, <2>7, GotoMoves DEF Moves
<1>4. CASE ~closed /\ sendWaiters = <<>>
  BY <1>1, <1>4, RegisteringMoves DEF RecvSuspend
<1>5. QED
  BY <1>2, <1>3, <1>4

LEMMA OperateMoves ==
    ASSUME RuntimeInv, NEW a \in Coroutines, Operate(a)
    PROVE  pc[a] \in {"idle", "unready"} /\ Begins(a) /\ Moves(a)
<1>1. pc[a] \in {"idle", "unready"}
  BY DEF Operate, SendReady, SendUnready, SendSuspend, RecvReady, RecvUnready, RecvSuspend
<1>2. Begins(a) /\ TypeOK /\ Distinct
  BY <1>1 DEF RuntimeInv, Good
<1>3. QED
  BY <1>1, <1>2, SendReadyMoves, SendSuspendMoves, RecvReadyMoves, RecvSuspendMoves DEF Operate, Begins

-----------------------------------------------------------------------------
\* Every step is the channel's, or invisible to it.

\* A worker that has popped a handle of a coroutine that waits finds a wakeup.
LEMMA PoppedIsWoken ==
    ASSUME RuntimeInv, NEW w \in Workers, worker[w] = "got", pc[hand[w]] \in {"suspended", "requeued"}
    PROVE  hand[w] \in Coroutines /\ wakeups[hand[w]] > 0
<1>1. hand[w] \in Coroutines
  BY DEF RuntimeInv, RuntimeTypes
<1>2. w \in Holders(hand[w])
  BY DEF Holders
<1>3. Cardinality(Holders(hand[w])) \in Nat /\ Cardinality(Holders(hand[w])) # 0
  BY <1>1, <1>2, HandSets, FS_EmptySet
<1>4. Waits(hand[w]) /\ queued[hand[w]] \in Nat
  BY <1>1 DEF RuntimeInv, Good, RuntimeTypes
<1>5. QED
  BY <1>1, <1>3, <1>4 DEF Waits

\* Channel's Resume is what Enter does with it.
LEMMA EnterResumes ==
    ASSUME RuntimeInv, NEW w \in Workers, Enter(w)
    PROVE  hand[w] \in Coroutines /\ (Resume(hand[w]) \/ UNCHANGED vars)
<1>1. hand[w] \in Coroutines
  BY DEF Enter, RuntimeInv, RuntimeTypes
<1>2. CASE /\ pc[hand[w]] \in {"suspended", "requeued"}
           /\ pc' = [pc EXCEPT ![hand[w]] = "done"]
           /\ wakeups' = [wakeups EXCEPT ![hand[w]] = @ - 1]
           /\ UNCHANGED <<lists, closed, value, result>>
  BY <1>2, PoppedIsWoken DEF Enter, Resume, Goto
<1>3. CASE UNCHANGED channelVars
  BY <1>1, <1>3 DEF channelVars
<1>4. QED
  BY <1>2, <1>3 DEF Enter

LEMMA ChannelStep == RuntimeInv /\ [RuntimeNext]_allVars => [Next]_vars
<1> SUFFICES ASSUME RuntimeInv, [RuntimeNext]_allVars PROVE [Next]_vars
  OBVIOUS
<1>1. ASSUME NEW c \in Coroutines, Operate(c) PROVE Next
  BY <1>1 DEF Operate, Next
<1>2. ASSUME NEW c \in Coroutines, Drive(c) PROVE [Next]_vars
  BY <1>2 DEF Drive, Next, channelVars
<1>3. ASSUME NEW c \in Coroutines, Caller(c) PROVE [Next]_vars
  BY <1>1, <1>2, <1>3 DEF Caller, CallerOperates, CallerEnds, End, RunTask, CallerDrives, channelVars
<1>4. ASSUME NEW w \in Workers, Worker(w) PROVE [Next]_vars
  <2>1. worker[w] # "free" => hand[w] \in Coroutines
    BY DEF RuntimeInv, RuntimeTypes
  <2>2. CASE Enter(w)
    BY <2>2, EnterResumes DEF Next
  <2>3. CASE WorkerOperates(w) \/ WorkerEnds(w) \/ Back(w) \/ WorkerDrives(w)
    BY <1>1, <1>2, <2>1, <2>3 DEF WorkerOperates, WorkerEnds, End, Back, WorkerDrives, channelVars
  <2>4. QED
    BY <1>4, <2>2, <2>3 DEF Worker
<1>5. ASSUME NEW w \in Workers, NEW c \in Coroutines, Take(w, c) PROVE [Next]_vars
  BY <1>5 DEF Take, channelVars
<1>6. CASE Other
  BY <1>6 DEF Other, Next
<1>7. CASE UNCHANGED allVars
  BY <1>7 DEF allVars
<1>8. QED
  BY <1>3, <1>4, <1>5, <1>6, <1>7 DEF RuntimeNext

-----------------------------------------------------------------------------
\* The invariant is inductive.

LEMMA TypesStep ==
    ASSUME RuntimeTypes, [RuntimeNext]_allVars
    PROVE  RuntimeTypes'
<1>1. ASSUME NEW S, Enqueue(S) PROVE queued' \in [Coroutines -> Nat]
  BY <1>1 DEF Enqueue, RuntimeTypes
<1>2. ASSUME NEW c \in Coroutines, End(c)
      PROVE  UNCHANGED queued /\ frame' \in [Coroutines -> {"alive", "ended", "destroyed"}]
  BY <1>2 DEF End, RuntimeTypes
<1>3. ASSUME NEW c \in Coroutines, Drive(c) PROVE queued' \in [Coroutines -> Nat]
  BY <1>3 DEF Drive, RuntimeTypes
<1>4. ASSUME NEW c \in Coroutines, Caller(c) PROVE RuntimeTypes'
  <2>1. UNCHANGED workerVars
    BY <1>4 DEF Caller, CallerOperates, CallerEnds, RunTask, CallerDrives
  <2>2. queued' \in [Coroutines -> Nat] /\ frame' \in [Coroutines -> {"alive", "ended", "destroyed"}]
    BY <1>1, <1>2, <1>3, <1>4 DEF Caller, CallerOperates, Operate, CallerEnds, RunTask, CallerDrives, RuntimeTypes
  <2>3. caller' \in [Coroutines -> CallerPlaces]
    BY <1>4 DEF Caller, CallerOperates, CallerEnds, RunTask, CallerDrives, CallerAfter, CallerPlaces, RuntimeTypes
  <2>4. QED
    BY <2>1, <2>2, <2>3 DEF workerVars, RuntimeTypes
<1>5. ASSUME NEW w \in Workers, Worker(w) PROVE RuntimeTypes'
  <2>1. UNCHANGED <<caller, hand>> /\ worker[w] # "free" /\ \E place \in WorkerPlaces : WorkerGoes(w, place)
    BY <1>5 DEF Worker, Enter, WorkerOperates, WorkerEnds, Back, WorkerDrives, WorkerGoes, WorkerPlaces, RuntimeTypes
  <2>2. hand[w] \in Coroutines
    BY <2>1 DEF RuntimeTypes
  <2>3. queued' \in [Coroutines -> Nat] /\ frame' \in [Coroutines -> {"alive", "ended", "destroyed"}]
    BY <1>1, <1>2, <1>3, <1>5, <2>2 DEF Worker, Enter, WorkerOperates, Operate, WorkerEnds, Back, WorkerDrives, RuntimeTypes
  <2>4. QED
    BY <2>1, <2>2, <2>3 DEF WorkerGoes, RuntimeTypes
<1>6. ASSUME NEW w \in Workers, NEW c \in Coroutines, Take(w, c) PROVE RuntimeTypes'
  BY <1>6 DEF Take, WorkerGoes, WorkerPlaces, RuntimeTypes
<1>7. CASE Other
  BY <1>1, <1>7 DEF Other, workerVars, RuntimeTypes
<1>8. CASE UNCHANGED allVars
  BY <1>8 DEF allVars, workerVars, RuntimeTypes
<1>9. QED
  BY <1>4, <1>5, <1>6, <1>7, <1>8 DEF RuntimeNext

\* The thread that called a is at its operation.
LEMMA CallerOperatesGood ==
    ASSUME RuntimeInv, NEW a \in Coroutines, CallerOperates(a)
    PROVE  Distinct' /\ \A c \in Coroutines : Good(c)'
<1>1. Begins(a) /\ Moves(a) /\ Enqueue(Woken) /\ UNCHANGED <<frame, workerVars>> /\ caller[a] = "inside"
  BY OperateMoves DEF CallerOperates, Operate
<1>2. a \notin Late /\ frame[a] = "alive" /\ queued[a] = 0 /\ Hands(a) = {} /\ wakeups[a] = 0
  BY <1>1 DEF Begins
<1>3. /\ caller'[a] = IF pc'[a] = "suspended" THEN CallerAfter(a) ELSE "inside"
      /\ \A c \in Coroutines \ {a} : caller'[c] = caller[c]
  BY <1>1 DEF CallerOperates, RuntimeInv, RuntimeTypes
<1>4. \A c \in Coroutines : HandsStay(c)
  BY <1>1 DEF HandsStay, workerVars
<1>5. ASSUME NEW c \in Coroutines \ {a} PROVE Good(c)'
  BY <1>1, <1>3, <1>4, NotifiedGood DEF Moves, RuntimeInv
<1>6. Hands(a)' = {} /\ Holders(a)' = {} /\ Drivers(a)' = {}
  BY <1>1, <1>2 DEF Hands, Holders, Drivers, workerVars
<1>7. queued'[a] = IF a \in Woken THEN 1 ELSE 0
  BY <1>1, <1>2, Enqueued DEF RuntimeInv
<1>8. CASE pc'[a] \in {"unready", "done"}
  <2>1. wakeups'[a] = 0 /\ ~Registered(a)' /\ a \notin Woken
    BY <1>1, <1>2, <1>8 DEF Moves, Woken
  <2>2. Begins(a)'
    BY <1>1, <1>2, <1>3, <1>6, <1>7, <1>8, <2>1 DEF Begins
  <2>3. Undriven(a)'
    BY <1>1, <1>2, <1>3, <1>6, <1>7, <1>8, <2>1, FS_EmptySet DEF Undriven
  <2>4. QED
    BY <1>1, <1>2, <1>5, <1>8, <2>2, <2>3 DEF Good, Moves
<1>9. CASE pc'[a] = "suspended"
  <2>1. wakeups'[a] = queued'[a] /\ wakeups'[a] \in {0, 1} /\ (Registered(a)' => wakeups'[a] = 0)
    BY <1>1, <1>7, <1>9 DEF Moves
  <2>2. Cardinality(Holders(a)') = 0 /\ Cardinality(Hands(a)') = 0
    BY <1>6, FS_EmptySet
  <2>3. Waits(a)'
    BY <1>1, <1>2, <1>3, <1>6, <1>9, <2>1, <2>2 DEF Waits, CallerAfter
  <2>4. a \notin Driven => Undriven(a)'
    BY <1>1, <1>2, <1>3, <1>9, <2>1, <2>2 DEF Undriven, CallerAfter
  <2>5. QED
    BY <1>1, <1>2, <1>5, <1>9, <2>3, <2>4 DEF Good, Moves
<1>10. QED
  BY <1>1, <1>8, <1>9 DEF Moves

\* A worker is at the operation of a coroutine of Late.
LEMMA WorkerOperatesGood ==
    ASSUME RuntimeInv, NEW w \in Workers, WorkerOperates(w)
    PROVE  Distinct' /\ \A c \in Coroutines : Good(c)'
<1> DEFINE a == hand[w]
<1>0. a \in Coroutines /\ worker[w] = "inside" /\ Operate(a)
  BY DEF WorkerOperates, RuntimeInv, RuntimeTypes
<1>1. Begins(a) /\ Moves(a) /\ Enqueue(Woken) /\ UNCHANGED <<frame, caller, hand>>
  BY <1>0, OperateMoves DEF WorkerOperates, Operate
<1>2. w \in Hands(a)
  BY <1>0 DEF Hands
<1>3. /\ a \in Late /\ frame[a] = "alive" /\ queued[a] = 0 /\ Hands(a) = {w}
      /\ caller[a] = "over" /\ wakeups[a] = 0
  BY <1>1, <1>2 DEF Begins
<1>4. /\ worker'[w] = IF pc'[a] = "suspended" THEN "back" ELSE "inside"
      /\ \A v \in Workers \ {w} : worker'[v] = worker[v]
  BY <1>0 DEF WorkerOperates, RuntimeInv, RuntimeTypes
<1>5. ASSUME NEW c \in Coroutines \ {a} PROVE Good(c)'
  <2>1. HandsStay(c)
    BY <1>1, <1>4 DEF HandsStay
  <2>2. QED
    BY <1>1, <2>1, NotifiedGood DEF Moves, RuntimeInv
<1>6. Hands(a)' = {w}
  BY <1>1, <1>3, <1>4 DEF Hands
<1>7. queued'[a] = IF a \in Woken THEN 1 ELSE 0
  BY <1>0, <1>1, <1>3, Enqueued DEF RuntimeInv
<1>8. CASE pc'[a] \in {"unready", "done"}
  <2>1. wakeups'[a] = 0 /\ ~Registered(a)' /\ a \notin Woken
    BY <1>1, <1>3, <1>8 DEF Moves, Woken
  <2>2. Begins(a)'
    BY <1>1, <1>3, <1>4, <1>6, <1>7, <1>8, <2>1 DEF Begins
  <2>3. Good(a)'
    BY <1>0, <1>1, <1>3, <1>8, <2>2, LateAreDriven DEF Good
  <2>4. QED
    BY <1>1, <1>5, <2>3 DEF Moves
<1>9. CASE pc'[a] = "suspended"
  <2>1. wakeups'[a] = queued'[a] /\ queued'[a] \in {0, 1}
    BY <1>1, <1>7, <1>9 DEF Moves
  <2>2. Holders(a)' = {} /\ Drivers(a)' = {w} /\ worker'[w] = "back"
    BY <1>1, <1>4, <1>6, <1>9 DEF Hands, Holders, Drivers
  <2>3. Waits(a)'
    BY <1>1, <1>3, <1>9, <2>1, <2>2, FS_EmptySet DEF Waits
  <2>4. Good(a)'
    BY <1>0, <1>1, <1>3, <1>9, <2>3, LateAreDriven DEF Good
  <2>5. QED
    BY <1>1, <1>5, <2>4 DEF Moves
<1>10. QED
  BY <1>1, <1>8, <1>9 DEF Moves

\* A thread that is no coroutine.
LEMMA OtherGood ==
    ASSUME RuntimeInv, Other
    PROVE  Distinct' /\ \A c \in Coroutines : Good(c)'
<1>0. TypeOK /\ Distinct /\ RuntimeTypes /\ Enqueue(Woken) /\ UNCHANGED <<frame, caller, workerVars>>
  BY DEF RuntimeInv, Other
<1>1. \A c \in Coroutines : c \notin Pushers \cup Pollers \cup Closers
  BY ChannelAssumption DEF Coroutines
<1>2. ASSUME NEW p \in Pushers, TrySend(p) \/ TrySendRefused(p)
      PROVE  /\ Distinct' /\ \E W : Wakes(W)
             /\ \A c \in Coroutines : pc'[c] = pc[c]
  <2>1. Distinct' /\ \E W : Wakes(W)
    BY <1>0, <1>2, PushWakes, NobodyWakes DEF TrySend, TrySendRefused, lists
  <2>2. \E l : Goto(p, l)
    BY <1>2 DEF TrySend, TrySendRefused
  <2>3. QED
    BY <1>0, <1>1, <2>1, <2>2, LateAreDriven DEF Goto, TypeOK
<1>3. ASSUME NEW q \in Pollers, TryRecv(q) \/ TryRecvRefused(q)
      PROVE  /\ Distinct' /\ \E W : Wakes(W)
             /\ \A c \in Coroutines : pc'[c] = pc[c]
  <2>1. Distinct' /\ \E W : Wakes(W)
    BY <1>0, <1>3, PopWakes, NobodyWakes DEF TryRecv, TryRecvRefused, lists
  <2>2. \E l : Goto(q, l)
    BY <1>3 DEF TryRecv, TryRecvRefused
  <2>3. QED
    BY <1>0, <1>1, <2>1, <2>2, LateAreDriven DEF Goto, TypeOK
<1>4. ASSUME NEW k \in Closers, CloseMark(k) \/ CloseWake(k)
      PROVE  /\ Distinct' /\ \E W : Wakes(W)
             /\ \A c \in Coroutines : pc'[c] = pc[c]
  <2>1. Distinct' /\ \E W : Wakes(W)
    BY <1>0, <1>4, CloseWakes, NobodyWakes DEF CloseMark, lists
  <2>2. \E l : Goto(k, l)
    BY <1>4 DEF CloseMark, CloseWake
  <2>3. QED
    BY <1>0, <1>1, <2>1, <2>2, LateAreDriven DEF Goto, TypeOK
<1>5. Distinct' /\ (\E W : Wakes(W)) /\ \A c \in Coroutines : pc'[c] = pc[c]
  BY <1>2, <1>3, <1>4 DEF Other
<1>6. \A c \in Coroutines : Notified(c)
  BY <1>0, <1>5, WakesNotify
<1>7. \A c \in Coroutines : HandsStay(c)
  BY <1>0 DEF HandsStay, workerVars
<1>8. ASSUME NEW c \in Coroutines PROVE Good(c)'
  BY <1>0, <1>5, <1>6, <1>7, NotifiedGood DEF RuntimeInv
<1>9. QED
  BY <1>5, <1>8

\* A step that concerns one coroutine, and no list.
LEMMA OthersGood ==
    ASSUME RuntimeInv, NEW a \in Coroutines, UNCHANGED <<sendWaiters, recvWaiters>>,
           \A c \in Coroutines \ {a} :
               /\ HandsStay(c) /\ pc'[c] = pc[c] /\ wakeups'[c] = wakeups[c]
               /\ queued'[c] = queued[c] /\ frame'[c] = frame[c] /\ caller'[c] = caller[c],
           Good(a)'
    PROVE  Distinct' /\ \A c \in Coroutines : Good(c)'
<1>1. Distinct' /\ \A c \in Coroutines : Registered(c)' <=> Registered(c)
  BY DEF RuntimeInv, Distinct, Registered
<1>2. ASSUME NEW c \in Coroutines \ {a} PROVE Good(c)'
  BY <1>1, StaysGood DEF RuntimeInv
<1>3. QED
  BY <1>1, <1>2

\* What the worker does concerns only what it has in hand.
LEMMA OtherHandsStay ==
    ASSUME RuntimeTypes, NEW w \in Workers, NEW place, WorkerGoes(w, place), UNCHANGED hand
    PROVE  /\ \A c \in Coroutines \ {hand[w]} : HandsStay(c)
           /\ worker'[w] = place /\ \A v \in Workers \ {w} : worker'[v] = worker[v]
BY DEF WorkerGoes, HandsStay, RuntimeTypes

\* A coroutine ends in the thread that called it, or that thread goes on.
LEMMA CallerGood ==
    ASSUME RuntimeInv, NEW a \in Coroutines, CallerEnds(a) \/ RunTask(a)
    PROVE  Distinct' /\ \A c \in Coroutines : Good(c)'
<1>1. /\ UNCHANGED <<vars, queued, worker, hand>>
      /\ \A c \in Coroutines \ {a} : frame'[c] = frame[c] /\ caller'[c] = caller[c]
  BY DEF CallerEnds, End, RunTask, channelVars, workerVars, RuntimeInv, RuntimeTypes
<1>2. UNCHANGED <<sendWaiters, recvWaiters, pc, wakeups>> /\ \A c \in Coroutines : HandsStay(c)
  BY <1>1 DEF vars, HandsStay
<1>3. Registered(a)' <=> Registered(a)
  BY <1>2 DEF Registered
<1>4. Good(a) /\ RuntimeTypes /\ TypeOK
  BY DEF RuntimeInv
<1>5. CASE CallerEnds(a)
  <2>1. pc[a] = "done" /\ caller[a] = "inside" /\ caller'[a] = CallerAfter(a) /\ (frame[a] # "destroyed" => frame'[a] # "destroyed")
    BY <1>4, <1>5 DEF CallerEnds, End, RuntimeTypes
  <2>2. a \notin Late
    BY <1>4, <2>1 DEF Good
  <2>3. a \notin Driven => Undriven(a)'
    BY <1>1, <1>2, <1>3, <1>4, <2>1, HandsStayEqual DEF Good, Undriven, CallerAfter
  <2>4. QED
    BY <1>1, <1>2, <2>1, <2>2, <2>3, OthersGood DEF Good
<1>6. CASE RunTask(a)
  <2>1. /\ caller[a] = "back"
        /\ \/ frame[a] = "ended"
           \/ frame[a] = "alive" /\ frame'[a] = "alive" /\ caller'[a] = "push"
    BY <1>4, <1>6 DEF RunTask, RuntimeTypes
  <2>2. a \notin Late /\ a \in Driven
    BY <1>4, <2>1 DEF Good, Undriven
  <2>3. pc[a] \notin {"idle", "unready"}
    BY <1>4, <2>1, <2>2 DEF Good, Begins
  <2>4. pc[a] \in {"suspended", "requeued"} => Waits(a)'
    BY <1>1, <1>2, <1>4, <2>1, <2>2, HandsStayEqual DEF Good, Waits
  <2>5. Good(a)'
    BY <1>2, <2>2, <2>3, <2>4 DEF Good
  <2>6. QED
    BY <1>1, <1>2, <2>5, OthersGood
<1>7. QED
  BY <1>5, <1>6

\* The thread that called a schedules it.
LEMMA CallerDrivesGood ==
    ASSUME RuntimeInv, NEW a \in Coroutines, CallerDrives(a)
    PROVE  Distinct' /\ \A c \in Coroutines : Good(c)'
<1>1. Good(a) /\ RuntimeTypes /\ TypeOK /\ caller[a] = "push" /\ caller'[a] = "over"
  BY DEF RuntimeInv, CallerDrives, RuntimeTypes
<1>2. /\ UNCHANGED <<sendWaiters, recvWaiters, frame, worker, hand>>
      /\ \A c \in Coroutines \ {a} : /\ queued'[c] = queued[c] /\ caller'[c] = caller[c]
                                     /\ pc'[c] = pc[c] /\ wakeups'[c] = wakeups[c]
  BY <1>1, LateAreDriven
  DEF CallerDrives, Drive, Requeue, Schedule, Goto, lists, channelVars, vars, workerVars, RuntimeTypes, TypeOK
<1>3. \A c \in Coroutines : HandsStay(c)
  BY <1>2 DEF HandsStay
<1>4. a \in Driven /\ a \notin Late
  BY <1>1 DEF Good, Undriven
<1>5. pc[a] \notin {"idle", "unready", "requeued"}
  BY <1>1, <1>4 DEF Good, Begins, Waits
<1>6. CASE pc[a] = "suspended"
  <2>1. Waits(a)
    BY <1>1, <1>6 DEF Good
  <2>2. Requeue(a) /\ queued'[a] = queued[a] + 1
    BY <1>1, <1>6, <2>1 DEF CallerDrives, Drive, LooksDone, Waits, RuntimeTypes
  <2>3. pc'[a] = "requeued" /\ wakeups'[a] = wakeups[a] + 1
    BY <1>1, <2>2, LateAreDriven DEF Requeue, Goto, Schedule, TypeOK
  <2>4. wakeups'[a] = queued'[a] + Cardinality(Holders(a))
    BY <1>1, <2>1, <2>2, <2>3, HandSets DEF Waits, RuntimeTypes, TypeOK
  <2>5. Waits(a)'
    BY <1>1, <1>2, <1>3, <1>4, <1>6, <2>1, <2>3, <2>4, HandsStayEqual DEF Waits
  <2>6. QED
    BY <1>2, <1>3, <1>4, <2>3, <2>5, OthersGood DEF Good
<1>7. CASE pc[a] # "suspended"
  <2>1. pc'[a] = pc[a]
    BY <1>7 DEF CallerDrives, Drive, Requeue, channelVars, vars
  <2>2. Good(a)'
    BY <1>4, <1>5, <1>7, <2>1 DEF Good
  <2>3. QED
    BY <1>2, <1>3, <2>2, OthersGood
<1>8. QED
  BY <1>6, <1>7

\* A worker that has resumed a coroutine is with one that is past its operation,
\* or, at the requeueing, one of Late that waits.
LEMMA DriverOf ==
    ASSUME RuntimeInv, NEW w \in Workers, worker[w] \in {"back", "push"}
    PROVE  /\ hand[w] \in Coroutines /\ Good(hand[w])
           /\ pc[hand[w]] \notin {"idle", "unready", "requeued"}
           /\ pc[hand[w]] = "suspended" => hand[w] \in Late /\ Drivers(hand[w]) = {w} /\ Waits(hand[w])
<1> DEFINE a == hand[w]
<1>1. a \in Coroutines /\ Good(a) /\ w \in Drivers(a) /\ w \in Hands(a)
  BY DEF RuntimeInv, RuntimeTypes, Drivers, Hands
<1>2. pc[a] \notin {"idle", "unready"}
  BY <1>1 DEF Good, Begins
<1>3. pc[a] \in {"suspended", "requeued"} => pc[a] = "suspended" /\ a \in Late /\ Drivers(a) = {w} /\ Waits(a)
  BY <1>1 DEF Good, Waits
<1>4. QED
  BY <1>1, <1>2, <1>3

\* A worker's coroutine ends, or the worker looks at what it resumed.
LEMMA WorkerEndsGood ==
    ASSUME RuntimeInv, NEW w \in Workers, WorkerEnds(w)
    PROVE  Distinct' /\ \A c \in Coroutines : Good(c)'
<1> DEFINE a == hand[w]
<1>1. a \in Coroutines /\ Good(a) /\ RuntimeTypes /\ worker[w] = "inside" /\ pc[a] = "done"
  BY DEF RuntimeInv, RuntimeTypes, WorkerEnds, End
<1>2. /\ UNCHANGED <<sendWaiters, recvWaiters, pc, wakeups, queued, caller, hand>> /\ WorkerGoes(w, "back")
      /\ \A c \in Coroutines \ {a} : frame'[c] = frame[c]
      /\ frame[a] # "destroyed" => frame'[a] # "destroyed"
  BY <1>1 DEF WorkerEnds, End, channelVars, vars, RuntimeTypes
<1>3. \A c \in Coroutines \ {a} : HandsStay(c)
  BY <1>1, <1>2, OtherHandsStay
<1>4. Hands(a)' = Hands(a)
  BY <1>1, <1>2, OtherHandsStay DEF Hands
<1>5. Undriven(a) => Undriven(a)'
  BY <1>1, <1>2, <1>4 DEF Undriven, Registered
<1>6. Good(a)'
  BY <1>1, <1>2, <1>5 DEF Good
<1>7. QED
  BY <1>1, <1>2, <1>3, <1>6, OthersGood

LEMMA BackGood ==
    ASSUME RuntimeInv, NEW w \in Workers, Back(w)
    PROVE  Distinct' /\ \A c \in Coroutines : Good(c)'
<1> DEFINE a == hand[w]
<1>1. /\ a \in Coroutines /\ Good(a) /\ pc[a] \notin {"idle", "unready", "requeued"} /\ RuntimeTypes
      /\ pc[a] = "suspended" => a \in Late /\ Drivers(a) = {w} /\ Waits(a)
      /\ worker[w] = "back"
  BY DriverOf DEF Back, RuntimeInv
<1>2. /\ UNCHANGED <<sendWaiters, recvWaiters, pc, wakeups, queued, frame, caller, hand>>
      /\ \/ LooksDone(a) /\ WorkerGoes(w, "free")
         \/ WorkerGoes(w, "push")
  BY DEF Back, channelVars, vars
<1>3. \A c \in Coroutines \ {a} : HandsStay(c)
  BY <1>1, <1>2, OtherHandsStay
<1>4. Hands(a)' \subseteq Hands(a)
  BY <1>1, <1>2, OtherHandsStay DEF Hands
<1>5. Cardinality(Hands(a)') <= Cardinality(Hands(a))
  BY <1>1, <1>4, HandSets, FS_Subset
<1>6. Undriven(a) => Undriven(a)'
  BY <1>1, <1>2, <1>5, HandSets DEF Undriven, Registered, RuntimeTypes
<1>7. ASSUME pc[a] = "suspended" PROVE Waits(a)'
  <2>1. Waits(a) /\ WorkerGoes(w, "push") /\ a \in Late
    BY <1>1, <1>2, <1>7 DEF Waits, LooksDone
  <2>2. Holders(a)' = Holders(a) /\ Drivers(a)' = {w} /\ worker'[w] = "push"
    BY <1>1, <1>2, <1>7, <2>1, OtherHandsStay DEF Holders, Drivers
  <2>3. QED
    BY <1>2, <1>7, <2>1, <2>2 DEF Waits
<1>8. Good(a)'
  BY <1>1, <1>2, <1>6, <1>7 DEF Good
<1>9. QED
  BY <1>1, <1>2, <1>3, <1>8, OthersGood

\* A worker schedules what it resumed.
LEMMA WorkerDrivesGood ==
    ASSUME RuntimeInv, NEW w \in Workers, WorkerDrives(w)
    PROVE  Distinct' /\ \A c \in Coroutines : Good(c)'
<1> DEFINE a == hand[w]
<1>1. /\ a \in Coroutines /\ Good(a) /\ pc[a] \notin {"idle", "unready", "requeued"} /\ RuntimeTypes /\ TypeOK
      /\ pc[a] = "suspended" => a \in Late /\ Drivers(a) = {w} /\ Waits(a)
      /\ worker[w] = "push" /\ a \in Parties
  BY DriverOf, LateAreDriven DEF WorkerDrives, RuntimeInv
<1>2. /\ UNCHANGED <<sendWaiters, recvWaiters, frame, caller, hand>> /\ WorkerGoes(w, "free")
      /\ \A c \in Coroutines \ {a} : queued'[c] = queued[c] /\ pc'[c] = pc[c] /\ wakeups'[c] = wakeups[c]
  BY <1>1, LateAreDriven
  DEF WorkerDrives, Drive, Requeue, Schedule, Goto, lists, channelVars, vars, RuntimeTypes, TypeOK
<1>3. /\ \A c \in Coroutines \ {a} : HandsStay(c)
      /\ worker'[w] = "free" /\ \A v \in Workers \ {w} : worker'[v] = worker[v]
  BY <1>1, <1>2, OtherHandsStay
<1>4. CASE pc[a] = "suspended"
  <2>1. Requeue(a) /\ queued'[a] = queued[a] + 1
    BY <1>1, <1>4 DEF WorkerDrives, Drive, LooksDone, Waits, RuntimeTypes
  <2>2. pc'[a] = "requeued" /\ wakeups'[a] = wakeups[a] + 1
    BY <1>1, <2>1 DEF Requeue, Goto, Schedule, TypeOK
  <2>3. Holders(a)' = Holders(a) /\ Drivers(a)' = {}
    BY <1>1, <1>2, <1>3, <1>4 DEF Holders, Drivers
  <2>4. wakeups'[a] = queued'[a] + Cardinality(Holders(a)')
    BY <1>1, <1>4, <2>1, <2>2, <2>3, HandSets DEF Waits, RuntimeTypes, TypeOK
  <2>5. Waits(a)'
    BY <1>1, <1>2, <1>4, <2>2, <2>3, <2>4 DEF Waits
  <2>6. Good(a)'
    BY <1>1, <1>2, <1>4, <2>2, <2>5, LateAreDriven DEF Good
  <2>7. QED
    BY <1>1, <1>2, <1>3, <2>6, OthersGood
<1>5. CASE pc[a] # "suspended"
  <2>1. pc'[a] = pc[a] /\ wakeups'[a] = wakeups[a] /\ queued'[a] \in {queued[a], queued[a] + 1}
    BY <1>1, <1>5 DEF WorkerDrives, Drive, Requeue, channelVars, vars, RuntimeTypes
  <2>2. Hands(a)' = Hands(a) \ {w} /\ w \in Hands(a)
    BY <1>1, <1>2, <1>3 DEF Hands
  <2>3. Cardinality(Hands(a)') = Cardinality(Hands(a)) - 1
    BY <1>1, <2>2, HandSets, FS_RemoveElement
  <2>4. Undriven(a) => Undriven(a)'
    BY <1>1, <1>2, <2>1, <2>3, HandSets DEF Undriven, Registered, RuntimeTypes
  <2>5. Good(a)'
    BY <1>1, <1>2, <1>5, <2>1, <2>4 DEF Good
  <2>6. QED
    BY <1>1, <1>2, <1>3, <2>5, OthersGood
<1>6. QED
  BY <1>4, <1>5

\* A worker pops a handle.
LEMMA TakeGood ==
    ASSUME RuntimeInv, NEW w \in Workers, NEW a \in Coroutines, Take(w, a)
    PROVE  Distinct' /\ \A c \in Coroutines : Good(c)'
<1>1. Good(a) /\ RuntimeTypes /\ worker[w] = "free" /\ queued[a] > 0 /\ queued[a] \in Nat
  BY DEF RuntimeInv, RuntimeTypes, Take
<1>2. /\ UNCHANGED <<sendWaiters, recvWaiters, pc, wakeups, frame, caller>>
      /\ worker'[w] = "got" /\ hand'[w] = a
      /\ \A v \in Workers \ {w} : worker'[v] = worker[v] /\ hand'[v] = hand[v]
      /\ queued'[a] = queued[a] - 1
      /\ \A c \in Coroutines \ {a} : queued'[c] = queued[c]
  BY <1>1 DEF Take, WorkerGoes, channelVars, vars, RuntimeTypes
<1>3. Holders(a)' = Holders(a) \cup {w} /\ Hands(a)' = Hands(a) \cup {w} /\ Drivers(a)' = Drivers(a)
  BY <1>1, <1>2 DEF Holders, Hands, Drivers
<1>4. w \notin Holders(a) /\ w \notin Hands(a)
  BY <1>1 DEF Holders, Hands
<1>5. /\ Cardinality(Holders(a)') = Cardinality(Holders(a)) + 1
      /\ Cardinality(Hands(a)') = Cardinality(Hands(a)) + 1
  BY <1>3, <1>4, HandSets, FS_AddElement
<1>6. Begins(a) => Begins(a)'
  BY <1>1, <1>2, <1>3 DEF Begins, Registered
<1>7. Waits(a) => Waits(a)'
  <2>1. \A v \in Drivers(a) : worker'[v] = worker[v]
    BY <1>1, <1>2 DEF Drivers
  <2>2. Waits(a) => wakeups'[a] = queued'[a] + Cardinality(Holders(a)')
    BY <1>1, <1>2, <1>5, HandSets DEF Waits
  <2>3. QED
    BY <1>2, <1>3, <2>1, <2>2 DEF Waits
<1>8. Undriven(a) => Undriven(a)'
  BY <1>1, <1>2, <1>5, HandSets DEF Undriven, Registered
<1>9. Good(a)'
  BY <1>1, <1>2, <1>6, <1>7, <1>8 DEF Good
<1>10. \A c \in Coroutines \ {a} : HandsStay(c) \/ (hand[w] = c /\ Good(c)')
  <2> SUFFICES ASSUME NEW c \in Coroutines \ {a} PROVE HandsStay(c) \/ (hand[w] = c /\ Good(c)')
    OBVIOUS
  <2>1. CASE hand[w] # c
    BY <1>2, <2>1 DEF HandsStay
  <2>2. CASE hand[w] = c
    <3>1. Hands(c)' = Hands(c) /\ Holders(c)' = Holders(c) /\ Drivers(c)' = Drivers(c)
      BY <1>1, <1>2, <2>2 DEF Hands, Holders, Drivers
    <3>2. \A v \in Hands(c) \cup Drivers(c) : worker'[v] = worker[v]
      BY <1>1, <1>2 DEF Hands, Drivers
    <3>3. Good(c) /\ queued'[c] = queued[c] /\ (Registered(c)' <=> Registered(c))
      BY <1>2 DEF RuntimeInv, Registered
    <3>4. (Begins(c) => Begins(c)') /\ (Waits(c) => Waits(c)') /\ (Undriven(c) => Undriven(c)')
      BY <1>2, <3>1, <3>2, <3>3 DEF Begins, Waits, Undriven
    <3>5. QED
      BY <1>2, <2>2, <3>3, <3>4 DEF Good
  <2>3. QED
    BY <2>1, <2>2
<1>11. ASSUME NEW c \in Coroutines \ {a} PROVE Good(c)'
  <2>1. Registered(c)' <=> Registered(c)
    BY <1>2 DEF Registered
  <2>2. QED
    BY <1>2, <1>10, <2>1, StaysGood DEF RuntimeInv
<1>12. QED
  BY <1>2, <1>9, <1>11 DEF RuntimeInv, Distinct

\* A worker skips a handle or resumes it.
LEMMA EnterGood ==
    ASSUME RuntimeInv, NEW w \in Workers, Enter(w)
    PROVE  Distinct' /\ \A c \in Coroutines : Good(c)'
<1> DEFINE a == hand[w]
<1>1. a \in Coroutines /\ a \in Parties /\ Good(a) /\ RuntimeTypes /\ TypeOK /\ worker[w] = "got"
  BY LateAreDriven DEF RuntimeInv, RuntimeTypes, Enter
<1>2. /\ UNCHANGED <<sendWaiters, recvWaiters, queued, frame, caller, hand>>
      /\ \A c \in Coroutines \ {a} : pc'[c] = pc[c] /\ wakeups'[c] = wakeups[c]
  <2>1. UNCHANGED <<sendWaiters, recvWaiters, queued, frame, caller, hand>>
    BY DEF Enter, channelVars, vars, lists
  <2>2. \/ UNCHANGED <<pc, wakeups>>
        \/ /\ pc' = [pc EXCEPT ![a] = "done"]
           /\ wakeups' = [wakeups EXCEPT ![a] = @ - 1]
    BY DEF Enter, channelVars, vars
  <2>3. QED
    BY <1>1, <2>1, <2>2, LateAreDriven DEF TypeOK
<1>3. PICK place \in {"free", "inside"} :
          WorkerGoes(w, place) /\ (place = "free" => LooksDone(a) /\ UNCHANGED <<pc, wakeups>>)
  BY DEF Enter, channelVars, vars
<1>4. /\ \A c \in Coroutines \ {a} : HandsStay(c)
      /\ worker'[w] = place /\ \A v \in Workers \ {w} : worker'[v] = worker[v]
  BY <1>1, <1>2, <1>3, OtherHandsStay
<1>5. w \in Holders(a) /\ w \in Hands(a) /\ Hands(a)' \subseteq Hands(a)
  BY <1>1, <1>2, <1>3, <1>4 DEF Holders, Hands
<1>6. Cardinality(Hands(a)') <= Cardinality(Hands(a))
  BY <1>1, <1>5, HandSets, FS_Subset
<1>7. CASE pc[a] \in {"idle", "unready"}
  <2>1. Begins(a) /\ a \in Late /\ Hands(a) = {w} /\ pc[a] = "idle"
    BY <1>1, <1>5, <1>7 DEF Good, Begins
  <2>2. place = "inside" /\ UNCHANGED <<pc, wakeups>>
    BY <1>3, <1>7, <2>1 DEF Begins, LooksDone, Enter, channelVars, vars
  <2>3. Hands(a)' = {w}
    BY <1>2, <1>4, <2>1, <2>2 DEF Hands
  <2>4. queued[a] = 0
    BY <1>5, <2>1 DEF Begins
  <2>5. Begins(a)'
    BY <1>2, <1>4, <2>1, <2>2, <2>3, <2>4 DEF Begins, Registered
  <2>6. Good(a)'
    BY <1>1, <1>2, <2>1, <2>2, <2>5, LateAreDriven DEF Good
  <2>7. QED
    BY <1>1, <1>2, <1>4, <2>6, OthersGood
<1>8. CASE pc[a] \in {"suspended", "requeued"}
  <2>1. Waits(a) /\ place = "inside"
    BY <1>1, <1>3, <1>8 DEF Good, Waits, LooksDone
  <2>2. pc'[a] = "done" /\ wakeups'[a] = wakeups[a] - 1
    BY <1>1, <1>8, <2>1 DEF Enter, LooksDone, Waits, TypeOK
  <2>3. wakeups[a] > 0 /\ wakeups[a] \in Nat
    BY <1>1, <1>8, PoppedIsWoken DEF TypeOK
  <2>4. Undriven(a) => Undriven(a)'
    BY <1>1, <1>2, <1>6, <2>2, <2>3, HandSets DEF Undriven, Registered, RuntimeTypes
  <2>5. Good(a)'
    BY <1>1, <1>2, <2>2, <2>4 DEF Good
  <2>6. QED
    BY <1>1, <1>2, <1>4, <2>5, OthersGood
<1>9. CASE pc[a] \notin {"idle", "unready", "suspended", "requeued"}
  <2>1. UNCHANGED <<pc, wakeups>>
    BY <1>9 DEF Enter, channelVars, vars
  <2>2. Undriven(a) => Undriven(a)'
    BY <1>1, <1>2, <1>6, <2>1, HandSets DEF Undriven, Registered, RuntimeTypes
  <2>3. Good(a)'
    BY <1>1, <1>2, <1>9, <2>1, <2>2 DEF Good
  <2>4. QED
    BY <1>1, <1>2, <1>4, <2>3, OthersGood
<1>10. QED
  BY <1>7, <1>8, <1>9

LEMMA RuntimeStep == RuntimeInv /\ [RuntimeNext]_allVars => RuntimeInv'
<1> SUFFICES ASSUME RuntimeInv, [RuntimeNext]_allVars PROVE RuntimeInv'
  OBVIOUS
<1>1. TypeOK'
  BY ChannelStep, TypeStep DEF RuntimeInv
<1>2. RuntimeTypes'
  BY TypesStep DEF RuntimeInv
<1> DEFINE Goal == Distinct' /\ \A c \in Coroutines : Good(c)'
<1>3. ASSUME NEW c \in Coroutines, Caller(c) PROVE Goal
  BY <1>3, CallerOperatesGood, CallerGood, CallerDrivesGood DEF Caller
<1>4. ASSUME NEW w \in Workers, Worker(w) PROVE Goal
  BY <1>4, EnterGood, WorkerOperatesGood, WorkerEndsGood, BackGood, WorkerDrivesGood DEF Worker
<1>5. ASSUME NEW w \in Workers, NEW c \in Coroutines, Take(w, c) PROVE Goal
  BY <1>5, TakeGood
<1>6. ASSUME Other PROVE Goal
  BY <1>6, OtherGood
<1>7. ASSUME UNCHANGED allVars PROVE Goal
  <2>1. UNCHANGED <<sendWaiters, recvWaiters, pc, wakeups, queued, frame, caller, worker, hand>>
    BY <1>7 DEF allVars, workerVars, vars
  <2>2. Distinct' /\ \A c \in Coroutines : HandsStay(c) /\ (Registered(c)' <=> Registered(c))
    BY <2>1 DEF RuntimeInv, Distinct, HandsStay, Registered
  <2>3. QED
    BY <2>1, <2>2, StaysGood DEF RuntimeInv
<1>8. Goal
  BY <1>3, <1>4, <1>5, <1>6, <1>7 DEF RuntimeNext
<1>9. QED
  BY <1>1, <1>2, <1>8 DEF RuntimeInv

LEMMA RuntimeFirst == RuntimeInit => RuntimeInv
<1> SUFFICES ASSUME RuntimeInit PROVE RuntimeInv
  OBVIOUS
<1>1. TypeOK /\ Distinct
  BY TypeInit, EmptyHolds DEF RuntimeInit, Init, Distinct
<1>2. RuntimeTypes
  BY DEF RuntimeInit, RuntimeTypes, CallerPlaces, WorkerPlaces
<1>3. ASSUME NEW c \in Coroutines PROVE Good(c)
  <2>1. /\ pc[c] = "idle" /\ wakeups[c] = 0 /\ frame[c] = "alive" /\ Hands(c) = {}
        /\ queued[c] = (IF c \in Late THEN 1 ELSE 0)
        /\ caller[c] = (IF c \in Late THEN "over" ELSE "inside")
    BY LateAreDriven DEF RuntimeInit, Init, Hands
  <2>2. ~Registered(c)
    BY EmptyHolds DEF RuntimeInit, Init, Registered
  <2>3. Begins(c)
    BY <2>1, <2>2 DEF Begins
  <2>4. c \notin Driven => Undriven(c)
    BY <2>1, <2>2, LateAreDriven, FS_EmptySet DEF Undriven
  <2>5. QED
    BY <2>1, <2>3, <2>4 DEF Good
<1>4. QED
  BY <1>1, <1>2, <1>3 DEF RuntimeInv

LEMMA RuntimeInvHolds == RuntimeSpec => []RuntimeInv
BY RuntimeFirst, RuntimeStep, PTL DEF RuntimeSpec

-----------------------------------------------------------------------------
\* The queue and the workers do nothing that Channel does not have: what is proved of
\* Spec is true of coroutines that workers resume.
THEOREM RuntimeImplementsChannel == RuntimeSpec => Spec
<1>1. RuntimeInit => Init
  BY DEF RuntimeInit
<1>2. QED
  BY <1>1, RuntimeInvHolds, ChannelStep, PTL DEF RuntimeSpec, Spec

\* So what is proved of the channel alone is true of it among the workers, with the
\* exceptions that each of these properties names: it keeps its contract; a value is in
\* one place, and only one handed to a waiter that a driven receiver left behind is lost;
\* nothing enters when it is closed, and nobody is registered in it after close(); both
\* sides never wait together, and who waits has a wakeup due, but for a sender whose value
\* was taken; and recv() by a coroutine that nobody drives tells what happened.
THEOREM RuntimeKeepsChannel ==
    RuntimeSpec => /\ KeepsContract /\ ClosedAdmitsNothing
                   /\ [](ExactlyOnce /\ NothingLost)
                   /\ [](OneSideWaits /\ ClosedQuiet)
                   /\ [](WaiterIsSuspended /\ WokenOnce /\ RecvTruth)
BY RuntimeImplementsChannel, Implements, NothingEntersClosed, EachValueOnce, NoValueIsLost, NobodyWaitsInVain,
   CloseLeavesNobody, WaitersAreSuspended, WaitersAreWokenOnce, RecvTellsTheTruth, PTL

\* No handle is lost between the channel and the workers, and none is resumed that
\* nobody scheduled.
THEOREM NoHandleIsLost == RuntimeSpec => []WakeupsAreHandles
<1>1. RuntimeInv => WakeupsAreHandles
  BY DEF RuntimeInv, Good, Waits, WakeupsAreHandles
<1>2. QED
  BY <1>1, RuntimeInvHolds, PTL

\* What nobody drives has one handle at most, in the queue or with one worker, whatever is
\* driven beside it.
THEOREM UndrivenHasOneHandle == RuntimeSpec => []OneHandle
<1>1. RuntimeInv => OneHandle
  BY DEF RuntimeInv, Good, Undriven, OneHandle, Hands
<1>2. QED
  BY <1>1, RuntimeInvHolds, PTL

-----------------------------------------------------------------------------
\* The queue and the workers are the TaskQueue that the scheduler implements
\* (SchedulerProofs): what is abstracted of the scheduler here is what it
\* promises, while it runs.

\* A worker answers for the handle that it took until it pushes it again or finds
\* the coroutine over.
AtWork == [w \in Workers |-> IF worker[w] # "free" THEN hand[w] ELSE Nothing]
Over   == {c \in Coroutines : frame[c] # "alive"}

Handles == INSTANCE TaskQueue WITH
    Executors <- Workers, None <- Nothing, running <- TRUE, held <- AtWork, over <- Over

\* A worker lets go of what it has, keeps it, or takes c.
LEMMA WorkMoves ==
    ASSUME RuntimeTypes, NEW w \in Workers, NEW place, WorkerGoes(w, place), UNCHANGED hand
    PROVE  AtWork' = [AtWork EXCEPT ![w] = IF place # "free" THEN hand[w] ELSE Nothing]
BY DEF WorkerGoes, AtWork, RuntimeTypes

\* What is scheduled by whoever is at an operation, or closes.
LEMMA EnqueueSubmits ==
    ASSUME Enqueue(Woken), UNCHANGED <<AtWork, frame>>
    PROVE  Handles!Next
<1>1. PICK Q \in SUBSET Coroutines : queued' = [c \in Coroutines |-> IF c \in Q THEN queued[c] + 1 ELSE queued[c]]
  BY DEF Enqueue, Woken
<1>2. Handles!Submit(Q)
  BY <1>1 DEF Handles!Submit, Over
<1>3. QED
  BY <1>1, <1>2 DEF Handles!Next

\* A coroutine comes to its end.
LEMMA EndEnds ==
    ASSUME RuntimeTypes, NEW c \in Coroutines, End(c), UNCHANGED AtWork
    PROVE  Handles!Next
<1>1. Over' = Over \cup {c}
  BY DEF End, Over, RuntimeTypes
<1>2. Handles!End(c)
  BY <1>1 DEF End, Handles!End
<1>3. QED
  BY <1>2 DEF Handles!Next

\* Every step is one of the TaskQueue's, or it does not see it.
LEMMA HandlesStep == RuntimeTypes /\ [RuntimeNext]_allVars => [Handles!Next]_(Handles!vars)
<1> SUFFICES ASSUME RuntimeTypes, [RuntimeNext]_allVars PROVE [Handles!Next]_(Handles!vars)
  OBVIOUS
<1>1. ASSUME UNCHANGED <<queued, AtWork, Over>> PROVE UNCHANGED Handles!vars
  BY <1>1 DEF Handles!vars
<1>2. ASSUME UNCHANGED workerVars PROVE UNCHANGED AtWork
  BY <1>2 DEF workerVars, AtWork
<1>3. ASSUME NEW c \in Coroutines, Caller(c) PROVE [Handles!Next]_(Handles!vars)
  <2>1. UNCHANGED AtWork
    BY <1>2, <1>3 DEF Caller, CallerOperates, CallerEnds, RunTask, CallerDrives
  <2>2. CASE CallerOperates(c)
    BY <2>1, <2>2, EnqueueSubmits DEF CallerOperates, Operate
  <2>3. CASE CallerEnds(c)
    BY <2>1, <2>3, EndEnds DEF CallerEnds
  <2>4. CASE RunTask(c)
    <3>1. Over' = Over
      BY <2>4 DEF RunTask, Over, RuntimeTypes
    <3>2. QED
      BY <1>1, <2>1, <2>4, <3>1 DEF RunTask
  <2>5. CASE CallerDrives(c)
    <3>1. Over' = Over
      BY <2>5 DEF CallerDrives, Over
    <3>2. CASE UNCHANGED queued
      BY <1>1, <2>1, <3>1, <3>2
    <3>3. CASE queued' = [queued EXCEPT ![c] = @ + 1]
      <4>1. queued' = [d \in Coroutines |-> IF d \in {c} THEN queued[d] + 1 ELSE queued[d]]
        BY <3>3 DEF RuntimeTypes
      <4>2. Handles!Submit({c})
        BY <2>1, <3>1, <4>1 DEF Handles!Submit
      <4>3. QED
        BY <4>2 DEF Handles!Next
    <3>4. QED
      BY <2>5, <3>2, <3>3 DEF CallerDrives, Drive
  <2>6. QED
    BY <1>3, <2>2, <2>3, <2>4, <2>5 DEF Caller
<1>4. ASSUME NEW w \in Workers, Worker(w) PROVE [Handles!Next]_(Handles!vars)
  <2>1. worker[w] # "free" /\ UNCHANGED hand /\ \E place : WorkerGoes(w, place)
    BY <1>4 DEF Worker, Enter, WorkerOperates, WorkerEnds, Back, WorkerDrives, WorkerGoes
  <2>2. hand[w] \in Coroutines /\ AtWork[w] = hand[w] /\ hand[w] # Nothing
    BY <2>1, RuntimeAssumption DEF RuntimeTypes, AtWork
  <2>3. ASSUME NEW place, place # "free", WorkerGoes(w, place) PROVE UNCHANGED AtWork
    BY <2>1, <2>2, <2>3, WorkMoves DEF AtWork
  <2>4. ASSUME WorkerGoes(w, "free") PROVE Handles!LetGo(w)
    BY <2>1, <2>4, WorkMoves DEF Handles!LetGo
  <2>5. ASSUME WorkerGoes(w, "free"), LooksDone(hand[w]), UNCHANGED <<queued, frame>> PROVE Handles!Next
    <3>1. AtWork[w] \in Over
      BY <2>2, <2>5 DEF LooksDone, Over
    <3>2. Handles!Complete(w)
      BY <2>4, <2>5, <3>1 DEF Handles!Complete, Over
    <3>3. QED
      BY <3>2 DEF Handles!Next
  <2>6. CASE Enter(w)
    <3>1. CASE LooksDone(hand[w]) /\ WorkerGoes(w, "free")
      BY <2>5, <2>6, <3>1 DEF Enter
    <3>2. CASE WorkerGoes(w, "inside")
      BY <1>1, <2>3, <2>6, <3>2 DEF Enter, Over
    <3>3. QED
      BY <2>6, <3>1, <3>2 DEF Enter
  <2>7. CASE WorkerOperates(w)
    <3>1. UNCHANGED AtWork
      <4>1. \E place \in {"inside", "back"} : WorkerGoes(w, place)
        BY <2>7 DEF WorkerOperates, WorkerGoes
      <4>2. QED
        BY <2>3, <4>1
    <3>2. QED
      BY <2>7, <3>1, EnqueueSubmits DEF WorkerOperates, Operate
  <2>8. CASE WorkerEnds(w)
    <3>1. UNCHANGED AtWork
      BY <2>3, <2>8 DEF WorkerEnds
    <3>2. QED
      BY <2>2, <2>8, <3>1, EndEnds DEF WorkerEnds
  <2>9. CASE Back(w)
    <3>1. CASE LooksDone(hand[w]) /\ WorkerGoes(w, "free")
      BY <2>5, <2>9, <3>1 DEF Back
    <3>2. CASE WorkerGoes(w, "push")
      BY <1>1, <2>3, <2>9, <3>2 DEF Back, Over
    <3>3. QED
      BY <2>9, <3>1, <3>2 DEF Back
  <2>10. CASE WorkerDrives(w)
    <3>1. CASE LooksDone(hand[w]) /\ UNCHANGED queued
      BY <2>5, <2>10, <3>1 DEF WorkerDrives
    <3>2. CASE queued' = [queued EXCEPT ![hand[w]] = @ + 1]
      <4>1. Handles!Return(w)
        BY <2>2, <2>4, <2>10, <3>2 DEF WorkerDrives, Handles!Return, Over
      <4>2. QED
        BY <4>1 DEF Handles!Next
    <3>3. QED
      BY <2>10, <3>1, <3>2 DEF WorkerDrives, Drive
  <2>11. QED
    BY <1>4, <2>6, <2>7, <2>8, <2>9, <2>10 DEF Worker
<1>5. ASSUME NEW w \in Workers, NEW c \in Coroutines, Take(w, c) PROVE [Handles!Next]_(Handles!vars)
  <2>1. AtWork[w] = Nothing
    BY <1>5 DEF Take, AtWork
  <2>2. AtWork' = [AtWork EXCEPT ![w] = c]
    BY <1>5 DEF Take, WorkerGoes, AtWork, RuntimeTypes
  <2>3. Handles!Take(w, c)
    BY <1>5, <2>1, <2>2 DEF Take, Handles!Take, Over
  <2>4. QED
    BY <2>3 DEF Handles!Next
<1>6. CASE Other
  BY <1>2, <1>6, EnqueueSubmits DEF Other
<1>7. CASE UNCHANGED allVars
  BY <1>1, <1>2, <1>7 DEF allVars, Over
<1>8. QED
  BY <1>3, <1>4, <1>5, <1>6, <1>7 DEF RuntimeNext

\* Channel and scheduler together keep the promise that the scheduler alone keeps:
\* no handle is lost or made up, whatever the channel and the threads that call its
\* coroutines do to them (runtime.cpp:66-120; task.h:113-118).
THEOREM RuntimeKeepsHandles == RuntimeSpec => Handles!Spec
<1>1. RuntimeInit => Handles!Init
  <2> SUFFICES ASSUME RuntimeInit PROVE Handles!Init
    OBVIOUS
  <2>1. queued \in [Coroutines -> Nat] /\ AtWork = [w \in Workers |-> Nothing] /\ Over \in SUBSET Coroutines
    BY DEF RuntimeInit, AtWork, Over
  <2>2. QED
    BY <2>1 DEF Handles!Init
<1>2. RuntimeInv => RuntimeTypes
  BY DEF RuntimeInv
<1>3. QED
  BY <1>1, <1>2, RuntimeInvHolds, HandlesStep, PTL DEF RuntimeSpec, Handles!Spec

=============================================================================
