---------------------------- MODULE SelectProofs ----------------------------
(***************************************************************************)
(* Theorems about Select, for every set of selects and of cases, every     *)
(* distribution of the parties over the two channels and every capacity.   *)
(***************************************************************************)
EXTENDS Select, TLAPS

\* The theorems about Channel, for each of the two channels.
PA == INSTANCE ChannelContractProofs WITH
    buffer <- bufferA, closed <- closedA, sendWaiters <- sendWaitersA, recvWaiters <- recvWaitersA,
    pc <- pcA, value <- valueA, result <- resultA, wakeups <- wakeupsA

PB == INSTANCE ChannelContractProofs WITH
    buffer <- bufferB, closed <- closedB, sendWaiters <- sendWaitersB, recvWaiters <- recvWaitersB,
    pc <- pcB, value <- valueB, result <- resultB, wakeups <- wakeupsB

-----------------------------------------------------------------------------
\* What is known of channel a

LEMMA AInit == A!Init => PA!Init
BY DEF A!Init, PA!Init, A!Parties, PA!Parties, A!Coroutines, PA!Coroutines, A!Takers, PA!Takers

LEMMA AStarts == A!Init => PA!OnceInv
BY AInit, PA!OnceInit, PartiesAssumption DEF PA!Coroutines, PA!Values

\* The names of the module and those of its proofs are the same formulas.
LEMMA ANext == A!Next => PA!Next
<1>0. \A q : A!ToSet(q) = PA!ToSet(q)
  BY DEF A!ToSet, PA!ToSet
<1>1. \A p, l : A!Goto(p, l) => PA!Goto(p, l)
  BY DEF A!Goto, PA!Goto
<1>2. \A S : A!Schedule(S) => PA!Schedule(S)
  BY DEF A!Schedule, PA!Schedule, A!Coroutines, PA!Coroutines
<1>3. /\ A!CanPush <=> PA!CanPush
      /\ A!CanPop <=> PA!CanPop
  BY DEF A!CanPush, PA!CanPush, A!CanPop, PA!CanPop, A!IsFull, PA!IsFull
<1>4. \A v : A!HandOff(v) => PA!HandOff(v)
  BY <1>2 DEF A!HandOff, PA!HandOff, A!Answer, PA!Answer
<1>5. \A v : A!Push(v) => PA!Push(v)
  BY <1>3, <1>4 DEF A!Push, PA!Push
<1>6. \A t : A!Pop(t) => PA!Pop(t)
  BY <1>2, <1>3 DEF A!Pop, PA!Pop, A!ReleaseSender, PA!ReleaseSender
<1> USE DEF A!lists, PA!lists
<1>7. ASSUME NEW s \in Senders, A!SendReady(s) \/ A!SendUnready(s) \/ A!SendSuspend(s)
      PROVE  PA!SendReady(s) \/ PA!SendUnready(s) \/ PA!SendSuspend(s)
  BY <1>7, <1>1, <1>2, <1>3, <1>4, <1>5
     DEF A!SendReady, A!SendUnready, A!SendSuspend, PA!SendReady, PA!SendUnready, PA!SendSuspend
<1>8. ASSUME NEW r \in Receivers, A!RecvReady(r) \/ A!RecvUnready(r) \/ A!RecvSuspend(r)
      PROVE  PA!RecvReady(r) \/ PA!RecvUnready(r) \/ PA!RecvSuspend(r)
  BY <1>8, <1>1, <1>2, <1>3, <1>6
     DEF A!RecvReady, A!RecvUnready, A!RecvSuspend, PA!RecvReady, PA!RecvUnready, PA!RecvSuspend
<1>9. ASSUME NEW c \in A!Coroutines, A!Requeue(c) \/ A!Resume(c)
      PROVE  c \in PA!Coroutines /\ (PA!Requeue(c) \/ PA!Resume(c))
  BY <1>9, <1>1, <1>2 DEF A!Requeue, A!Resume, PA!Requeue, PA!Resume, A!Coroutines, PA!Coroutines
<1>10. ASSUME NEW p \in Pushers, A!TrySend(p) \/ A!TrySendRefused(p)
       PROVE  PA!TrySend(p) \/ PA!TrySendRefused(p)
  BY <1>10, <1>1, <1>3, <1>5 DEF A!TrySend, A!TrySendRefused, PA!TrySend, PA!TrySendRefused
<1>11. ASSUME NEW q \in Pollers, A!TryRecv(q) \/ A!TryRecvRefused(q)
       PROVE  PA!TryRecv(q) \/ PA!TryRecvRefused(q)
  BY <1>11, <1>1, <1>3, <1>6 DEF A!TryRecv, A!TryRecvRefused, PA!TryRecv, PA!TryRecvRefused
<1>12. ASSUME NEW k \in Closers, A!CloseMark(k) \/ A!CloseWake(k)
       PROVE  PA!CloseMark(k) \/ PA!CloseWake(k)
  BY <1>0, <1>12, <1>1, <1>2 DEF A!CloseMark, A!CloseWake, PA!CloseMark, PA!CloseWake
<1> QED  BY <1>7, <1>8, <1>9, <1>10, <1>11, <1>12 DEF A!Next, PA!Next

LEMMA ASteps ==
    ASSUME PA!OnceInv, A!Next \/ UNCHANGED varsA
    PROVE  PA!OnceInv'
<1>1. [PA!Next]_PA!vars
  BY ANext DEF varsA, PA!vars
<1> QED  BY <1>1, PA!OnceStep, PartiesAssumption DEF PA!Coroutines, PA!Values

LEMMA AKeeps ==
    ASSUME PA!OnceInv, A!Next
    PROVE  /\ \A c \in Pollers : pcA'[c] = pcA[c] => valueA'[c] = valueA[c]
           /\ bufferA # <<>> /\ (\A t \in A!Takers : pcA'[t] = pcA[t]) => bufferA' # <<>>
           /\ ~A!IsFull /\ (\A v \in A!Values : pcA'[v] = pcA[v]) => ~A!IsFull'
           /\ closedA => closedA'
<1>1. PA!Next /\ PA!TypeOK
  BY ANext DEF PA!OnceInv
<1>2. \A c \in Pollers : pcA'[c] = pcA[c] => valueA'[c] = valueA[c]
  BY <1>1, PA!PollerKeeps, PartiesAssumption DEF PA!Coroutines, PA!Values
<1>3. /\ bufferA # <<>> /\ (\A t \in PA!Takers : pcA'[t] = pcA[t]) => bufferA' # <<>>
      /\ ~PA!IsFull /\ (\A v \in PA!Values : pcA'[v] = pcA[v]) => ~PA!IsFull'
      /\ closedA => closedA'
  BY <1>1, PA!BufferKeeps, PartiesAssumption DEF PA!Coroutines, PA!Values
<1> QED  BY <1>2, <1>3 DEF A!Takers, PA!Takers, A!Values, PA!Values, A!IsFull, PA!IsFull

\* The types, and that who has not given its value away has it.
LEMMA ATypes ==
    ASSUME PA!OnceInv
    PROVE  /\ A!TypeOK
           /\ \A c \in A!InFlight : pcA[c] \in {"suspended", "requeued", "done"}
<1>1. A!TypeOK
  BY DEF PA!OnceInv, A!TypeOK, PA!TypeOK, A!Values, PA!Values, A!Parties, PA!Parties, A!Coroutines,
         PA!Coroutines, A!Locations, PA!Locations, A!Takers, PA!Takers
<1>2. A!InFlight = PA!InFlight
  BY DEF A!InFlight, PA!InFlight, A!Got, PA!Got, A!Takers, PA!Takers, A!ToSet, PA!ToSet
<1> QED  BY <1>1, <1>2 DEF PA!OnceInv, PA!GivenAway

-----------------------------------------------------------------------------
\* And of channel b

LEMMA BInit == B!Init => PB!Init
BY DEF B!Init, PB!Init, B!Parties, PB!Parties, B!Coroutines, PB!Coroutines, B!Takers, PB!Takers

LEMMA BStarts == B!Init => PB!OnceInv
BY BInit, PB!OnceInit, PartiesAssumption DEF PB!Coroutines, PB!Values

\* The names of the module and those of its proofs are the same formulas.
LEMMA BNext == B!Next => PB!Next
<1>0. \A q : B!ToSet(q) = PB!ToSet(q)
  BY DEF B!ToSet, PB!ToSet
<1>1. \A p, l : B!Goto(p, l) => PB!Goto(p, l)
  BY DEF B!Goto, PB!Goto
<1>2. \A S : B!Schedule(S) => PB!Schedule(S)
  BY DEF B!Schedule, PB!Schedule, B!Coroutines, PB!Coroutines
<1>3. /\ B!CanPush <=> PB!CanPush
      /\ B!CanPop <=> PB!CanPop
  BY DEF B!CanPush, PB!CanPush, B!CanPop, PB!CanPop, B!IsFull, PB!IsFull
<1>4. \A v : B!HandOff(v) => PB!HandOff(v)
  BY <1>2 DEF B!HandOff, PB!HandOff, B!Answer, PB!Answer
<1>5. \A v : B!Push(v) => PB!Push(v)
  BY <1>3, <1>4 DEF B!Push, PB!Push
<1>6. \A t : B!Pop(t) => PB!Pop(t)
  BY <1>2, <1>3 DEF B!Pop, PB!Pop, B!ReleaseSender, PB!ReleaseSender
<1> USE DEF B!lists, PB!lists
<1>7. ASSUME NEW s \in Senders, B!SendReady(s) \/ B!SendUnready(s) \/ B!SendSuspend(s)
      PROVE  PB!SendReady(s) \/ PB!SendUnready(s) \/ PB!SendSuspend(s)
  BY <1>7, <1>1, <1>2, <1>3, <1>4, <1>5
     DEF B!SendReady, B!SendUnready, B!SendSuspend, PB!SendReady, PB!SendUnready, PB!SendSuspend
<1>8. ASSUME NEW r \in Receivers, B!RecvReady(r) \/ B!RecvUnready(r) \/ B!RecvSuspend(r)
      PROVE  PB!RecvReady(r) \/ PB!RecvUnready(r) \/ PB!RecvSuspend(r)
  BY <1>8, <1>1, <1>2, <1>3, <1>6
     DEF B!RecvReady, B!RecvUnready, B!RecvSuspend, PB!RecvReady, PB!RecvUnready, PB!RecvSuspend
<1>9. ASSUME NEW c \in B!Coroutines, B!Requeue(c) \/ B!Resume(c)
      PROVE  c \in PB!Coroutines /\ (PB!Requeue(c) \/ PB!Resume(c))
  BY <1>9, <1>1, <1>2 DEF B!Requeue, B!Resume, PB!Requeue, PB!Resume, B!Coroutines, PB!Coroutines
<1>10. ASSUME NEW p \in Pushers, B!TrySend(p) \/ B!TrySendRefused(p)
       PROVE  PB!TrySend(p) \/ PB!TrySendRefused(p)
  BY <1>10, <1>1, <1>3, <1>5 DEF B!TrySend, B!TrySendRefused, PB!TrySend, PB!TrySendRefused
<1>11. ASSUME NEW q \in Pollers, B!TryRecv(q) \/ B!TryRecvRefused(q)
       PROVE  PB!TryRecv(q) \/ PB!TryRecvRefused(q)
  BY <1>11, <1>1, <1>3, <1>6 DEF B!TryRecv, B!TryRecvRefused, PB!TryRecv, PB!TryRecvRefused
<1>12. ASSUME NEW k \in Closers, B!CloseMark(k) \/ B!CloseWake(k)
       PROVE  PB!CloseMark(k) \/ PB!CloseWake(k)
  BY <1>0, <1>12, <1>1, <1>2 DEF B!CloseMark, B!CloseWake, PB!CloseMark, PB!CloseWake
<1> QED  BY <1>7, <1>8, <1>9, <1>10, <1>11, <1>12 DEF B!Next, PB!Next

LEMMA BSteps ==
    ASSUME PB!OnceInv, B!Next \/ UNCHANGED varsB
    PROVE  PB!OnceInv'
<1>1. [PB!Next]_PB!vars
  BY BNext DEF varsB, PB!vars
<1> QED  BY <1>1, PB!OnceStep, PartiesAssumption DEF PB!Coroutines, PB!Values

LEMMA BKeeps ==
    ASSUME PB!OnceInv, B!Next
    PROVE  /\ \A c \in Pollers : pcB'[c] = pcB[c] => valueB'[c] = valueB[c]
           /\ bufferB # <<>> /\ (\A t \in B!Takers : pcB'[t] = pcB[t]) => bufferB' # <<>>
           /\ ~B!IsFull /\ (\A v \in B!Values : pcB'[v] = pcB[v]) => ~B!IsFull'
           /\ closedB => closedB'
<1>1. PB!Next /\ PB!TypeOK
  BY BNext DEF PB!OnceInv
<1>2. \A c \in Pollers : pcB'[c] = pcB[c] => valueB'[c] = valueB[c]
  BY <1>1, PB!PollerKeeps, PartiesAssumption DEF PB!Coroutines, PB!Values
<1>3. /\ bufferB # <<>> /\ (\A t \in PB!Takers : pcB'[t] = pcB[t]) => bufferB' # <<>>
      /\ ~PB!IsFull /\ (\A v \in PB!Values : pcB'[v] = pcB[v]) => ~PB!IsFull'
      /\ closedB => closedB'
  BY <1>1, PB!BufferKeeps, PartiesAssumption DEF PB!Coroutines, PB!Values
<1> QED  BY <1>2, <1>3 DEF B!Takers, PB!Takers, B!Values, PB!Values, B!IsFull, PB!IsFull

\* The types, and that who has not given its value away has it.
LEMMA BTypes ==
    ASSUME PB!OnceInv
    PROVE  /\ B!TypeOK
           /\ \A c \in B!InFlight : pcB[c] \in {"suspended", "requeued", "done"}
<1>1. B!TypeOK
  BY DEF PB!OnceInv, B!TypeOK, PB!TypeOK, B!Values, PB!Values, B!Parties, PB!Parties, B!Coroutines,
         PB!Coroutines, B!Locations, PB!Locations, B!Takers, PB!Takers
<1>2. B!InFlight = PB!InFlight
  BY DEF B!InFlight, PB!InFlight, B!Got, PB!Got, B!Takers, PB!Takers, B!ToSet, PB!ToSet
<1> QED  BY <1>1, <1>2 DEF PB!OnceInv, PB!GivenAway

-----------------------------------------------------------------------------
\* The inductive invariant

Place(c)  == (IF c \in OnB THEN pcB ELSE pcA)[c]
Shut(c)   == IF c \in OnB THEN closedB ELSE closedA

\* Nothing was done for c.
Fresh(c) ==
    /\ Place(c) = "idle"
    /\ c \in Pollers => (IF c \in OnB THEN valueB ELSE valueA)[c] = NoValue

\* What c needs is in the buffer.
Available(c) ==
    \/ c \in OnB /\ c \in Pollers /\ bufferB # <<>>
    \/ c \in OnB /\ c \in Pushers /\ ~B!IsFull
    \/ c \notin OnB /\ c \in Pollers /\ bufferA # <<>>
    \/ c \notin OnB /\ c \in Pushers /\ ~A!IsFull

\* If c executes it is not refused, but for a reason.
Safe(c) == HasRival(c) \/ Shut(c) \/ Available(c)

SelectTypes ==
    /\ at \in [Selects -> Locations]
    /\ left \in [Selects -> SUBSET (AllCases \cup {Default})]
    /\ chosen \in [Selects -> SUBSET (AllCases \cup {Default})]

\* A select has chosen none of its cases before it executes one, and then that.
ChosenInv ==
    \A x \in Selects :
        /\ left[x] \subseteq Options(x)
        /\ at[x] \in {"idle", "polling", "again", "suspended"} => chosen[x] = {}
        /\ at[x] = "executing" => \E c \in Options(x) : chosen[x] = {c}

\* The cases of a select are untouched, but for the one it returned with.
FreshInv ==
    \A x \in Selects : \A c \in Cases[x] :
        Fresh(c) \/ (at[x] = "returned" /\ chosen[x] = {c})

\* What is about to be executed is safe.
SafeInv == \A x \in Selects : at[x] = "executing" => \A c \in chosen[x] \cap AllCases : Safe(c)

MissInv == \A c \in AllCases : Place(c) = "refused" => HasRival(c) \/ Shut(c)

SelInv ==
    /\ PA!OnceInv /\ PB!OnceInv
    /\ SelectTypes /\ ChosenInv /\ FreshInv /\ SafeInv /\ MissInv

LEMMA CaseFacts ==
    ASSUME NEW c \in AllCases
    PROVE  /\ c \in Pushers \/ c \in Pollers
           /\ c \in A!Parties /\ c \in B!Parties /\ c # Default
           /\ \E x \in Selects : c \in Cases[x] /\ \A y \in Selects : c \in Cases[y] => y = x
<1>1. PICK x \in Selects : c \in Cases[x]
  BY DEF AllCases
<1>2. c \in Pushers \cup Pollers
  BY <1>1, SelectAssumption
<1> QED  BY <1>1, <1>2, SelectAssumption DEF A!Parties, B!Parties

\* Where no other party that moves is a rival of c, a step of either channel, or
\* of none, leaves c as it is.
Elsewhere(c) ==
    \/ /\ A!Next /\ UNCHANGED varsB
       /\ c \notin OnB => pcA'[c] = pcA[c]
       /\ \A p \in A!Parties \cap OnB : pcA'[p] = pcA[p]
    \/ /\ B!Next /\ UNCHANGED varsA
       /\ c \in OnB => pcB'[c] = pcB[c]
       /\ \A p \in A!Parties \ OnB : pcB'[p] = pcB[p]
    \/ UNCHANGED <<varsA, varsB>>

LEMMA ElsewhereKeeps ==
    ASSUME PA!OnceInv, PB!OnceInv, NEW c \in AllCases, Elsewhere(c)
    PROVE  /\ Fresh(c) => Fresh(c)'
           /\ Safe(c) => Safe(c)'
           /\ Place(c)' = Place(c) /\ (Shut(c) => Shut(c)')
<1>0. c \in Pushers \/ c \in Pollers
  BY CaseFacts
<1>1. CASE UNCHANGED <<varsA, varsB>>
  BY <1>1 DEF varsA, varsB, Fresh, Safe, Place, Shut, Available, A!IsFull, B!IsFull
<1>2. CASE /\ A!Next /\ UNCHANGED varsB
           /\ c \notin OnB => pcA'[c] = pcA[c]
           /\ \A p \in A!Parties \cap OnB : pcA'[p] = pcA[p]
  <2>1. CASE c \in OnB
    BY <1>2, <2>1 DEF varsB, Fresh, Safe, Place, Shut, Available, B!IsFull
  <2>2. CASE c \notin OnB
    <3>1. pcA'[c] = pcA[c] /\ (c \in Pollers => valueA'[c] = valueA[c]) /\ (closedA => closedA')
      BY <1>2, <2>2, AKeeps
    <3>2. ASSUME ~HasRival(c), c \in Pollers, bufferA # <<>> PROVE bufferA' # <<>>
      <4>1. \A t \in A!Takers : pcA'[t] = pcA[t]
        BY <1>2, <2>2, <3>1, <3>2 DEF HasRival, A!Takers, A!Parties, A!Coroutines
      <4> QED  BY <1>2, <3>2, <4>1, AKeeps
    <3>3. ASSUME ~HasRival(c), c \in Pushers, ~A!IsFull PROVE ~A!IsFull'
      <4>1. \A v \in A!Values : pcA'[v] = pcA[v]
        BY <1>2, <2>2, <3>1, <3>3 DEF HasRival, A!Values, A!Parties, A!Coroutines
      <4> QED  BY <1>2, <3>3, <4>1, AKeeps
    <3>4. Safe(c) => Safe(c)'
      BY <2>2, <3>1, <3>2, <3>3 DEF Safe, Shut, Available
    <3> QED  BY <2>2, <3>1, <3>4 DEF Fresh, Place, Shut
  <2> QED  BY <2>1, <2>2
<1>3. CASE /\ B!Next /\ UNCHANGED varsA
           /\ c \in OnB => pcB'[c] = pcB[c]
           /\ \A p \in A!Parties \ OnB : pcB'[p] = pcB[p]
  <2>1. CASE c \notin OnB
    BY <1>3, <2>1 DEF varsA, Fresh, Safe, Place, Shut, Available, A!IsFull
  <2>2. CASE c \in OnB
    <3>1. pcB'[c] = pcB[c] /\ (c \in Pollers => valueB'[c] = valueB[c]) /\ (closedB => closedB')
      BY <1>3, <2>2, BKeeps
    <3>2. ASSUME ~HasRival(c), c \in Pollers, bufferB # <<>> PROVE bufferB' # <<>>
      <4>1. \A t \in B!Takers : pcB'[t] = pcB[t]
        BY <1>3, <2>2, <3>1, <3>2 DEF HasRival, B!Takers, A!Parties, A!Coroutines
      <4> QED  BY <1>3, <3>2, <4>1, BKeeps
    <3>3. ASSUME ~HasRival(c), c \in Pushers, ~B!IsFull PROVE ~B!IsFull'
      <4>1. \A v \in B!Values : pcB'[v] = pcB[v]
        BY <1>3, <2>2, <3>1, <3>3 DEF HasRival, B!Values, A!Parties, A!Coroutines
      <4> QED  BY <1>3, <3>3, <4>1, BKeeps
    <3>4. Safe(c) => Safe(c)'
      BY <2>2, <3>1, <3>2, <3>3 DEF Safe, Shut, Available
    <3> QED  BY <2>2, <3>1, <3>4 DEF Fresh, Place, Shut
  <2> QED  BY <2>1, <2>2
<1> QED  BY <1>1, <1>2, <1>3 DEF Elsewhere

\* A step of the other parties.
LEMMA OthersStep ==
    ASSUME SelInv, StepA \/ StepB \/ UNCHANGED vars
    PROVE  SelInv'
<1>1. \A c \in AllCases : Elsewhere(c)
  <2>1. CASE StepA
    <3>1. A!Next /\ UNCHANGED varsB /\ \A p \in A!Parties : p \in OnB \/ p \in AllCases => pcA'[p] = pcA[p]
      BY <2>1 DEF StepA, MoversOn
    <3> QED  BY <3>1, CaseFacts DEF Elsewhere
  <2>2. CASE StepB
    <3>1. B!Next /\ UNCHANGED varsA /\ \A p \in A!Parties : p \notin OnB \/ p \in AllCases => pcB'[p] = pcB[p]
      BY <2>2 DEF StepB, MoversOn
    <3> QED  BY <3>1, CaseFacts DEF Elsewhere
  <2>3. CASE UNCHANGED vars
    BY <2>3 DEF vars, Elsewhere
  <2> QED  BY <2>1, <2>2, <2>3
<1>2. PA!OnceInv' /\ PB!OnceInv'
  <2>1. A!Next \/ UNCHANGED varsA
    BY DEF StepA, StepB, vars
  <2>2. B!Next \/ UNCHANGED varsB
    BY DEF StepA, StepB, vars
  <2> QED  BY <2>1, <2>2, ASteps, BSteps DEF SelInv
<1>3. at' = at /\ left' = left /\ chosen' = chosen
  BY DEF StepA, StepB, selects, vars
<1>4. \A c \in AllCases : /\ Fresh(c) => Fresh(c)'
                          /\ Safe(c) => Safe(c)'
                          /\ Place(c)' = Place(c) /\ (Shut(c) => Shut(c)')
  BY <1>1, ElsewhereKeeps DEF SelInv
<1>5. SelectTypes' /\ ChosenInv'
  BY <1>3 DEF SelInv, SelectTypes, ChosenInv
<1>6. FreshInv'
  BY <1>3, <1>4 DEF SelInv, FreshInv, AllCases
<1>7. SafeInv'
  BY <1>3, <1>4 DEF SelInv, SafeInv
<1>8. MissInv'
  BY <1>4 DEF SelInv, MissInv, HasRival
<1> QED  BY <1>2, <1>5, <1>6, <1>7, <1>8 DEF SelInv

-----------------------------------------------------------------------------
\* The steps of a select

\* A step of x that leaves the channels alone.
LEMMA OwnStepKeeps ==
    ASSUME SelInv, NEW x \in Selects, UNCHANGED <<varsA, varsB>>,
           SelectTypes', ChosenInv',
           \A y \in Selects \ {x} : at'[y] = at[y] /\ chosen'[y] = chosen[y],
           at[x] # "returned",
           at'[x] = "executing" => \A c \in chosen'[x] \cap AllCases : Safe(c)
    PROVE  SelInv'
<1>1. PA!OnceInv' /\ PB!OnceInv'
  BY ASteps, BSteps DEF SelInv
<1>2. \A c \in AllCases : /\ Fresh(c) => Fresh(c)'
                          /\ Safe(c) => Safe(c)'
                          /\ Place(c)' = Place(c) /\ (Shut(c) => Shut(c)')
  BY ElsewhereKeeps DEF SelInv, Elsewhere
<1>3. FreshInv'
  BY <1>2 DEF SelInv, FreshInv, AllCases
<1>4. SafeInv'
  BY <1>2 DEF SelInv, SafeInv
<1>5. MissInv'
  BY <1>2 DEF SelInv, MissInv, HasRival
<1> QED  BY <1>1, <1>3, <1>4, <1>5 DEF SelInv

LEMMA BeginStep ==
    ASSUME SelInv, NEW x \in Selects, Begin(x)
    PROVE  SelInv'
<1>1. /\ at[x] = "idle" /\ at' = [at EXCEPT ![x] = "polling"]
      /\ left' = [left EXCEPT ![x] = Options(x)] /\ chosen' = chosen
      /\ UNCHANGED <<varsA, varsB>>
  BY DEF Begin
<1>2. Options(x) \in SUBSET (AllCases \cup {Default})
  BY DEF Options, AllCases
<1>3. SelectTypes'
  BY <1>1, <1>2 DEF SelInv, SelectTypes, Locations
<1>4. ChosenInv'
  BY <1>1 DEF SelInv, SelectTypes, ChosenInv
<1>5. at'[x] = "polling" /\ \A y \in Selects \ {x} : at'[y] = at[y]
  BY <1>1 DEF SelInv, SelectTypes
<1> QED  BY <1>1, <1>3, <1>4, <1>5, OwnStepKeeps

LEMMA PassStep ==
    ASSUME SelInv, NEW x \in Selects, NEW c, Pass(x, c)
    PROVE  SelInv'
<1>1. /\ at[x] \in {"polling", "again"} /\ at' = at /\ chosen' = chosen
      /\ left' = [left EXCEPT ![x] = @ \ {c}] /\ UNCHANGED <<varsA, varsB>>
  BY DEF Pass
<1>2. SelectTypes'
  BY <1>1 DEF SelInv, SelectTypes
<1>3. ChosenInv'
  BY <1>1 DEF SelInv, SelectTypes, ChosenInv
<1> QED  BY <1>1, <1>2, <1>3, OwnStepKeeps

\* try_ready has seen what c needs, or that the channel is closed.
LEMMA ChooseStep ==
    ASSUME SelInv, NEW x \in Selects, NEW c, Choose(x, c)
    PROVE  SelInv'
<1>1. /\ at[x] \in {"polling", "again"} /\ at' = [at EXCEPT ![x] = "executing"]
      /\ chosen' = [chosen EXCEPT ![x] = {c}] /\ left' = left /\ UNCHANGED <<varsA, varsB>>
      /\ c \in Options(x) /\ Ready(c)
  BY DEF Choose, SelInv, ChosenInv
<1>2. c \in AllCases \cup {Default}
  BY <1>1 DEF Options, AllCases
<1>3. SelectTypes'
  BY <1>1, <1>2 DEF SelInv, SelectTypes, Locations
<1>4. ChosenInv'
  BY <1>1 DEF SelInv, SelectTypes, ChosenInv
<1>5. /\ chosen'[x] = {c}
      /\ \A y \in Selects \ {x} : at'[y] = at[y] /\ chosen'[y] = chosen[y]
  BY <1>1 DEF SelInv, SelectTypes
<1>6. c \in AllCases => Safe(c)
  BY <1>1, CaseFacts DEF Ready, Safe, Shut, Available
<1> QED  BY <1>1, <1>3, <1>4, <1>5, <1>6, OwnStepKeeps

LEMMA EndRoundStep ==
    ASSUME SelInv, NEW x \in Selects, EndRound(x)
    PROVE  SelInv'
<1>1. /\ at[x] \in {"polling", "again"}
      /\ at' = at \/ at' = [at EXCEPT ![x] = "again"] \/ at' = [at EXCEPT ![x] = "suspended"]
      /\ left' = left \/ left' = [left EXCEPT ![x] = Options(x)]
      /\ chosen' = chosen /\ UNCHANGED <<varsA, varsB>>
  BY DEF EndRound
<1>2. Options(x) \in SUBSET (AllCases \cup {Default})
  BY DEF Options, AllCases
<1>3. SelectTypes'
  BY <1>1, <1>2 DEF SelInv, SelectTypes, Locations
<1>4. at'[x] \in {"polling", "again", "suspended"} /\ \A y \in Selects \ {x} : at'[y] = at[y]
  BY <1>1 DEF SelInv, SelectTypes
<1>5. ChosenInv'
  <2>1. \A y \in Selects : left'[y] = left[y] \/ (y = x /\ left'[y] = Options(x))
    BY <1>1 DEF SelInv, SelectTypes
  <2> QED  BY <1>1, <1>4, <2>1 DEF SelInv, SelectTypes, ChosenInv
<1> QED  BY <1>1, <1>3, <1>4, <1>5, OwnStepKeeps

LEMMA RedrivenStep ==
    ASSUME SelInv, NEW x \in Selects, Redriven(x)
    PROVE  SelInv'
<1>1. /\ at[x] = "suspended" /\ at' = [at EXCEPT ![x] = "returned"]
      /\ left' = left /\ chosen' = chosen /\ UNCHANGED <<varsA, varsB>>
  BY DEF Redriven
<1>2. SelectTypes'
  BY <1>1 DEF SelInv, SelectTypes, Locations
<1>3. at'[x] = "returned" /\ \A y \in Selects \ {x} : at'[y] = at[y]
  BY <1>1 DEF SelInv, SelectTypes
<1>4. ChosenInv'
  BY <1>1, <1>3 DEF SelInv, SelectTypes, ChosenInv
<1> QED  BY <1>1, <1>2, <1>3, <1>4, OwnStepKeeps

\* try_execute on the channel of c: c alone moves, and is refused only if the
\* channel is closed or lacks what c needs.
LEMMA ExecutesOne ==
    ASSUME SelInv, NEW c \in AllCases, ExecuteOn(c)
    PROVE  /\ A!Next \/ UNCHANGED varsA
           /\ B!Next \/ UNCHANGED varsB
           /\ \A d \in AllCases \ {c} : Elsewhere(d)
           /\ Place(c)' = "refused" => Shut(c)' \/ ~Available(c)
           /\ Shut(c)' = Shut(c)
<1> USE DEF SelInv
<1>1. /\ c \in Pushers \/ c \in Pollers
      /\ c \in A!Parties /\ c \in B!Parties
  BY CaseFacts
<1>2. \A d \in AllCases : d \in A!Parties /\ d \in B!Parties
  BY CaseFacts
<1>3. CASE c \in OnB
  <2>1. UNCHANGED varsA /\ (\/ c \in Pushers /\ (B!TrySend(c) \/ B!TrySendRefused(c))
                            \/ c \in Pollers /\ (B!TryRecv(c) \/ B!TryRecvRefused(c)))
    BY <1>3 DEF ExecuteOn
  <2>2. B!Next
    BY <2>1 DEF B!Next
  <2>3. pcB' = [pcB EXCEPT ![c] = "done"]
        \/ (pcB' = [pcB EXCEPT ![c] = "refused"] /\ (closedB \/ ~Available(c)))
    BY <2>1, <1>3, PartiesAssumption
       DEF B!TrySend, B!TrySendRefused, B!TryRecv, B!TryRecvRefused, B!Goto, B!CanPush, B!CanPop, Available
  <2>4. closedB' = closedB
    BY <2>1 DEF B!TrySend, B!TrySendRefused, B!TryRecv, B!TryRecvRefused, B!Push, B!Pop
  <2>5. pcB \in [B!Parties -> B!Locations]
    BY BTypes DEF B!TypeOK
  <2>6. \A p \in B!Parties \ {c} : pcB'[p] = pcB[p]
    BY <2>3, <2>5
  <2>7. \A d \in AllCases \ {c} : Elsewhere(d)
    BY <1>1, <1>2, <1>3, <2>1, <2>2, <2>6
       DEF Elsewhere, A!Parties, B!Parties, A!Coroutines, B!Coroutines
  <2>8. Place(c)' = "refused" => Shut(c)' \/ ~Available(c)
    BY <1>1, <1>3, <2>3, <2>4, <2>5 DEF Place, Shut
  <2> QED  BY <1>3, <2>1, <2>2, <2>4, <2>7, <2>8 DEF Shut
<1>4. CASE c \notin OnB
  <2>1. UNCHANGED varsB /\ (\/ c \in Pushers /\ (A!TrySend(c) \/ A!TrySendRefused(c))
                            \/ c \in Pollers /\ (A!TryRecv(c) \/ A!TryRecvRefused(c)))
    BY <1>4 DEF ExecuteOn
  <2>2. A!Next
    BY <2>1 DEF A!Next
  <2>3. pcA' = [pcA EXCEPT ![c] = "done"]
        \/ (pcA' = [pcA EXCEPT ![c] = "refused"] /\ (closedA \/ ~Available(c)))
    BY <2>1, <1>4, PartiesAssumption
       DEF A!TrySend, A!TrySendRefused, A!TryRecv, A!TryRecvRefused, A!Goto, A!CanPush, A!CanPop, Available
  <2>4. closedA' = closedA
    BY <2>1 DEF A!TrySend, A!TrySendRefused, A!TryRecv, A!TryRecvRefused, A!Push, A!Pop
  <2>5. pcA \in [A!Parties -> A!Locations]
    BY ATypes DEF A!TypeOK
  <2>6. \A p \in A!Parties \ {c} : pcA'[p] = pcA[p]
    BY <2>3, <2>5
  <2>7. \A d \in AllCases \ {c} : Elsewhere(d)
    BY <1>1, <1>2, <1>4, <2>1, <2>2, <2>6 DEF Elsewhere
  <2>8. Place(c)' = "refused" => Shut(c)' \/ ~Available(c)
    BY <1>1, <1>4, <2>3, <2>4, <2>5 DEF Place, Shut
  <2> QED  BY <1>4, <2>1, <2>2, <2>4, <2>7, <2>8 DEF Shut
<1> QED  BY <1>3, <1>4

LEMMA ExecuteStep ==
    ASSUME SelInv, NEW x \in Selects, Execute(x)
    PROVE  SelInv'
<1>1. /\ at[x] = "executing" /\ at' = [at EXCEPT ![x] = "returned"]
      /\ left' = left /\ chosen' = chosen
  BY DEF Execute
<1>2. SelectTypes'
  BY <1>1 DEF SelInv, SelectTypes, Locations
<1>3. at'[x] = "returned" /\ \A y \in Selects \ {x} : at'[y] = at[y]
  BY <1>1 DEF SelInv, SelectTypes
<1>4. ChosenInv'
  BY <1>1, <1>3 DEF SelInv, ChosenInv
<1>5. PICK c \in Options(x) : chosen[x] = {c}
  BY <1>1 DEF SelInv, ChosenInv
<1>6. CASE UNCHANGED <<varsA, varsB>>
  <2>1. PA!OnceInv' /\ PB!OnceInv'
    BY <1>6, ASteps, BSteps DEF SelInv
  <2>2. \A d \in AllCases : /\ Fresh(d) => Fresh(d)'
                            /\ Safe(d) => Safe(d)'
                            /\ Place(d)' = Place(d) /\ (Shut(d) => Shut(d)')
    BY <1>6, ElsewhereKeeps DEF SelInv, Elsewhere
  <2>3. FreshInv'
    BY <1>1, <1>3, <2>2 DEF SelInv, FreshInv, AllCases
  <2>4. SafeInv'
    BY <1>1, <1>3, <2>2 DEF SelInv, SafeInv
  <2>5. MissInv'
    BY <2>2 DEF SelInv, MissInv, HasRival
  <2> QED  BY <1>2, <1>4, <2>1, <2>3, <2>4, <2>5 DEF SelInv
<1>7. CASE c \in AllCases /\ ExecuteOn(c)
  <2>1. /\ A!Next \/ UNCHANGED varsA
        /\ B!Next \/ UNCHANGED varsB
        /\ \A d \in AllCases \ {c} : Elsewhere(d)
        /\ Place(c)' = "refused" => Shut(c)' \/ ~Available(c)
        /\ Shut(c)' = Shut(c)
    BY <1>7, ExecutesOne
  <2>2. PA!OnceInv' /\ PB!OnceInv'
    BY <2>1, ASteps, BSteps DEF SelInv
  <2>3. \A d \in AllCases \ {c} : /\ Fresh(d) => Fresh(d)'
                                  /\ Safe(d) => Safe(d)'
                                  /\ Place(d)' = Place(d) /\ (Shut(d) => Shut(d)')
    BY <2>1, ElsewhereKeeps DEF SelInv
  <2>4. c \in Cases[x] /\ \A y \in Selects : c \in Cases[y] => y = x
    BY <1>5, <1>7, CaseFacts DEF Options
  <2>5. FreshInv'
    BY <1>1, <1>3, <1>5, <2>3, <2>4 DEF SelInv, FreshInv, AllCases
  <2>6. SafeInv'
    <3>1. ASSUME NEW y \in Selects, at'[y] = "executing" PROVE y # x /\ at[y] = "executing" /\ c \notin chosen[y]
      <4>1. y # x /\ at[y] = "executing"
        BY <1>3, <3>1
      <4>2. PICK d \in Options(y) : chosen[y] = {d}
        BY <4>1 DEF SelInv, ChosenInv
      <4> QED  BY <4>1, <4>2, <2>4, <1>7, CaseFacts DEF Options
    <3> QED  BY <1>1, <2>3, <3>1 DEF SelInv, SafeInv
  <2>7. MissInv'
    <3>1. Safe(c)
      BY <1>1, <1>5, <1>7 DEF SelInv, SafeInv
    <3> QED  BY <2>1, <2>3, <3>1 DEF SelInv, MissInv, Safe, HasRival
  <2> QED  BY <1>2, <1>4, <2>2, <2>5, <2>6, <2>7 DEF SelInv
<1> QED  BY <1>5, <1>6, <1>7 DEF Execute

LEMMA SelStep ==
    ASSUME SelInv, [Next]_vars
    PROVE  SelInv'
<1>1. ASSUME NEW x \in Selects, Step(x) PROVE SelInv'
  BY <1>1, PassStep, ChooseStep, EndRoundStep, ExecuteStep DEF Step
<1> QED  BY <1>1, OthersStep, BeginStep, RedrivenStep DEF Next

LEMMA SelInit ==
    ASSUME Init
    PROVE  SelInv
<1>1. PA!OnceInv /\ PB!OnceInv
  BY AStarts, BStarts DEF Init
<1>2. SelectTypes /\ ChosenInv /\ SafeInv
  BY DEF Init, SelectTypes, ChosenInv, SafeInv, Locations
<1>3. \A c \in AllCases : Fresh(c)
  BY CaseFacts DEF Init, A!Init, B!Init, Fresh, Place, A!Takers, B!Takers
<1>4. FreshInv /\ MissInv
  BY <1>3 DEF FreshInv, MissInv, Fresh, AllCases
<1> QED  BY <1>1, <1>2, <1>4 DEF SelInv

-----------------------------------------------------------------------------
\* Theorems

LEMMA Invariant == Spec => []SelInv
BY SelInit, SelStep, PTL DEF Spec

\* The fields of the selects and of both channels keep their types.
THEOREM TypeCorrect == Spec => []TypeOK
<1>1. SelInv => TypeOK
  BY ATypes, BTypes DEF SelInv, SelectTypes, TypeOK
<1> QED  BY <1>1, Invariant, PTL

\* A select takes effect by one case, the one it returned with, whatever the
\* other parties did to the channels between its questions and its execution
\* (select.h:273-278).
THEOREM SelectsTakeEffectOnce == Spec => []OneEffect
<1>1. ASSUME SelInv PROVE OneEffect
  <2> SUFFICES ASSUME NEW x \in Selects, NEW c \in Cases[x], Effective(c)
               PROVE  chosen[x] = {c} /\ at[x] = "returned"
    BY DEF OneEffect
  <2>1. Fresh(c) => ~Effective(c)
    BY <1>1, ATypes, BTypes DEF SelInv, Fresh, Effective, Place
  <2> QED  BY <1>1, <2>1 DEF SelInv, FreshInv
<1> QED  BY <1>1, Invariant, PTL

\* A select's chosen case is refused only if a rival took what it saw or the
\* channel was closed, although the question and the execution are two critical
\* sections (select.h:273-278).
THEOREM MissesHaveCauses == Spec => []MissesOnlyWithRivals
<1>1. SelInv => MissesOnlyWithRivals
  BY DEF SelInv, MissInv, MissesOnlyWithRivals, Refused, Place, Shut
<1> QED  BY <1>1, Invariant, PTL

-----------------------------------------------------------------------------
\* A select uses its channels as any other party does.

\* try_execute is a try_send or a try_recv.
LEMMA ExecutesAsChannel ==
    ASSUME NEW c \in AllCases, ExecuteOn(c)
    PROVE  (A!Next \/ UNCHANGED varsA) /\ (B!Next \/ UNCHANGED varsB)
BY DEF ExecuteOn, A!Next, B!Next

\* Every step of the selects and of the other parties is a step of channel a or
\* leaves it alone, and the same of channel b.
THEOREM SelectsUseChannels == Spec => A!Spec /\ B!Spec
<1>1. Init => A!Init /\ B!Init
  BY DEF Init
<1>2. [Next]_vars => (A!Next \/ UNCHANGED varsA) /\ (B!Next \/ UNCHANGED varsB)
  <2>1. ASSUME NEW x \in Selects, Execute(x)
        PROVE  (A!Next \/ UNCHANGED varsA) /\ (B!Next \/ UNCHANGED varsB)
    BY <2>1, ExecutesAsChannel DEF Execute
  <2>2. ASSUME NEW x \in Selects, Begin(x) \/ Step(x) \/ Redriven(x)
        PROVE  (A!Next \/ UNCHANGED varsA) /\ (B!Next \/ UNCHANGED varsB)
    BY <2>1, <2>2 DEF Begin, Step, Redriven, Pass, Choose, EndRound
  <2> QED  BY <2>2 DEF Next, StepA, StepB, vars
<1>3. [Next]_vars => [A!Next]_(A!vars) /\ [B!Next]_(B!vars)
  BY <1>2 DEF varsA, varsB, A!vars, B!vars
<1> QED  BY <1>1, <1>3, PTL DEF Spec, A!Spec, B!Spec

\* As the proofs name it.
LEMMA SelectsUseProvedChannels == Spec => PA!Spec /\ PB!Spec
<1>1. A!Spec => PA!Spec
  <2>1. [A!Next]_(A!vars) => [PA!Next]_(PA!vars)
    BY ANext DEF A!vars, PA!vars
  <2> QED  BY <2>1, AInit, PTL DEF A!Spec, PA!Spec
<1>2. B!Spec => PB!Spec
  <2>1. [B!Next]_(B!vars) => [PB!Next]_(PB!vars)
    BY BNext DEF B!vars, PB!vars
  <2> QED  BY <2>1, BInit, PTL DEF B!Spec, PB!Spec
<1> QED  BY <1>1, <1>2, SelectsUseChannels, PTL

\* Both channels of the selects implement ChannelContract: what a select sends
\* or takes is passed as if a try_send or a try_recv alone had done it
\* (select.h:82-97, 130-136).
THEOREM SelectedChannelsImplement == Spec => PA!KeepsContract /\ PB!KeepsContract
<1>1. PA!Spec => PA!KeepsContract
  BY PA!Implements, PartiesAssumption DEF PA!Coroutines, PA!Values
<1>2. PB!Spec => PB!KeepsContract
  BY PB!Implements, PartiesAssumption DEF PB!Coroutines, PB!Values
<1> QED  BY <1>1, <1>2, SelectsUseProvedChannels, PTL

\* A value that a select sent is in the buffer, or its taker's call says so, or it went to
\* the waiter that a driven receiver left behind, a closed channel included; and no value
\* is received twice, by selects or by others.
THEOREM SelectedValuesAreKept ==
    Spec => [](A!NothingLost /\ B!NothingLost /\ A!ExactlyOnce /\ B!ExactlyOnce)
<1>1. PA!Spec => []PA!NothingLost
  BY PA!NoValueIsLost, PartiesAssumption DEF PA!Coroutines, PA!Values
<1>2. PB!Spec => []PB!NothingLost
  BY PB!NoValueIsLost, PartiesAssumption DEF PB!Coroutines, PB!Values
<1>3. PA!NothingLost => A!NothingLost
  BY DEF PA!NothingLost, A!NothingLost, A!Received, PA!Received, A!Astray, PA!Astray,
         A!ToSet, PA!ToSet
<1>4. PB!NothingLost => B!NothingLost
  BY DEF PB!NothingLost, B!NothingLost, B!Received, PB!Received, B!Astray, PB!Astray,
         B!ToSet, PB!ToSet
<1>5. SelInv => A!ExactlyOnce /\ B!ExactlyOnce
  BY DEF SelInv, PA!OnceInv, PB!OnceInv, A!ExactlyOnce, B!ExactlyOnce, PA!ExactlyOnce, PB!ExactlyOnce,
         A!Got, PA!Got, A!Takers, PA!Takers, A!ToSet, PA!ToSet, A!IsInjective, PA!IsInjective,
         B!Got, PB!Got, B!Takers, PB!Takers, B!ToSet, PB!ToSet, B!IsInjective, PB!IsInjective
<1> QED  BY <1>1, <1>2, <1>3, <1>4, <1>5, Invariant, SelectsUseProvedChannels, PTL

=============================================================================
