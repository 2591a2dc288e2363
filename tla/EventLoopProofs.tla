-------------------------- MODULE EventLoopProofs --------------------------
(***************************************************************************)
(* Theorems about EventLoop and its poller, for every set of descriptors,  *)
(* sources and timers.                                                     *)
(***************************************************************************)
EXTENDS EventLoop, FiniteSetTheorems, SequenceTheorems, TLAPS

-----------------------------------------------------------------------------
\* The poller: the map and the kernel's interest list.

\* Arm keeps the types of what the kernel knows.
LEMMA ArmType ==
    ASSUME PollerTypeOK, NEW d \in Descriptors, NEW mask \in SUBSET EventTypes, Arm(d, mask)
    PROVE  /\ watched' \subseteq Descriptors
           /\ interest' \in [Descriptors -> SUBSET KernelTypes]
           /\ ready' \in [Descriptors -> SUBSET Signals]
<1>1. ToEpoll(mask) \in SUBSET KernelTypes
  BY DEF ToEpoll, EventTypes, KernelTypes
<1>2. Reportable(ToEpoll(mask)) \subseteq Signals
  BY DEF Reportable
<1>3. QED
  BY <1>1, <1>2 DEF Arm, PollerTypeOK

\* What the kernel forgets leaves no trace in it.
LEMMA DisarmType ==
    ASSUME PollerTypeOK, NEW d \in Descriptors, Disarm(d)
    PROVE  /\ watched' \subseteq Descriptors
           /\ interest' \in [Descriptors -> SUBSET KernelTypes]
           /\ ready' \in [Descriptors -> SUBSET Signals]
           /\ registrar' \in [Descriptors -> Sources \cup {NoSource}]
BY DEF Disarm, PollerTypeOK

\* The operations of the poller and the world keep the poller's types.
PollerStep ==
    \/ \E s \in Sources, m \in Masks : RegisterEvent(s, m) \/ ModifyEvent(s, m)
    \/ \E s \in Sources : DeleteEvent(s)
    \/ \E d \in Descriptors : CloseDescriptor(d) \/ OpenDescriptor(d)
    \/ \E d \in Descriptors, k \in Signals : Signal(d, k)
    \/ Collect
    \/ UNCHANGED pollerVars

\* The map and the interest list agree on the descriptors, and the kernel reports
\* only what it watches: what makes Armed inductive.
PollerInv ==
    /\ PollerTypeOK
    /\ Armed
    /\ \A d \in Descriptors :
        /\ d \notin watched => registrar[d] = NoSource
        /\ sourceOf[d] # NoSource => Fd[sourceOf[d]] = d
        /\ ready[d] # {} => d \in watched

\* The first state: nothing is registered.
LEMMA PollerInvInit == PollerInit => PollerInv
BY DEF PollerInit, PollerInv, PollerTypeOK, Armed

\* Every operation of the poller, and of the world around it, preserves PollerInv.
LEMMA PollerInvStep == PollerInv /\ PollerStep => PollerInv'
<1> SUFFICES ASSUME PollerInv, PollerStep PROVE PollerInv'
  OBVIOUS
<1> USE PollerAssumption DEF PollerInv, Armed
<1>1. ASSUME NEW s \in Sources, NEW m \in Masks, RegisterEvent(s, m) PROVE PollerInv'
  <2>1. Fd[s] \in Descriptors /\ m \in SUBSET EventTypes
    OBVIOUS
  <2>2. PollerTypeOK'
    BY <1>1, <2>1, ArmType DEF RegisterEvent, PollerTypeOK
  <2>3. QED
    BY <1>1, <2>1, <2>2 DEF RegisterEvent, PollerTypeOK, Arm
<1>2. ASSUME NEW s \in Sources, NEW m \in Masks, ModifyEvent(s, m) PROVE PollerInv'
  <2>1. Fd[s] \in Descriptors /\ m \in SUBSET EventTypes
    OBVIOUS
  <2>2. PollerTypeOK'
    BY <1>2, <2>1, ArmType DEF ModifyEvent, PollerTypeOK
  <2>3. QED
    BY <1>2, <2>1, <2>2 DEF ModifyEvent, Known, PollerTypeOK, Arm
<1>3. ASSUME NEW s \in Sources, DeleteEvent(s) PROVE PollerInv'
  <2>1. Fd[s] \in Descriptors
    OBVIOUS
  <2>2. PollerTypeOK'
    BY <1>3, <2>1, DisarmType DEF DeleteEvent, PollerTypeOK
  <2>3. QED
    BY <1>3, <2>1, <2>2 DEF DeleteEvent, PollerTypeOK, Disarm
<1>4. ASSUME NEW d \in Descriptors, CloseDescriptor(d) PROVE PollerInv'
  <2>1. PollerTypeOK'
    BY <1>4, DisarmType DEF CloseDescriptor, PollerTypeOK
  <2>2. QED
    BY <1>4, <2>1 DEF CloseDescriptor, PollerTypeOK, Disarm
<1>5. ASSUME NEW d \in Descriptors, OpenDescriptor(d) PROVE PollerInv'
  BY <1>5 DEF OpenDescriptor, PollerTypeOK
<1>6. ASSUME NEW d \in Descriptors, NEW k \in Signals, Signal(d, k) PROVE PollerInv'
  BY <1>6 DEF Signal, PollerTypeOK
<1>7. CASE Collect
  BY <1>7 DEF Collect, PollerTypeOK
<1>8. CASE UNCHANGED pollerVars
  BY <1>8 DEF pollerVars, kernelVars, PollerTypeOK
<1>9. QED
  BY <1>1, <1>2, <1>3, <1>4, <1>5, <1>6, <1>7, <1>8 DEF PollerStep

\* Every step of the loop is one of these for the poller.
LEMMA NextIsPollerStep == [Next]_vars => PollerStep
<1> SUFFICES ASSUME [Next]_vars PROVE PollerStep
  OBVIOUS
<1>1. CASE LoopStep
  BY <1>1 DEF LoopStep, Loop, VisitTimer, CallbackReturns, EnterWait, WaitDelivers, WaitEnds, Dispatch,
              EventReturns, PollerStep
<1>2. CASE UserStep
  BY <1>2 DEF UserStep, AddTimer, CancelTimer, Subscribe, Unsubscribe, PollerStep
<1>3. CASE Run \/ Stop \/ WaitInterrupted \/ TickClock \/ Readiness
  BY <1>3 DEF Run, Stop, WaitInterrupted, TickClock, Readiness, PollerStep
<1>4. CASE UNCHANGED vars
  BY <1>4 DEF vars, PollerStep
<1>5. QED
  BY <1>1, <1>2, <1>3, <1>4 DEF Next

\* What the kernel watches, the poller knows as the source that registered it.
THEOREM WatchedIsKnown == Spec => []Armed
<1>1. Init => PollerInv
  BY PollerInvInit DEF Init
<1>2. PollerInv /\ [Next]_vars => PollerInv'
  BY PollerInvStep, NextIsPollerStep
<1>3. PollerInv => Armed
  BY DEF PollerInv
<1>4. QED
  BY <1>1, <1>2, <1>3, PTL DEF Spec

-----------------------------------------------------------------------------
\* Where the thread of run() is, and what it has in hand there: the index of a
\* batch is 0 outside of it, and the wait begins with an empty list.
PlaceInv ==
    /\ pc \notin {"dispatch", "event"} => at = 0
    /\ pc = "event" => at < Len(events)
    /\ pc = "wait" => events = <<>>
    /\ pc = "timer" <=> current # NoTimer

\* Milliseconds from ticks, rounded down.
LEMMA Milliseconds ==
    ASSUME NEW a \in Nat, NEW b \in Nat \ {0}
    PROVE  a \div b \in Nat /\ (a \div b) * b <= a
BY SMT

\* The conversion to int gives an integer, and its argument if that fits.
LEMMA ToIntType ==
    ASSUME NEW ms \in Nat
    PROVE  ToInt(ms) \in Int /\ (ms <= IntMax => ToInt(ms) = ms)
<1> DEFINE m == ms + IntMax + 1
           w == 2 * (IntMax + 1)
<1>1. m \in Nat /\ w \in Nat \ {0}
  BY LoopAssumption
<1>2. ms <= IntMax => m \in 0..(w - 1)
  BY LoopAssumption
<1>3. ToInt(ms) = (m % w) - (IntMax + 1)
  BY DEF ToInt
<1>4. m - (IntMax + 1) = ms
  BY LoopAssumption
<1> HIDE DEF m, w
<1>5. m % w \in Int /\ (m \in 0..(w - 1) => m % w = m)
  BY <1>1
<1>6. QED
  BY <1>1, <1>2, <1>3, <1>4, <1>5, LoopAssumption

\* Joining two lists of elements of a set.
LEMMA JoinType ==
    ASSUME NEW S, NEW p \in Seq(S), NEW q \in Seq(S)
    PROVE  p \o q \in Seq(S) /\ Len(p \o q) = Len(p) + Len(q)
OBVIOUS

\* The lists of all elements of a finite set are lists.
LEMMA OrderType ==
    ASSUME NEW S, IsFiniteSet(S), NEW order \in SetToSeqs(S)
    PROVE  order \in Seq(S) /\ \A i \in 1..Len(order) : order[i] \in S
<1>1. PICK n \in Nat : order \in [1..n -> S]
  BY FS_CardinalityType DEF SetToSeqs
<1>2. QED
  BY <1>1

\* The events of a wait are a list of them, each of a source that is registered.
LEMMA CollectedOrder ==
    ASSUME PollerInv, NEW order \in SetToSeqs(Collected)
    PROVE  /\ order \in Seq([source : Sources, events : SUBSET EventTypes])
           /\ \A i \in 1..Len(order) : registrar[Fd[order[i].source]] = order[i].source
<1> USE PollerAssumption DEF PollerInv, PollerTypeOK, Armed
<1> DEFINE Known1 == {e \in Descriptors : ready[e] # {} /\ sourceOf[e] # NoSource}
           Entry(d) == [source |-> sourceOf[d], events |-> FromEpoll(ready[d])]
<1>1. Collected = {Entry(d) : d \in Known1}
  BY DEF Collected
<1>2. IsFiniteSet(Collected)
  <2>1. IsFiniteSet(Known1)
    BY FS_Subset
  <2>2. [d \in Known1 |-> Entry(d)] \in Surjection(Known1, Collected)
    BY <1>1 DEF Surjection
  <2> HIDE DEF Known1, Entry
  <2>3. QED
    BY <2>1, <2>2, FS_Surjection
<1>3. ASSUME NEW d \in Known1
      PROVE  /\ Entry(d) \in [source : Sources, events : SUBSET EventTypes]
             /\ registrar[Fd[Entry(d).source]] = Entry(d).source
  <2>1. FromEpoll(ready[d]) \in SUBSET EventTypes
    BY DEF FromEpoll, EventTypes, KernelTypes
  <2>2. sourceOf[d] \in Sources /\ Fd[sourceOf[d]] = d /\ registrar[d] = sourceOf[d]
    OBVIOUS
  <2>3. QED
    BY <2>1, <2>2
<1>4. \A x \in Collected : /\ x \in [source : Sources, events : SUBSET EventTypes]
                           /\ registrar[Fd[x.source]] = x.source
  <2> HIDE DEF Entry, Known1
  <2>1. QED
    BY <1>1, <1>3
<1>5. order \in Seq(Collected) /\ \A i \in 1..Len(order) : order[i] \in Collected
  BY <1>2, OrderType
<1>6. Collected \subseteq [source : Sources, events : SUBSET EventTypes]
  BY <1>4
<1>7. order \in Seq([source : Sources, events : SUBSET EventTypes])
  BY <1>5, <1>6, SeqMonotonic
<1>8. \A i \in 1..Len(order) : registrar[Fd[order[i].source]] = order[i].source
  BY <1>4, <1>5
<1>9. QED
  BY <1>7, <1>8

\* The first state.
LEMMA TypeInit == Init => TypeOK /\ PlaceInv
<1> SUFFICES ASSUME Init PROVE TypeOK /\ PlaceInv
  OBVIOUS
<1>1. PollerTypeOK
  BY PollerInvInit DEF Init, PollerInv
<1>2. <<>> \in Seq([source : Sources, events : SUBSET EventTypes]) /\ Len(<<>>) = 0
  OBVIOUS
<1>3. at \in 0..Len(events) /\ events \in Seq([source : Sources, events : SUBSET EventTypes])
  BY <1>2 DEF Init
<1>4. /\ status \in [Timers -> {"fresh", "pending", "fired", "cancelled"}]
      /\ left \in [Timers -> Int] /\ calls \in [Timers -> Nat]
      /\ elapsed \in 0..MaxScan /\ waitTime \in Int
  BY LoopAssumption DEF Init
<1>5. QED
  BY <1>1, <1>3, <1>4 DEF Init, TypeOK, PlaceInv

\* Every step: a type of one variable may need the place of the thread.
LEMMA TypeStep == TypeOK /\ PlaceInv /\ PollerInv /\ [Next]_vars => TypeOK' /\ PlaceInv'
<1> SUFFICES ASSUME TypeOK, PlaceInv, PollerInv, [Next]_vars PROVE TypeOK' /\ PlaceInv'
  OBVIOUS
<1>0. PollerTypeOK'
  BY PollerInvStep, NextIsPollerStep DEF PollerInv
<1> USE <1>0, LoopAssumption DEF PlaceInv, timerVars, scanVars, batchVars, vars
<1>1. CASE Loop
  BY <1>1 DEF TypeOK, Loop, Pending, Never
<1>2. ASSUME NEW t \in Timers, VisitTimer(t) PROVE TypeOK' /\ PlaceInv'
  <2>1. CASE left[t] + elapsed <= 0
    BY <1>2, <2>1 DEF TypeOK, VisitTimer
  <2>2. CASE left[t] + elapsed > 0
    <3>1. left[t] + elapsed \in Nat
      BY <2>2 DEF TypeOK
    <3>2. (left[t] + elapsed) \div Tick \in Nat
      BY <3>1, Milliseconds
    <3>3. soonest' \in Nat
      BY <1>2, <2>2, <3>2 DEF TypeOK, VisitTimer, Shorter, Never
    <3>4. QED
      BY <1>2, <2>2, <3>3 DEF TypeOK, VisitTimer
  <2>3. left[t] + elapsed \in Int
    BY DEF TypeOK
  <2>4. QED
    BY <2>1, <2>2, <2>3
<1>3. CASE CallbackReturns
  BY <1>3 DEF TypeOK, CallbackReturns
<1>4. CASE EnterWait
  <2>1. waitTime' \in Int
    BY <1>4, ToIntType DEF TypeOK, EnterWait, Never
  <2>2. <<>> \in Seq([source : Sources, events : SUBSET EventTypes]) /\ Len(<<>>) = 0
    OBVIOUS
  <2>3. QED
    BY <1>4, <2>1, <2>2 DEF TypeOK, EnterWait
<1>5. CASE WaitDelivers
  <2>1. PICK order \in SetToSeqs(Collected) : events' = events \o order
    BY <1>5 DEF WaitDelivers
  <2>2. events' \in Seq([source : Sources, events : SUBSET EventTypes])
    BY <2>1, CollectedOrder, JoinType DEF TypeOK
  <2>3. at' = 0
    BY <1>5 DEF WaitDelivers
  <2>4. QED
    BY <1>5, <2>2, <2>3 DEF TypeOK, WaitDelivers, LeaveWait, Never
<1>6. CASE WaitEnds \/ WaitInterrupted
  BY <1>6 DEF TypeOK, WaitEnds, WaitInterrupted, LeaveWait, Never
<1>7. CASE Dispatch
  BY <1>7 DEF TypeOK, Dispatch
<1>8. CASE EventReturns
  BY <1>8 DEF TypeOK, EventReturns
<1>9. ASSUME NEW t \in Timers, AddTimer(t) PROVE TypeOK' /\ PlaceInv'
  BY <1>9 DEF TypeOK, AddTimer
<1>10. ASSUME NEW t \in Timers, CancelTimer(t) PROVE TypeOK' /\ PlaceInv'
  BY <1>10 DEF TypeOK, CancelTimer
<1>11. CASE Subscribe \/ Readiness
  BY <1>11 DEF TypeOK, Subscribe, Readiness
<1>12. CASE Unsubscribe
  <2>1. dropped' \subseteq Sources \cup {NoSource}
    BY <1>12 DEF Unsubscribe, TypeOK, PollerTypeOK
  <2>2. QED
    BY <1>12, <2>1 DEF TypeOK, Unsubscribe
<1>13. CASE Run \/ Stop
  BY <1>13 DEF TypeOK, Run, Stop
<1>14. CASE TickClock
  BY <1>14 DEF TypeOK, TickClock, Pending
<1>15. CASE UNCHANGED vars
  BY <1>15 DEF TypeOK
<1>16. QED
  BY <1>1, <1>2, <1>3, <1>4, <1>5, <1>6, <1>7, <1>8, <1>9, <1>10, <1>11, <1>12, <1>13, <1>14, <1>15
     DEF Next, LoopStep, UserStep

\* What the other invariants rest on.
BaseInv == TypeOK /\ PlaceInv /\ PollerInv

\* It holds always.
LEMMA BaseHolds == (Init => BaseInv) /\ (BaseInv /\ [Next]_vars => BaseInv')
<1>1. Init => BaseInv
  BY TypeInit, PollerInvInit DEF Init, BaseInv
<1>2. BaseInv /\ [Next]_vars => BaseInv'
  BY TypeStep, PollerInvStep, NextIsPollerStep DEF BaseInv
<1>3. QED
  BY <1>1, <1>2

\* The fields and frames have their types; a batch's index stays within it.
THEOREM TypeCorrect == Spec => []TypeOK
<1>1. BaseInv => TypeOK
  BY DEF BaseInv
<1>2. QED
  BY <1>1, BaseHolds, PTL DEF Spec

-----------------------------------------------------------------------------
\* A timer in handle_timers' hands is pending, due, called for the first time, and
\* out of the iterator's way; of the others, those that have fired were called.
TimerInv ==
    /\ visit \subseteq Pending
    /\ current # NoTimer =>
        /\ status[current] = "pending" /\ left[current] <= 0
        /\ calls[current] = 1 /\ current \notin visit
    /\ \A t \in Timers \ {current} : calls[t] = IF status[t] = "fired" THEN 1 ELSE 0

\* Every step preserves it.
LEMMA TimerInvStep == BaseInv /\ TimerInv /\ [Next]_vars => TimerInv'
<1> SUFFICES ASSUME BaseInv, TimerInv, [Next]_vars PROVE TimerInv'
  OBVIOUS
<1> USE LoopAssumption DEF BaseInv, TypeOK, PlaceInv, TimerInv, Pending
<1>1. CASE Loop
  BY <1>1 DEF Loop, timerVars, scanVars
<1>2. ASSUME NEW t \in Timers, VisitTimer(t) PROVE TimerInv'
  <2>1. /\ current = NoTimer /\ status[t] = "pending" /\ calls[t] = 0
        /\ visit' = visit \ {t} /\ UNCHANGED <<status, left>>
    BY <1>2 DEF VisitTimer
  <2>2. CASE left[t] + elapsed <= 0 /\ current' = t /\ calls' = [calls EXCEPT ![t] = @ + 1]
    <3>1. left[t] <= 0
      BY <2>2
    <3>2. calls'[t] = 1 /\ \A u \in Timers \ {t} : calls'[u] = calls[u]
      BY <2>1, <2>2
    <3>3. QED
      BY <2>1, <2>2, <3>1, <3>2
  <2>3. CASE UNCHANGED <<current, calls>>
    BY <2>1, <2>3
  <2>4. QED
    BY <1>2, <2>2, <2>3 DEF VisitTimer
<1>3. CASE CallbackReturns
  BY <1>3 DEF CallbackReturns
<1>4. CASE EnterWait \/ Dispatch \/ EventReturns \/ Run \/ Stop
  BY <1>4 DEF EnterWait, Dispatch, EventReturns, Run, Stop, timerVars, scanVars
<1>5. CASE WaitDelivers \/ WaitEnds \/ WaitInterrupted
  BY <1>5 DEF WaitDelivers, WaitEnds, WaitInterrupted, LeaveWait, timerVars
<1>6. ASSUME NEW t \in Timers, AddTimer(t) PROVE TimerInv'
  BY <1>6 DEF AddTimer
<1>7. ASSUME NEW t \in Timers, CancelTimer(t) PROVE TimerInv'
  BY <1>7 DEF CancelTimer
<1>8. CASE Subscribe \/ Unsubscribe \/ Readiness
  BY <1>8 DEF Subscribe, Unsubscribe, Readiness, timerVars, scanVars
<1>9. CASE TickClock
  BY <1>9 DEF TickClock
<1>10. CASE UNCHANGED vars
  BY <1>10 DEF vars, timerVars, scanVars
<1>11. QED
  BY <1>1, <1>2, <1>3, <1>4, <1>5, <1>6, <1>7, <1>8, <1>9, <1>10 DEF Next, LoopStep, UserStep

\* A callback is called once, when its time has come, and never for a timer that
\* was cancelled: handle_timers may have its timers added and cancelled while it
\* iterates over them.
THEOREM CallbacksAreCalledOnce == Spec => []FiresOnce
<1>1. Init => TimerInv
  BY LoopAssumption DEF Init, TimerInv, Pending
<1>2. BaseInv /\ TimerInv => FiresOnce
  <2> SUFFICES ASSUME TimerInv, NEW t \in Timers
               PROVE  /\ calls[t] <= 1
                      /\ status[t] \in {"fresh", "cancelled"} => calls[t] = 0
                      /\ calls[t] = 1 => status[t] = "fired" \/ (t = current /\ left[t] <= 0)
    BY DEF FiresOnce
  <2>1. CASE t = current
    BY <2>1, LoopAssumption DEF TimerInv
  <2>2. CASE t # current
    BY <2>2 DEF TimerInv
  <2>3. QED
    BY <2>1, <2>2
<1>3. QED
  BY <1>1, <1>2, BaseHolds, TimerInvStep, PTL DEF Spec

-----------------------------------------------------------------------------
\* The elements and the length of a list.
LEMMA ListType ==
    ASSUME NEW S, NEW q \in Seq(S)
    PROVE  Len(q) \in Nat /\ \A i \in 1..Len(q) : q[i] \in S
OBVIOUS

\* The events that run() has are of sources.
LEMMA EventsType ==
    ASSUME TypeOK
    PROVE  /\ Len(events) \in Nat /\ at \in Nat
           /\ \A i \in 1..Len(events) : events[i].source \in Sources
<1>1. Len(events) \in Nat /\ \A i \in 1..Len(events) : events[i] \in [source : Sources, events : SUBSET EventTypes]
  BY ListType DEF TypeOK
<1>2. QED
  BY <1>1 DEF TypeOK

\* What is still to be handed out is of a source that is registered, or was until
\* an on_event of this batch.
BatchInv ==
    pc \in {"dispatch", "event"} =>
        \A i \in 1..Len(events) :
            i > at => \/ registrar[Fd[events[i].source]] = events[i].source
                      \/ events[i].source \in dropped

\* Every step preserves it.
LEMMA BatchInvStep == BaseInv /\ BatchInv /\ [Next]_vars => BatchInv'
<1> SUFFICES ASSUME BaseInv, BatchInv, [Next]_vars PROVE BatchInv'
  OBVIOUS
<1> USE PollerAssumption DEF BaseInv, PlaceInv, BatchInv
<1>0. /\ \A i \in 1..Len(events) : events[i].source \in Sources
      /\ at \in Nat /\ Len(events) \in Nat
  BY EventsType
<1>1. CASE Loop \/ EnterWait \/ WaitEnds \/ WaitInterrupted \/ Run
  BY <1>1 DEF Loop, EnterWait, WaitEnds, WaitInterrupted, Run
<1>2. ASSUME NEW t \in Timers, VisitTimer(t) \/ AddTimer(t) \/ CancelTimer(t) PROVE BatchInv'
  BY <1>2 DEF VisitTimer, AddTimer, CancelTimer, batchVars, pollerVars
<1>3. CASE CallbackReturns \/ Stop \/ TickClock
  BY <1>3 DEF CallbackReturns, Stop, TickClock, batchVars, pollerVars
<1>4. CASE WaitDelivers
  <2>1. PICK order \in SetToSeqs(Collected) : events' = events \o order
    BY <1>4 DEF WaitDelivers
  <2>2. events' = order
    BY <1>4, <2>1, CollectedOrder DEF WaitDelivers
  <2>3. registrar' = registrar
    BY <1>4 DEF WaitDelivers, Collect
  <2>4. QED
    BY <2>2, <2>3, CollectedOrder
<1>5. CASE Dispatch
  BY <1>0, <1>5 DEF Dispatch, pollerVars
<1>6. CASE EventReturns
  BY <1>0, <1>6 DEF EventReturns, pollerVars
<1>7. CASE Subscribe
  <2>1. UNCHANGED <<pc, events, at, dropped>>
    BY <1>7 DEF Subscribe, batchVars
  <2>2. \A d \in Descriptors : registrar[d] # NoSource => registrar'[d] = registrar[d]
    <3>1. ASSUME NEW s \in Sources, NEW m \in Masks, RegisterEvent(s, m)
          PROVE  registrar' = [registrar EXCEPT ![Fd[s]] = s] /\ registrar[Fd[s]] = NoSource
      BY <3>1 DEF RegisterEvent, PollerInv
    <3>2. (\E s \in Sources, m \in Masks : ModifyEvent(s, m)) \/ (\E d \in Descriptors : OpenDescriptor(d))
              => registrar' = registrar
      BY DEF ModifyEvent, OpenDescriptor
    <3>3. QED
      BY <1>7, <3>1, <3>2 DEF Subscribe, PollerInv, PollerTypeOK
  <2>3. QED
    BY <1>0, <2>1, <2>2
<1>8. CASE Unsubscribe
  <2>1. PICK d \in Descriptors :
          /\ CloseDescriptor(d) \/ \E s \in Sources : Fd[s] = d /\ DeleteEvent(s)
          /\ dropped' = IF d \in watched /\ pc = "event" THEN dropped \cup {registrar[d]} ELSE dropped
    BY <1>8 DEF Unsubscribe
  <2>2. UNCHANGED <<pc, events, at>>
    BY <1>8 DEF Unsubscribe, batchVars
  <2>3. registrar' = [registrar EXCEPT ![d] = NoSource]
    BY <2>1 DEF CloseDescriptor, DeleteEvent, Disarm
  <2>4. pc \in {"dispatch", "event"} => pc = "event"
    BY <1>8 DEF Unsubscribe, UserTurn
  <2>5. registrar[d] = NoSource \/ (d \in watched)
    BY DEF PollerInv
  <2>6. QED
    BY <1>0, <2>1, <2>2, <2>3, <2>4, <2>5 DEF PollerInv, PollerTypeOK
<1>9. CASE Readiness
  BY <1>9 DEF Readiness, Signal, batchVars
<1>10. CASE UNCHANGED vars
  BY <1>10 DEF vars, batchVars, pollerVars
<1>11. QED
  BY <1>1, <1>2, <1>3, <1>4, <1>5, <1>6, <1>7, <1>8, <1>9, <1>10 DEF Next, LoopStep, UserStep

\* An event that run() hands out belongs to a source that is registered, or that
\* was until one of this round's earlier callbacks deleted or closed it.
THEOREM EventsAreCurrent == Spec => []StaleOnlyInBatch
<1>1. Init => BatchInv
  BY DEF Init, BatchInv
<1>2. BaseInv /\ BatchInv => StaleOnlyInBatch
  BY EventsType DEF BaseInv, PlaceInv, BatchInv, StaleOnlyInBatch
<1>3. QED
  BY <1>1, <1>2, BaseHolds, BatchInvStep, PTL DEF Spec

-----------------------------------------------------------------------------
\* What the conversion to int of the milliseconds requires of those who add timers:
\* 2^31 of them are 24 days.
ShortDelays == \A t \in Timers : Delay[t] + MaxScan < (IntMax + 1) * Tick

\* What the scan has found: no more than any pending timer that it has passed has
\* left, and no more than an int holds.
ScanInv ==
    /\ \A t \in Timers : left[t] <= Delay[t]
    /\ soonest # Never => soonest \in 0..IntMax
    /\ pc \in {"scan", "timer"} =>
        \A t \in Pending \ (missed \cup visit \cup {current}) :
            soonest # Never /\ soonest * Tick <= left[t] + elapsed

\* A product with a positive factor grows with the other factor.
LEMMA Products ==
    ASSUME NEW a \in Nat, NEW b \in Nat, NEW t \in Nat \ {0}
    PROVE  a * t \in Nat /\ (a <= b => a * t <= b * t)
OBVIOUS

\* A quotient is below what its dividend is a multiple below.
LEMMA Quotients ==
    ASSUME NEW a \in Nat, NEW b \in Nat, NEW t \in Nat \ {0}, NEW r \in Nat, a * t <= r, r < b * t
    PROVE  a < b
OBVIOUS

\* Every step preserves ScanInv.
LEMMA ScanInvStep ==
    ASSUME ShortDelays, BaseInv, TimerInv, ScanInv, [Next]_vars
    PROVE  ScanInv'
<1> USE LoopAssumption DEF BaseInv, TypeOK, PlaceInv, TimerInv, Pending, Never
<1> USE DEF ScanInv
<1>1. CASE Loop
  BY <1>1 DEF Loop, timerVars, scanVars
<1>2. ASSUME NEW t \in Timers, VisitTimer(t) PROVE ScanInv'
  <2>1. CASE left[t] + elapsed <= 0 /\ current' = t /\ UNCHANGED soonest
    BY <1>2, <2>1 DEF VisitTimer
  <2>2. CASE left[t] + elapsed > 0 /\ UNCHANGED current /\ soonest' = Shorter((left[t] + elapsed) \div Tick)
    <3> DEFINE rest == left[t] + elapsed
               ms == rest \div Tick
    <3>1. rest \in Nat /\ rest < (IntMax + 1) * Tick
      <4>1. rest \in Nat /\ rest <= Delay[t] + MaxScan /\ Delay[t] + MaxScan \in Nat
        BY <2>2
      <4>2. (IntMax + 1) * Tick \in Nat
        BY Products
      <4>3. QED
        BY <4>1, <4>2 DEF ShortDelays
    <3>2. ms \in Nat /\ ms * Tick <= rest
      BY <3>1, Milliseconds
    <3>3. soonest' = IF soonest = Never \/ ms < soonest THEN ms ELSE soonest
      BY <2>2 DEF Shorter
    <3>4. UNCHANGED <<left, elapsed, status, missed>> /\ visit' = visit \ {t} /\ pc = "scan" /\ pc' = "scan"
          /\ current = NoTimer
      BY <1>2, <2>2 DEF VisitTimer, timerVars
    <3>5. rest = left[t] + elapsed
      OBVIOUS
    <3> HIDE DEF rest, ms
    <3>6. ms \in 0..IntMax
      <4>1. IntMax + 1 \in Nat
        OBVIOUS
      <4>2. ms < IntMax + 1
        BY <3>1, <3>2, <4>1, Quotients
      <4>3. QED
        BY <3>2, <4>2
    <3>7. soonest' \in 0..IntMax /\ soonest' <= ms /\ (soonest # Never => soonest' <= soonest)
      BY <3>2, <3>3, <3>6
    <3>8. /\ soonest' * Tick <= ms * Tick /\ soonest' * Tick \in Nat /\ ms * Tick \in Nat
          /\ soonest # Never => soonest' * Tick <= soonest * Tick /\ soonest * Tick \in Nat
      <4>1. soonest' \in Nat /\ (soonest # Never => soonest \in Nat)
        BY <3>7
      <4>2. QED
        BY <3>2, <3>7, <4>1, Products
    <3>9. \A u \in (Pending \ (missed \cup visit \cup {current}))' :
              soonest' # Never /\ soonest' * Tick <= left'[u] + elapsed'
      <4>1. ASSUME NEW u \in (Pending \ (missed \cup visit \cup {current}))'
            PROVE  soonest' * Tick <= left[u] + elapsed
        <5>1. CASE u = t
          <6>1. ms * Tick <= left[u] + elapsed /\ left[u] + elapsed \in Int
            BY <3>2, <3>1, <3>5, <5>1
          <6>2. QED
            BY <3>8, <6>1
        <5>2. CASE u # t
          <6>1. u \in Pending \ (missed \cup visit \cup {current})
            BY <3>4, <5>2
          <6>2. soonest # Never /\ soonest * Tick <= left[u] + elapsed /\ left[u] + elapsed \in Int
            BY <3>4, <6>1
          <6>3. QED
            BY <3>8, <6>2
        <5>3. QED
          BY <5>1, <5>2
      <4>2. soonest' # Never
        BY <3>7
      <4>3. UNCHANGED <<left, elapsed>>
        BY <3>4
      <4>4. QED
        BY <4>1, <4>2, <4>3
    <3>10. QED
      BY <3>4, <3>7, <3>9
  <2>3. QED
    BY <1>2, <2>1, <2>2 DEF VisitTimer
<1>3. CASE CallbackReturns
  BY <1>3 DEF CallbackReturns
<1>4. CASE EnterWait \/ Dispatch \/ EventReturns \/ Run \/ Stop
  BY <1>4 DEF EnterWait, Dispatch, EventReturns, Run, Stop, timerVars, scanVars
<1>5. CASE WaitDelivers \/ WaitEnds \/ WaitInterrupted
  BY <1>5 DEF WaitDelivers, WaitEnds, WaitInterrupted, LeaveWait, timerVars
<1>6. ASSUME NEW t \in Timers, AddTimer(t) PROVE ScanInv'
  BY <1>6 DEF AddTimer, UserTurn
<1>7. ASSUME NEW t \in Timers, CancelTimer(t) PROVE ScanInv'
  BY <1>7 DEF CancelTimer
<1>8. CASE Subscribe \/ Unsubscribe \/ Readiness
  BY <1>8 DEF Subscribe, Unsubscribe, Readiness, timerVars, scanVars
<1>9. CASE TickClock
  BY <1>9 DEF TickClock
<1>10. CASE UNCHANGED vars
  BY <1>10 DEF vars, timerVars, scanVars
<1>11. QED
  BY <1>1, <1>2, <1>3, <1>4, <1>5, <1>6, <1>7, <1>8, <1>9, <1>10 DEF Next, LoopStep, UserStep

\* The wait is never longer than what was left of any pending timer when the scan
\* began, but for timers that a callback added behind the iterator: provided that
\* no delay overflows the int that is made of it.
THEOREM NeverWaitsTooLong ==
    ASSUME ShortDelays
    PROVE  Spec => WaitsForTheSoonest
<1> DEFINE Inv == BaseInv /\ TimerInv /\ ScanInv
           WaitIsShort == pc # "wait" /\ pc' = "wait" =>
               \A t \in Pending \ missed : 0 <= waitTime' /\ waitTime' * Tick <= left[t] + elapsed
<1>1. Init => Inv
  BY BaseHolds, LoopAssumption DEF Init, TimerInv, ScanInv, Pending, Never
<1>2. Inv /\ [Next]_vars => Inv'
  BY BaseHolds, TimerInvStep, ScanInvStep
<1>3. Inv /\ [Next]_vars => [WaitIsShort]_vars
  <2> SUFFICES ASSUME Inv, Next, pc # "wait", pc' = "wait", NEW t \in Pending \ missed
               PROVE  0 <= waitTime' /\ waitTime' * Tick <= left[t] + elapsed
    OBVIOUS
  <2>1. EnterWait
    BY DEF Next, LoopStep, UserStep, Loop, VisitTimer, CallbackReturns, WaitDelivers, WaitEnds, Dispatch,
           EventReturns, AddTimer, CancelTimer, Subscribe, Unsubscribe, Run, Stop, WaitInterrupted, TickClock, Readiness
  <2>2. pc = "scan" /\ visit = {} /\ current = NoTimer
    BY <2>1 DEF EnterWait, BaseInv, PlaceInv
  <2>3. soonest \in 0..IntMax /\ soonest # Never /\ soonest * Tick <= left[t] + elapsed
    BY <2>2, LoopAssumption DEF ScanInv, Pending
  <2>4. waitTime' = soonest
    BY <2>1, <2>3, LoopAssumption, ToIntType DEF EnterWait
  <2>5. QED
    BY <2>3, <2>4
<1>4. QED
  BY <1>1, <1>2, <1>3, PTL DEF Spec, WaitsForTheSoonest

=============================================================================
