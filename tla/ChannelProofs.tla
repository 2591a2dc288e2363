--------------------------- MODULE ChannelProofs ---------------------------
(***************************************************************************)
(* Theorems about Channel, for every capacity and every set of parties:    *)
(* its types, who waits, what close() leaves, where each value is, and     *)
(* what a step does to others.                                             *)
(***************************************************************************)
EXTENDS Channel, TLAPS

-----------------------------------------------------------------------------
\* The front and the rest of a list that is not empty.
LEMMA HeadTail ==
    ASSUME NEW S, NEW q \in Seq(S), q # <<>>
    PROVE  /\ Head(q) \in S
           /\ Tail(q) \in Seq(S)
           /\ Len(Tail(q)) = Len(q) - 1
           /\ Len(q) \in Nat \ {0}
OBVIOUS

\* The empty list.
LEMMA EmptyType ==
    ASSUME NEW S
    PROVE  <<>> \in Seq(S) /\ Len(<<>>) = 0
OBVIOUS

\* Appending keeps the type and adds one to the length.
LEMMA AppendType ==
    ASSUME NEW S, NEW q \in Seq(S), NEW e \in S
    PROVE  Append(q, e) \in Seq(S) /\ Len(Append(q, e)) = Len(q) + 1
OBVIOUS

\* Scheduling leaves a natural number of wakeups for everyone.
LEMMA ScheduleType ==
    ASSUME TypeOK, NEW S, Schedule(S)
    PROVE  wakeups' \in [Coroutines -> Nat]
BY DEF TypeOK, Schedule

\* A party that moves stays in a known location.
LEMMA GotoType ==
    ASSUME TypeOK, NEW p \in Parties, NEW l \in Locations, Goto(p, l)
    PROVE  pc' \in [Parties -> Locations]
BY DEF TypeOK, Goto

-----------------------------------------------------------------------------
\* Type correctness of the critical sections that several operations share.

\* The value is a value and the first registered receiver a taker.
LEMMA HandOffType ==
    ASSUME TypeOK, NEW v \in Values, recvWaiters # <<>>, HandOff(v)
    PROVE  /\ recvWaiters' \in Seq(Receivers)
           /\ value' \in [Takers -> Values \cup {NoValue}]
           /\ result' \in [Receivers -> BOOLEAN]
           /\ wakeups' \in [Coroutines -> Nat]
<1>1. Head(recvWaiters) \in Receivers /\ Tail(recvWaiters) \in Seq(Receivers)
  BY HeadTail DEF TypeOK
<1>2. QED
  BY <1>1, ScheduleType DEF TypeOK, HandOff, Answer, Takers

\* A push finds room in the buffer, or does not use it.
LEMMA PushType ==
    ASSUME TypeOK, NEW v \in Values, Push(v)
    PROVE  /\ buffer' \in Seq(Values) /\ Len(buffer') <= Capacity
           /\ recvWaiters' \in Seq(Receivers)
           /\ value' \in [Takers -> Values \cup {NoValue}]
           /\ result' \in [Receivers -> BOOLEAN]
           /\ wakeups' \in [Coroutines -> Nat]
           /\ UNCHANGED <<closed, sendWaiters>>
<1>1. CASE recvWaiters # <<>>
  BY <1>1, HandOffType DEF Push, TypeOK
<1>2. CASE recvWaiters = <<>>
  <2>1. ~IsFull /\ buffer' = Append(buffer, v) /\ UNCHANGED <<recvWaiters, value, result, wakeups>>
    BY <1>2 DEF Push, CanPush
  <2>2. Len(buffer) < Capacity
    BY <2>1, ChannelAssumption DEF IsFull, TypeOK
  <2>3. buffer' \in Seq(Values) /\ Len(buffer') = Len(buffer) + 1
    BY <2>1, AppendType DEF TypeOK
  <2>4. QED
    BY <2>1, <2>2, <2>3, ChannelAssumption DEF TypeOK, Push
<1>3. QED
  BY <1>1, <1>2

\* A promotion takes one value out of the buffer before it puts one in.
LEMMA PopType ==
    ASSUME TypeOK, NEW t \in Takers, Pop(t)
    PROVE  /\ buffer' \in Seq(Values) /\ Len(buffer') <= Capacity
           /\ sendWaiters' \in Seq(Senders)
           /\ value' \in [Takers -> Values \cup {NoValue}]
           /\ wakeups' \in [Coroutines -> Nat]
           /\ UNCHANGED <<closed, recvWaiters>>
<1> USE DEF TypeOK
<1>0. /\ UNCHANGED <<closed, recvWaiters>>
      /\ buffer # <<>> => Head(buffer) \in Values /\ Tail(buffer) \in Seq(Values)
                            /\ Len(Tail(buffer)) = Len(buffer) - 1 /\ Len(buffer) \in Nat
      /\ sendWaiters # <<>> => Head(sendWaiters) \in Senders /\ Tail(sendWaiters) \in Seq(Senders)
  BY HeadTail DEF Pop
<1>1. CASE buffer # <<>> /\ sendWaiters # <<>>
  <2>1. /\ buffer' = Append(Tail(buffer), Head(sendWaiters))
        /\ value' = [value EXCEPT ![t] = Head(buffer)]
        /\ ReleaseSender
    BY <1>1 DEF Pop
  <2>2. buffer' \in Seq(Values) /\ Len(buffer') = Len(buffer)
    BY <1>0, <1>1, <2>1, AppendType DEF Values
  <2>3. QED
    BY <1>0, <1>1, <2>1, <2>2, ScheduleType DEF ReleaseSender
<1>2. CASE buffer # <<>> /\ sendWaiters = <<>>
  <2>1. /\ buffer' = Tail(buffer)
        /\ value' = [value EXCEPT ![t] = Head(buffer)]
        /\ UNCHANGED <<sendWaiters, wakeups>>
    BY <1>2 DEF Pop
  <2>2. Len(buffer') <= Capacity
    BY <1>0, <1>2, <2>1, ChannelAssumption
  <2>3. QED
    BY <1>0, <1>2, <2>1, <2>2
<1>3. CASE buffer = <<>>
  <2>1. /\ sendWaiters # <<>>
        /\ value' = [value EXCEPT ![t] = Head(sendWaiters)]
        /\ ReleaseSender
        /\ UNCHANGED buffer
    BY <1>3 DEF Pop, CanPop
  <2>2. QED
    BY <1>0, <2>1, ScheduleType DEF ReleaseSender, Values
<1>4. QED
  BY <1>1, <1>2, <1>3

-----------------------------------------------------------------------------
\* The first state.
LEMMA TypeInit == Init => TypeOK
<1> SUFFICES ASSUME Init PROVE TypeOK
  OBVIOUS
<1>1. buffer \in Seq(Values) /\ sendWaiters \in Seq(Senders) /\ recvWaiters \in Seq(Receivers)
  BY EmptyType DEF Init
<1>2. Len(buffer) <= Capacity
  BY EmptyType, ChannelAssumption DEF Init
<1>3. /\ pc \in [Parties -> Locations]
      /\ value \in [Takers -> Values \cup {NoValue}]
      /\ result \in [Receivers -> BOOLEAN]
      /\ wakeups \in [Coroutines -> Nat]
      /\ closed \in BOOLEAN
  BY DEF Init, Locations
<1>4. QED
  BY <1>1, <1>2, <1>3 DEF TypeOK

\* Every step: TypeOK is inductive as it stands.
LEMMA TypeStep == TypeOK /\ [Next]_vars => TypeOK'
<1> SUFFICES ASSUME TypeOK, [Next]_vars PROVE TypeOK'
  OBVIOUS
<1>1. ASSUME NEW s \in Senders, SendReady(s) PROVE TypeOK'
  <2>1. s \in Values /\ s \in Parties /\ "done" \in Locations
    BY DEF Values, Parties, Coroutines, Locations
  <2>2. QED
    BY <1>1, <2>1, PushType, GotoType DEF SendReady, TypeOK
<1>2. ASSUME NEW s \in Senders, SendUnready(s) PROVE TypeOK'
  <2>1. s \in Parties /\ "unready" \in Locations
    BY DEF Parties, Coroutines, Locations
  <2>2. QED
    BY <1>2, <2>1, GotoType DEF SendUnready, TypeOK, lists
<1>3. ASSUME NEW s \in Senders, SendSuspend(s) PROVE TypeOK'
  <2>1. s \in Values /\ s \in Parties /\ "suspended" \in Locations
    BY DEF Values, Parties, Coroutines, Locations
  <2>2. pc' \in [Parties -> Locations] /\ UNCHANGED <<buffer, closed>>
    BY <1>3, <2>1, GotoType DEF SendSuspend, lists
  <2>3. CASE closed
    BY <1>3, <2>2, <2>3, ScheduleType DEF SendSuspend, TypeOK, lists
  <2>4. CASE ~closed /\ recvWaiters # <<>>
    BY <1>3, <2>1, <2>2, <2>4, HandOffType DEF SendSuspend, TypeOK
  <2>5. CASE ~closed /\ recvWaiters = <<>>
    <3>1. /\ sendWaiters' = Append(sendWaiters, s)
          /\ UNCHANGED <<recvWaiters, value, result, wakeups>>
      BY <1>3, <2>5 DEF SendSuspend
    <3>2. sendWaiters' \in Seq(Senders)
      BY <3>1, AppendType DEF TypeOK
    <3>3. QED
      BY <2>2, <3>1, <3>2 DEF TypeOK
  <2>6. QED
    BY <2>3, <2>4, <2>5
<1>4. ASSUME NEW r \in Receivers, RecvReady(r) PROVE TypeOK'
  <2>1. r \in Takers /\ r \in Parties /\ "done" \in Locations
    BY DEF Takers, Parties, Coroutines, Locations
  <2>2. QED
    BY <1>4, <2>1, PopType, GotoType DEF RecvReady, TypeOK
<1>5. ASSUME NEW r \in Receivers, RecvUnready(r) PROVE TypeOK'
  <2>1. r \in Parties /\ "unready" \in Locations
    BY DEF Parties, Coroutines, Locations
  <2>2. QED
    BY <1>5, <2>1, GotoType DEF RecvUnready, TypeOK, lists
<1>6. ASSUME NEW r \in Receivers, RecvSuspend(r) PROVE TypeOK'
  <2>1. r \in Takers /\ r \in Parties /\ "suspended" \in Locations
    BY DEF Takers, Parties, Coroutines, Locations
  <2>2. pc' \in [Parties -> Locations] /\ UNCHANGED <<buffer, closed>>
    BY <1>6, <2>1, GotoType DEF RecvSuspend
  <2>3. CASE closed
    BY <1>6, <2>2, <2>3, ScheduleType DEF RecvSuspend, TypeOK
  <2>4. CASE ~closed /\ sendWaiters # <<>>
    <3>1. Head(sendWaiters) \in Values /\ Tail(sendWaiters) \in Seq(Senders)
      BY <2>4, HeadTail DEF TypeOK, Values
    <3>2. QED
      BY <1>6, <2>1, <2>2, <2>4, <3>1, ScheduleType DEF RecvSuspend, TypeOK
  <2>5. CASE ~closed /\ sendWaiters = <<>>
    <3>1. /\ recvWaiters' = Append(recvWaiters, r)
          /\ UNCHANGED <<sendWaiters, value, result, wakeups>>
      BY <1>6, <2>5 DEF RecvSuspend
    <3>2. recvWaiters' \in Seq(Receivers)
      BY <3>1, AppendType DEF TypeOK
    <3>3. QED
      BY <2>2, <3>1, <3>2 DEF TypeOK
  <2>6. QED
    BY <2>3, <2>4, <2>5
<1>7. ASSUME NEW c \in Coroutines, Resume(c) PROVE TypeOK'
  <2>1. c \in Parties /\ "done" \in Locations
    BY DEF Parties, Locations
  <2>2. wakeups' \in [Coroutines -> Nat]
    BY <1>7 DEF Resume, TypeOK
  <2>3. QED
    BY <1>7, <2>1, <2>2, GotoType DEF Resume, TypeOK, lists
<1>8. ASSUME NEW p \in Pushers, TrySend(p) PROVE TypeOK'
  <2>1. p \in Values /\ p \in Parties /\ "done" \in Locations
    BY DEF Values, Parties, Locations
  <2>2. QED
    BY <1>8, <2>1, PushType, GotoType DEF TrySend, TypeOK
<1>9. ASSUME NEW p \in Pushers, TrySendRefused(p) PROVE TypeOK'
  <2>1. p \in Parties /\ "refused" \in Locations
    BY DEF Parties, Locations
  <2>2. QED
    BY <1>9, <2>1, GotoType DEF TrySendRefused, TypeOK, lists
<1>10. ASSUME NEW q \in Pollers, TryRecv(q) PROVE TypeOK'
  <2>1. q \in Takers /\ q \in Parties /\ "done" \in Locations
    BY DEF Takers, Parties, Locations
  <2>2. QED
    BY <1>10, <2>1, PopType, GotoType DEF TryRecv, TypeOK
<1>11. ASSUME NEW q \in Pollers, TryRecvRefused(q) PROVE TypeOK'
  <2>1. q \in Parties /\ "refused" \in Locations
    BY DEF Parties, Locations
  <2>2. QED
    BY <1>11, <2>1, GotoType DEF TryRecvRefused, TypeOK, lists
<1>12. ASSUME NEW k \in Closers, CloseMark(k) PROVE TypeOK'
  <2>1. k \in Parties /\ "closing" \in Locations /\ "skipped" \in Locations
    BY DEF Parties, Locations
  <2>2. pc' \in [Parties -> Locations]
    BY <1>12, <2>1, GotoType DEF CloseMark
  <2>3. QED
    BY <1>12, <2>2 DEF CloseMark, TypeOK, lists
<1>13. ASSUME NEW k \in Closers, CloseWake(k) PROVE TypeOK'
  <2>1. k \in Parties /\ "done" \in Locations
    BY DEF Parties, Locations
  <2>2. wakeups' \in [Coroutines -> Nat] /\ pc' \in [Parties -> Locations]
    BY <1>13, <2>1, ScheduleType, GotoType DEF CloseWake
  <2>3. sendWaiters' \in Seq(Senders) /\ recvWaiters' \in Seq(Receivers)
    BY <1>13, EmptyType DEF CloseWake
  <2>4. result' \in [Receivers -> BOOLEAN] /\ UNCHANGED <<buffer, closed, value>>
    BY <1>13 DEF CloseWake, TypeOK
  <2>5. QED
    BY <2>2, <2>3, <2>4 DEF TypeOK
<1>14. ASSUME NEW c \in Coroutines, Requeue(c) PROVE TypeOK'
  <2>1. c \in Parties /\ "requeued" \in Locations
    BY DEF Parties, Locations
  <2>2. QED
    BY <1>14, <2>1, GotoType, ScheduleType DEF Requeue, TypeOK, lists
<1>15. CASE UNCHANGED vars
  BY <1>15 DEF vars, TypeOK
<1>16. QED
  BY <1>1, <1>2, <1>3, <1>4, <1>5, <1>6, <1>7, <1>8, <1>9, <1>10, <1>11, <1>12, <1>13, <1>14, <1>15
     DEF Next

\* Every field of the channel, of its parties and of their awaiters keeps its
\* type, and the buffer never exceeds the capacity.
THEOREM TypeCorrect == Spec => []TypeOK
BY TypeInit, TypeStep, PTL DEF Spec

-----------------------------------------------------------------------------
\* A sender and a receiver never wait at the same time.  OneSideWaits is
\* inductive: whoever registers has looked at the other list in the same
\* critical section, and a list never grows otherwise.

\* A step either leaves both lists as they are or shorter, or adds to one of
\* them where the other is empty.
LEMMA OneSideStep == OneSideWaits /\ [Next]_vars => OneSideWaits'
<1> SUFFICES ASSUME OneSideWaits, [Next]_vars PROVE OneSideWaits'
  OBVIOUS
<1> USE DEF OneSideWaits
<1>1. ASSUME NEW v, Push(v) PROVE OneSideWaits'
  BY <1>1 DEF Push, HandOff
<1>2. ASSUME NEW t, Pop(t) PROVE OneSideWaits'
  BY <1>2 DEF Pop, CanPop, ReleaseSender
<1>3. ASSUME NEW s \in Senders, SendReady(s) \/ SendUnready(s) \/ SendSuspend(s) PROVE OneSideWaits'
  BY <1>1, <1>3 DEF SendReady, SendUnready, SendSuspend, HandOff, lists
<1>4. ASSUME NEW r \in Receivers, RecvReady(r) \/ RecvUnready(r) \/ RecvSuspend(r) PROVE OneSideWaits'
  BY <1>2, <1>4 DEF RecvReady, RecvUnready, RecvSuspend, lists
<1>5. ASSUME NEW c \in Coroutines, Requeue(c) \/ Resume(c) PROVE OneSideWaits'
  BY <1>5 DEF Requeue, Resume, lists
<1>6. ASSUME NEW p \in Pushers, TrySend(p) \/ TrySendRefused(p) PROVE OneSideWaits'
  BY <1>1, <1>6 DEF TrySend, TrySendRefused, lists
<1>7. ASSUME NEW q \in Pollers, TryRecv(q) \/ TryRecvRefused(q) PROVE OneSideWaits'
  BY <1>2, <1>7 DEF TryRecv, TryRecvRefused, lists
<1>8. ASSUME NEW k \in Closers, CloseMark(k) \/ CloseWake(k) PROVE OneSideWaits'
  BY <1>8 DEF CloseMark, CloseWake, lists
<1>9. CASE UNCHANGED vars
  BY <1>9 DEF vars
<1>10. QED
  BY <1>3, <1>4, <1>5, <1>6, <1>7, <1>8, <1>9 DEF Next

\* register_send_waiter and register_recv_waiter never leave a sender and a
\* receiver waiting for each other.
THEOREM NobodyWaitsInVain == Spec => []OneSideWaits
<1>1. Init => OneSideWaits
  BY DEF Init, OneSideWaits
<1>2. QED
  BY <1>1, OneSideStep, PTL DEF Spec

-----------------------------------------------------------------------------
\* What close() leaves behind.  One closer wins the exchange; when it has
\* cleared the lists the flag keeps everyone else from registering.

Closing(k) == pc[k] \in {"closing", "done"}

CloseInv ==
    /\ TypeOK
    /\ \A k \in Closers : Closing(k) => closed
    /\ \A k, l \in Closers : Closing(k) /\ Closing(l) => k = l
    /\ ClosedQuiet

\* A party that is no closer moves no closer.
LEMMA ClosersStay ==
    ASSUME TypeOK, NEW p \in Parties \ Closers, NEW l, Goto(p, l)
    PROVE  \A k \in Closers : pc'[k] = pc[k]
BY DEF TypeOK, Goto, Parties

\* On a closed channel whose lists are empty they stay empty.
LEMMA QuietStays ==
    ASSUME closed, sendWaiters = <<>>, recvWaiters = <<>>, Next,
           ~\E k \in Closers : CloseMark(k) \/ CloseWake(k)
    PROVE  sendWaiters' = <<>> /\ recvWaiters' = <<>>
<1>1. \A v : ~Push(v)
  BY DEF Push, CanPush
<1>2. \A t : Pop(t) => sendWaiters' = <<>> /\ recvWaiters' = <<>>
  BY DEF Pop, CanPop
<1>3. QED
  BY <1>1, <1>2 DEF Next, SendReady, SendUnready, SendSuspend, RecvReady, RecvUnready, RecvSuspend,
     Requeue, Resume, TrySend, TrySendRefused, TryRecv, TryRecvRefused, lists

\* Only close() touches the flag, and only a closer moves a closer.
LEMMA OthersDoNotClose ==
    ASSUME TypeOK, Next, ~\E k \in Closers : CloseMark(k) \/ CloseWake(k)
    PROVE  closed' = closed /\ \A k \in Closers : pc'[k] = pc[k]
<1>1. \A p \in Coroutines \cup Pushers \cup Pollers : p \in Parties \ Closers
  BY ChannelAssumption DEF Parties, Coroutines
<1>2. \A p \in Coroutines \cup Pushers \cup Pollers, l \in Locations :
          Goto(p, l) => \A k \in Closers : pc'[k] = pc[k]
  BY <1>1, ClosersStay
<1>3. \A l \in {"unready", "suspended", "requeued", "done", "refused"} : l \in Locations
  BY DEF Locations
<1>4. ASSUME NEW s \in Senders, SendReady(s) \/ SendUnready(s) \/ SendSuspend(s)
      PROVE  closed' = closed /\ \A k \in Closers : pc'[k] = pc[k]
  BY <1>2, <1>3, <1>4 DEF Coroutines, SendReady, SendUnready, SendSuspend, Push
<1>5. ASSUME NEW r \in Receivers, RecvReady(r) \/ RecvUnready(r) \/ RecvSuspend(r)
      PROVE  closed' = closed /\ \A k \in Closers : pc'[k] = pc[k]
  BY <1>2, <1>3, <1>5 DEF Coroutines, RecvReady, RecvUnready, RecvSuspend, Pop
<1>6. ASSUME NEW c \in Coroutines, Requeue(c) \/ Resume(c)
      PROVE  closed' = closed /\ \A k \in Closers : pc'[k] = pc[k]
  BY <1>2, <1>3, <1>6 DEF Requeue, Resume
<1>7. ASSUME NEW p \in Pushers, TrySend(p) \/ TrySendRefused(p)
      PROVE  closed' = closed /\ \A k \in Closers : pc'[k] = pc[k]
  BY <1>2, <1>3, <1>7 DEF TrySend, TrySendRefused, Push
<1>8. ASSUME NEW q \in Pollers, TryRecv(q) \/ TryRecvRefused(q)
      PROVE  closed' = closed /\ \A k \in Closers : pc'[k] = pc[k]
  BY <1>2, <1>3, <1>8 DEF TryRecv, TryRecvRefused, Pop
<1>9. QED
  BY <1>4, <1>5, <1>6, <1>7, <1>8 DEF Next

\* The three kinds of step: the exchange, the critical section of close(),
\* and everything else.
LEMMA CloseStep == CloseInv /\ [Next]_vars => CloseInv'
<1> SUFFICES ASSUME CloseInv, [Next]_vars
             PROVE  /\ \A k \in Closers : Closing(k)' => closed'
                    /\ \A k, l \in Closers : Closing(k)' /\ Closing(l)' => k = l
                    /\ ClosedQuiet'
  BY TypeStep DEF CloseInv
<1>0. \A k \in Closers : k \in Parties
  BY DEF Parties
<1>1. ASSUME NEW k \in Closers, CloseMark(k)
      PROVE  /\ \A l \in Closers : Closing(l)' => closed'
             /\ \A l, m \in Closers : Closing(l)' /\ Closing(m)' => l = m
             /\ ClosedQuiet'
  <2>1. closed' /\ UNCHANGED <<sendWaiters, recvWaiters>>
    BY <1>1 DEF CloseMark, lists
  <2>2. \A l \in Closers : pc'[l] = IF l = k THEN IF closed THEN "skipped" ELSE "closing" ELSE pc[l]
    BY <1>0, <1>1 DEF CloseMark, Goto, CloseInv, TypeOK
  <2>3. ~closed => \A l \in Closers : ~Closing(l)
    BY DEF CloseInv
  <2>4. QED
    BY <2>1, <2>2, <2>3 DEF CloseInv, Closing, ClosedQuiet
<1>2. ASSUME NEW k \in Closers, CloseWake(k)
      PROVE  /\ \A l \in Closers : Closing(l)' => closed'
             /\ \A l, m \in Closers : Closing(l)' /\ Closing(m)' => l = m
             /\ ClosedQuiet'
  <2>1. UNCHANGED closed /\ sendWaiters' = <<>> /\ recvWaiters' = <<>>
    BY <1>2 DEF CloseWake
  <2>2. \A l \in Closers : pc'[l] = IF l = k THEN "done" ELSE pc[l]
    BY <1>0, <1>2 DEF CloseWake, Goto, CloseInv, TypeOK
  <2>3. Closing(k)
    BY <1>2 DEF CloseWake, Closing
  <2>4. QED
    BY <2>1, <2>2, <2>3 DEF CloseInv, Closing, ClosedQuiet
<1>3. ASSUME Next, ~\E k \in Closers : CloseMark(k) \/ CloseWake(k)
      PROVE  /\ \A l \in Closers : Closing(l)' => closed'
             /\ \A l, m \in Closers : Closing(l)' /\ Closing(m)' => l = m
             /\ ClosedQuiet'
  <2>1. closed' = closed /\ \A k \in Closers : pc'[k] = pc[k]
    BY <1>3, OthersDoNotClose DEF CloseInv
  <2>2. ASSUME NEW k \in Closers, pc[k] = "done" PROVE sendWaiters' = <<>> /\ recvWaiters' = <<>>
    <3>1. closed /\ sendWaiters = <<>> /\ recvWaiters = <<>>
      BY <2>2 DEF CloseInv, Closing, ClosedQuiet
    <3>2. QED
      BY <1>3, <3>1, QuietStays
  <2>3. QED
    BY <2>1, <2>2 DEF CloseInv, Closing, ClosedQuiet
<1>4. CASE UNCHANGED vars
  BY <1>4 DEF vars, CloseInv, Closing, ClosedQuiet
<1>5. QED
  BY <1>1, <1>2, <1>3, <1>4

\* The first state: nobody closes.
LEMMA CloseInit == Init => CloseInv
<1>1. ASSUME Init PROVE TypeOK /\ \A k \in Closers : pc[k] = "idle"
  BY <1>1, TypeInit DEF Init, Parties
<1>2. QED
  BY <1>1 DEF CloseInv, Closing, ClosedQuiet

\* When close() has returned to the thread that closed the channel nobody is
\* registered, however its two parts interleaved with the registrations.
THEOREM CloseLeavesNobody == Spec => []ClosedQuiet
<1>1. CloseInv => ClosedQuiet
  BY DEF CloseInv
<1>2. QED
  BY CloseInit, CloseStep, <1>1, PTL DEF Spec

-----------------------------------------------------------------------------
\* What a list holds.

\* The empty list holds nothing.
LEMMA EmptyHolds == ToSet(<<>>) = {} /\ IsInjective(<<>>)
BY DEF ToSet, IsInjective

\* Appending adds one element, and no duplicate if it is new.
LEMMA AppendHolds ==
    ASSUME NEW S, NEW q \in Seq(S), NEW e \in S
    PROVE  /\ ToSet(Append(q, e)) = ToSet(q) \cup {e}
           /\ IsInjective(q) /\ e \notin ToSet(q) => IsInjective(Append(q, e))
<1>1. /\ DOMAIN q = 1..Len(q) /\ Len(q) \in Nat
      /\ DOMAIN Append(q, e) = 1..(Len(q) + 1)
      /\ \A i \in 1..Len(q) : Append(q, e)[i] = q[i]
      /\ Append(q, e)[Len(q) + 1] = e
  OBVIOUS
<1>2. ToSet(Append(q, e)) = ToSet(q) \cup {e}
  <2>1. \A i \in 1..(Len(q) + 1) : i \in 1..Len(q) \/ i = Len(q) + 1
    BY <1>1
  <2>2. ToSet(Append(q, e)) \subseteq ToSet(q) \cup {e}
    BY <1>1, <2>1 DEF ToSet
  <2>3. ToSet(q) \cup {e} \subseteq ToSet(Append(q, e))
    BY <1>1 DEF ToSet
  <2>4. QED
    BY <2>2, <2>3
<1>3. ASSUME IsInjective(q), e \notin ToSet(q) PROVE IsInjective(Append(q, e))
  <2>1. \A i \in 1..Len(q) : q[i] # e
    BY <1>1, <1>3 DEF ToSet
  <2>2. QED
    BY <1>1, <1>3, <2>1 DEF IsInjective
<1>4. QED
  BY <1>2, <1>3

\* A list is its front and the rest; without duplicates the front is not in
\* the rest.
LEMMA TailHolds ==
    ASSUME NEW S, NEW q \in Seq(S), q # <<>>
    PROVE  /\ ToSet(q) = {Head(q)} \cup ToSet(Tail(q))
           /\ IsInjective(q) => IsInjective(Tail(q)) /\ Head(q) \notin ToSet(Tail(q))
<1>1. /\ Len(q) \in Nat \ {0} /\ DOMAIN q = 1..Len(q)
      /\ Head(q) = q[1]
      /\ DOMAIN Tail(q) = 1..(Len(q) - 1)
      /\ \A i \in 1..(Len(q) - 1) : Tail(q)[i] = q[i + 1]
  OBVIOUS
<1>2. ToSet(Tail(q)) = {q[i] : i \in 2..Len(q)}
  <2>1. ASSUME NEW x \in ToSet(Tail(q)) PROVE x \in {q[i] : i \in 2..Len(q)}
    <3>1. PICK i \in 1..(Len(q) - 1) : x = Tail(q)[i]
      BY <1>1 DEF ToSet
    <3>2. i + 1 \in 2..Len(q) /\ x = q[i + 1]
      BY <1>1, <3>1
    <3>3. QED
      BY <3>2
  <2>2. ASSUME NEW i \in 2..Len(q) PROVE q[i] \in ToSet(Tail(q))
    <3>1. i - 1 \in 1..(Len(q) - 1) /\ Tail(q)[i - 1] = q[i]
      BY <1>1
    <3>2. QED
      BY <1>1, <3>1 DEF ToSet
  <2>3. QED
    BY <2>1, <2>2
<1>3. ToSet(q) = {Head(q)} \cup ToSet(Tail(q))
  <2>1. \A i \in 1..Len(q) : i = 1 \/ i \in 2..Len(q)
    BY <1>1
  <2>2. 1 \in 1..Len(q) /\ \A i \in 2..Len(q) : i \in 1..Len(q)
    BY <1>1
  <2>3. QED
    BY <1>1, <1>2, <2>1, <2>2 DEF ToSet
<1>4. ASSUME IsInjective(q) PROVE IsInjective(Tail(q)) /\ Head(q) \notin ToSet(Tail(q))
  <2>1. \A i \in 2..Len(q) : q[i] # q[1]
    BY <1>1, <1>4 DEF IsInjective
  <2>2. \A i \in 1..(Len(q) - 1) : i + 1 \in 1..Len(q)
    BY <1>1
  <2>3. IsInjective(Tail(q))
    <3> SUFFICES ASSUME NEW i \in 1..(Len(q) - 1), NEW j \in 1..(Len(q) - 1), Tail(q)[i] = Tail(q)[j]
                 PROVE  i = j
      BY <1>1 DEF IsInjective
    <3>1. i + 1 = j + 1
      BY <1>1, <1>4, <2>2 DEF IsInjective
    <3>2. QED
      BY <3>1
  <2>4. QED
    BY <1>1, <1>2, <2>1, <2>3
<1>5. QED
  BY <1>3, <1>4

-----------------------------------------------------------------------------
\* The inductive invariant.  A value that is in the channel belongs to a party
\* that is past the point where it gave the value away, so that no party can
\* bring its value in a second time.
GivenAway(v) == pc[v] \in {"suspended", "requeued", "done"}

OnceInv == TypeOK /\ ExactlyOnce /\ \A v \in InFlight : GivenAway(v)

\* What a step does to ExactlyOnce depends on the lists and the destinations
\* alone: v is new, or already in one of them.

\* A new value goes to the first registered receiver.
LEMMA HandOffOnce ==
    ASSUME TypeOK, ExactlyOnce, NEW v \in Values, v \notin InFlight, recvWaiters # <<>>,
           HandOff(v), UNCHANGED <<buffer, sendWaiters>>
    PROVE  ExactlyOnce' /\ InFlight' \subseteq InFlight \cup {v}
<1> DEFINE r == Head(recvWaiters)
<1>1. r \in Takers /\ v # NoValue
  BY HeadTail, ChannelAssumption DEF TypeOK, Takers
<1>2. value' = [value EXCEPT ![r] = v]
  BY DEF HandOff, Answer
<1>3. \A t \in Takers : value'[t] = IF t = r THEN v ELSE value[t]
  BY <1>1, <1>2 DEF TypeOK
<1>4. v \notin ToSet(buffer) /\ v \notin ToSet(sendWaiters) /\ \A t \in Takers : value[t] # v
  BY <1>1 DEF InFlight, Got
<1>5. Got' \subseteq Got \cup {v}
  BY <1>3 DEF Got
<1>6. \A t, u \in Takers : value'[t] = value'[u] /\ value'[t] # NoValue => t = u
  BY <1>3, <1>4 DEF ExactlyOnce
<1>7. QED
  BY <1>4, <1>5, <1>6 DEF ExactlyOnce, InFlight

\* Push: to a registered receiver, or to the back of the buffer.
LEMMA PushOnce ==
    ASSUME TypeOK, ExactlyOnce, NEW v \in Values, v \notin InFlight, Push(v)
    PROVE  ExactlyOnce' /\ InFlight' \subseteq InFlight \cup {v}
<1>1. CASE recvWaiters # <<>>
  BY <1>1, HandOffOnce DEF Push
<1>2. CASE recvWaiters = <<>>
  <2>1. buffer' = Append(buffer, v) /\ UNCHANGED <<sendWaiters, value>>
    BY <1>2 DEF Push
  <2>2. ToSet(buffer') = ToSet(buffer) \cup {v} /\ IsInjective(buffer')
    BY <2>1, AppendHolds DEF TypeOK, ExactlyOnce, InFlight
  <2>3. Got' = Got
    BY <2>1 DEF Got
  <2>4. QED
    BY <2>1, <2>2, <2>3 DEF ExactlyOnce, InFlight
<1>3. QED
  BY <1>1, <1>2

\* A new value is offered by a sender that registers.
LEMMA OfferOnce ==
    ASSUME TypeOK, ExactlyOnce, NEW v \in Senders, v \notin InFlight,
           sendWaiters' = Append(sendWaiters, v), UNCHANGED <<buffer, value>>
    PROVE  ExactlyOnce' /\ InFlight' \subseteq InFlight \cup {v}
<1>1. ToSet(sendWaiters') = ToSet(sendWaiters) \cup {v} /\ IsInjective(sendWaiters')
  BY AppendHolds DEF TypeOK, ExactlyOnce, InFlight
<1>2. Got' = Got
  BY DEF Got
<1>3. QED
  BY <1>1, <1>2 DEF ExactlyOnce, InFlight

\* The first registered sender's value goes to a taker.
LEMMA TakeOfferedOnce ==
    ASSUME TypeOK, ExactlyOnce, NEW t \in Takers, sendWaiters # <<>>,
           value' = [value EXCEPT ![t] = Head(sendWaiters)],
           sendWaiters' = Tail(sendWaiters), UNCHANGED buffer
    PROVE  ExactlyOnce' /\ InFlight' \subseteq InFlight
<1> DEFINE v == Head(sendWaiters)
<1>1. ToSet(sendWaiters) = {v} \cup ToSet(sendWaiters') /\ IsInjective(sendWaiters')
      /\ v \notin ToSet(sendWaiters')
  BY TailHolds DEF TypeOK, ExactlyOnce
<1>2. v \in Values /\ v # NoValue
  BY HeadTail, ChannelAssumption DEF TypeOK, Values
<1>3. \A u \in Takers : value'[u] = IF u = t THEN v ELSE value[u]
  BY DEF TypeOK
<1>4. v \notin ToSet(buffer) /\ \A u \in Takers : value[u] # v
  BY <1>1, <1>2 DEF ExactlyOnce, Got
<1>5. Got' \subseteq Got \cup {v}
  BY <1>3 DEF Got
<1>6. \A u, w \in Takers : value'[u] = value'[w] /\ value'[u] # NoValue => u = w
  BY <1>3, <1>4 DEF ExactlyOnce
<1>7. QED
  BY <1>1, <1>4, <1>5, <1>6 DEF ExactlyOnce, InFlight

\* The oldest buffered value goes to a taker; a registered sender's value may
\* take its room.
LEMMA TakeStoredOnce ==
    ASSUME TypeOK, ExactlyOnce, NEW t \in Takers, buffer # <<>>,
           value' = [value EXCEPT ![t] = Head(buffer)],
           \/ /\ sendWaiters # <<>>
              /\ buffer' = Append(Tail(buffer), Head(sendWaiters))
              /\ sendWaiters' = Tail(sendWaiters)
           \/ /\ buffer' = Tail(buffer)
              /\ UNCHANGED sendWaiters
    PROVE  ExactlyOnce' /\ InFlight' \subseteq InFlight
<1> DEFINE v == Head(buffer)
<1>1. /\ ToSet(buffer) = {v} \cup ToSet(Tail(buffer)) /\ IsInjective(Tail(buffer))
      /\ v \notin ToSet(Tail(buffer)) /\ Tail(buffer) \in Seq(Values)
  BY TailHolds, HeadTail DEF TypeOK, ExactlyOnce
<1>2. v \in Values /\ v # NoValue
  BY HeadTail, ChannelAssumption DEF TypeOK
<1>3. \A u \in Takers : value'[u] = IF u = t THEN v ELSE value[u]
  BY DEF TypeOK
<1>4. v \notin ToSet(sendWaiters) /\ \A u \in Takers : value[u] # v
  BY <1>1, <1>2 DEF ExactlyOnce, Got
<1>5. Got' \subseteq Got \cup {v}
  BY <1>3 DEF Got
<1>6. \A u, w \in Takers : value'[u] = value'[w] /\ value'[u] # NoValue => u = w
  BY <1>3, <1>4 DEF ExactlyOnce
<1>7. CASE buffer' = Tail(buffer) /\ UNCHANGED sendWaiters
  BY <1>1, <1>4, <1>5, <1>6, <1>7 DEF ExactlyOnce, InFlight
<1>8. CASE /\ sendWaiters # <<>>
           /\ buffer' = Append(Tail(buffer), Head(sendWaiters))
           /\ sendWaiters' = Tail(sendWaiters)
  <2> DEFINE s == Head(sendWaiters)
  <2>1. /\ ToSet(sendWaiters) = {s} \cup ToSet(sendWaiters') /\ IsInjective(sendWaiters')
        /\ s \notin ToSet(sendWaiters') /\ s \in Values
    BY <1>8, TailHolds, HeadTail DEF TypeOK, ExactlyOnce, Values
  <2>2. s \notin ToSet(buffer) /\ s # v /\ s \notin Got
    BY <1>4, <2>1 DEF ExactlyOnce
  <2>3. s \notin ToSet(Tail(buffer)) /\ buffer' = Append(Tail(buffer), s)
    BY <1>1, <1>8, <2>2
  <2>4. ToSet(buffer') = ToSet(Tail(buffer)) \cup {s} /\ IsInjective(buffer')
    <3> DEFINE rest == Tail(buffer)
    <3>1. rest \in Seq(Values) /\ IsInjective(rest) /\ s \in Values /\ s \notin ToSet(rest)
      BY <1>1, <2>1, <2>3
    <3>2. buffer' = Append(rest, s)
      BY <2>3
    <3> HIDE DEF s, rest
    <3>3. ToSet(buffer') = ToSet(rest) \cup {s} /\ IsInjective(buffer')
      BY <3>1, <3>2, AppendHolds
    <3>4. QED
      BY <3>3 DEF rest
  <2>5. QED
    BY <1>1, <1>4, <1>5, <1>6, <2>1, <2>2, <2>4 DEF ExactlyOnce, InFlight
<1>9. QED
  BY <1>7, <1>8

\* Pop: from the buffer, or from the first registered sender.
LEMMA PopOnce ==
    ASSUME TypeOK, ExactlyOnce, NEW t \in Takers, Pop(t)
    PROVE  ExactlyOnce' /\ InFlight' \subseteq InFlight
<1>1. CASE buffer # <<>>
  BY <1>1, TakeStoredOnce DEF Pop, ReleaseSender
<1>2. CASE buffer = <<>>
  <2>1. sendWaiters # <<>>
    BY <1>2 DEF Pop, CanPop
  <2>2. QED
    BY <1>2, <2>1, TakeOfferedOnce DEF Pop, ReleaseSender
<1>3. QED
  BY <1>1, <1>2

\* Nothing moves.
LEMMA StillOnce ==
    ASSUME ExactlyOnce, UNCHANGED <<buffer, sendWaiters, value>>
    PROVE  ExactlyOnce' /\ InFlight' = InFlight
BY DEF ExactlyOnce, InFlight, Got

\* Whatever is in the channel is a value.
LEMMA InFlightType ==
    ASSUME TypeOK
    PROVE  InFlight \subseteq Values
<1>1. ToSet(buffer) \subseteq Values /\ ToSet(sendWaiters) \subseteq Senders
  BY DEF TypeOK, ToSet
<1>2. Got \subseteq Values
  BY DEF TypeOK, Got
<1>3. QED
  BY <1>1, <1>2 DEF InFlight, Values

\* A party that moves does not get its value back, and one that brings its
\* value in goes where it has given it away.
LEMMA GivenStep ==
    ASSUME TypeOK, \A v \in InFlight : GivenAway(v),
           NEW p \in Parties, NEW l \in Locations, Goto(p, l),
           ~GivenAway(p) \/ l \in {"requeued", "done"},
           \/ InFlight' \subseteq InFlight
           \/ InFlight' \subseteq InFlight \cup {p} /\ l \in {"suspended", "requeued", "done"}
    PROVE  \A v \in InFlight' : GivenAway(v)'
<1>1. InFlight \subseteq Parties
  BY InFlightType DEF Values, Parties, Coroutines
<1>2. ASSUME NEW v \in InFlight PROVE GivenAway(v)'
  BY <1>1, <1>2 DEF TypeOK, Goto, GivenAway
<1>3. l \in {"suspended", "requeued", "done"} => GivenAway(p)'
  BY DEF TypeOK, Goto, GivenAway
<1>4. QED
  BY <1>2, <1>3

-----------------------------------------------------------------------------
\* The first state: nothing is in the channel.
LEMMA OnceInit == Init => OnceInv
<1> SUFFICES ASSUME Init PROVE OnceInv
  OBVIOUS
<1>1. TypeOK
  BY TypeInit
<1>2. buffer = <<>> /\ sendWaiters = <<>> /\ \A t \in Takers : value[t] = NoValue
  BY DEF Init
<1>3. ToSet(buffer) = {} /\ ToSet(sendWaiters) = {} /\ Got = {}
  BY <1>2, EmptyHolds DEF Got
<1>4. ExactlyOnce
  BY <1>2, <1>3, EmptyHolds DEF ExactlyOnce
<1>5. QED
  BY <1>1, <1>3, <1>4 DEF OnceInv, InFlight

\* Every step.  A push, a registration or a hand-off brings in a value whose
\* party was not past it; everything else moves values or drops them.
LEMMA OnceStep == OnceInv /\ [Next]_vars => OnceInv'
<1> SUFFICES ASSUME OnceInv, [Next]_vars
             PROVE  ExactlyOnce' /\ \A v \in InFlight' : GivenAway(v)'
  BY TypeStep DEF OnceInv
<1>0. TypeOK /\ ExactlyOnce /\ \A v \in InFlight : GivenAway(v)
  BY DEF OnceInv
<1>a. \A l \in {"unready", "suspended", "requeued", "done", "refused", "closing", "skipped"} : l \in Locations
  BY DEF Locations
<1>1. ASSUME NEW s \in Senders, SendReady(s) PROVE ExactlyOnce' /\ \A v \in InFlight' : GivenAway(v)'
  <2>1. s \in Values /\ s \in Parties /\ ~GivenAway(s) /\ s \notin InFlight
    BY <1>0, <1>1 DEF Values, Parties, Coroutines, SendReady, GivenAway
  <2>2. ExactlyOnce' /\ InFlight' \subseteq InFlight \cup {s} /\ Goto(s, "done")
    BY <1>0, <1>1, <2>1, PushOnce DEF SendReady
  <2>3. QED
    BY <1>0, <1>a, <2>1, <2>2, GivenStep
<1>2. ASSUME NEW s \in Senders, SendUnready(s) PROVE ExactlyOnce' /\ \A v \in InFlight' : GivenAway(v)'
  <2>1. s \in Parties /\ ~GivenAway(s)
    BY <1>2 DEF Parties, Coroutines, SendUnready, GivenAway
  <2>2. ExactlyOnce' /\ InFlight' = InFlight /\ Goto(s, "unready")
    BY <1>0, <1>2, StillOnce DEF SendUnready, lists
  <2>3. QED
    BY <1>0, <1>a, <2>1, <2>2, GivenStep
<1>3. ASSUME NEW s \in Senders, SendSuspend(s) PROVE ExactlyOnce' /\ \A v \in InFlight' : GivenAway(v)'
  <2>1. s \in Values /\ s \in Parties /\ ~GivenAway(s) /\ s \notin InFlight /\ Goto(s, "suspended")
    BY <1>0, <1>3 DEF Values, Parties, Coroutines, SendSuspend, GivenAway
  <2>2. ExactlyOnce' /\ InFlight' \subseteq InFlight \cup {s}
    <3>1. CASE closed
      BY <1>0, <1>3, <3>1, StillOnce DEF SendSuspend, lists
    <3>2. CASE ~closed /\ recvWaiters # <<>>
      BY <1>0, <1>3, <2>1, <3>2, HandOffOnce DEF SendSuspend
    <3>3. CASE ~closed /\ recvWaiters = <<>>
      BY <1>0, <1>3, <2>1, <3>3, OfferOnce DEF SendSuspend
    <3>4. QED
      BY <3>1, <3>2, <3>3
  <2>3. QED
    BY <1>0, <1>a, <2>1, <2>2, GivenStep
<1>4. ASSUME NEW r \in Receivers, RecvReady(r) PROVE ExactlyOnce' /\ \A v \in InFlight' : GivenAway(v)'
  <2>1. r \in Takers /\ r \in Parties /\ ~GivenAway(r)
    BY <1>4 DEF Takers, Parties, Coroutines, RecvReady, GivenAway
  <2>2. ExactlyOnce' /\ InFlight' \subseteq InFlight /\ Goto(r, "done")
    BY <1>0, <1>4, <2>1, PopOnce DEF RecvReady
  <2>3. QED
    BY <1>0, <1>a, <2>1, <2>2, GivenStep
<1>5. ASSUME NEW r \in Receivers, RecvUnready(r) PROVE ExactlyOnce' /\ \A v \in InFlight' : GivenAway(v)'
  <2>1. r \in Parties /\ ~GivenAway(r)
    BY <1>5 DEF Parties, Coroutines, RecvUnready, GivenAway
  <2>2. ExactlyOnce' /\ InFlight' = InFlight /\ Goto(r, "unready")
    BY <1>0, <1>5, StillOnce DEF RecvUnready, lists
  <2>3. QED
    BY <1>0, <1>a, <2>1, <2>2, GivenStep
<1>6. ASSUME NEW r \in Receivers, RecvSuspend(r) PROVE ExactlyOnce' /\ \A v \in InFlight' : GivenAway(v)'
  <2>1. r \in Takers /\ r \in Parties /\ ~GivenAway(r) /\ Goto(r, "suspended")
    BY <1>6 DEF Takers, Parties, Coroutines, RecvSuspend, GivenAway
  <2>2. ExactlyOnce' /\ InFlight' \subseteq InFlight
    <3>1. CASE closed
      BY <1>0, <1>6, <3>1, StillOnce DEF RecvSuspend
    <3>2. CASE ~closed /\ sendWaiters # <<>>
      BY <1>0, <1>6, <2>1, <3>2, TakeOfferedOnce DEF RecvSuspend
    <3>3. CASE ~closed /\ sendWaiters = <<>>
      BY <1>0, <1>6, <3>3, StillOnce DEF RecvSuspend
    <3>4. QED
      BY <3>1, <3>2, <3>3
  <2>3. QED
    BY <1>0, <1>a, <2>1, <2>2, GivenStep
<1>7. ASSUME NEW c \in Coroutines, Requeue(c) \/ Resume(c)
      PROVE ExactlyOnce' /\ \A v \in InFlight' : GivenAway(v)'
  <2>1. c \in Parties
    BY DEF Parties
  <2>2. PICK l \in {"requeued", "done"} : Goto(c, l)
    BY <1>7 DEF Requeue, Resume
  <2>3. ExactlyOnce' /\ InFlight' = InFlight
    BY <1>0, <1>7, StillOnce DEF Requeue, Resume, lists
  <2>4. QED
    BY <1>0, <1>a, <2>1, <2>2, <2>3, GivenStep
<1>8. ASSUME NEW p \in Pushers, TrySend(p) PROVE ExactlyOnce' /\ \A v \in InFlight' : GivenAway(v)'
  <2>1. p \in Values /\ p \in Parties /\ ~GivenAway(p) /\ p \notin InFlight
    BY <1>0, <1>8 DEF Values, Parties, TrySend, GivenAway
  <2>2. ExactlyOnce' /\ InFlight' \subseteq InFlight \cup {p} /\ Goto(p, "done")
    BY <1>0, <1>8, <2>1, PushOnce DEF TrySend
  <2>3. QED
    BY <1>0, <1>a, <2>1, <2>2, GivenStep
<1>9. ASSUME NEW p \in Pushers, TrySendRefused(p) PROVE ExactlyOnce' /\ \A v \in InFlight' : GivenAway(v)'
  <2>1. p \in Parties /\ ~GivenAway(p)
    BY <1>9 DEF Parties, TrySendRefused, GivenAway
  <2>2. ExactlyOnce' /\ InFlight' = InFlight /\ Goto(p, "refused")
    BY <1>0, <1>9, StillOnce DEF TrySendRefused, lists
  <2>3. QED
    BY <1>0, <1>a, <2>1, <2>2, GivenStep
<1>10. ASSUME NEW q \in Pollers, TryRecv(q) PROVE ExactlyOnce' /\ \A v \in InFlight' : GivenAway(v)'
  <2>1. q \in Takers /\ q \in Parties /\ ~GivenAway(q)
    BY <1>10 DEF Takers, Parties, TryRecv, GivenAway
  <2>2. ExactlyOnce' /\ InFlight' \subseteq InFlight /\ Goto(q, "done")
    BY <1>0, <1>10, <2>1, PopOnce DEF TryRecv
  <2>3. QED
    BY <1>0, <1>a, <2>1, <2>2, GivenStep
<1>11. ASSUME NEW q \in Pollers, TryRecvRefused(q) PROVE ExactlyOnce' /\ \A v \in InFlight' : GivenAway(v)'
  <2>1. q \in Parties /\ ~GivenAway(q)
    BY <1>11 DEF Parties, TryRecvRefused, GivenAway
  <2>2. ExactlyOnce' /\ InFlight' = InFlight /\ Goto(q, "refused")
    BY <1>0, <1>11, StillOnce DEF TryRecvRefused, lists
  <2>3. QED
    BY <1>0, <1>a, <2>1, <2>2, GivenStep
<1>12. ASSUME NEW k \in Closers, CloseMark(k) PROVE ExactlyOnce' /\ \A v \in InFlight' : GivenAway(v)'
  <2>1. k \in Parties /\ ~GivenAway(k)
    BY <1>12 DEF Parties, CloseMark, GivenAway
  <2>2. PICK l \in {"closing", "skipped"} : Goto(k, l)
    BY <1>12 DEF CloseMark
  <2>3. ExactlyOnce' /\ InFlight' = InFlight
    BY <1>0, <1>12, StillOnce DEF CloseMark, lists
  <2>4. QED
    BY <1>0, <1>a, <2>1, <2>2, <2>3, GivenStep
<1>13. ASSUME NEW k \in Closers, CloseWake(k) PROVE ExactlyOnce' /\ \A v \in InFlight' : GivenAway(v)'
  <2>1. k \in Parties /\ ~GivenAway(k) /\ Goto(k, "done")
    BY <1>13 DEF Parties, CloseWake, GivenAway
  <2>2. sendWaiters' = <<>> /\ UNCHANGED <<buffer, value>>
    BY <1>13 DEF CloseWake
  <2>3. ToSet(sendWaiters') = {} /\ IsInjective(sendWaiters') /\ Got' = Got
    BY <2>2, EmptyHolds DEF Got
  <2>4. ExactlyOnce' /\ InFlight' \subseteq InFlight
    BY <1>0, <2>2, <2>3 DEF ExactlyOnce, InFlight
  <2>5. QED
    BY <1>0, <1>a, <2>1, <2>4, GivenStep
<1>14. CASE UNCHANGED vars
  <2>1. ExactlyOnce' /\ InFlight' = InFlight /\ UNCHANGED pc
    BY <1>0, <1>14, StillOnce DEF vars
  <2>2. QED
    BY <1>0, <2>1 DEF GivenAway
<1>15. QED
  BY <1>1, <1>2, <1>3, <1>4, <1>5, <1>6, <1>7, <1>8, <1>9, <1>10, <1>11, <1>12, <1>13, <1>14 DEF Next

\* No value is ever in two places, whatever the interleaving: buffered twice,
\* buffered and offered, offered or buffered and received, or received by two.
THEOREM EachValueOnce == Spec => []ExactlyOnce
<1>1. OnceInv => ExactlyOnce
  BY DEF OnceInv
<1>2. QED
  BY OnceInit, OnceStep, <1>1, PTL DEF Spec

-----------------------------------------------------------------------------
\* What steps of others do to a caller of try_send or try_recv.

\* The steps by which a value enters and leaves, and the rest.
LEMMA StepKinds ==
    ASSUME TypeOK, Next
    PROVE  \/ \E v \in Values : Push(v) /\ v \in Parties /\ pc[v] \in {"idle", "refused"} /\ Goto(v, "done")
           \/ \E t \in Takers : Pop(t) /\ t \in Parties /\ pc[t] \in {"idle", "refused"} /\ Goto(t, "done")
           \/ /\ UNCHANGED buffer /\ (closed' = closed \/ closed' = TRUE)
              /\ \A q \in Pollers : value'[q] = value[q]
<1>1. \A q \in Pollers : q \in Takers /\ q \notin Receivers
  BY ChannelAssumption DEF Takers
<1>2. Senders \subseteq Parties /\ Receivers \subseteq Parties /\ Pushers \subseteq Parties /\ Pollers \subseteq Parties
  BY DEF Parties, Coroutines
<1>3. recvWaiters # <<>> => Head(recvWaiters) \in Receivers
  BY HeadTail DEF TypeOK
<1>4. ASSUME NEW s \in Senders, SendReady(s) \/ SendUnready(s)
      PROVE  \/ Push(s) /\ pc[s] = "idle" /\ Goto(s, "done")
             \/ UNCHANGED <<buffer, closed, value>>
  BY <1>4 DEF SendReady, SendUnready, lists
<1>5. ASSUME NEW s \in Senders, SendSuspend(s)
      PROVE  UNCHANGED <<buffer, closed>> /\ \A q \in Pollers : value'[q] = value[q]
  <2>1. UNCHANGED <<buffer, closed>>
    BY <1>5 DEF SendSuspend, lists
  <2>2. \/ UNCHANGED value
        \/ recvWaiters # <<>> /\ value' = [value EXCEPT ![Head(recvWaiters)] = s]
    BY <1>5 DEF SendSuspend, HandOff, Answer
  <2> QED  BY <2>1, <2>2, <1>1, <1>3 DEF TypeOK
<1>6. ASSUME NEW r \in Receivers, RecvReady(r) \/ RecvUnready(r)
      PROVE  \/ Pop(r) /\ pc[r] = "idle" /\ Goto(r, "done")
             \/ UNCHANGED <<buffer, closed, value>>
  BY <1>6 DEF RecvReady, RecvUnready, lists
<1>7. ASSUME NEW r \in Receivers, RecvSuspend(r)
      PROVE  UNCHANGED <<buffer, closed>> /\ \A q \in Pollers : value'[q] = value[q]
  <2>1. UNCHANGED <<buffer, closed>>
    BY <1>7 DEF RecvSuspend
  <2>2. UNCHANGED value \/ value' = [value EXCEPT ![r] = Head(sendWaiters)]
    BY <1>7 DEF RecvSuspend
  <2> QED  BY <2>1, <2>2, <1>1 DEF TypeOK
<1>8. ASSUME NEW c \in Coroutines, Requeue(c) \/ Resume(c)
      PROVE  UNCHANGED <<buffer, closed, value>>
  BY <1>8 DEF Requeue, Resume, lists
<1>9. ASSUME NEW p \in Pushers, TrySend(p) \/ TrySendRefused(p)
      PROVE  \/ Push(p) /\ pc[p] \in {"idle", "refused"} /\ Goto(p, "done")
             \/ UNCHANGED <<buffer, closed, value>>
  BY <1>9 DEF TrySend, TrySendRefused, lists
<1>10. ASSUME NEW q \in Pollers, TryRecv(q) \/ TryRecvRefused(q)
       PROVE  \/ Pop(q) /\ pc[q] \in {"idle", "refused"} /\ Goto(q, "done")
              \/ UNCHANGED <<buffer, closed, value>>
  BY <1>10 DEF TryRecv, TryRecvRefused, lists
<1>11. ASSUME NEW k \in Closers, CloseMark(k) \/ CloseWake(k)
       PROVE  UNCHANGED <<buffer, value>> /\ (closed' = closed \/ closed' = TRUE)
  BY <1>11 DEF CloseMark, CloseWake, lists
<1> QED  BY <1>2, <1>4, <1>5, <1>6, <1>7, <1>8, <1>9, <1>10, <1>11 DEF Next, Values, Takers

\* A poller that does not move gets nothing.
LEMMA PollerKeeps ==
    ASSUME TypeOK, Next, NEW c \in Pollers, pc'[c] = pc[c]
    PROVE  value'[c] = value[c]
<1>1. c \in Takers /\ c \in Parties /\ c \notin Receivers
  BY ChannelAssumption DEF Takers, Parties
<1>2. ASSUME NEW v \in Values, Push(v) PROVE value'[c] = value[c]
  <2>1. \/ UNCHANGED value
        \/ recvWaiters # <<>> /\ value' = [value EXCEPT ![Head(recvWaiters)] = v]
    BY <1>2 DEF Push, HandOff, Answer
  <2>2. recvWaiters # <<>> => Head(recvWaiters) \in Receivers
    BY HeadTail DEF TypeOK
  <2> QED  BY <2>1, <2>2, <1>1 DEF TypeOK
<1>3. ASSUME NEW t \in Takers, Pop(t), pc[t] \in {"idle", "refused"}, Goto(t, "done")
      PROVE  value'[c] = value[c]
  <2>1. t # c
    BY <1>1, <1>3 DEF Goto, TypeOK
  <2>2. value' = [value EXCEPT ![t] = Head(buffer)] \/ value' = [value EXCEPT ![t] = Head(sendWaiters)]
    BY <1>3 DEF Pop
  <2> QED  BY <2>1, <2>2, <1>1 DEF TypeOK
<1> QED  BY <1>2, <1>3, StepKinds

\* What is in the buffer stays as long as no taker moves, and room as long as
\* nobody with a value does.
LEMMA BufferKeeps ==
    ASSUME TypeOK, Next
    PROVE  /\ buffer # <<>> /\ (\A t \in Takers : pc'[t] = pc[t]) => buffer' # <<>>
           /\ ~IsFull /\ (\A v \in Values : pc'[v] = pc[v]) => ~IsFull'
           /\ closed => closed'
<1>1. ASSUME NEW v \in Values, Push(v), v \in Parties, pc[v] \in {"idle", "refused"}, Goto(v, "done")
      PROVE  pc'[v] # pc[v] /\ closed' = closed /\ (buffer # <<>> => buffer' # <<>>)
  <2>1. pc'[v] # pc[v] /\ closed' = closed
    BY <1>1 DEF Goto, TypeOK, Push
  <2>2. buffer' = buffer \/ buffer' = Append(buffer, v)
    BY <1>1 DEF Push
  <2>3. buffer \in Seq(Values) /\ Len(Append(buffer, v)) = Len(buffer) + 1
    BY DEF TypeOK
  <2> QED  BY <2>1, <2>2, <2>3
<1>2. ASSUME NEW t \in Takers, Pop(t), t \in Parties, pc[t] \in {"idle", "refused"}, Goto(t, "done")
      PROVE  pc'[t] # pc[t] /\ closed' = closed /\ (~IsFull => ~IsFull')
  <2>1. pc'[t] # pc[t] /\ closed' = closed
    BY <1>2 DEF Goto, TypeOK, Pop
  <2>2. \/ buffer' = buffer
        \/ buffer # <<>> /\ buffer' = Tail(buffer)
        \/ /\ buffer # <<>> /\ sendWaiters # <<>>
           /\ buffer' = Append(Tail(buffer), Head(sendWaiters))
    BY <1>2 DEF Pop
  <2>3. buffer # <<>> => /\ Tail(buffer) \in Seq(Values) /\ Len(buffer) \in Nat
                         /\ Len(Tail(buffer)) = Len(buffer) - 1
    BY HeadTail DEF TypeOK
  <2>4. sendWaiters # <<>> => Head(sendWaiters) \in Values
    BY HeadTail DEF TypeOK, Values
  <2>5. buffer # <<>> /\ sendWaiters # <<>> => Len(Append(Tail(buffer), Head(sendWaiters))) = Len(buffer)
    BY <2>3, <2>4
  <2>6. buffer' = buffer \/ (Len(buffer) \in Nat /\ Len(buffer') \in {Len(buffer), Len(buffer) - 1})
    BY <2>2, <2>3, <2>5
  <2> QED  BY <2>1, <2>6, ChannelAssumption DEF IsFull
<1>3. CASE UNCHANGED buffer /\ (closed' = closed \/ closed' = TRUE)
  <2>1. closed => closed'
    BY <1>3
  <2> QED  BY <2>1, <1>3 DEF IsFull
<1>4. CASE \E v \in Values : Push(v) /\ v \in Parties /\ pc[v] \in {"idle", "refused"} /\ Goto(v, "done")
  <2>1. PICK v \in Values : Push(v) /\ v \in Parties /\ pc[v] \in {"idle", "refused"} /\ Goto(v, "done")
    BY <1>4
  <2>2. pc'[v] # pc[v] /\ closed' = closed /\ (buffer # <<>> => buffer' # <<>>)
    BY <1>1, <2>1
  <2> QED  BY <2>2
<1>5. CASE \E t \in Takers : Pop(t) /\ t \in Parties /\ pc[t] \in {"idle", "refused"} /\ Goto(t, "done")
  <2>1. PICK t \in Takers : Pop(t) /\ t \in Parties /\ pc[t] \in {"idle", "refused"} /\ Goto(t, "done")
    BY <1>5
  <2>2. pc'[t] # pc[t] /\ closed' = closed /\ (~IsFull => ~IsFull')
    BY <1>2, <2>1
  <2> QED  BY <2>2
<1> QED  BY <1>3, <1>4, <1>5, StepKinds

=============================================================================
