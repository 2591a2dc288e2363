----------------------- MODULE ChannelContractProofs -----------------------
(***************************************************************************)
(* Channel implements ChannelContract, and what its waiters see, for every *)
(* capacity and every set of parties, driven or not.                       *)
(***************************************************************************)
EXTENDS ChannelProofs, MCChannel, FiniteSetTheorems

-----------------------------------------------------------------------------
\* A taker whose destination nobody has written to yet: it has not come to the
\* critical section that serves it, or it waits.
Unserved(t) ==
    \/ t \in Receivers /\ (pc[t] \in {"idle", "unready"} \/ t \in ToSet(recvWaiters))
    \/ t \in Pollers /\ pc[t] \in {"idle", "refused"}

\* The inductive invariant.
UnservedInv ==
    /\ IsInjective(recvWaiters)
    /\ \A r \in ToSet(recvWaiters) : pc[r] \notin {"idle", "unready"}
    /\ \A t \in Takers : Unserved(t) => value[t] = NoValue

KeepInv == OnceInv /\ CloseInv /\ UnservedInv

-----------------------------------------------------------------------------
\* How the parts of a step change UnservedInv.

\* Who is who.
LEMMA WhoIsWho ==
    /\ Coroutines \subseteq Parties /\ Pushers \subseteq Parties
    /\ Pollers \subseteq Parties /\ Closers \subseteq Parties /\ Takers \subseteq Parties
    /\ \A p \in Senders \cup Pushers \cup Closers : p \notin Takers
    /\ Receivers \cap Pollers = {}
BY ChannelAssumption DEF Parties, Coroutines, Takers

\* A step of p keeps UnservedInv if it registers nobody but p, which was
\* unserved, and writes to nobody who is unserved after it.
LEMMA UnservedStep ==
    ASSUME TypeOK, UnservedInv,
           NEW p \in Parties, NEW l \in Locations, Goto(p, l),
           l # "idle", l \in {"unready", "refused"} => pc[p] = "idle",
           IsInjective(recvWaiters'),
           \A r \in ToSet(recvWaiters') :
               r \in ToSet(recvWaiters) \/ (r = p /\ l = "suspended" /\ Unserved(p)),
           \A t \in Takers : Unserved(t)' => value'[t] = value[t]
    PROVE  UnservedInv'
<1>1. \A q \in Parties : pc'[q] = IF q = p THEN l ELSE pc[q]
  BY DEF Goto, TypeOK
<1>2. \A r \in ToSet(recvWaiters) : r \in Parties
  BY WhoIsWho DEF TypeOK, ToSet, Coroutines
<1>3. \A r \in ToSet(recvWaiters') : pc'[r] \notin {"idle", "unready"}
  BY <1>1, <1>2 DEF UnservedInv
<1>4. \A t \in Takers : Unserved(t)' => Unserved(t)
  BY <1>1, WhoIsWho DEF Unserved, Takers
<1>5. QED
  BY <1>3, <1>4 DEF UnservedInv

\* A step that registers nobody and writes to nobody.
LEMMA UnservedStill ==
    ASSUME TypeOK, UnservedInv,
           NEW p \in Parties, NEW l \in Locations, Goto(p, l),
           l # "idle", l \in {"unready", "refused"} => pc[p] = "idle",
           UNCHANGED <<recvWaiters, value>>
    PROVE  UnservedInv'
BY UnservedStep DEF UnservedInv

\* A hand-off serves the first registered receiver, which leaves the list.
LEMMA HandOffServes ==
    ASSUME TypeOK, UnservedInv, NEW v, HandOff(v), recvWaiters # <<>>,
           NEW p \in Senders \cup Pushers, NEW l \in {"suspended", "done"}, Goto(p, l)
    PROVE  UnservedInv'
<1> PICK r \in Receivers : r = Head(recvWaiters)
  BY HeadTail DEF TypeOK
<1>1. /\ ToSet(recvWaiters) = {r} \cup ToSet(recvWaiters')
      /\ r \notin ToSet(recvWaiters') /\ IsInjective(recvWaiters')
  BY TailHolds DEF TypeOK, UnservedInv, HandOff
<1>2. r \in Receivers /\ p \in Parties /\ p # r /\ l \in Locations
  BY HeadTail, WhoIsWho DEF TypeOK, Takers, Coroutines, Locations
<1>3. pc'[r] = pc[r] /\ pc[r] \notin {"idle", "unready"}
  BY <1>1, <1>2, WhoIsWho DEF Goto, TypeOK, UnservedInv, Takers
<1>4. ~Unserved(r)'
  BY <1>1, <1>2, <1>3, WhoIsWho DEF Unserved
<1>5. \A t \in Takers : t # r => value'[t] = value[t]
  BY DEF HandOff, Answer, TypeOK
<1>6. QED
  BY <1>1, <1>2, <1>4, <1>5, UnservedStep

\* A pop serves the taker that calls it.
LEMMA PopServes ==
    ASSUME TypeOK, UnservedInv, NEW t \in Takers, Pop(t), Unserved(t), Goto(t, "done"),
           t \notin ToSet(recvWaiters)
    PROVE  UnservedInv'
<1>1. UNCHANGED recvWaiters /\ t \in Parties /\ "done" \in Locations
  BY WhoIsWho DEF Pop, Locations
<1>2. \A u \in Takers : u # t => value'[u] = value[u]
  BY DEF Pop, TypeOK
<1>3. ~Unserved(t)'
  BY <1>1 DEF Unserved, Goto, TypeOK
<1>4. QED
  BY <1>1, <1>2, <1>3, UnservedStep DEF UnservedInv

-----------------------------------------------------------------------------
\* The pieces of the critical sections as steps of the contract.

\* A buffer has at least as many places as it has different values.
LEMMA StoredFits ==
    ASSUME TypeOK
    PROVE  Cardinality(ToSet(buffer)) <= Len(buffer) /\ Cardinality(ToSet(buffer)) \in Nat
<1> DEFINE n == Len(buffer)
<1>1. n \in Nat /\ DOMAIN buffer = 1..n /\ buffer \in [1..n -> Values]
  BY DEF TypeOK
<1>2. buffer \in Surjection(1..n, ToSet(buffer))
  BY <1>1 DEF ToSet, Surjection
<1>3. IsFiniteSet(1..n) /\ Cardinality(1..n) = n
  BY <1>1, FS_Interval
<1>4. IsFiniteSet(ToSet(buffer)) /\ Cardinality(ToSet(buffer)) <= n
  BY <1>2, <1>3, FS_Surjection
<1>5. QED
  BY <1>4, FS_CardinalityType

\* The contract counts as this module does.
LEMMA SameCardinality == \A S : Contract!Cardinality(S) = Cardinality(S)
BY DEF Contract!Cardinality, Cardinality

\* A value that is not in the channel is fresh to the contract.
LEMMA FreshToContract ==
    ASSUME NEW v \in Values, v \notin InFlight
    PROVE  Contract!Fresh(v)
BY ChannelAssumption DEF InFlight, Got, Contract!Fresh

\* A hand-off passes the value.
LEMMA HandOffKeeps ==
    ASSUME TypeOK, UnservedInv, ~closed, NEW v \in Values, v \notin InFlight,
           recvWaiters # <<>>, HandOff(v), UNCHANGED <<buffer, sendWaiters, closed>>
    PROVE  Contract!Next
<1> DEFINE r == Head(recvWaiters)
<1>1. r \in Takers /\ r \in ToSet(recvWaiters) /\ r \in Receivers
  BY HeadTail, TailHolds DEF TypeOK, Takers
<1>2. value[r] = NoValue
  BY <1>1 DEF UnservedInv, Unserved
<1>3. Contract!Pass(v, r)
  BY <1>2, FreshToContract DEF HandOff, Answer, Contract!Pass, Contract!Give
<1>4. QED
  BY <1>1, <1>3 DEF Contract!Next

\* A push passes the value or stores it.
LEMMA PushKeeps ==
    ASSUME TypeOK, UnservedInv, NEW v \in Values, v \notin InFlight, Push(v)
    PROVE  Contract!Next
<1>1. CASE recvWaiters # <<>>
  BY <1>1, HandOffKeeps DEF Push, CanPush
<1>2. CASE recvWaiters = <<>>
  <2>1. /\ ~closed /\ UNCHANGED <<closed, sendWaiters, value>>
        /\ buffer' = Append(buffer, v) /\ ~IsFull
    BY <1>2 DEF Push, CanPush
  <2>2. ToSet(buffer') = ToSet(buffer) \cup {v}
    BY <2>1, AppendHolds DEF TypeOK
  <2>3. Len(buffer) < Capacity
    BY <2>1, ChannelAssumption DEF IsFull, TypeOK
  <2>4. Cardinality(ToSet(buffer)) < Capacity
    BY <2>3, StoredFits, ChannelAssumption DEF TypeOK
  <2>5. Contract!Store(v)
    BY <2>1, <2>2, <2>4, SameCardinality, FreshToContract DEF Contract!Store
  <2>6. QED
    BY <2>5 DEF Contract!Next
<1>3. QED
  BY <1>1, <1>2

\* A registered sender's value is taken.
LEMMA TakeOfferedKeeps ==
    ASSUME TypeOK, ExactlyOnce, ~closed, NEW t \in Takers, value[t] = NoValue, sendWaiters # <<>>,
           value' = [value EXCEPT ![t] = Head(sendWaiters)],
           sendWaiters' = Tail(sendWaiters), UNCHANGED <<buffer, closed>>
    PROVE  Contract!Next
<1> DEFINE v == Head(sendWaiters)
<1>1. ToSet(sendWaiters) = {v} \cup ToSet(sendWaiters') /\ v \notin ToSet(sendWaiters')
  BY TailHolds DEF TypeOK, ExactlyOnce
<1>2. v \in Values
  BY HeadTail DEF TypeOK, Values
<1>3. Contract!TakeOffered(v, t)
  BY <1>1 DEF Contract!TakeOffered, Contract!Give
<1>4. QED
  BY <1>2, <1>3 DEF Contract!Next

\* A stored value is taken; a registered sender's value takes its room.
LEMMA PopKeeps ==
    ASSUME TypeOK, ExactlyOnce, NEW t \in Takers, value[t] = NoValue, Pop(t)
    PROVE  Contract!Next
<1>1. CASE buffer # <<>>
  <2> DEFINE v == Head(buffer)
  <2>1. /\ ToSet(buffer) = {v} \cup ToSet(Tail(buffer)) /\ v \notin ToSet(Tail(buffer))
        /\ v \in Values /\ Tail(buffer) \in Seq(Values)
    BY <1>1, TailHolds, HeadTail DEF TypeOK, ExactlyOnce
  <2>2. Contract!Give(t, v) /\ UNCHANGED closed /\ v \in ToSet(buffer)
    BY <1>1, <2>1 DEF Pop, Contract!Give
  <2>3. ToSet(Tail(buffer)) = ToSet(buffer) \ {v}
    BY <2>1
  <2>4. CASE sendWaiters = <<>>
    <3>1. buffer' = Tail(buffer) /\ UNCHANGED sendWaiters
      BY <1>1, <2>4 DEF Pop
    <3>2. ToSet(sendWaiters) = {}
      BY <2>4, EmptyHolds
    <3>3. Contract!Take(v, t)
      BY <2>2, <2>3, <3>1, <3>2 DEF Contract!Take
    <3>4. QED
      BY <2>1, <3>3 DEF Contract!Next
  <2>5. CASE sendWaiters # <<>>
    <3> DEFINE w == Head(sendWaiters)
               rest == Tail(buffer)
    <3>1. buffer' = Append(rest, w) /\ sendWaiters' = Tail(sendWaiters)
      BY <1>1, <2>5 DEF Pop, ReleaseSender
    <3>2. /\ ToSet(sendWaiters) = {w} \cup ToSet(sendWaiters')
          /\ w \notin ToSet(sendWaiters') /\ w \in Values
      BY <2>5, <3>1, TailHolds, HeadTail DEF TypeOK, ExactlyOnce, Values
    <3>3. ToSet(buffer') = ToSet(rest) \cup {w}
      <4>1. rest \in Seq(Values) /\ w \in Values /\ buffer' = Append(rest, w)
        BY <2>1, <3>1, <3>2
      <4> HIDE DEF rest, w
      <4>2. QED
        BY <4>1, AppendHolds
    <3>4. sendWaiters' = Tail(sendWaiters) /\ ToSet(sendWaiters') = ToSet(sendWaiters) \ {w}
          /\ w \in ToSet(sendWaiters)
      BY <3>1, <3>2
    <3>5. ToSet(buffer') = (ToSet(buffer) \ {v}) \cup {w}
      BY <2>3, <3>3
    <3>6. Contract!Take(v, t)
      BY <2>2, <3>4, <3>5 DEF Contract!Take
    <3>7. QED
      BY <2>1, <3>6 DEF Contract!Next
  <2>6. QED
    BY <2>4, <2>5
<1>2. CASE buffer = <<>>
  BY <1>2, TakeOfferedKeeps DEF Pop, CanPop, ReleaseSender
<1>3. QED
  BY <1>1, <1>2

\* A step that changes nothing the contract sees.
LEMMA NothingSeen ==
    ASSUME UNCHANGED <<buffer, sendWaiters, closed, value>>
    PROVE  UNCHANGED Contract!vars
BY DEF Contract!vars

-----------------------------------------------------------------------------
\* The first state.
LEMMA KeepInit == Init => UnservedInv /\ Contract!Init
<1> SUFFICES ASSUME Init PROVE UnservedInv /\ Contract!Init
  OBVIOUS
<1>1. /\ buffer = <<>> /\ sendWaiters = <<>> /\ recvWaiters = <<>> /\ closed = FALSE
      /\ value = [t \in Takers |-> NoValue]
  BY DEF Init
<1>2. ToSet(buffer) = {} /\ ToSet(sendWaiters) = {} /\ ToSet(recvWaiters) = {}
      /\ IsInjective(recvWaiters)
  BY <1>1, EmptyHolds
<1>3. QED
  BY <1>1, <1>2 DEF UnservedInv, Contract!Init

Keeps == UnservedInv' /\ [Contract!Next]_(Contract!vars)

\* Every step keeps the invariant and is a step of the contract, or one that
\* the contract does not see.
LEMMA KeepStep == KeepInv /\ [Next]_vars => Keeps
<1> SUFFICES ASSUME KeepInv, [Next]_vars PROVE Keeps
  OBVIOUS
<1>0. TypeOK /\ ExactlyOnce /\ UnservedInv /\ (\A v \in InFlight : GivenAway(v))
  BY DEF KeepInv, OnceInv
<1>a. \A l \in {"unready", "suspended", "requeued", "done", "refused", "closing", "skipped"} : l \in Locations
  BY DEF Locations
<1>1. ASSUME NEW s \in Senders, SendReady(s) PROVE Keeps
  <2>1. s \in Values /\ s \in Parties /\ s \notin InFlight /\ Push(s) /\ Goto(s, "done")
    BY <1>0, <1>1, WhoIsWho DEF Values, Coroutines, SendReady, GivenAway
  <2>2. UnservedInv'
    <3>1. CASE recvWaiters # <<>>
      BY <1>0, <2>1, <3>1, HandOffServes DEF Push
    <3>2. CASE recvWaiters = <<>>
      BY <1>0, <1>a, <2>1, <3>2, UnservedStill DEF Push
    <3>3. QED
      BY <3>1, <3>2
  <2>3. QED
    BY <1>0, <2>1, <2>2, PushKeeps DEF Keeps
<1>2. ASSUME NEW s \in Senders, SendUnready(s) PROVE Keeps
  BY <1>0, <1>2, <1>a, WhoIsWho, UnservedStill, NothingSeen DEF SendUnready, lists, Keeps, Coroutines
<1>3. ASSUME NEW s \in Senders, SendSuspend(s) PROVE Keeps
  <2>1. s \in Values /\ s \in Parties /\ s \notin InFlight /\ Goto(s, "suspended") /\ UNCHANGED closed
    BY <1>0, <1>3, WhoIsWho DEF Values, Coroutines, SendSuspend, GivenAway
  <2>2. CASE closed
    BY <1>0, <1>3, <1>a, <2>1, <2>2, UnservedStill, NothingSeen DEF SendSuspend, lists, Keeps
  <2>3. CASE ~closed /\ recvWaiters # <<>>
    BY <1>0, <1>3, <2>1, <2>3, HandOffServes, HandOffKeeps DEF SendSuspend, Keeps
  <2>4. CASE ~closed /\ recvWaiters = <<>>
    <3>1. sendWaiters' = Append(sendWaiters, s) /\ UNCHANGED <<buffer, recvWaiters, value>>
      BY <1>3, <2>4 DEF SendSuspend
    <3>2. ToSet(sendWaiters') = ToSet(sendWaiters) \cup {s}
      BY <1>0, <3>1, AppendHolds DEF TypeOK
    <3>3. Contract!Offer(s)
      BY <2>1, <2>4, <3>1, <3>2, FreshToContract DEF Contract!Offer
    <3>4. QED
      BY <1>0, <1>a, <2>1, <3>1, <3>3, UnservedStill DEF Keeps, Contract!Next
  <2>5. QED
    BY <2>2, <2>3, <2>4
<1>4. ASSUME NEW r \in Receivers, RecvReady(r) PROVE Keeps
  <2>1. r \in Takers /\ Unserved(r) /\ Pop(r) /\ Goto(r, "done") /\ r \notin ToSet(recvWaiters)
    BY <1>0, <1>4 DEF RecvReady, Takers, Unserved, UnservedInv
  <2>2. value[r] = NoValue
    BY <1>0, <2>1 DEF UnservedInv
  <2>3. QED
    BY <1>0, <2>1, <2>2, PopServes, PopKeeps DEF Keeps
<1>5. ASSUME NEW r \in Receivers, RecvUnready(r) PROVE Keeps
  BY <1>0, <1>5, <1>a, WhoIsWho, UnservedStill, NothingSeen DEF RecvUnready, lists, Keeps, Coroutines
<1>6. ASSUME NEW r \in Receivers, RecvSuspend(r) PROVE Keeps
  <2>1. r \in Takers /\ r \in Parties /\ Unserved(r) /\ Goto(r, "suspended") /\ UNCHANGED <<buffer, closed>>
        /\ r \notin ToSet(recvWaiters)
    BY <1>0, <1>6, WhoIsWho DEF RecvSuspend, Takers, Unserved, UnservedInv
  <2>2. value[r] = NoValue
    BY <1>0, <2>1 DEF UnservedInv
  <2>3. CASE closed
    BY <1>0, <1>6, <1>a, <2>1, <2>3, UnservedStill, NothingSeen DEF RecvSuspend, Keeps
  <2>4. CASE ~closed /\ sendWaiters # <<>>
    <3>1. /\ value' = [value EXCEPT ![r] = Head(sendWaiters)]
          /\ sendWaiters' = Tail(sendWaiters) /\ UNCHANGED recvWaiters
      BY <1>6, <2>4 DEF RecvSuspend
    <3>2. \A t \in Takers : t # r => value'[t] = value[t]
      BY <1>0, <3>1 DEF TypeOK
    <3>3. ~Unserved(r)'
      BY <1>0, <2>1, <3>1, WhoIsWho DEF Unserved, Goto, TypeOK
    <3>4. UnservedInv'
      BY <1>0, <1>a, <2>1, <3>1, <3>2, <3>3, UnservedStep DEF UnservedInv
    <3>5. QED
      BY <1>0, <2>1, <2>2, <2>4, <3>1, <3>4, TakeOfferedKeeps DEF Keeps
  <2>5. CASE ~closed /\ sendWaiters = <<>>
    <3>1. recvWaiters' = Append(recvWaiters, r) /\ UNCHANGED <<sendWaiters, value>>
      BY <1>6, <2>5 DEF RecvSuspend
    <3>2. ToSet(recvWaiters') = ToSet(recvWaiters) \cup {r} /\ IsInjective(recvWaiters')
      BY <1>0, <2>1, <3>1, AppendHolds DEF TypeOK, UnservedInv
    <3>3. UnservedInv'
      BY <1>0, <1>a, <2>1, <3>1, <3>2, UnservedStep
    <3>4. QED
      BY <2>1, <3>1, <3>3, NothingSeen DEF Keeps
  <2>6. QED
    BY <2>3, <2>4, <2>5
<1>7. ASSUME NEW c \in Coroutines, Requeue(c) \/ Resume(c) PROVE Keeps
  <2>1. PICK l \in {"requeued", "done"} : Goto(c, l)
    BY <1>7 DEF Requeue, Resume
  <2>2. c \in Parties /\ UNCHANGED <<buffer, sendWaiters, recvWaiters, closed, value>>
    BY <1>7, WhoIsWho DEF Requeue, Resume, lists
  <2>3. QED
    BY <1>0, <1>a, <2>1, <2>2, UnservedStill, NothingSeen DEF Keeps
<1>8. ASSUME NEW p \in Pushers, TrySend(p) PROVE Keeps
  <2>1. p \in Values /\ p \in Parties /\ p \notin InFlight /\ Push(p) /\ Goto(p, "done")
    BY <1>0, <1>8, WhoIsWho DEF Values, TrySend, GivenAway
  <2>2. UnservedInv'
    <3>1. CASE recvWaiters # <<>>
      BY <1>0, <2>1, <3>1, HandOffServes DEF Push
    <3>2. CASE recvWaiters = <<>>
      BY <1>0, <1>a, <2>1, <3>2, UnservedStill DEF Push
    <3>3. QED
      BY <3>1, <3>2
  <2>3. QED
    BY <1>0, <2>1, <2>2, PushKeeps DEF Keeps
<1>9. ASSUME NEW p \in Pushers, TrySendRefused(p) PROVE Keeps
  BY <1>0, <1>9, <1>a, WhoIsWho, UnservedStill, NothingSeen DEF TrySendRefused, lists, Keeps
<1>10. ASSUME NEW q \in Pollers, TryRecv(q) PROVE Keeps
  <2>1. ToSet(recvWaiters) \subseteq Receivers
    BY <1>0 DEF TypeOK, ToSet
  <2>2. q \in Takers /\ Unserved(q) /\ Pop(q) /\ Goto(q, "done") /\ q \notin ToSet(recvWaiters)
    BY <1>10, <2>1, WhoIsWho DEF TryRecv, Takers, Unserved
  <2>3. value[q] = NoValue
    BY <1>0, <2>2 DEF UnservedInv
  <2>4. QED
    BY <1>0, <2>2, <2>3, PopServes, PopKeeps DEF Keeps
<1>11. ASSUME NEW q \in Pollers, TryRecvRefused(q) PROVE Keeps
  BY <1>0, <1>11, <1>a, WhoIsWho, UnservedStill, NothingSeen DEF TryRecvRefused, lists, Keeps
<1>12. ASSUME NEW k \in Closers, CloseMark(k) PROVE Keeps
  <2>1. PICK l \in {"closing", "skipped"} : Goto(k, l)
    BY <1>12 DEF CloseMark
  <2>2. k \in Parties /\ closed' = TRUE /\ UNCHANGED <<buffer, sendWaiters, recvWaiters, value>>
    BY <1>12, WhoIsWho DEF CloseMark, lists
  <2>3. UnservedInv'
    BY <1>0, <1>a, <2>1, <2>2, UnservedStill
  <2>4. CASE closed
    BY <2>2, <2>3, <2>4, NothingSeen DEF Keeps, Contract!vars
  <2>5. CASE ~closed
    BY <2>2, <2>3, <2>5 DEF Keeps, Contract!Next, Contract!Close
  <2>6. QED
    BY <1>0, <2>4, <2>5 DEF TypeOK
<1>13. ASSUME NEW k \in Closers, CloseWake(k) PROVE Keeps
  <2>1. k \in Parties /\ Goto(k, "done") /\ sendWaiters' = <<>> /\ recvWaiters' = <<>>
        /\ UNCHANGED <<buffer, closed, value>>
    BY <1>13, WhoIsWho DEF CloseWake
  <2>2. ToSet(sendWaiters') = {} /\ ToSet(recvWaiters') = {} /\ IsInjective(recvWaiters')
    BY <2>1, EmptyHolds
  <2>3. UnservedInv'
    BY <1>0, <1>a, <2>1, <2>2, UnservedStep
  <2>4. closed
    BY <1>13 DEF KeepInv, CloseInv, Closing, CloseWake
  <2>5. QED
    BY <2>1, <2>2, <2>3, <2>4 DEF Keeps, Contract!Next, Contract!Discard
<1>14. CASE UNCHANGED vars
  BY <1>0, <1>14, NothingSeen DEF vars, UnservedInv, Unserved, Keeps
<1>15. QED
  BY <1>1, <1>2, <1>3, <1>4, <1>5, <1>6, <1>7, <1>8, <1>9, <1>10, <1>11, <1>12, <1>13, <1>14 DEF Next

\* try_send, try_recv, the two registrations and close() keep the contract's
\* promise, whatever the interleaving, the capacity and the parties.
THEOREM Implements == Spec => KeepsContract
<1>1. Init => KeepInv /\ Contract!Init
  BY OnceInit, CloseInit, KeepInit DEF KeepInv
<1>2. KeepInv /\ [Next]_vars => KeepInv' /\ [Contract!Next]_(Contract!vars)
  BY OnceStep, CloseStep, KeepStep DEF KeepInv, Keeps
<1>3. QED
  BY <1>1, <1>2, PTL DEF Spec, KeepsContract, Contract!Spec

-----------------------------------------------------------------------------
\* What the contract says of the values, seen from the channel.

Kept == ToSet(buffer) \cup Got

\* A stored or received value stays so; on an open channel every value stays;
\* on a closed one none comes in.
LEMMA ContractOfValues ==
    ASSUME TypeOK, TypeOK', [Contract!Next]_(Contract!vars)
    PROVE  /\ Kept \subseteq Kept' /\ Got \subseteq Got'
           /\ ~closed' => InFlight \subseteq InFlight'
           /\ closed => InFlight' \subseteq InFlight /\ closed'
<1>1. NoValue \notin Values
  BY ChannelAssumption
<1> USE DEF Kept, InFlight, Got
<1>2. ASSUME NEW t \in Takers, NEW v \in Values, Contract!Give(t, v)
      PROVE  Got' = Got \cup {v}
  <2>1. value[t] = NoValue /\ \A u \in Takers : value'[u] = IF u = t THEN v ELSE value[u]
    BY <1>2 DEF Contract!Give, TypeOK
  <2>2. QED
    BY <1>1, <2>1
<1>3. closed \in BOOLEAN /\ closed' \in BOOLEAN
  BY DEF TypeOK
<1>4. ASSUME NEW v \in Values, Contract!Store(v) \/ Contract!Offer(v)
      PROVE  /\ Kept \subseteq Kept' /\ Got \subseteq Got' /\ InFlight \subseteq InFlight' /\ ~closed
  BY <1>4 DEF Contract!Store, Contract!Offer
<1>5. ASSUME NEW v \in Values, NEW t \in Takers, Contract!Pass(v, t)
      PROVE  /\ Kept \subseteq Kept' /\ Got \subseteq Got' /\ InFlight \subseteq InFlight' /\ ~closed
  <2>1. Got' = Got \cup {v}
    BY <1>2, <1>5 DEF Contract!Pass
  <2>2. QED
    BY <1>5, <2>1 DEF Contract!Pass
<1>6. ASSUME NEW v \in Values, NEW t \in Takers, Contract!Take(v, t)
      PROVE  /\ Kept \subseteq Kept' /\ Got \subseteq Got' /\ InFlight' = InFlight /\ closed' = closed
  <2>1. Got' = Got \cup {v} /\ v \in ToSet(buffer)
    BY <1>2, <1>6 DEF Contract!Take
  <2>2. closed' = closed
    BY <1>3, <1>6 DEF Contract!Take
  <2>3. CASE ToSet(buffer)' = ToSet(buffer) \ {v} /\ UNCHANGED ToSet(sendWaiters)
    BY <2>1, <2>2, <2>3
  <2>4. CASE \E w \in ToSet(sendWaiters) : /\ ToSet(buffer)' = (ToSet(buffer) \ {v}) \cup {w}
                                           /\ ToSet(sendWaiters)' = ToSet(sendWaiters) \ {w}
    BY <2>1, <2>2, <2>4
  <2>5. QED
    BY <1>6, <2>3, <2>4 DEF Contract!Take
<1>7. ASSUME NEW v \in Values, NEW t \in Takers, Contract!TakeOffered(v, t)
      PROVE  /\ Kept \subseteq Kept' /\ Got \subseteq Got' /\ InFlight' = InFlight /\ closed' = closed
  <2>1. Got' = Got \cup {v}
    BY <1>2, <1>7 DEF Contract!TakeOffered
  <2>2. QED
    BY <1>3, <1>7, <2>1 DEF Contract!TakeOffered
<1>8. ASSUME Contract!Close
      PROVE  /\ Kept \subseteq Kept' /\ Got \subseteq Got' /\ InFlight' = InFlight /\ ~closed
  BY <1>8 DEF Contract!Close
<1>9. ASSUME Contract!Discard
      PROVE  /\ Kept \subseteq Kept' /\ Got \subseteq Got' /\ InFlight' \subseteq InFlight /\ closed /\ closed'
  BY <1>3, <1>9 DEF Contract!Discard
<1>10. ASSUME UNCHANGED Contract!vars
       PROVE  /\ Kept \subseteq Kept' /\ Got \subseteq Got' /\ InFlight' = InFlight /\ closed' = closed
  BY <1>3, <1>10 DEF Contract!vars
<1>11. QED
  BY <1>3, <1>4, <1>5, <1>6, <1>7, <1>8, <1>9, <1>10 DEF Contract!Next

\* The step of an invariant state, with what it rests on.
LEMMA KeepAll ==
    KeepInv /\ [Next]_vars => KeepInv' /\ [Contract!Next]_(Contract!vars)
BY OnceStep, CloseStep, KeepStep DEF KeepInv, Keeps

\* Nothing enters a closed channel.
THEOREM NothingEntersClosed == Spec => ClosedAdmitsNothing
<1>1. KeepInv /\ [Next]_vars => [closed => InFlight' \subseteq InFlight]_vars
  <2> SUFFICES ASSUME KeepInv, [Next]_vars PROVE closed => InFlight' \subseteq InFlight
    OBVIOUS
  <2>1. TypeOK /\ TypeOK' /\ [Contract!Next]_(Contract!vars)
    BY KeepAll DEF KeepInv, OnceInv
  <2>2. QED
    BY <2>1, ContractOfValues
<1>2. Init => KeepInv
  BY OnceInit, CloseInit, KeepInit DEF KeepInv
<1>3. KeepInv /\ [Next]_vars => KeepInv'
  BY KeepAll
<1>4. QED
  BY <1>1, <1>2, <1>3, PTL DEF Spec, ClosedAdmitsNothing

\* Where a value is after its hand-off or its push.
LEMMA HandOffHolds ==
    ASSUME TypeOK, NEW v \in Values, recvWaiters # <<>>, HandOff(v)
    PROVE  v \in Got'
<1>1. PICK r \in Takers : r = Head(recvWaiters)
  BY HeadTail DEF TypeOK, Takers
<1>2. value'[r] = v /\ v # NoValue
  BY <1>1, ChannelAssumption DEF HandOff, Answer, TypeOK
<1>3. QED
  BY <1>2 DEF Got

\* The same of a push.
LEMMA PushHolds ==
    ASSUME TypeOK, NEW v \in Values, Push(v)
    PROVE  v \in Kept'
<1>1. CASE recvWaiters # <<>>
  BY <1>1, HandOffHolds DEF Push, Kept
<1>2. CASE recvWaiters = <<>>
  <2>1. buffer' = Append(buffer, v) /\ buffer \in Seq(Values)
    BY <1>2 DEF Push, TypeOK
  <2>2. ToSet(buffer') = ToSet(buffer) \cup {v}
    BY <2>1, AppendHolds
  <2>3. QED
    BY <2>2 DEF Kept
<1>3. QED
  BY <1>1, <1>2

Gone(s) == pc[s] \in {"suspended", "requeued", "done"}

\* A pusher that finishes and a sender that gets past its critical sections
\* have put their value in, on an open channel.
LEMMA HolderStep ==
    ASSUME TypeOK, Next
    PROVE  /\ \A p \in Pushers : pc'[p] = "done" => pc[p] = "done" \/ p \in Kept'
           /\ \A s \in Senders : Gone(s)' /\ ~closed' => Gone(s) \/ s \in InFlight'
<1> DEFINE Good ==
        /\ \A p \in Pushers : pc'[p] = "done" => pc[p] = "done" \/ p \in Kept'
        /\ \A s \in Senders : Gone(s)' /\ ~closed' => Gone(s) \/ s \in InFlight'
<1>1. ASSUME NEW q \in Parties, NEW l, Goto(q, l),
             q \in Pushers /\ l = "done" => q \in Kept',
             q \in Senders /\ l \in {"suspended", "requeued", "done"} /\ ~closed' =>
                 q \in InFlight' \/ Gone(q)
      PROVE  Good
  <2>1. \A p \in Parties : pc'[p] = IF p = q THEN l ELSE pc[p]
    BY <1>1 DEF Goto, TypeOK
  <2>2. \A p \in Senders \cup Pushers : p \in Parties
    BY WhoIsWho DEF Coroutines
  <2>3. QED
    BY <1>1, <2>1, <2>2 DEF Gone
<1>2. Senders \cup Pushers \subseteq Values /\ Kept' \subseteq InFlight'
      /\ Senders \cap (Receivers \cup Pushers \cup Pollers \cup Closers) = {}
      /\ Pushers \cap (Senders \cup Receivers \cup Pollers \cup Closers) = {}
  BY ChannelAssumption DEF Values, Kept, InFlight
<1> HIDE DEF Good
<1>3. ASSUME NEW s \in Senders, SendReady(s) PROVE Good
  BY <1>1, <1>2, <1>3, WhoIsWho, PushHolds DEF SendReady, Coroutines
<1>4. ASSUME NEW s \in Senders, SendUnready(s) PROVE Good
  BY <1>1, <1>2, <1>4, WhoIsWho DEF SendUnready, Coroutines
<1>5. ASSUME NEW s \in Senders, SendSuspend(s) PROVE Good
  <2>1. s \in Parties /\ s \in Values /\ s \notin Pushers /\ Goto(s, "suspended") /\ closed' = closed
    BY <1>2, <1>5, WhoIsWho DEF SendSuspend, Coroutines
  <2>2. CASE closed
    BY <1>1, <2>1, <2>2
  <2>3. CASE ~closed /\ recvWaiters # <<>>
    <3>1. s \in Got'
      BY <1>5, <2>1, <2>3, HandOffHolds DEF SendSuspend
    <3>2. s \in InFlight'
      BY <3>1 DEF InFlight
    <3>3. QED
      BY <1>1, <2>1, <3>2
  <2>4. CASE ~closed /\ recvWaiters = <<>>
    <3>1. sendWaiters' = Append(sendWaiters, s)
      BY <1>5, <2>4 DEF SendSuspend
    <3>2. s \in ToSet(sendWaiters')
      BY <3>1, AppendHolds DEF TypeOK
    <3>3. s \in InFlight'
      BY <3>2 DEF InFlight
    <3>4. QED
      BY <1>1, <2>1, <3>3
  <2>5. QED
    BY <2>2, <2>3, <2>4
<1>6. ASSUME NEW r \in Receivers, RecvReady(r) \/ RecvUnready(r) \/ RecvSuspend(r) PROVE Good
  <2>1. r \in Parties /\ r \notin Senders \cup Pushers /\ \E l : Goto(r, l)
    BY <1>2, <1>6, WhoIsWho DEF RecvReady, RecvUnready, RecvSuspend, Coroutines
  <2>2. QED
    BY <1>1, <2>1
<1>7. ASSUME NEW c \in Coroutines, Requeue(c) \/ Resume(c) PROVE Good
  <2>1. c \in Parties /\ c \notin Pushers /\ Gone(c) /\ \E l : Goto(c, l)
    BY <1>2, <1>7, WhoIsWho DEF Requeue, Resume, Coroutines, Gone
  <2>2. QED
    BY <1>1, <2>1
<1>8. ASSUME NEW p \in Pushers, TrySend(p) \/ TrySendRefused(p) PROVE Good
  BY <1>1, <1>2, <1>8, WhoIsWho, PushHolds DEF TrySend, TrySendRefused
<1>9. ASSUME NEW q \in Pollers, TryRecv(q) \/ TryRecvRefused(q) PROVE Good
  <2>1. q \in Parties /\ q \notin Senders \cup Pushers /\ \E l : Goto(q, l)
    BY <1>2, <1>9, WhoIsWho DEF TryRecv, TryRecvRefused
  <2>2. QED
    BY <1>1, <2>1
<1>10. ASSUME NEW k \in Closers, CloseMark(k) \/ CloseWake(k) PROVE Good
  <2>1. k \in Parties /\ k \notin Senders \cup Pushers /\ \E l : Goto(k, l)
    BY <1>2, <1>10, WhoIsWho DEF CloseMark, CloseWake
  <2>2. QED
    BY <1>1, <2>1
<1>11. QED
  BY <1>3, <1>4, <1>5, <1>6, <1>7, <1>8, <1>9, <1>10 DEF Next, Good

\* What try_send took is buffered or was written to somebody's destination, and
\* what co_await ch.send took only a close removes.
Held ==
    /\ \A p \in Pushers : pc[p] = "done" => p \in Kept
    /\ \A s \in Senders : Gone(s) /\ ~closed => s \in InFlight

LEMMA ValuesAreHeld == Spec => []Held
<1>1. Init => KeepInv /\ Held
  <2>1. ASSUME Init PROVE \A p \in Pushers \cup Senders : pc[p] = "idle"
    BY <2>1, WhoIsWho DEF Init, Coroutines
  <2>2. Init => Held
    BY <2>1 DEF Held, Gone
  <2>3. QED
    BY <2>2, OnceInit, CloseInit, KeepInit DEF KeepInv
<1>2. KeepInv /\ Held /\ [Next]_vars => KeepInv' /\ Held'
  <2> SUFFICES ASSUME KeepInv, Held, [Next]_vars PROVE Held'
    BY KeepAll
  <2>1. TypeOK /\ TypeOK' /\ [Contract!Next]_(Contract!vars)
    BY KeepAll DEF KeepInv, OnceInv
  <2>2. /\ Kept \subseteq Kept'
        /\ ~closed' => InFlight \subseteq InFlight' /\ ~closed
    BY <2>1, ContractOfValues
  <2>3. /\ \A p \in Pushers : pc'[p] = "done" => pc[p] = "done" \/ p \in Kept'
        /\ \A s \in Senders : Gone(s)' /\ ~closed' => Gone(s) \/ s \in InFlight'
    <3>1. CASE Next
      BY <2>1, <3>1, HolderStep
    <3>2. CASE UNCHANGED vars
      BY <3>2 DEF vars, Gone
    <3>3. QED
      BY <3>1, <3>2
  <2>4. QED
    BY <2>2, <2>3 DEF Held
<1>3. QED
  BY <1>1, <1>2, PTL DEF Spec

-----------------------------------------------------------------------------
\* The inductive invariant counts, for each coroutine, the handles that are
\* queued for it or will be when its waiter is served: one at most, and one
\* more that its driver queues.  Serving a waiter leaves that number as it is.
Due(c) == wakeups[c] + IF Registered(c) THEN 1 ELSE 0

\* Nobody waits before it suspends, and who is suspended does wait: only a
\* sender whose value was taken may be suspended for nothing.  One that nobody
\* drives waits only while it is suspended.
Well(c) ==
    /\ pc[c] \in {"idle", "unready"} => Due(c) = 0
    /\ pc[c] = "suspended" => Due(c) = 1 \/ (c \in Senders /\ c \in Got)
    /\ Due(c) <= IF pc[c] = "requeued" THEN 2 ELSE 1
    /\ c \notin Driven =>
           /\ pc[c] # "requeued"
           /\ pc[c] # "suspended" => Due(c) = 0

Distinct == IsInjective(sendWaiters) /\ IsInjective(recvWaiters)

WakeInv ==
    /\ TypeOK
    /\ Distinct
    /\ \A c \in Coroutines : Well(c)

\* What a step does with waiters: those of W leave their list and get one
\* wakeup, the others stay as they are.
Wakes(W) ==
    \A c \in Coroutines :
        IF c \in W THEN Registered(c) /\ ~Registered(c)' /\ wakeups'[c] = wakeups[c] + 1
                   ELSE (Registered(c)' <=> Registered(c)) /\ wakeups'[c] = wakeups[c]

\* Nothing happens to the lists.
LEMMA NobodyWakes ==
    ASSUME Distinct, UNCHANGED <<sendWaiters, recvWaiters, wakeups>>
    PROVE  Wakes({}) /\ Distinct'
BY DEF Wakes, Distinct, Registered

\* Which side a waiter is on.
LEMMA SideOf ==
    ASSUME TypeOK
    PROVE  /\ ToSet(sendWaiters) \subseteq Senders
           /\ ToSet(recvWaiters) \subseteq Receivers
           /\ ToSet(sendWaiters) \cap ToSet(recvWaiters) = {}
<1>1. ToSet(sendWaiters) \subseteq Senders /\ ToSet(recvWaiters) \subseteq Receivers
  BY DEF TypeOK, ToSet
<1>2. QED
  BY <1>1, ChannelAssumption

\* A hand-off wakes the first registered receiver.
LEMMA HandOffWakes ==
    ASSUME TypeOK, Distinct, recvWaiters # <<>>, NEW v, HandOff(v), UNCHANGED sendWaiters
    PROVE  Wakes({Head(recvWaiters)}) /\ Distinct'
<1> DEFINE r == Head(recvWaiters)
<1>1. /\ ToSet(recvWaiters) = {r} \cup ToSet(recvWaiters')
      /\ r \notin ToSet(recvWaiters') /\ IsInjective(recvWaiters')
  BY TailHolds DEF TypeOK, Distinct, HandOff
<1>2. r \notin ToSet(sendWaiters)
  BY <1>1, SideOf
<1>3. \A c \in Coroutines : wakeups'[c] = IF c = r THEN wakeups[c] + 1 ELSE wakeups[c]
  BY DEF HandOff, Schedule
<1>4. QED
  BY <1>1, <1>2, <1>3 DEF Wakes, Distinct, Registered

\* ReleaseSender wakes the first registered sender.
LEMMA ReleaseWakes ==
    ASSUME TypeOK, Distinct, sendWaiters # <<>>, ReleaseSender, UNCHANGED recvWaiters
    PROVE  Wakes({Head(sendWaiters)}) /\ Distinct'
<1> DEFINE s == Head(sendWaiters)
<1>1. /\ ToSet(sendWaiters) = {s} \cup ToSet(sendWaiters')
      /\ s \notin ToSet(sendWaiters') /\ IsInjective(sendWaiters')
  BY TailHolds DEF TypeOK, Distinct, ReleaseSender
<1>2. s \notin ToSet(recvWaiters)
  BY <1>1, SideOf
<1>3. \A c \in Coroutines : wakeups'[c] = IF c = s THEN wakeups[c] + 1 ELSE wakeups[c]
  BY DEF ReleaseSender, Schedule
<1>4. QED
  BY <1>1, <1>2, <1>3 DEF Wakes, Distinct, Registered

\* A push or a pop wakes at most one waiter of the other side.
LEMMA PushWakes ==
    ASSUME TypeOK, Distinct, NEW v, Push(v)
    PROVE  Distinct' /\ \E W : Wakes(W)
BY HandOffWakes, NobodyWakes DEF Push

\* The same of a pop.
LEMMA PopWakes ==
    ASSUME TypeOK, Distinct, NEW t, Pop(t)
    PROVE  Distinct' /\ \E W : Wakes(W)
<1>1. (sendWaiters # <<>> /\ ReleaseSender) \/ UNCHANGED <<sendWaiters, wakeups>>
  BY DEF Pop, CanPop
<1>2. UNCHANGED recvWaiters
  BY DEF Pop
<1>3. QED
  BY <1>1, <1>2, ReleaseWakes, NobodyWakes

-----------------------------------------------------------------------------
\* Who is registered is not counted apart from who is not.
LEMMA DueIs ==
    ASSUME TypeOK, NEW c \in Coroutines
    PROVE  /\ Due(c) \in Nat /\ wakeups[c] \in Nat /\ c \in Parties
           /\ Registered(c) => Due(c) = wakeups[c] + 1
           /\ ~Registered(c) => Due(c) = wakeups[c]
BY DEF Due, TypeOK, Parties

\* Waking leaves the count as it is.
LEMMA WakesKeepDue ==
    ASSUME TypeOK, NEW W, Wakes(W)
    PROVE  \A c \in Coroutines : Due(c)' = Due(c)
<1> SUFFICES ASSUME NEW c \in Coroutines PROVE Due(c)' = Due(c)
  OBVIOUS
<1>1. wakeups[c] \in Nat
  BY DEF TypeOK
<1>2. CASE c \in W
  BY <1>1, <1>2 DEF Wakes, Due
<1>3. CASE c \notin W
  BY <1>3 DEF Wakes, Due
<1>4. QED
  BY <1>2, <1>3

\* A step of p to l that leaves p well, and the count of the others.
LEMMA MoverWell ==
    ASSUME WakeInv, NEW p \in Parties, NEW l, Goto(p, l),
           \A c \in Coroutines : c # p => Due(c)' = Due(c),
           p \in Coroutines => Well(p)', Got \subseteq Got'
    PROVE  \A c \in Coroutines : Well(c)'
<1>1. \A c \in Coroutines : c # p => pc'[c] = pc[c]
  BY DEF WakeInv, TypeOK, Goto, Parties
<1>2. QED
  BY <1>1 DEF WakeInv, Well

\* A coroutine that gets its answer at once, a party that is no coroutine.
LEMMA PasserWell ==
    ASSUME WakeInv, NEW p \in Parties, NEW l \in {"unready", "done", "refused", "closing", "skipped"},
           Goto(p, l), p \in Coroutines => pc[p] = "idle", NEW W, Wakes(W),
           Got \subseteq Got'
    PROVE  \A c \in Coroutines : Well(c)'
<1>1. TypeOK /\ \A c \in Coroutines : Due(c)' = Due(c)
  BY WakesKeepDue DEF WakeInv
<1>2. pc'[p] = l
  BY <1>1 DEF Goto, TypeOK
<1>3. p \in Coroutines => Well(p)'
  BY <1>1, <1>2 DEF WakeInv, Well
<1>4. QED
  BY <1>1, <1>3, MoverWell

\* A coroutine that suspends.
LEMMA SuspenderWell ==
    ASSUME WakeInv, NEW p \in Coroutines, Goto(p, "suspended"),
           \A c \in Coroutines : c # p => Due(c)' = Due(c),
           Due(p)' = 1 \/ (Due(p)' = 0 /\ p \in Senders /\ p \in Got'), Got \subseteq Got'
    PROVE  \A c \in Coroutines : Well(c)'
<1>1. p \in Parties /\ pc'[p] = "suspended"
  BY DEF WakeInv, TypeOK, Goto, Parties
<1>2. Well(p)'
  BY <1>1 DEF Well
<1>3. QED
  BY <1>1, <1>2, MoverWell

\* A coroutine that has not suspended is in no list and has no wakeup.
LEMMA RunningIsFree ==
    ASSUME WakeInv, NEW c \in Coroutines, pc[c] \in {"idle", "unready"}
    PROVE  ~Registered(c) /\ wakeups[c] = 0
<1>1. Due(c) = 0 /\ TypeOK
  BY DEF WakeInv, Well
<1>2. QED
  BY <1>1, DueIs

\* A coroutine that is scheduled as it suspends.
LEMMA ReleasedDue ==
    ASSUME WakeInv, NEW p \in Coroutines, pc[p] = "unready", Schedule({p}),
           UNCHANGED <<sendWaiters, recvWaiters>>
    PROVE  /\ Distinct' /\ Due(p)' = 1
           /\ \A c \in Coroutines : c # p => Due(c)' = Due(c)
<1>1. ~Registered(p) /\ wakeups[p] = 0
  BY RunningIsFree
<1>2. \A c \in Coroutines : /\ Registered(c)' <=> Registered(c)
                            /\ wakeups'[c] = IF c = p THEN wakeups[c] + 1 ELSE wakeups[c]
  BY DEF Registered, Schedule
<1>3. QED
  BY <1>1, <1>2 DEF WakeInv, Distinct, Due

\* A coroutine that registers as it suspends.
LEMMA AppendedDue ==
    ASSUME WakeInv, NEW p \in Coroutines, pc[p] = "unready", UNCHANGED wakeups,
           \/ p \in Senders /\ sendWaiters' = Append(sendWaiters, p) /\ UNCHANGED recvWaiters
           \/ p \in Receivers /\ recvWaiters' = Append(recvWaiters, p) /\ UNCHANGED sendWaiters
    PROVE  /\ Distinct' /\ Due(p)' = 1
           /\ \A c \in Coroutines : c # p => Due(c)' = Due(c)
<1>1. ~Registered(p) /\ wakeups[p] = 0 /\ TypeOK /\ Distinct
  BY RunningIsFree DEF WakeInv
<1>2. p \notin ToSet(sendWaiters) /\ p \notin ToSet(recvWaiters)
  BY <1>1 DEF Registered
<1>3. CASE p \in Senders /\ sendWaiters' = Append(sendWaiters, p) /\ UNCHANGED recvWaiters
  BY <1>1, <1>2, <1>3, AppendHolds DEF TypeOK, Distinct, Registered, Due
<1>4. CASE p \in Receivers /\ recvWaiters' = Append(recvWaiters, p) /\ UNCHANGED sendWaiters
  BY <1>1, <1>2, <1>4, AppendHolds DEF TypeOK, Distinct, Registered, Due
<1>5. QED
  BY <1>3, <1>4

\* register_send_waiter: released at once, or through with its value in a
\* receiver's hands, or registered.
LEMMA SendSuspendWakes ==
    ASSUME WakeInv, NEW s \in Senders, SendSuspend(s), Got \subseteq Got'
    PROVE  Distinct' /\ \A c \in Coroutines : Well(c)'
<1>1. s \in Coroutines /\ TypeOK /\ Distinct /\ Goto(s, "suspended") /\ pc[s] = "unready"
  BY DEF WakeInv, Coroutines, SendSuspend
<1>2. CASE closed
  BY <1>1, <1>2, ReleasedDue, SuspenderWell DEF SendSuspend, lists
<1>3. CASE ~closed /\ recvWaiters # <<>>
  <2>1. Wakes({Head(recvWaiters)}) /\ Distinct'
    BY <1>1, <1>3, HandOffWakes DEF SendSuspend
  <2>2. \A c \in Coroutines : Due(c)' = Due(c)
    BY <1>1, <2>1, WakesKeepDue
  <2>a. s \in Got'
    BY <1>1, <1>3, HandOffHolds DEF SendSuspend, Values
  <2>3. Due(s)' = 0 /\ s \in Senders /\ s \in Got'
    BY <1>1, <2>a, <2>2 DEF WakeInv, Well
  <2>4. QED
    BY <1>1, <2>1, <2>2, <2>3, SuspenderWell
<1>4. CASE ~closed /\ recvWaiters = <<>>
  BY <1>1, <1>4, AppendedDue, SuspenderWell DEF SendSuspend
<1>5. QED
  BY <1>2, <1>3, <1>4

\* register_recv_waiter: released at once, or served and released together
\* with the sender that served it, or registered.
LEMMA RecvSuspendWakes ==
    ASSUME WakeInv, NEW r \in Receivers, RecvSuspend(r), Got \subseteq Got'
    PROVE  Distinct' /\ \A c \in Coroutines : Well(c)'
<1>1. r \in Coroutines /\ TypeOK /\ Distinct /\ Goto(r, "suspended") /\ pc[r] = "unready"
  BY DEF WakeInv, Coroutines, RecvSuspend
<1>2. CASE closed
  BY <1>1, <1>2, ReleasedDue, SuspenderWell DEF RecvSuspend
<1>3. CASE ~closed /\ sendWaiters # <<>>
  <2> PICK s \in Senders : s = Head(sendWaiters)
    BY <1>1, <1>3, HeadTail DEF TypeOK
  <2>1. sendWaiters' = Tail(sendWaiters) /\ UNCHANGED recvWaiters /\ Schedule({r, s})
    BY <1>3 DEF RecvSuspend
  <2>2. /\ ToSet(sendWaiters) = {s} \cup ToSet(sendWaiters')
        /\ s \notin ToSet(sendWaiters') /\ IsInjective(sendWaiters')
    BY <1>1, <1>3, <2>1, TailHolds DEF TypeOK, Distinct
  <2>3. ~Registered(r) /\ wakeups[r] = 0
    BY <1>1, RunningIsFree
  <2>4. s \notin ToSet(recvWaiters) /\ s # r
    BY <1>1, <2>2, <2>3, SideOf DEF Registered
  <2>5. \A c \in Coroutines : wakeups'[c] = IF c \in {r, s} THEN wakeups[c] + 1 ELSE wakeups[c]
    BY <2>1 DEF Schedule
  <2>6. /\ ~Registered(r)' /\ Registered(s) /\ ~Registered(s)'
        /\ \A c \in Coroutines : c \notin {r, s} => (Registered(c)' <=> Registered(c))
    <3>1. /\ \A c : c \in ToSet(sendWaiters) <=> c = s \/ c \in ToSet(sendWaiters')
          /\ recvWaiters' = recvWaiters
      BY <2>1, <2>2
    <3>a. \A c : Registered(c) <=> c = s \/ Registered(c)'
      BY <3>1 DEF Registered
    <3>2. ~Registered(s)'
      BY <2>1, <2>2, <2>4 DEF Registered
    <3>3. QED
      BY <2>3, <3>a, <3>2
  <2>7. Due(r)' = 1
    BY <1>1, <2>3, <2>5, <2>6 DEF Due
  <2>8. ASSUME NEW c \in Coroutines, c # r PROVE Due(c)' = Due(c)
    <3>1. wakeups[c] \in Nat
      BY <1>1 DEF TypeOK
    <3>2. CASE c = s
      BY <2>5, <2>6, <3>1, <3>2 DEF Due
    <3>3. CASE c # s
      BY <2>5, <2>6, <2>8, <3>1, <3>3 DEF Due
    <3>4. QED
      BY <3>2, <3>3
  <2>9. Distinct'
    BY <1>1, <2>1, <2>2 DEF Distinct
  <2>10. QED
    BY <1>1, <2>7, <2>8, <2>9, SuspenderWell
<1>4. CASE ~closed /\ sendWaiters = <<>>
  BY <1>1, <1>4, AppendedDue, SuspenderWell DEF RecvSuspend
<1>5. QED
  BY <1>2, <1>3, <1>4

\* close() wakes everyone in the lists.
LEMMA CloseWakes ==
    ASSUME NEW k \in Closers, CloseWake(k)
    PROVE  Distinct' /\ \E W : Wakes(W)
<1> DEFINE W == ToSet(sendWaiters) \cup ToSet(recvWaiters)
<1>1. sendWaiters' = <<>> /\ recvWaiters' = <<>> /\ Schedule(W)
  BY DEF CloseWake
<1>2. ToSet(sendWaiters') = {} /\ ToSet(recvWaiters') = {} /\ Distinct'
  BY <1>1, EmptyHolds DEF Distinct
<1>3. \A c \in Coroutines : wakeups'[c] = IF c \in W THEN wakeups[c] + 1 ELSE wakeups[c]
  BY <1>1 DEF Schedule
<1>4. Wakes(W)
  BY <1>2, <1>3 DEF Wakes, Registered
<1>5. QED
  BY <1>2, <1>4

\* A coroutine that its driver queues, or that the scheduler resumes, is
\* counted one more or one less.
LEMMA DrivenWell ==
    ASSUME WakeInv, NEW c \in Coroutines, Requeue(c) \/ Resume(c), Got \subseteq Got'
    PROVE  Distinct' /\ \A d \in Coroutines : Well(d)'
<1>1. TypeOK /\ Well(c) /\ c \in Parties /\ UNCHANGED <<sendWaiters, recvWaiters>>
  BY DueIs DEF WakeInv, Requeue, Resume, lists
<1>2. Due(c) \in Nat /\ wakeups[c] \in Nat /\ Due(c) >= wakeups[c]
  BY <1>1, DueIs
<1>3. Distinct' /\ \A d \in Coroutines : Registered(d)' <=> Registered(d)
  BY <1>1 DEF WakeInv, Distinct, Registered
<1>4. \A d \in Coroutines : d # c => wakeups'[d] = wakeups[d]
  BY <1>1 DEF Requeue, Resume, Schedule, TypeOK
<1>5. \A d \in Coroutines : d # c => Due(d)' = Due(d)
  BY <1>3, <1>4 DEF Due
<1>6. CASE Requeue(c)
  <2>1. /\ c \in Driven /\ pc[c] = "suspended" /\ Goto(c, "requeued") /\ pc'[c] = "requeued"
        /\ wakeups'[c] = wakeups[c] + 1
    BY <1>1, <1>6 DEF Requeue, Goto, Schedule, TypeOK
  <2>2. Due(c)' = Due(c) + 1
    BY <1>2, <1>3, <2>1 DEF Due
  <2>3. Well(c)'
    BY <1>1, <1>2, <2>1, <2>2 DEF Well
  <2>4. QED
    BY <1>1, <1>3, <1>5, <2>1, <2>3, MoverWell
<1>7. CASE Resume(c)
  <2>1. /\ pc[c] \in {"suspended", "requeued"} /\ Goto(c, "done") /\ pc'[c] = "done"
        /\ wakeups[c] > 0 /\ wakeups'[c] = wakeups[c] - 1
    BY <1>1, <1>7 DEF Resume, Goto, TypeOK
  <2>2. Due(c)' = Due(c) - 1 /\ Due(c) >= 1
    BY <1>2, <1>3, <2>1 DEF Due
  <2>3. Well(c)'
    BY <1>1, <1>2, <2>1, <2>2 DEF Well
  <2>4. QED
    BY <1>1, <1>3, <1>5, <2>1, <2>3, MoverWell
<1>8. QED
  BY <1>6, <1>7

-----------------------------------------------------------------------------
\* Every step.
LEMMA WakeStep == WakeInv /\ KeepInv /\ [Next]_vars => WakeInv'
<1> SUFFICES ASSUME WakeInv, KeepInv, [Next]_vars
             PROVE  Distinct' /\ \A c \in Coroutines : Well(c)'
  BY TypeStep DEF WakeInv
<1>b. Got \subseteq Got'
  BY KeepAll, ContractOfValues DEF KeepInv, OnceInv
<1>0. TypeOK /\ Distinct /\ \A c \in Coroutines : Well(c)
  BY DEF WakeInv
<1>a. \A p \in Pushers \cup Pollers \cup Closers : p \in Parties /\ p \notin Coroutines
  BY ChannelAssumption DEF Parties, Coroutines
<1>1. ASSUME NEW s \in Senders, SendReady(s) \/ SendUnready(s)
      PROVE  Distinct' /\ \A c \in Coroutines : Well(c)'
  <2>1. s \in Parties /\ pc[s] = "idle" /\ \E l \in {"unready", "done"} : Goto(s, l)
    BY <1>1 DEF Parties, Coroutines, SendReady, SendUnready
  <2>2. Distinct' /\ \E W : Wakes(W)
    BY <1>0, <1>1, PushWakes, NobodyWakes DEF SendReady, SendUnready, lists
  <2>3. QED
    BY <1>b, <2>1, <2>2, PasserWell
<1>2. ASSUME NEW s \in Senders, SendSuspend(s)
      PROVE  Distinct' /\ \A c \in Coroutines : Well(c)'
  BY <1>2, <1>b, SendSuspendWakes
<1>3. ASSUME NEW r \in Receivers, RecvReady(r) \/ RecvUnready(r)
      PROVE  Distinct' /\ \A c \in Coroutines : Well(c)'
  <2>1. r \in Parties /\ pc[r] = "idle" /\ \E l \in {"unready", "done"} : Goto(r, l)
    BY <1>3 DEF Parties, Coroutines, RecvReady, RecvUnready
  <2>2. Distinct' /\ \E W : Wakes(W)
    BY <1>0, <1>3, PopWakes, NobodyWakes DEF RecvReady, RecvUnready, lists
  <2>3. QED
    BY <1>b, <2>1, <2>2, PasserWell
<1>4. ASSUME NEW r \in Receivers, RecvSuspend(r)
      PROVE  Distinct' /\ \A c \in Coroutines : Well(c)'
  BY <1>4, <1>b, RecvSuspendWakes
<1>5. ASSUME NEW c \in Coroutines, Requeue(c) \/ Resume(c)
      PROVE  Distinct' /\ \A d \in Coroutines : Well(d)'
  BY <1>5, <1>b, DrivenWell
<1>6. ASSUME NEW p \in Pushers, TrySend(p) \/ TrySendRefused(p)
      PROVE  Distinct' /\ \A c \in Coroutines : Well(c)'
  <2>1. \E l \in {"refused", "done"} : Goto(p, l)
    BY <1>6 DEF TrySend, TrySendRefused
  <2>2. Distinct' /\ \E W : Wakes(W)
    BY <1>0, <1>6, PushWakes, NobodyWakes DEF TrySend, TrySendRefused, lists
  <2>3. QED
    BY <1>a, <1>b, <2>1, <2>2, PasserWell
<1>7. ASSUME NEW q \in Pollers, TryRecv(q) \/ TryRecvRefused(q)
      PROVE  Distinct' /\ \A c \in Coroutines : Well(c)'
  <2>1. \E l \in {"refused", "done"} : Goto(q, l)
    BY <1>7 DEF TryRecv, TryRecvRefused
  <2>2. Distinct' /\ \E W : Wakes(W)
    BY <1>0, <1>7, PopWakes, NobodyWakes DEF TryRecv, TryRecvRefused, lists
  <2>3. QED
    BY <1>a, <1>b, <2>1, <2>2, PasserWell
<1>8. ASSUME NEW k \in Closers, CloseMark(k) \/ CloseWake(k)
      PROVE  Distinct' /\ \A c \in Coroutines : Well(c)'
  <2>1. \E l \in {"closing", "skipped", "done"} : Goto(k, l)
    BY <1>8 DEF CloseMark, CloseWake
  <2>2. Distinct' /\ \E W : Wakes(W)
    BY <1>0, <1>8, CloseWakes, NobodyWakes DEF CloseMark, lists
  <2>3. QED
    BY <1>a, <1>b, <2>1, <2>2, PasserWell
<1>9. CASE UNCHANGED vars
  BY <1>0, <1>9 DEF vars, Well, Due, Registered, Distinct, Got
<1>10. QED
  BY <1>1, <1>2, <1>3, <1>4, <1>5, <1>6, <1>7, <1>8, <1>9 DEF Next

\* The first state: nobody waits and nobody was woken.
LEMMA WakeInit == Init => WakeInv
<1> SUFFICES ASSUME Init PROVE WakeInv
  OBVIOUS
<1>1. TypeOK
  BY TypeInit
<1>2. sendWaiters = <<>> /\ recvWaiters = <<>>
  BY DEF Init
<1>3. Distinct /\ \A c : ~Registered(c)
  BY <1>2, EmptyHolds DEF Distinct, Registered
<1>4. \A c \in Coroutines : pc[c] = "idle" /\ wakeups[c] = 0
  BY DEF Init, Parties
<1>5. QED
  BY <1>1, <1>3, <1>4 DEF WakeInv, Well, Due

\* Who waits is counted right, always; that a value once received stays so
\* (KeepInv) makes a stranded sender's excuse last.
LEMMA AlwaysWell == Spec => []WakeInv
<1>1. Init => WakeInv /\ KeepInv
  BY WakeInit, OnceInit, CloseInit, KeepInit DEF KeepInv
<1>2. WakeInv /\ KeepInv /\ [Next]_vars => WakeInv' /\ KeepInv'
  BY WakeStep, KeepAll
<1>3. QED
  BY <1>1, <1>2, PTL DEF Spec

\* While a waiter is in a list its coroutine is suspended, nobody has
\* scheduled it, and it is there once: the raw pointers of send_waiter and
\* recv_waiter are good.
THEOREM WaitersAreSuspended == Spec => []WaiterIsSuspended
<1>1. WakeInv => WaiterIsSuspended
  <2> SUFFICES ASSUME WakeInv PROVE WaiterIsSuspended
    OBVIOUS
  <2>1. ASSUME NEW c \in Coroutines \ Driven, Registered(c)
        PROVE  pc[c] = "suspended" /\ wakeups[c] = 0
    <3>1. /\ c \in Coroutines /\ c \notin Driven /\ TypeOK /\ Well(c)
          /\ Due(c) = wakeups[c] + 1 /\ wakeups[c] \in Nat
      BY <2>1, DueIs DEF WakeInv
    <3>2. Due(c) # 0 /\ Due(c) <= 1 /\ pc[c] = "suspended"
      BY <3>1 DEF Well
    <3>3. QED
      BY <3>1, <3>2
  <2>2. QED
    BY <2>1 DEF WakeInv, Distinct, WaiterIsSuspended
<1>2. QED
  BY AlwaysWell, <1>1, PTL

\* No waiter is resumed twice or after it went on, and nobody is forgotten but
\* the sender whose value a registered receiver took.
THEOREM WaitersAreWokenOnce == Spec => []WokenOnce
<1>1. WakeInv => WokenOnce
  <2> SUFFICES ASSUME WakeInv PROVE WokenOnce
    OBVIOUS
  <2>1. \A c \in Coroutines :
            /\ Due(c) \in Nat /\ wakeups[c] \in Nat /\ Well(c)
            /\ Registered(c) => Due(c) = wakeups[c] + 1
            /\ ~Registered(c) => Due(c) = wakeups[c]
    BY DueIs DEF WakeInv
  <2>2. ASSUME NEW c \in Coroutines PROVE wakeups[c] <= IF pc[c] = "requeued" THEN 2 ELSE 1
    <3>1. Due(c) >= wakeups[c] /\ Due(c) \in Nat /\ wakeups[c] \in Nat
      BY <2>1
    <3>2. QED
      BY <2>1, <3>1 DEF Well
  <2>3. ASSUME NEW c \in Coroutines \ Driven, wakeups[c] = 1 PROVE pc[c] = "suspended"
    <3>1. Due(c) # 0 /\ Well(c) /\ c \notin Driven
      BY <2>1, <2>3
    <3>2. QED
      BY <3>1 DEF Well
  <2>4. \A c \in Coroutines : pc[c] = "suspended" => Registered(c) \/ wakeups[c] = 1 \/ c \in Got
    BY <2>1 DEF Well
  <2>5. QED
    BY <2>2, <2>3, <2>4 DEF WokenOnce
<1>2. QED
  BY AlwaysWell, <1>1, PTL

-----------------------------------------------------------------------------
\* What co_await ch.recv(x) tells.  A receiver has its answer from the moment
\* somebody schedules it; result_ and the destination are written together.
Answered(r) == pc[r] = "done" \/ wakeups[r] = 1

Told(r) ==
    /\ result[r] => value[r] # NoValue
    /\ value[r] # NoValue /\ ~result[r] => r \in Driven /\ pc[r] = "done"
    /\ r \notin Driven /\ Answered(r) /\ ~result[r] => closed

TruthInv ==
    /\ WakeInv
    /\ KeepInv
    /\ \A r \in Receivers : Told(r)

\* A receiver that had its answer keeps it, and one that nobody answers has
\* nothing to keep.
LEMMA NotTouched ==
    ASSUME TruthInv, NEW r \in Receivers, r \in Driven \/ (Answered(r)' => Answered(r)),
           result'[r] = result[r], value'[r] = value[r], closed => closed',
           pc[r] = "done" => pc'[r] = "done"
    PROVE  Told(r)'
BY DEF TruthInv, Told

\* A hand-off answers its receiver.
LEMMA HandOffTells ==
    ASSUME TruthInv, NEW v \in Values, recvWaiters # <<>>, HandOff(v), UNCHANGED closed,
           NEW p \in Senders \cup Pushers, NEW l, Goto(p, l)
    PROVE  \A r \in Receivers : Told(r)'
<1>1. TypeOK
  BY DEF TruthInv, WakeInv
<1>2. PICK h \in Receivers : h = Head(recvWaiters)
  BY <1>1, HeadTail DEF TypeOK
<1>3. v # NoValue
  BY ChannelAssumption
<1>4. \A r \in Receivers :
          /\ value'[r] = IF r = h THEN v ELSE value[r]
          /\ result'[r] = IF r = h THEN pc[h] # "done" ELSE result[r]
          /\ r # h => wakeups'[r] = wakeups[r]
          /\ pc'[r] = pc[r]
  BY <1>1, <1>2, WhoIsWho DEF HandOff, Answer, Schedule, TypeOK, Takers, Coroutines, Goto
<1>5. Told(h)'
  <2>1. Registered(h) /\ h \in Coroutines
    BY <1>1, <1>2, TailHolds DEF Registered, Coroutines, TypeOK, TruthInv, KeepInv, UnservedInv
  <2>2. pc[h] = "done" => h \in Driven
    BY <1>1, <2>1 DEF TruthInv, WakeInv, Well, Due, TypeOK
  <2>3. QED
    BY <1>3, <1>4, <2>2 DEF Told
<1>6. \A r \in Receivers : r # h => (Answered(r)' => Answered(r))
  BY <1>4 DEF Answered
<1>7. QED
  BY <1>4, <1>5, <1>6, NotTouched

\* A pop answers no receiver but the one that calls it.
LEMMA PopTells ==
    ASSUME TruthInv, NEW t \in Takers, Pop(t), Goto(t, "done"),
           \A r \in Receivers : result'[r] = IF r = t THEN TRUE ELSE result[r]
    PROVE  \A r \in Receivers : Told(r)'
<1>1. TypeOK /\ ExactlyOnce
  BY DEF TruthInv, WakeInv, KeepInv, OnceInv
<1>2. PICK v \in Values : value' = [value EXCEPT ![t] = v]
  <2>1. CASE buffer # <<>>
    BY <1>1, <2>1, HeadTail DEF Pop, TypeOK
  <2>2. CASE buffer = <<>>
    <3>1. sendWaiters # <<>> /\ value' = [value EXCEPT ![t] = Head(sendWaiters)]
      BY <2>2 DEF Pop, CanPop
    <3>2. Head(sendWaiters) \in Values
      BY <1>1, <3>1, HeadTail DEF TypeOK, Values
    <3>3. QED
      BY <3>1, <3>2
  <2>3. QED
    BY <2>1, <2>2
<1>3. v # NoValue
  BY ChannelAssumption
<1>4. \A r \in Receivers : wakeups'[r] = wakeups[r]
  <2>1. UNCHANGED wakeups \/ (sendWaiters # <<>> /\ ReleaseSender)
    BY DEF Pop, CanPop
  <2>2. sendWaiters # <<>> => Head(sendWaiters) \notin Receivers
    BY <1>1, HeadTail, ChannelAssumption DEF TypeOK
  <2>3. QED
    BY <2>1, <2>2 DEF ReleaseSender, Schedule, Coroutines
<1>5. \A r \in Receivers : /\ value'[r] = IF r = t THEN v ELSE value[r]
                           /\ r # t => pc'[r] = pc[r]
  BY <1>1, <1>2, WhoIsWho DEF TypeOK, Takers, Coroutines, Goto
<1>6. \A r \in Receivers : r = t => Told(r)'
  BY <1>3, <1>5 DEF Told
<1>7. \A r \in Receivers : r # t => (Answered(r)' => Answered(r))
  BY <1>4, <1>5 DEF Answered
<1>8. UNCHANGED closed
  BY DEF Pop
<1>9. QED
  BY <1>5, <1>6, <1>7, <1>8, NotTouched

\* A step in which nobody is answered.
LEMMA NobodyTold ==
    ASSUME TruthInv, NEW p \in Parties, NEW l, Goto(p, l),
           p \notin Receivers \/ (l # "done" /\ pc[p] # "done"),
           \A r \in Receivers : wakeups'[r] = wakeups[r],
           UNCHANGED <<value, result>>, closed => closed'
    PROVE  \A r \in Receivers : Told(r)'
<1>1. TypeOK
  BY DEF TruthInv, WakeInv
<1>2. \A r \in Receivers : r # p => pc'[r] = pc[r]
  BY <1>1, WhoIsWho DEF TypeOK, Coroutines, Goto
<1>3. p \in Receivers => pc'[p] # "done"
  BY <1>1 DEF TypeOK, Goto
<1>4. \A r \in Receivers : Answered(r)' => Answered(r)
  BY <1>2, <1>3 DEF Answered
<1>5. QED
  BY <1>2, <1>4, NotTouched

\* Every step.
LEMMA TruthStep == TruthInv /\ [Next]_vars => TruthInv'
<1> SUFFICES ASSUME TruthInv, [Next]_vars
             PROVE  \A r \in Receivers : Told(r)'
  BY WakeStep, KeepAll DEF TruthInv
<1>0. TypeOK /\ ExactlyOnce /\ UnservedInv /\ WakeInv
  BY DEF TruthInv, KeepInv, OnceInv
<1>a. /\ Senders \cap (Receivers \cup Pushers \cup Pollers \cup Closers) = {}
      /\ Receivers \cap (Senders \cup Pushers \cup Pollers \cup Closers) = {}
      /\ Senders \cup Pushers \subseteq Values
  BY ChannelAssumption DEF Values
<1>1. ASSUME NEW p \in Senders \cup Pushers, NEW l, Push(p), Goto(p, l)
      PROVE  \A r \in Receivers : Told(r)'
  <2>1. p \in Parties /\ p \in Values /\ p \notin Receivers /\ UNCHANGED closed
    BY <1>1, <1>a, WhoIsWho DEF Coroutines, Push
  <2>2. CASE recvWaiters # <<>>
    BY <1>1, <2>1, <2>2, HandOffTells DEF Push
  <2>3. CASE recvWaiters = <<>>
    BY <1>1, <2>1, <2>3, NobodyTold DEF Push
  <2>4. QED
    BY <2>2, <2>3
<1>2. ASSUME NEW s \in Senders, SendReady(s) \/ SendUnready(s) \/ SendSuspend(s)
      PROVE  \A r \in Receivers : Told(r)'
  <2>1. s \in Parties /\ s \notin Receivers /\ s \in Values
    BY <1>a, WhoIsWho DEF Coroutines
  <2>2. CASE SendReady(s)
    BY <1>1, <2>2 DEF SendReady
  <2>3. CASE SendUnready(s)
    BY <2>1, <2>3, NobodyTold DEF SendUnready
  <2>4. CASE SendSuspend(s)
    <3>1. Goto(s, "suspended") /\ UNCHANGED closed
      BY <2>4 DEF SendSuspend
    <3>2. CASE ~closed /\ recvWaiters # <<>>
      BY <2>1, <2>4, <3>1, <3>2, HandOffTells DEF SendSuspend
    <3>3. CASE closed \/ recvWaiters = <<>>
      <4>1. UNCHANGED <<value, result>> /\ \A r \in Receivers : wakeups'[r] = wakeups[r]
        BY <2>1, <2>4, <3>3 DEF SendSuspend, Schedule, Coroutines
      <4>2. QED
        BY <2>1, <3>1, <4>1, NobodyTold
    <3>4. QED
      BY <3>2, <3>3
  <2>5. QED
    BY <1>2, <2>2, <2>3, <2>4
<1>3. ASSUME NEW r \in Receivers, RecvReady(r)
      PROVE  \A u \in Receivers : Told(u)'
  <2>1. r \in Takers /\ Pop(r) /\ Goto(r, "done")
        /\ \A u \in Receivers : result'[u] = IF u = r THEN TRUE ELSE result[u]
    BY <1>0, <1>3 DEF RecvReady, Takers, TypeOK
  <2>2. QED
    BY <2>1, PopTells
<1>4. ASSUME NEW r \in Receivers, RecvUnready(r)
      PROVE  \A u \in Receivers : Told(u)'
  BY <1>4, WhoIsWho, NobodyTold DEF RecvUnready, Coroutines
<1>5. ASSUME NEW r \in Receivers, RecvSuspend(r)
      PROVE  \A u \in Receivers : Told(u)'
  <2>1. r \in Parties /\ r \in Takers /\ Goto(r, "suspended") /\ UNCHANGED closed /\ value[r] = NoValue
    BY <1>0, <1>5, WhoIsWho DEF RecvSuspend, Coroutines, Takers, UnservedInv, Unserved
  <2>2. \A u \in Receivers : u # r => pc'[u] = pc[u]
    BY <1>0, <2>1, WhoIsWho DEF TypeOK, Coroutines, Goto
  <2>3. CASE ~closed /\ sendWaiters = <<>>
    BY <1>5, <2>1, <2>3, NobodyTold DEF RecvSuspend
  <2>4. CASE closed
    <3>1. /\ value' = value /\ result'[r] = FALSE
          /\ \A u \in Receivers : u # r => result'[u] = result[u] /\ wakeups'[u] = wakeups[u]
      BY <1>0, <1>5, <2>4 DEF RecvSuspend, Schedule, TypeOK, Coroutines
    <3>2. Told(r)'
      BY <2>1, <2>4, <3>1 DEF Told
    <3>3. QED
      BY <2>1, <2>2, <3>1, <3>2, NotTouched DEF Answered
  <2>5. CASE ~closed /\ sendWaiters # <<>>
    <3>1. PICK s \in Senders : s = Head(sendWaiters)
      BY <1>0, <2>5, HeadTail DEF TypeOK
    <3>2. s # NoValue /\ s \notin Receivers
      BY <1>a, ChannelAssumption
    <3>3. /\ value'[r] = s /\ result'[r] = TRUE
          /\ \A u \in Receivers : u # r => /\ result'[u] = result[u] /\ wakeups'[u] = wakeups[u]
                                           /\ value'[u] = value[u]
      BY <1>0, <1>5, <2>5, <3>1, <3>2 DEF RecvSuspend, Schedule, TypeOK, Coroutines, Takers
    <3>4. Told(r)'
      BY <3>2, <3>3 DEF Told
    <3>5. QED
      BY <2>1, <2>2, <3>3, <3>4, NotTouched DEF Answered
  <2>6. QED
    BY <2>3, <2>4, <2>5
<1>6. ASSUME NEW c \in Coroutines, Requeue(c) \/ Resume(c)
      PROVE  \A r \in Receivers : Told(r)'
  <2>1. UNCHANGED <<value, result, closed>>
    BY <1>6 DEF Requeue, Resume
  <2>2. \A r \in Receivers : r # c => pc'[r] = pc[r] /\ wakeups'[r] = wakeups[r]
    BY <1>0, <1>6, WhoIsWho DEF Requeue, Resume, Schedule, Goto, TypeOK, Coroutines
  <2>3. c \in Driven \/ Answered(c)
    <3>1. wakeups[c] \in Nat /\ wakeups[c] <= Due(c) /\ Due(c) \in Nat /\ Well(c)
      BY <1>0, DueIs DEF WakeInv
    <3>2. Requeue(c) => c \in Driven
      BY DEF Requeue
    <3>3. Resume(c) /\ c \notin Driven => wakeups[c] = 1
      BY <3>1 DEF Resume, Well
    <3>4. QED
      BY <1>6, <3>2, <3>3 DEF Answered
  <2>4. \A r \in Receivers : r \in Driven \/ (Answered(r)' => Answered(r))
    BY <2>2, <2>3 DEF Answered
  <2>5. \A r \in Receivers : pc[r] = "done" => pc'[r] = "done"
    BY <1>6, <2>2 DEF Requeue, Resume
  <2>6. QED
    BY <2>1, <2>4, <2>5, NotTouched
<1>7. ASSUME NEW p \in Pushers, TrySend(p) \/ TrySendRefused(p)
      PROVE  \A r \in Receivers : Told(r)'
  <2>1. p \in Parties /\ p \notin Receivers
    BY <1>a, WhoIsWho
  <2>2. CASE TrySend(p)
    BY <1>1, <2>2 DEF TrySend
  <2>3. CASE TrySendRefused(p)
    BY <2>1, <2>3, NobodyTold DEF TrySendRefused
  <2>4. QED
    BY <1>7, <2>2, <2>3
<1>8. ASSUME NEW q \in Pollers, TryRecv(q) \/ TryRecvRefused(q)
      PROVE  \A r \in Receivers : Told(r)'
  <2>1. q \in Parties /\ q \in Takers /\ q \notin Receivers
    BY <1>a, WhoIsWho DEF Takers
  <2>2. CASE TryRecv(q)
    BY <2>1, <2>2, PopTells DEF TryRecv
  <2>3. CASE TryRecvRefused(q)
    BY <2>1, <2>3, NobodyTold DEF TryRecvRefused
  <2>4. QED
    BY <1>8, <2>2, <2>3
<1>9. ASSUME NEW k \in Closers, CloseMark(k)
      PROVE  \A r \in Receivers : Told(r)'
  <2>1. k \in Parties /\ k \notin Receivers /\ \E l : Goto(k, l)
    BY <1>9, <1>a, WhoIsWho DEF CloseMark
  <2>2. QED
    BY <1>9, <2>1, NobodyTold DEF CloseMark
<1>10. ASSUME NEW k \in Closers, CloseWake(k)
       PROVE  \A r \in Receivers : Told(r)'
  <2>1. closed /\ UNCHANGED <<closed, value>>
    BY <1>10 DEF CloseWake, TruthInv, KeepInv, CloseInv, Closing
  <2>2. \A r \in Receivers : pc'[r] = pc[r]
    BY <1>0, <1>10, <1>a, WhoIsWho DEF CloseWake, Goto, TypeOK, Coroutines
  <2>3. ToSet(sendWaiters) \cap Receivers = {}
    BY <1>0, <1>a DEF TypeOK, ToSet
  <2>4. \A r \in Receivers : IF r \in ToSet(recvWaiters)
                             THEN result'[r] = FALSE
                             ELSE result'[r] = result[r] /\ wakeups'[r] = wakeups[r]
    BY <1>10, <2>3 DEF CloseWake, Schedule, Coroutines
  <2>5. ASSUME NEW r \in Receivers PROVE Told(r)'
    <3>1. CASE r \in ToSet(recvWaiters)
      <4>1. value[r] = NoValue
        BY <1>0, <3>1 DEF UnservedInv, Unserved, Takers
      <4>2. QED
        BY <2>1, <2>4, <3>1, <4>1 DEF Told
    <3>2. CASE r \notin ToSet(recvWaiters)
      BY <2>1, <2>2, <2>4, <3>2, NotTouched DEF Answered
    <3>3. QED
      BY <3>1, <3>2
  <2>6. QED
    BY <2>5
<1>11. CASE UNCHANGED vars
  BY <1>11, NotTouched DEF vars, Answered
<1>12. QED
  BY <1>2, <1>3, <1>4, <1>5, <1>6, <1>7, <1>8, <1>9, <1>10, <1>11 DEF Next

LEMMA TruthHolds == Spec => [](TruthInv /\ RecvTruth)
<1>1. Init => TruthInv
  <2>1. ASSUME Init PROVE \A r \in Receivers : ~Answered(r) /\ result[r] = FALSE /\ value[r] = NoValue
    BY <2>1, WhoIsWho DEF Init, Answered, Coroutines, Takers
  <2>2. QED
    BY <2>1, WakeInit, OnceInit, CloseInit, KeepInit DEF TruthInv, KeepInv, Told
<1>2. TruthInv => RecvTruth
  BY DEF TruthInv, RecvTruth, Answered, Told
<1>3. TruthInv /\ [Next]_vars => TruthInv'
  BY TruthStep
<1>4. QED
  BY <1>1, <1>2, <1>3, PTL DEF Spec

\* co_await ch.recv(x) says that it received only what was written, and denies it only
\* to a driven receiver that was served after it had returned false; one that nobody
\* drives returns false only from a closed channel.
THEOREM RecvTellsTheTruth == Spec => []RecvTruth
BY TruthHolds, PTL

\* A value that try_send took is buffered, or its taker's call says so, or it went to
\* the waiter that a driven receiver left behind; what co_await ch.send took only a
\* close can remove besides.
THEOREM NoValueIsLost == Spec => []NothingLost
<1>1. RecvTruth => Got \subseteq Received \cup Astray
  <2> SUFFICES ASSUME RecvTruth, NEW t \in Takers, value[t] # NoValue
               PROVE  value[t] \in Received \cup Astray
    BY DEF Got
  <2>1. CASE t \in Pollers
    BY <2>1 DEF Received
  <2>2. CASE t \in Receivers
    <3>1. CASE result[t]
      BY <2>2, <3>1 DEF Received
    <3>2. CASE ~result[t]
      BY <2>2, <3>2 DEF RecvTruth, Astray
    <3>3. QED
      BY <3>1, <3>2
  <2>3. QED
    BY <2>1, <2>2 DEF Takers
<1>2. Held /\ RecvTruth => NothingLost
  BY <1>1 DEF Held, Kept, Gone, InFlight, NothingLost
<1>3. QED
  BY <1>2, ValuesAreHeld, TruthHolds, PTL

=============================================================================
