------------------------------ MODULE Channel ------------------------------
(***************************************************************************)
(* tang::channel<T> (include/tang/channel.h): a bounded buffer, two lists  *)
(* of waiting coroutines, a closed flag, one mutex.                        *)
(*                                                                         *)
(* A party performs one operation.  Senders and Receivers are coroutines   *)
(* that `co_await ch.send(v)` / `co_await ch.recv(x)`; Pushers and Pollers *)
(* are threads that call try_send / try_recv (operator<< and operator>>    *)
(* are one such call each) and may retry a refused call; Closers call      *)
(* close() (the destructor is one of them).  A value is named after the    *)
(* party that sends it.                                                    *)
(*                                                                         *)
(* `co_await` is TWO critical sections: await_ready locks, tries and       *)
(* unlocks; await_suspend locks again and registers.  close() sets the     *)
(* flag BEFORE it locks.  Everything another party does in between is an   *)
(* interleaving of this module.  A function that holds the mutex is one    *)
(* step: it reads closed_ once, and nothing else it touches can change     *)
(* under it.                                                               *)
(***************************************************************************)
EXTENDS Naturals, FiniteSets, SequencesExt

CONSTANTS
    Capacity,   \* channel(size_t capacity)
    Senders,    \* coroutines that co_await ch.send(self)
    Receivers,  \* coroutines that co_await ch.recv(x)
    Pushers,    \* callers of try_send(self)
    Pollers,    \* callers of try_recv(x)
    Closers,    \* callers of close()
    Driven,     \* coroutines that the runtime drives: run() as a task, or
                \* resumed by a thread of the scheduler
    NoValue     \* a destination nothing was written to

Coroutines == Senders \cup Receivers
Values     == Senders \cup Pushers
Takers     == Receivers \cup Pollers
Parties    == Coroutines \cup Pushers \cup Pollers \cup Closers

ASSUME ChannelAssumption ==
    /\ Capacity \in Nat
    /\ Senders \cap (Receivers \cup Pushers \cup Pollers \cup Closers) = {}
    /\ Receivers \cap (Pushers \cup Pollers \cup Closers) = {}
    /\ Pushers \cap (Pollers \cup Closers) = {}
    /\ Pollers \cap Closers = {}
    /\ Driven \subseteq Coroutines
    /\ NoValue \notin Values

VARIABLES
    buffer,       \* buffer_
    closed,       \* closed_
    sendWaiters,  \* send_waiters_: a waiter is its coroutine, which is its value
    recvWaiters,  \* recv_waiters_
    pc,           \* where each party is in its operation
    value,        \* what was written to each taker's destination
    result,       \* channel_recv_awaiter::result_
    wakeups       \* handles given to runtime::schedule and not yet resumed

lists == <<buffer, sendWaiters, recvWaiters>>
vars  == <<buffer, closed, sendWaiters, recvWaiters, pc, value, result, wakeups>>

\* "unready": await_ready returned false, await_suspend has not locked yet.
\* "requeued": suspended, and queued by the thread that drives it.
\* "refused": a try_* call returned false.  "closing": close() has set the
\* flag.  "skipped": close() found the flag set and returned.
Locations == {"idle", "unready", "suspended", "requeued", "done",
              "refused", "closing", "skipped"}

Init ==
    /\ buffer = <<>>
    /\ closed = FALSE
    /\ sendWaiters = <<>>
    /\ recvWaiters = <<>>
    /\ pc = [p \in Parties |-> "idle"]
    /\ value = [t \in Takers |-> NoValue]
    /\ result = [r \in Receivers |-> FALSE]
    /\ wakeups = [c \in Coroutines |-> 0]

-----------------------------------------------------------------------------
\* Pieces of the critical sections.  A definition whose comment starts with
\* FAULT is the definition after it with one plausible mistake: Next does not
\* use it, the property it breaks is named in PROJECT.json.

Goto(p, location) == pc' = [pc EXCEPT ![p] = location]

\* runtime::schedule of the handle of each coroutine in S.
Schedule(S) == wakeups' = [c \in Coroutines |-> IF c \in S THEN wakeups[c] + 1 ELSE wakeups[c]]

\* FAULT: off by one.
IsFullLate == Capacity = 0 \/ Len(buffer) > Capacity

IsFull == Capacity = 0 \/ Len(buffer) >= Capacity

\* FAULT: the value is not written to the receiver's destination.
AnswerWithoutValue(v) ==
    /\ result' = [result EXCEPT ![Head(recvWaiters)] = pc[Head(recvWaiters)] # "done"]
    /\ UNCHANGED value

\* FAULT: the receiver's result_ stays false.
AnswerWithoutResult(v) ==
    /\ value' = [value EXCEPT ![Head(recvWaiters)] = v]
    /\ UNCHANGED result

\* result_ptr_ and value_ptr_ of the first registered receiver.  One that is
\* driven may be past its co_await, and be told FALSE, while its waiter is still
\* in the list: the awaiter is gone, nobody reads its result_ again, and what is
\* written to its destination is lost.
Answer(v) ==
    /\ value' = [value EXCEPT ![Head(recvWaiters)] = v]
    /\ result' = [result EXCEPT ![Head(recvWaiters)] = pc[Head(recvWaiters)] # "done"]

\* FAULT: the receiver stays in the list.
HandOffKeepingWaiter(v) ==
    /\ Answer(v)
    /\ Schedule({Head(recvWaiters)})
    /\ UNCHANGED recvWaiters

\* FAULT: the receiver is not scheduled.
HandOffUnscheduled(v) ==
    /\ Answer(v)
    /\ recvWaiters' = Tail(recvWaiters)
    /\ UNCHANGED wakeups

\* The first registered receiver gets v and is resumed with TRUE.
HandOff(v) ==
    /\ Answer(v)
    /\ recvWaiters' = Tail(recvWaiters)
    /\ Schedule({Head(recvWaiters)})

\* FAULT: the sender stays in the list.
ReleaseSenderKeepingIt ==
    /\ Schedule({Head(sendWaiters)})
    /\ UNCHANGED sendWaiters

\* The first registered sender leaves its list and is resumed.
ReleaseSender ==
    /\ sendWaiters' = Tail(sendWaiters)
    /\ Schedule({Head(sendWaiters)})

\* FAULT: the closed flag is not looked at.
CanPushClosed == recvWaiters # <<>> \/ ~IsFull

\* try_send(v) returns true exactly when this holds ...
CanPush == ~closed /\ (recvWaiters # <<>> \/ ~IsFull)

\* ... and then does this.
Push(v) ==
    /\ CanPush
    /\ \/ /\ recvWaiters # <<>>
          /\ HandOff(v)
          /\ UNCHANGED buffer
       \/ /\ recvWaiters = <<>>
          /\ buffer' = Append(buffer, v)
          /\ UNCHANGED <<recvWaiters, value, result, wakeups>>
    /\ UNCHANGED <<closed, sendWaiters>>

\* FAULT: a closed channel still takes from registered senders.
CanPopClosed == buffer # <<>> \/ sendWaiters # <<>>

\* try_recv(value) returns true exactly when this holds ...
CanPop == buffer # <<>> \/ (~closed /\ sendWaiters # <<>>)

\* ... and then does this for taker t: the front of the buffer, the first
\* registered sender moving into the room it leaves, or else that sender's
\* value directly.
Pop(t) ==
    /\ CanPop
    /\ \/ /\ buffer # <<>>
          /\ value' = [value EXCEPT ![t] = Head(buffer)]
          /\ \/ /\ sendWaiters # <<>>
                /\ buffer' = Append(Tail(buffer), Head(sendWaiters))
                /\ ReleaseSender
             \/ /\ sendWaiters = <<>>
                /\ buffer' = Tail(buffer)
                /\ UNCHANGED <<sendWaiters, wakeups>>
       \/ /\ buffer = <<>>
          /\ value' = [value EXCEPT ![t] = Head(sendWaiters)]
          /\ ReleaseSender
          /\ UNCHANGED buffer
    /\ UNCHANGED <<closed, recvWaiters>>

-----------------------------------------------------------------------------
\* co_await ch.send(s)

SendReady(s) ==
    /\ pc[s] = "idle"
    /\ Push(s)
    /\ Goto(s, "done")

SendUnready(s) ==
    /\ pc[s] = "idle"
    /\ ~CanPush
    /\ Goto(s, "unready")
    /\ UNCHANGED <<lists, closed, value, result, wakeups>>

\* FAULT: the receivers that registered in between are not looked at.
SendSuspendUnpaired(s) ==
    /\ pc[s] = "unready"
    /\ Goto(s, "suspended")
    /\ IF closed THEN Schedule({s}) /\ UNCHANGED sendWaiters
                 ELSE sendWaiters' = Append(sendWaiters, s) /\ UNCHANGED wakeups
    /\ UNCHANGED <<buffer, closed, recvWaiters, value, result>>

\* register_send_waiter.  The hand-off branch resumes the receiver and
\* returns: nobody schedules the sender's own handle.
SendSuspend(s) ==
    /\ pc[s] = "unready"
    /\ Goto(s, "suspended")
    /\ \/ /\ closed
          /\ Schedule({s})
          /\ UNCHANGED <<lists, value, result>>
       \/ /\ ~closed
          /\ recvWaiters # <<>>
          /\ HandOff(s)
          /\ UNCHANGED <<buffer, sendWaiters>>
       \/ /\ ~closed
          /\ recvWaiters = <<>>
          /\ sendWaiters' = Append(sendWaiters, s)
          /\ UNCHANGED <<buffer, recvWaiters, value, result, wakeups>>
    /\ UNCHANGED closed

-----------------------------------------------------------------------------
\* co_await ch.recv(x)

RecvReady(r) ==
    /\ pc[r] = "idle"
    /\ Pop(r)
    /\ result' = [result EXCEPT ![r] = TRUE]
    /\ Goto(r, "done")

RecvUnready(r) ==
    /\ pc[r] = "idle"
    /\ ~CanPop
    /\ Goto(r, "unready")
    /\ UNCHANGED <<lists, closed, value, result, wakeups>>

\* FAULT: the flag, which close() may have set in between, is not looked at.
RecvSuspendClosed(r) ==
    /\ pc[r] = "unready"
    /\ sendWaiters = <<>>
    /\ Goto(r, "suspended")
    /\ recvWaiters' = Append(recvWaiters, r)
    /\ UNCHANGED <<buffer, closed, sendWaiters, value, result, wakeups>>

\* register_recv_waiter: it looks at the flag and the senders, not at the
\* buffer.
RecvSuspend(r) ==
    /\ pc[r] = "unready"
    /\ Goto(r, "suspended")
    /\ \/ /\ closed
          /\ result' = [result EXCEPT ![r] = FALSE]
          /\ Schedule({r})
          /\ UNCHANGED <<sendWaiters, recvWaiters, value>>
       \/ /\ ~closed
          /\ sendWaiters # <<>>
          /\ value' = [value EXCEPT ![r] = Head(sendWaiters)]
          /\ result' = [result EXCEPT ![r] = TRUE]
          /\ sendWaiters' = Tail(sendWaiters)
          /\ Schedule({r, Head(sendWaiters)})
          /\ UNCHANGED recvWaiters
       \/ /\ ~closed
          /\ sendWaiters = <<>>
          /\ recvWaiters' = Append(recvWaiters, r)
          /\ UNCHANGED <<sendWaiters, value, result, wakeups>>
    /\ UNCHANGED <<buffer, closed>>

\* task<T>::run schedules the coroutine it is given when that has suspended,
\* and so does the thread of the scheduler that resumed one, whatever it waits
\* for.  A coroutine that was only called (a task starts by itself) has no such
\* driver and waits for its channel alone.
Requeue(c) ==
    /\ c \in Driven
    /\ pc[c] = "suspended"
    /\ Goto(c, "requeued")
    /\ Schedule({c})
    /\ UNCHANGED <<lists, closed, value, result>>

\* The scheduler resumes a handle it was given; await_resume returns to the
\* caller (result[r] for a receiver, nothing for a sender).
Resume(c) ==
    /\ pc[c] \in {"suspended", "requeued"}
    /\ wakeups[c] > 0
    /\ wakeups' = [wakeups EXCEPT ![c] = @ - 1]
    /\ Goto(c, "done")
    /\ UNCHANGED <<lists, closed, value, result>>

-----------------------------------------------------------------------------
\* try_send / operator<< and try_recv / operator>> by plain callers

TrySend(p) ==
    /\ pc[p] \in {"idle", "refused"}
    /\ Push(p)
    /\ Goto(p, "done")

TrySendRefused(p) ==
    /\ pc[p] = "idle"
    /\ ~CanPush
    /\ Goto(p, "refused")
    /\ UNCHANGED <<lists, closed, value, result, wakeups>>

TryRecv(q) ==
    /\ pc[q] \in {"idle", "refused"}
    /\ Pop(q)
    /\ Goto(q, "done")
    /\ UNCHANGED result

TryRecvRefused(q) ==
    /\ pc[q] = "idle"
    /\ ~CanPop
    /\ Goto(q, "refused")
    /\ UNCHANGED <<lists, closed, value, result, wakeups>>

-----------------------------------------------------------------------------
\* close()

\* closed_.exchange(true), before the mutex is taken.
CloseMark(k) ==
    /\ pc[k] = "idle"
    /\ \/ /\ ~closed
          /\ Goto(k, "closing")
       \/ /\ closed
          /\ Goto(k, "skipped")
    /\ closed' = TRUE
    /\ UNCHANGED <<lists, value, result, wakeups>>

\* FAULT: the receivers are cleared without being resumed.
CloseWakeSendersOnly(k) ==
    /\ pc[k] = "closing"
    /\ Goto(k, "done")
    /\ Schedule(ToSet(sendWaiters))
    /\ sendWaiters' = <<>>
    /\ recvWaiters' = <<>>
    /\ UNCHANGED <<buffer, closed, value, result>>

\* Under the mutex: resume every sender, resume every receiver with FALSE,
\* clear both lists.  The values of the registered senders go with them.
CloseWake(k) ==
    /\ pc[k] = "closing"
    /\ Goto(k, "done")
    /\ Schedule(ToSet(sendWaiters) \cup ToSet(recvWaiters))
    /\ result' = [r \in Receivers |-> IF r \in ToSet(recvWaiters) THEN FALSE ELSE result[r]]
    /\ sendWaiters' = <<>>
    /\ recvWaiters' = <<>>
    /\ UNCHANGED <<buffer, closed, value>>

-----------------------------------------------------------------------------
Next ==
    \/ \E s \in Senders : SendReady(s) \/ SendUnready(s) \/ SendSuspend(s)
    \/ \E r \in Receivers : RecvReady(r) \/ RecvUnready(r) \/ RecvSuspend(r)
    \/ \E c \in Coroutines : Requeue(c) \/ Resume(c)
    \/ \E p \in Pushers : TrySend(p) \/ TrySendRefused(p)
    \/ \E q \in Pollers : TryRecv(q) \/ TryRecvRefused(q)
    \/ \E k \in Closers : CloseMark(k) \/ CloseWake(k)

Spec == Init /\ [][Next]_vars

\* A thread inside an operation finishes it, and a scheduled handle is
\* eventually resumed.  Nobody is obliged to begin an operation.
Fairness ==
    /\ \A s \in Senders : WF_vars(SendSuspend(s))
    /\ \A r \in Receivers : WF_vars(RecvSuspend(r))
    /\ \A c \in Coroutines : WF_vars(Requeue(c)) /\ WF_vars(Resume(c))
    /\ \A k \in Closers : WF_vars(CloseWake(k))

FairSpec == Spec /\ Fairness

-----------------------------------------------------------------------------
\* Properties

Got == {value[t] : t \in Takers} \ {NoValue}

\* Every value the channel has accepted: buffered, offered by a registered
\* sender, or written to a destination.
InFlight == ToSet(buffer) \cup ToSet(sendWaiters) \cup Got

\* A taker has its value when its call says so: try_recv returned true, or
\* result_ is true, which its co_await returns.
Received == {value[t] : t \in Pollers \cup {r \in Receivers : result[r]}} \ {NoValue}

\* Values handed to the waiter of a driven receiver whose co_await had already
\* returned false.
Astray == {value[r] : r \in {x \in Driven \cap Receivers : pc[x] = "done" /\ ~result[x]}} \ {NoValue}

Registered(c) == c \in ToSet(sendWaiters) \cup ToSet(recvWaiters)

\* The types of the channel's fields, of its parties and of their awaiters,
\* and the capacity of the buffer (channel.h:236-245).
TypeOK ==
    /\ buffer \in Seq(Values)
    /\ Len(buffer) <= Capacity
    /\ closed \in BOOLEAN
    /\ sendWaiters \in Seq(Senders)
    /\ recvWaiters \in Seq(Receivers)
    /\ pc \in [Parties -> Locations]
    /\ value \in [Takers -> Values \cup {NoValue}]
    /\ result \in [Receivers -> BOOLEAN]
    /\ wakeups \in [Coroutines -> Nat]

\* A value is never in two places: it is buffered once, or offered by one
\* registered sender, or written to one taker's destination, across the retry
\* that await_suspend makes after a failed await_ready and across the move of a
\* registered sender's value into the buffer (try_recv).
ExactlyOnce ==
    /\ IsInjective(buffer)
    /\ IsInjective(sendWaiters)
    /\ ToSet(buffer) \cap ToSet(sendWaiters) = {}
    /\ Got \cap (ToSet(buffer) \cup ToSet(sendWaiters)) = {}
    /\ \A t, u \in Takers : value[t] = value[u] /\ value[t] # NoValue => t = u

\* A value that try_send took is lost in one way only, close() included: handed
\* to the waiter that a driven receiver left behind when its co_await returned
\* false (ChannelClaims).  Otherwise it is buffered or its taker is told so.
\* The value of a coroutine past its await can be lost to a close as well.
NothingLost ==
    /\ \A p \in Pushers : pc[p] = "done" => p \in ToSet(buffer) \cup Received \cup Astray
    /\ \A s \in Senders :
          pc[s] \in {"suspended", "requeued", "done"} /\ ~closed =>
              s \in ToSet(buffer) \cup ToSet(sendWaiters) \cup Received \cup Astray

\* A sender and a receiver never wait at the same time: whichever of
\* register_send_waiter and register_recv_waiter locks second pairs them.
OneSideWaits == sendWaiters = <<>> \/ recvWaiters = <<>>

\* A waiter object holds raw pointers into its coroutine's awaiter (value_ptr_,
\* result_ptr_, awaiter_ptr_): while it is in a list nobody has scheduled its
\* coroutine, which is suspended, and it is in the list once.  (A coroutine
\* that is also driven may come back from its await while it is registered:
\* see ChannelClaims.)
WaiterIsSuspended ==
    /\ \A c \in Coroutines \ Driven : Registered(c) => pc[c] = "suspended" /\ wakeups[c] = 0
    /\ IsInjective(sendWaiters)
    /\ IsInjective(recvWaiters)

\* The channel schedules a coroutine once, and one that nobody drives never
\* after it went on: only a driver adds a second handle.  Who is suspended is
\* in a list or has a wakeup on its way, but for the sender whose value a
\* registered receiver took: nobody schedules that one (channel.h:479-487).
WokenOnce ==
    /\ \A c \in Coroutines : wakeups[c] <= IF pc[c] = "requeued" THEN 2 ELSE 1
    /\ \A c \in Coroutines \ Driven : wakeups[c] = 1 => pc[c] = "suspended"
    /\ \A c \in Coroutines : pc[c] = "suspended" => Registered(c) \/ wakeups[c] = 1 \/ c \in Got

\* co_await ch.recv(x) never says that it received what was not written, and
\* never denies what was, unless its waiter was served after it had returned
\* false, as only a driven receiver does; one that nobody drives returns false
\* only from a closed channel.
RecvTruth ==
    /\ \A r \in Receivers : result[r] => value[r] # NoValue
    /\ \A r \in Receivers : value[r] # NoValue /\ ~result[r] => r \in Driven /\ pc[r] = "done"
    /\ \A r \in Receivers \ Driven : pc[r] = "done" /\ ~result[r] => closed

\* When close() has returned to the thread that closed the channel, nobody is
\* registered, however its flag and its lock interleaved with an await_suspend.
ClosedQuiet == (\E k \in Closers : pc[k] = "done") => sendWaiters = <<>> /\ recvWaiters = <<>>

\* From the moment the flag is set no value enters the channel; the values
\* already in it only move on or, offered by registered senders, are dropped.
ClosedAdmitsNothing == [][closed => InFlight' \subseteq InFlight]_vars

\* close() releases everyone who waits: every receiver that is about to
\* suspend or suspended, and every registered sender, gets to the end of its
\* await.
ClosedReleases ==
    \A c \in Coroutines :
        closed /\ (Registered(c) \/ (c \in Receivers /\ pc[c] \in {"unready", "suspended", "requeued"}))
            ~> pc[c] = "done"

=============================================================================
