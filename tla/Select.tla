------------------------------- MODULE Select -------------------------------
(***************************************************************************)
(* select(...) and co_await co_select(...) (include/tang/select.h) over    *)
(* two channels that other parties use at the same time.                   *)
(*                                                                         *)
(* A case is a party of its channel: a send_case one that calls try_send,  *)
(* a recv_case one that calls try_recv, each at most once.  A select looks *)
(* at its cases in an arbitrary order (they are shuffled before each       *)
(* round) and asks each whether it is ready; the first that says so is     *)
(* executed, and the select is over WHATEVER the execution returned.  The  *)
(* question and the execution are two critical sections of the channel.    *)
(***************************************************************************)
EXTENDS Naturals, FiniteSets, SequencesExt

CONSTANTS
    Capacity, Senders, Receivers, Pushers, Pollers, Closers, Driven, NoValue,
                  \* of Channel; a party uses one of the two channels
    OnB,          \* the parties of channel b; the others are those of a
    Selects,      \* calls of select() or co_select()
    Awaited,      \* those that are `co_await co_select(...)`
    Cases,        \* the send and receive cases of each
    WithDefault,  \* those that have a default case
    Default       \* that case

VARIABLES
    bufferA, closedA, sendWaitersA, recvWaitersA, pcA, valueA, resultA, wakeupsA,
    bufferB, closedB, sendWaitersB, recvWaitersB, pcB, valueB, resultB, wakeupsB,
    at,      \* where each select is
    left,    \* the cases it has not looked at in this round
    chosen   \* selected_case_

A == INSTANCE Channel WITH
    buffer <- bufferA, closed <- closedA, sendWaiters <- sendWaitersA, recvWaiters <- recvWaitersA,
    pc <- pcA, value <- valueA, result <- resultA, wakeups <- wakeupsA

B == INSTANCE Channel WITH
    buffer <- bufferB, closed <- closedB, sendWaiters <- sendWaitersB, recvWaiters <- recvWaitersB,
    pc <- pcB, value <- valueB, result <- resultB, wakeups <- wakeupsB

varsA   == <<bufferA, closedA, sendWaitersA, recvWaitersA, pcA, valueA, resultA, wakeupsA>>
varsB   == <<bufferB, closedB, sendWaitersB, recvWaitersB, pcB, valueB, resultB, wakeupsB>>
selects == <<at, left, chosen>>
vars    == <<varsA, varsB, selects>>

AllCases == UNION {Cases[x] : x \in Selects}

ASSUME SelectAssumption ==
    /\ Awaited \subseteq Selects
    /\ WithDefault \subseteq Selects
    /\ Cases \in [Selects -> SUBSET (Pushers \cup Pollers)]
    /\ \A x, y \in Selects : x # y => Cases[x] \cap Cases[y] = {}
    /\ Default \notin AllCases

\* As for one channel.
ASSUME PartiesAssumption ==
    /\ Capacity \in Nat
    /\ Senders \cap (Receivers \cup Pushers \cup Pollers \cup Closers) = {}
    /\ Receivers \cap (Pushers \cup Pollers \cup Closers) = {}
    /\ Pushers \cap (Pollers \cup Closers) = {}
    /\ Pollers \cap Closers = {}
    /\ Driven \subseteq Senders \cup Receivers
    /\ NoValue \notin Senders \cup Pushers

\* "polling": in a round of select(), or in await_ready.  "again": in the
\* round of await_suspend.  "executing": a case was ready.
Locations == {"idle", "polling", "again", "executing", "suspended", "returned"}

Options(x) == Cases[x] \cup (IF x \in WithDefault THEN {Default} ELSE {})

Init ==
    /\ A!Init
    /\ B!Init
    /\ at = [x \in Selects |-> "idle"]
    /\ left = [x \in Selects |-> {}]
    /\ chosen = [x \in Selects |-> {}]

-----------------------------------------------------------------------------
\* The other parties.  Where pc changes shows whose step it is.

MoversOn(pc, next) == {p \in A!Parties : next[p] # pc[p]}

StepA ==
    /\ A!Next
    /\ MoversOn(pcA, pcA') \cap (OnB \cup AllCases) = {}
    /\ UNCHANGED <<varsB, selects>>

StepB ==
    /\ B!Next
    /\ MoversOn(pcB, pcB') \subseteq OnB \ AllCases
    /\ UNCHANGED <<varsA, selects>>

-----------------------------------------------------------------------------
\* try_ready() of each kind of case

\* FAULT: a receive case asks whether the buffer has room.
ReadyMixedUp(c) ==
    \/ c = Default
    \/ c \in OnB /\ (closedB \/ ~B!IsFull)
    \/ c \notin OnB /\ (closedA \/ ~A!IsFull)

\* The channel is closed, or its buffer has a value or room.  Registered
\* waiters do not count.
Ready(c) ==
    \/ c = Default
    \/ /\ c \in OnB
       /\ \/ closedB
          \/ c \in Pollers /\ bufferB # <<>>
          \/ c \in Pushers /\ ~B!IsFull
    \/ /\ c \in AllCases \ OnB
       /\ \/ closedA
          \/ c \in Pollers /\ bufferA # <<>>
          \/ c \in Pushers /\ ~A!IsFull

-----------------------------------------------------------------------------
\* One select

Begin(x) ==
    /\ at[x] = "idle"
    /\ at' = [at EXCEPT ![x] = "polling"]
    /\ left' = [left EXCEPT ![x] = Options(x)]
    /\ UNCHANGED <<chosen, varsA, varsB>>

Pass(x, c) ==
    /\ at[x] \in {"polling", "again"}
    /\ c \in left[x]
    /\ ~Ready(c)
    /\ left' = [left EXCEPT ![x] = @ \ {c}]
    /\ UNCHANGED <<at, chosen, varsA, varsB>>

Choose(x, c) ==
    /\ at[x] \in {"polling", "again"}
    /\ c \in left[x]
    /\ Ready(c)
    /\ at' = [at EXCEPT ![x] = "executing"]
    /\ chosen' = [chosen EXCEPT ![x] = {c}]
    /\ UNCHANGED <<left, varsA, varsB>>

\* FAULT: the next round does not begin with all cases.
EndRoundSpent(x) ==
    /\ left[x] = {}
    /\ \/ at[x] = "polling" /\ x \notin Awaited /\ UNCHANGED <<at, left>>
       \/ /\ at[x] = "polling" /\ x \in Awaited
          /\ at' = [at EXCEPT ![x] = "again"]
          /\ left' = [left EXCEPT ![x] = Options(x)]
       \/ /\ at[x] = "again"
          /\ at' = [at EXCEPT ![x] = "suspended"]
          /\ UNCHANGED left
    /\ UNCHANGED <<chosen, varsA, varsB>>

\* No case was ready: select() shuffles and starts over; co_select looks once
\* more in await_suspend, and then suspends.  register_waiter registers the
\* handle with nobody.
EndRound(x) ==
    /\ left[x] = {}
    /\ \/ /\ at[x] = "polling"
          /\ x \notin Awaited
          /\ left' = [left EXCEPT ![x] = Options(x)]
          /\ UNCHANGED at
       \/ /\ at[x] = "polling"
          /\ x \in Awaited
          /\ at' = [at EXCEPT ![x] = "again"]
          /\ left' = [left EXCEPT ![x] = Options(x)]
       \/ /\ at[x] = "again"
          /\ at' = [at EXCEPT ![x] = "suspended"]
          /\ UNCHANGED left
    /\ UNCHANGED <<chosen, varsA, varsB>>

\* try_execute() on the case's channel: the operation takes place, or is
\* refused.
ExecuteOn(c) ==
    \/ /\ c \in OnB
       /\ \/ c \in Pushers /\ (B!TrySend(c) \/ B!TrySendRefused(c))
          \/ c \in Pollers /\ (B!TryRecv(c) \/ B!TryRecvRefused(c))
       /\ UNCHANGED varsA
    \/ /\ c \notin OnB
       /\ \/ c \in Pushers /\ (A!TrySend(c) \/ A!TrySendRefused(c))
          \/ c \in Pollers /\ (A!TryRecv(c) \/ A!TryRecvRefused(c))
       /\ UNCHANGED varsB

\* FAULT: it goes on with the other cases after one that was executed.
ExecuteOnwards(x) ==
    /\ at[x] = "executing"
    /\ \E c \in chosen[x] \cap AllCases :
          /\ ExecuteOn(c)
          /\ left' = [left EXCEPT ![x] = Options(x) \ {c}]
    /\ at' = [at EXCEPT ![x] = "polling"]
    /\ UNCHANGED chosen

\* The result of try_execute() is not looked at.
Execute(x) ==
    /\ at[x] = "executing"
    /\ at' = [at EXCEPT ![x] = "returned"]
    /\ \/ /\ Default \in chosen[x]
          /\ UNCHANGED <<varsA, varsB>>
       \/ \E c \in chosen[x] \cap AllCases : ExecuteOn(c)
    /\ UNCHANGED <<left, chosen>>

\* The thread that drives the coroutine resumes it, whatever it waits for.
Redriven(x) ==
    /\ at[x] = "suspended"
    /\ at' = [at EXCEPT ![x] = "returned"]
    /\ UNCHANGED <<left, chosen, varsA, varsB>>

Step(x) ==
    \/ \E c \in left[x] : Pass(x, c) \/ Choose(x, c)
    \/ EndRound(x)
    \/ Execute(x)

Next ==
    \/ StepA
    \/ StepB
    \/ \E x \in Selects : Begin(x) \/ Step(x) \/ Redriven(x)

Spec == Init /\ [][Next]_vars

\* A thread inside select() goes on.
Fairness == \A x \in Selects : WF_vars(Step(x))

FairSpec == Spec /\ Fairness

-----------------------------------------------------------------------------
\* Properties

\* The cases whose operation took place: a value left the case or came to it.
Effective(c) ==
    \/ c \in (IF c \in OnB THEN B!InFlight ELSE A!InFlight)
    \/ c \in Pollers /\ (IF c \in OnB THEN valueB ELSE valueA)[c] # NoValue

Refused(c) == (IF c \in OnB THEN pcB ELSE pcA)[c] = "refused"

\* The types of the fields of the select, and of both channels.
TypeOK ==
    /\ A!TypeOK
    /\ B!TypeOK
    /\ at \in [Selects -> Locations]
    /\ left \in [Selects -> SUBSET (AllCases \cup {Default})]
    /\ chosen \in [Selects -> SUBSET (AllCases \cup {Default})]

\* A select takes effect on at most one of its channels, by one case, and has
\* no effect before it is over: a value is received by, or sent from, the case
\* it returned with, and every other case is as it was.  It may return without
\* any effect: the return is after the one try_execute, not upon its success
\* (select.h:273-278).
OneEffect ==
    \A x \in Selects : \A c \in Cases[x] :
        Effective(c) => chosen[x] = {c} /\ at[x] = "returned"

\* Another party that may take the value or the room that c saw.
HasRival(c) ==
    \E p \in A!Parties \ {c} :
        /\ p \in OnB <=> c \in OnB
        /\ \/ c \in Pollers /\ p \in Receivers \cup Pollers
           \/ c \in Pushers /\ p \in Senders \cup Pushers

\* try_ready and try_execute are two critical sections, and select returns
\* after them in any case.  A select whose chosen case nobody competes with
\* returns with its operation done, unless the channel was closed: what the
\* counterparties and the other channel do in between cannot hurt it.
MissesOnlyWithRivals ==
    \A c \in AllCases :
        Refused(c) => HasRival(c) \/ (IF c \in OnB THEN closedB ELSE closedA)

\* A select() on a closed channel, or on one whose buffer has what the case
\* needs with nobody competing for it, returns, whatever its other cases see.
SelectReturns ==
    \A x \in Selects \ Awaited, c \in AllCases :
        c \in Cases[x] /\ at[x] = "polling" /\ Ready(c)
            /\ (~HasRival(c) \/ (IF c \in OnB THEN closedB ELSE closedA))
        ~> at[x] = "returned"

=============================================================================
