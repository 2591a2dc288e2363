---------------------------- MODULE EventPoller ----------------------------
(***************************************************************************)
(* tang::epoll_event_poller (src/event_poller_linux.cpp): the map from     *)
(* descriptors to event sources, beside the kernel's interest list.        *)
(*                                                                         *)
(* The two agree only as far as the poller keeps them so: the kernel       *)
(* forgets a descriptor when it is closed, and hands its number out again; *)
(* the map keys sources by that number alone.  A call that the poller or   *)
(* the kernel refuses returns false and changes nothing, so that each      *)
(* operation is here the case in which it succeeds.                        *)
(*                                                                         *)
(* Registrations are edge-triggered (EPOLLET): `ready` is what the kernel  *)
(* will report once.  Arming a descriptor, or changing its events, makes   *)
(* it report whatever holds at that moment: any subset.                    *)
(***************************************************************************)
EXTENDS Naturals, FiniteSets, SequencesExt

CONSTANTS
    Descriptors,
    Sources,        \* event_source objects
    Fd,             \* the descriptor that each source's get_handle() returns
    Masks,          \* bound: the sets of event types that users ask for
    Signals,        \* bound: the kernel's event types that occur
    Reused,         \* bound: the descriptors that users close and open again
    NoSource        \* no entry in fd_to_source_

\* event_type, and what the kernel reports.
EventTypes  == {"read", "write", "error", "timeout"}
KernelTypes == {"read", "write", "error", "hangup"}

ASSUME PollerAssumption ==
    /\ IsFiniteSet(Descriptors)
    /\ Fd \in [Sources -> Descriptors]
    /\ Masks \subseteq SUBSET EventTypes
    /\ Signals \subseteq KernelTypes
    /\ Reused \subseteq Descriptors
    /\ NoSource \notin Sources

VARIABLES
    epoll,      \* epoll_create1 succeeded: epoll_fd_ is not -1
    isOpen,     \* the descriptors that are open
    watched,    \* the kernel's interest list: the descriptors in it
    interest,   \* and the event types of each
    ready,      \* what the kernel has to report of each descriptor
    sourceOf,   \* fd_to_source_
    registrar   \* history: the source whose registration the kernel holds

kernelVars == <<isOpen, watched, interest, ready>>
pollerVars == <<epoll, kernelVars, sourceOf, registrar>>

PollerInit ==
    /\ epoll \in BOOLEAN
    /\ isOpen = Descriptors
    /\ watched = {}
    /\ interest = [d \in Descriptors |-> {}]
    /\ ready = [d \in Descriptors |-> {}]
    /\ sourceOf = [d \in Descriptors |-> NoSource]
    /\ registrar = [d \in Descriptors |-> NoSource]

-----------------------------------------------------------------------------
\* A definition whose comment starts with FAULT is the definition after it with
\* one plausible mistake: Next does not use it, the property it breaks is named
\* in PROJECT.json.

\* to_epoll_events, from_epoll_events: neither knows the other's odd one.
ToEpoll(mask)   == mask \ {"timeout"}
FromEpoll(what) == what \ {"hangup"}

\* What the kernel reports for a mask: errors and hangups uncalled for.
Reportable(mask) == Signals \cap (mask \cup {"error", "hangup"})

\* The kernel takes a mask for d, and looks at d at once.
Arm(d, mask) ==
    /\ watched' = watched \cup {d}
    /\ interest' = [interest EXCEPT ![d] = ToEpoll(mask)]
    /\ \E now \in SUBSET Reportable(ToEpoll(mask)) : ready' = [ready EXCEPT ![d] = now]

\* The kernel forgets d.
Disarm(d) ==
    /\ watched' = watched \ {d}
    /\ interest' = [interest EXCEPT ![d] = {}]
    /\ ready' = [ready EXCEPT ![d] = {}]
    /\ registrar' = [registrar EXCEPT ![d] = NoSource]

\* FAULT: insert() where the code has operator[]: a stale entry stays.
RegisterEventOnce(s, mask) ==
    /\ epoll /\ Fd[s] \in isOpen
    /\ Fd[s] \notin watched
    /\ Arm(Fd[s], mask)
    /\ sourceOf' = [sourceOf EXCEPT ![Fd[s]] = IF @ = NoSource THEN s ELSE @]
    /\ registrar' = [registrar EXCEPT ![Fd[s]] = s]
    /\ UNCHANGED <<epoll, isOpen>>

\* EPOLL_CTL_ADD fails for a closed descriptor, and for one the kernel holds.
RegisterEvent(s, mask) ==
    /\ epoll /\ Fd[s] \in isOpen
    /\ Fd[s] \notin watched
    /\ Arm(Fd[s], mask)
    /\ sourceOf' = [sourceOf EXCEPT ![Fd[s]] = s]
    /\ registrar' = [registrar EXCEPT ![Fd[s]] = s]
    /\ UNCHANGED <<epoll, isOpen>>

\* The poller looks up the descriptor, not the source: a source may change, or
\* delete, what another has registered.
Known(s) == epoll /\ sourceOf[Fd[s]] # NoSource /\ Fd[s] \in watched

ModifyEvent(s, mask) ==
    /\ Known(s)
    /\ Arm(Fd[s], mask)
    /\ UNCHANGED <<epoll, isOpen, sourceOf, registrar>>

DeleteEvent(s) ==
    /\ Known(s)
    /\ Disarm(Fd[s])
    /\ sourceOf' = [sourceOf EXCEPT ![Fd[s]] = NoSource]
    /\ UNCHANGED <<epoll, isOpen>>

\* epoll_wait and the lookups: one event per descriptor that is ready and known,
\* in any order.
Collected == {[source |-> sourceOf[d], events |-> FromEpoll(ready[d])] :
                 d \in {e \in Descriptors : ready[e] # {} /\ sourceOf[e] # NoSource}}

SomethingReady == \E d \in Descriptors : ready[d] # {}

Collect == ready' = [d \in Descriptors |-> {}] /\ UNCHANGED <<epoll, isOpen, watched, interest, sourceOf, registrar>>

-----------------------------------------------------------------------------
\* The world outside: descriptors become ready, are closed without
\* delete_event, and their numbers are used again.

Signal(d, what) ==
    /\ d \in watched
    /\ what \in Reportable(interest[d])
    /\ ready' = [ready EXCEPT ![d] = @ \cup {what}]
    /\ UNCHANGED <<epoll, isOpen, watched, interest, sourceOf, registrar>>

CloseDescriptor(d) ==
    /\ d \in isOpen \cap Reused
    /\ isOpen' = isOpen \ {d}
    /\ Disarm(d)
    /\ UNCHANGED <<epoll, sourceOf>>

OpenDescriptor(d) ==
    /\ d \notin isOpen
    /\ isOpen' = isOpen \cup {d}
    /\ UNCHANGED <<epoll, watched, interest, ready, sourceOf, registrar>>

-----------------------------------------------------------------------------
PollerTypeOK ==
    /\ epoll \in BOOLEAN
    /\ isOpen \subseteq Descriptors
    /\ watched \subseteq Descriptors
    /\ interest \in [Descriptors -> SUBSET KernelTypes]
    /\ ready \in [Descriptors -> SUBSET Signals]
    /\ sourceOf \in [Descriptors -> Sources \cup {NoSource}]
    /\ registrar \in [Descriptors -> Sources \cup {NoSource}]

\* What the kernel watches, the poller knows, as the source that registered it,
\* also when the number of a closed descriptor came back as another source's
\* (event_poller_linux.cpp:76-100, 131-154): no event is dropped for want of an
\* entry, none goes to a source that is gone.
Armed ==
    \A d \in watched : d \in isOpen /\ registrar[d] # NoSource /\ sourceOf[d] = registrar[d]

=============================================================================
