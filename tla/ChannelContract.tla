-------------------------- MODULE ChannelContract --------------------------
(***************************************************************************)
(* What tang::channel<T> promises of the values that pass through it, with *)
(* its lists, its lock and its callers abstracted away: a value is stored  *)
(* (up to the capacity), or offered by a waiting sender, or handed over    *)
(* directly; it is taken once; a closed channel accepts nothing, keeps     *)
(* what it stored, and may drop only what was merely offered.  Order is    *)
(* not part of it (see ChannelOrder).                                      *)
(***************************************************************************)
EXTENDS Naturals, FiniteSets

CONSTANTS Capacity, Values, Takers, NoValue

VARIABLES open, offered, stored, got

vars == <<open, offered, stored, got>>

Init ==
    /\ open = TRUE
    /\ offered = {}
    /\ stored = {}
    /\ got = [t \in Takers |-> NoValue]

\* v has not been in the channel.
Fresh(v) == v \notin offered \cup stored \cup {got[t] : t \in Takers}

Give(t, v) == got[t] = NoValue /\ got' = [got EXCEPT ![t] = v]

Store(v) ==
    /\ open /\ Fresh(v)
    /\ Cardinality(stored) < Capacity
    /\ stored' = stored \cup {v}
    /\ UNCHANGED <<open, offered, got>>

Offer(v) ==
    /\ open /\ Fresh(v)
    /\ offered' = offered \cup {v}
    /\ UNCHANGED <<open, stored, got>>

\* Sender to receiver, without a stay in the channel.
Pass(v, t) ==
    /\ open /\ Fresh(v)
    /\ Give(t, v)
    /\ UNCHANGED <<open, offered, stored>>

\* A stored value leaves; an offered one takes its room.
Take(v, t) ==
    /\ v \in stored
    /\ Give(t, v)
    /\ \/ /\ offered = {}
          /\ stored' = stored \ {v}
          /\ UNCHANGED offered
       \/ \E w \in offered : /\ stored' = (stored \ {v}) \cup {w}
                             /\ offered' = offered \ {w}
    /\ UNCHANGED open

TakeOffered(v, t) ==
    /\ open
    /\ v \in offered
    /\ Give(t, v)
    /\ offered' = offered \ {v}
    /\ UNCHANGED <<open, stored>>

Close ==
    /\ open
    /\ open' = FALSE
    /\ UNCHANGED <<offered, stored, got>>

Discard ==
    /\ ~open
    /\ offered' = {}
    /\ UNCHANGED <<open, stored, got>>

Next ==
    \/ \E v \in Values : Store(v) \/ Offer(v)
    \/ \E v \in Values, t \in Takers : Pass(v, t) \/ Take(v, t) \/ TakeOffered(v, t)
    \/ Close
    \/ Discard

Spec == Init /\ [][Next]_vars

=============================================================================
