----------------------------- MODULE TaskQueue -----------------------------
(***************************************************************************)
(* What tang::runtime::scheduler promises of the handles that are given to *)
(* it, with its list, its lock, its count and its threads' loops           *)
(* abstracted away: a handle that was submitted is queued until one        *)
(* executor takes it; the executor gives it back, unless the coroutine is  *)
(* over; only when the scheduler has been stopped may an executor drop     *)
(* what it took, and only when no executor has anything in hand may what   *)
(* is left in the queue be destroyed.                                      *)
(***************************************************************************)
EXTENDS Naturals

CONSTANTS Executors, Coroutines, None

VARIABLES
    running,  \* handles are taken
    queued,   \* how often each handle is queued
    held,     \* the handle each executor has in hand
    over      \* coroutines that came to their end or were destroyed

vars == <<running, queued, held, over>>

Init ==
    /\ running \in BOOLEAN
    /\ queued \in [Coroutines -> Nat]
    /\ held = [t \in Executors |-> None]
    /\ over \in SUBSET Coroutines

Start ==
    /\ ~running
    /\ running' = TRUE
    /\ UNCHANGED <<queued, held, over>>

Stop ==
    /\ running
    /\ running' = FALSE
    /\ UNCHANGED <<queued, held, over>>

\* By anyone, at any time, and whatever has become of the coroutines.
Submit(S) ==
    /\ queued' = [c \in Coroutines |-> IF c \in S THEN queued[c] + 1 ELSE queued[c]]
    /\ UNCHANGED <<running, held, over>>

Take(t, c) ==
    /\ running
    /\ held[t] = None
    /\ queued[c] > 0
    /\ queued' = [queued EXCEPT ![c] = @ - 1]
    /\ held' = [held EXCEPT ![t] = c]
    /\ UNCHANGED <<running, over>>

\* In an executor, or in the thread that called c.
End(c) ==
    /\ over' = over \cup {c}
    /\ UNCHANGED <<running, queued, held>>

LetGo(t) == held' = [held EXCEPT ![t] = None]

\* The coroutine is over: nothing is left of its handle.
Complete(t) ==
    /\ held[t] \in over
    /\ LetGo(t)
    /\ UNCHANGED <<running, queued, over>>

\* The coroutine suspended: its handle goes back, whatever it waits for.
Return(t) ==
    /\ held[t] # None
    /\ queued' = [queued EXCEPT ![held[t]] = @ + 1]
    /\ LetGo(t)
    /\ UNCHANGED <<running, over>>

Drop(t) ==
    /\ ~running
    /\ LetGo(t)
    /\ UNCHANGED <<running, queued, over>>

\* What is queued is destroyed.
Discard ==
    /\ ~running
    /\ \A t \in Executors : held[t] = None
    /\ over' = over \cup {c \in Coroutines : queued[c] > 0}
    /\ queued' = [c \in Coroutines |-> 0]
    /\ UNCHANGED <<running, held>>

Next ==
    \/ Start \/ Stop \/ Discard
    \/ \E S \in SUBSET Coroutines : Submit(S)
    \/ \E c \in Coroutines : End(c)
    \/ \E t \in Executors : Complete(t) \/ Return(t) \/ Drop(t)
    \/ \E t \in Executors, c \in Coroutines : Take(t, c)

Spec == Init /\ [][Next]_vars

=============================================================================
