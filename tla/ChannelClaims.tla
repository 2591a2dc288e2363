--------------------------- MODULE ChannelClaims ---------------------------
(***************************************************************************)
(* What comments, docs and tests of the repository say of a channel, where *)
(* the code does something else.                                           *)
(***************************************************************************)
EXTENDS Channel

\* runtime_scope.h:84, "coroutines will properly suspend/resume via awaiters":
\* a coroutine comes back from co_await when its channel let it, and not
\* before: a receiver with a value or from a closed channel, a sender whose
\* value is in the channel or with a taker, or from a closed channel.
ResumedByAwaiter ==
    \A c \in Coroutines :
        pc[c] = "done" /\ ~closed => ~Registered(c) /\ (c \in Receivers => result[c])

=============================================================================
