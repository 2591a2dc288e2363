-------------------------- MODULE EventLoopClaims --------------------------
(***************************************************************************)
(* What the documentation says of event_loop and the code does not do.     *)
(***************************************************************************)
EXTENDS MCEventLoop

\* "计算最小超时时间", "返回下一次轮询超时" (doc/Arch.md:337, 342): the next wait of
\* the loop is as long as the soonest of its timers, so that each of them fires
\* in its time.  handle_timers takes the minimum over what its iterator meets; a
\* timer that a callback adds may be behind the iterator (event_loop.cpp:95-110),
\* and with no other timer the wait has no end.
EveryTimerFires ==
    \A t \in Timers : (running /\ status[t] = "pending") ~> (status[t] # "pending" \/ ~running)

=============================================================================
