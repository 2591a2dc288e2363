-------------------------- MODULE MCChannelRuntime --------------------------
(***************************************************************************)
(* The instance of ChannelRuntime for TLC: a coroutine of each way to be   *)
(* resumed.                                                                *)
(***************************************************************************)
EXTENDS ChannelRuntime

CONSTANTS
    late,   \* a sender that begins on a worker
    kept,   \* a receiver that its channel alone resumes
    ran,    \* a receiver whose task is run()
    closer, w1, w2

=============================================================================
