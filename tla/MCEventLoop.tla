---------------------------- MODULE MCEventLoop ----------------------------
(***************************************************************************)
(* Instances of EventLoop for TLC.                                         *)
(***************************************************************************)
EXTENDS EventLoop

CONSTANTS f1, f2, s1, s2, s3, t1, t2

\* Two sources, one after the other, with the same descriptor, and a third.
FdShared == s1 :> f1 @@ s2 :> f1 @@ s3 :> f2

\* A timer within the millisecond, and one that takes all of it.
DelayTwo == t1 :> 1 @@ t2 :> 2

=============================================================================
