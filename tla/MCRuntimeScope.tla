--------------------------- MODULE MCRuntimeScope ---------------------------
(***************************************************************************)
(* Instances of RuntimeScope for TLC.                                      *)
(***************************************************************************)
EXTENDS RuntimeScope

CONSTANTS u1, w1, w2, l1, s1, s2, s3

=============================================================================
