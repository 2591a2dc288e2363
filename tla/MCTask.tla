------------------------------- MODULE MCTask -------------------------------
(***************************************************************************)
(* Instances of Task for TLC.                                              *)
(***************************************************************************)
EXTENDS Task

CONSTANTS v1, v2, client, e1, e2

=============================================================================
