----------------------------- MODULE MCSelect -----------------------------
(***************************************************************************)
(* Instances of Select for TLC.                                            *)
(***************************************************************************)
EXTENDS Select

CONSTANTS x1, x2, x3, a1, b1, b2, b3

\* A select over both channels, a co_select that sends, and a select with a
\* default case.
CasesOfThree == x1 :> {a1, b1} @@ x2 :> {b2} @@ x3 :> {b3}

=============================================================================
