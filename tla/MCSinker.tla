------------------------------- MODULE MCSinker -------------------------------
(***************************************************************************)
(* Small instances of Sinker.                                              *)
(***************************************************************************)
EXTENDS Sinker

CONSTANTS c1, c2, s1, s2

TwoCallers == {c1, c2}
TwoSinkers == {s1, s2}
=============================================================================
