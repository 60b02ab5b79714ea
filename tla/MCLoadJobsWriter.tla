-------------------------- MODULE MCLoadJobsWriter --------------------------
(***************************************************************************)
(* Small instances of LoadJobsWriter: callers and rows are model values.   *)
(***************************************************************************)
EXTENDS LoadJobsWriter, TLC

CONSTANTS c1, c2, c3, r1, r2, r3, r4

TwoCallers == {c1, c2}
ThreeCallers == {c1, c2, c3}
TwoRows == {r1, r2}
FourRows == {r1, r2, r3, r4}
OneBad == {r1}

\* Callers are alike, and so are the rows that can be rendered.
Symmetry == Permutations(Callers) \cup Permutations(Rows \ Unencodable)
=============================================================================
