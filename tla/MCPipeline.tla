----------------------------- MODULE MCPipeline -----------------------------
(***************************************************************************)
(* Small instances of Pipeline.                                            *)
(***************************************************************************)
EXTENDS Pipeline

CONSTANTS c1, c2, r1, r2, s1, s2

TwoCallers == {c1, c2}
TwoRows == {r1, r2}
TwoSinkers == {s1, s2}
FewBatches == {{r1}, {r2}, {r1, r2}}
=============================================================================
