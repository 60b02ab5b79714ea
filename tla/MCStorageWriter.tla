--------------------------- MODULE MCStorageWriter ---------------------------
(***************************************************************************)
(* Small instances of StorageWriter.                                       *)
(***************************************************************************)
EXTENDS StorageWriter, TLC

CONSTANTS c1, c2, c3, r1, r2, r3

ThreeCallers == {c1, c2, c3}
ThreeRows == {r1, r2, r3}
OneBad == {r1}
Symmetry == Permutations(Callers) \cup Permutations(Rows \ Unencodable)
=============================================================================
