---------------------------- MODULE MCStagedLoad ----------------------------
(***************************************************************************)
(* Small instances of StagedLoad.                                          *)
(***************************************************************************)
EXTENDS StagedLoad, TLC

CONSTANTS l1, l2, g1

TwoLoads == {l1, l2}
OneStaging == {g1}
Symmetry == Permutations(Loads)
=============================================================================
