--------------------------- MODULE MCServerSetup ---------------------------
(* Symmetry set for the runs of ServerSetup.                                *)
EXTENDS ServerSetup, TLC

SafetySymmetry == Permutations(Requests)
=============================================================================
