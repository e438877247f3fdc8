---------------------------- MODULE MCLicensing -----------------------------
(* Symmetry set for the runs of Licensing.                                  *)
EXTENDS Licensing, TLC

SafetySymmetry == Permutations(Requests) \cup Permutations(Keys)
=============================================================================
