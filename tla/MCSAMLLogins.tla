---------------------------- MODULE MCSAMLLogins ----------------------------
(* Symmetry sets for the runs of SAMLLogins.                                *)
EXTENDS SAMLLogins, TLC

SafetySymmetry == Permutations(Requests) \cup Permutations(URLs) \cup Permutations(Flags)
=============================================================================
