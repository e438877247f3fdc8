-------------------------- MODULE MCOIDCProviders ---------------------------
(* Symmetry set for the runs of OIDCProviders.                              *)
EXTENDS OIDCProviders, TLC

SafetySymmetry == Permutations(Providers) \cup Permutations(Requests)
=============================================================================
