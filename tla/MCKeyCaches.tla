---------------------------- MODULE MCKeyCaches -----------------------------
(* The providers and the symmetry set of the runs of KeyCaches.             *)
EXTENDS KeyCaches, TLC

CONSTANTS p1, p2

TwoProviders == <<p1, p2>>

SafetySymmetry == Permutations(Requests)
=============================================================================
