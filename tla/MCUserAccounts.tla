--------------------------- MODULE MCUserAccounts ---------------------------
(* Symmetry sets for the runs of UserAccounts.                              *)
EXTENDS UserAccounts, TLC

SafetySymmetry ==
    Permutations(Logins) \cup Permutations(Passwords) \cup Permutations(Requests)
=============================================================================
