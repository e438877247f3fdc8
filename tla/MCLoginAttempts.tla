-------------------------- MODULE MCLoginAttempts --------------------------
(* Symmetry sets for the runs of LoginAttempts.                             *)
EXTENDS LoginAttempts, TLC

SafetySymmetry == Permutations(Requests) \cup Permutations(Logins)
=============================================================================
