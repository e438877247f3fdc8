--------------------------- MODULE MCOIDCSessions ---------------------------
(* Symmetry sets for the runs of OIDCSessions.  Worker is not in a set.     *)
EXTENDS OIDCSessionsInvariants, TLC

SafetySymmetry ==
    Permutations(States) \cup Permutations(Accounts) \cup
    Permutations(Callbacks) \cup Permutations(Admins)
=============================================================================
