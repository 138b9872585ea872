------------------------ MODULE MCPolicyLifecycle -------------------------
(* Instances of PolicyLifecycle for TLC.                                   *)
EXTENDS PolicyLifecycle, TLC

Symmetry ==
    Permutations(Policies) \cup Permutations(Contents) \cup
    Permutations(Users) \cup Permutations(Admins)
=============================================================================
