--------------------------- MODULE MCAccountStatus --------------------------
(* Instances of AccountStatus for TLC *)
EXTENDS AccountStatus, TLC

MCSymmetry == Permutations(Op)

=============================================================================
