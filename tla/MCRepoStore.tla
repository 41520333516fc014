----------------------------- MODULE MCRepoStore -----------------------------
(***************************************************************************)
(* Instances of RepoStore for TLC.                                         *)
(***************************************************************************)
EXTENDS RepoStore

MCKey == 1 .. 3
MCSymmetry == Permutations(Val)

=============================================================================
