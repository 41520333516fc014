--------------------------- MODULE MCMemoryRunner ---------------------------
(***************************************************************************)
(* Instances of MemoryRunner for TLC.                                      *)
(***************************************************************************)
EXTENDS MemoryRunner, TLC

NoCursor == -1
MCSymmetry == Permutations(Did)

=============================================================================
