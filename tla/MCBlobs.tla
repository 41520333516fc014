------------------------------ MODULE MCBlobs ------------------------------
(* Instances of Blobs for TLC *)
EXTENDS Blobs, TLC

MCSymmetry == Permutations(Record)

=============================================================================
