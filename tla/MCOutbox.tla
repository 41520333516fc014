------------------------------ MODULE MCOutbox ------------------------------
(***************************************************************************)
(* Instances of Sequencer and Outbox for TLC.                              *)
(***************************************************************************)
EXTENDS Outbox, TLC

\* Single events, and the three events of sequenceAccountActivation
MCCommits == {<<"commit">>}
MCBatches == {<<"commit">>, <<"account", "identity", "sync">>}

\* Every cursor that the table of a small instance tells apart
MCCursors == -1 .. 3

MCSymmetry == Permutations(Did)

=============================================================================
