---------------------------- MODULE MCRepoWrites ----------------------------
(***************************************************************************)
(* Instances of RepoWrites for TLC.                                        *)
(***************************************************************************)
EXTENDS RepoWrites, TLC

CONSTANTS k1, k2, v1, v2, s1

MCKey == {k1, k2}
MCVal == {v1, v2}
MCSubject == {s1}

\* Both records link to the same subject, as two likes of one post do
MCLink == [v \in MCVal |-> s1]

One(handler, k, action, v, old) ==
    [handler |-> handler,
     writes |-> k :> [action |-> action, val |-> v, swapRecord |-> old]]

MCCalls ==
    {One("putRecord", k1, "put", v1, None),
     One("createRecord", k2, "create", v2, Unset), One("deleteRecord", k1, "delete", None, v1),
     [handler |-> "applyWrites", writes |->
        k1 :> [action |-> "update", val |-> v2, swapRecord |-> Unset] @@
        k2 :> [action |-> "create", val |-> v1, swapRecord |-> Unset]]}

MCSymmetry == Permutations(Req)

=============================================================================
