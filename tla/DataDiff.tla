------------------------------- MODULE DataDiff -------------------------------
(***************************************************************************)
(* What a comparison of two trees notes (packages/repo/src/data-diff.ts):  *)
(* the keys that came, went and changed, the nodes and records that are    *)
(* new, and the blocks that are not needed any more.  A node or record     *)
(* that is noted as new and as removed cancels out, in some of the orders. *)
(***************************************************************************)
EXTENDS Records

VARIABLE diff  \* the DataDiff

EmptyDiff == [adds |-> {}, updates |-> {}, deletes |-> {},
              newMstBlocks |-> {}, newLeafCids |-> {}, removedCids |-> {}]

TreeAdd(d, cid) ==
    IF cid \in d.removedCids THEN [d EXCEPT !.removedCids = @ \ {cid}]
    ELSE [d EXCEPT !.newMstBlocks = @ \cup {cid}]

\* Mutant: a node that was added a moment ago is removed all the same
TreeDeleteAlways(d, cid) == [d EXCEPT !.removedCids = @ \cup {cid}]

TreeDelete(d, cid) ==
    IF cid \in d.newMstBlocks THEN [d EXCEPT !.newMstBlocks = @ \ {cid}]
    ELSE [d EXCEPT !.removedCids = @ \cup {cid}]

LeafAdd(d, leaf) ==
    [IF leaf.val \in d.removedCids THEN [d EXCEPT !.removedCids = @ \ {leaf.val}]
     ELSE [d EXCEPT !.newLeafCids = @ \cup {leaf.val}]
     EXCEPT !.adds = @ \cup {leaf}]

LeafUpdate(d, prev, leaf) ==
    [d EXCEPT !.updates = @ \cup {leaf},
              !.removedCids = @ \cup {prev.val},
              !.newLeafCids = @ \cup {leaf.val}]

LeafDelete(d, leaf) ==
    [IF leaf.val \in d.newLeafCids THEN [d EXCEPT !.newLeafCids = @ \ {leaf.val}]
     ELSE [d EXCEPT !.removedCids = @ \cup {leaf.val}]
     EXCEPT !.deletes = @ \cup {leaf}]

\* What nodeDelete does with a leaf: it is not looked up among the new ones
LeafGone(d, leaf) ==
    [d EXCEPT !.deletes = @ \cup {leaf}, !.removedCids = @ \cup {leaf.val}]

\* The diff tells added, updated and deleted keys and the nodes that came and
\* went as they are, between trees of these leaves and nodes
IsExact(d, old, new, oldNodes, newNodes) ==
    LET keys(leaves) == {l.key : l \in leaves}
    IN  /\ d.adds = {l \in new : l.key \notin keys(old)}
        /\ d.deletes = {l \in old : l.key \notin keys(new)}
        /\ d.updates = {l \in new \ old : l.key \in keys(old)}
        /\ d.newMstBlocks = newNodes \ oldNodes
        /\ d.removedCids \ Val = oldNodes \ newNodes

=============================================================================
