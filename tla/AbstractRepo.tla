----------------------------- MODULE AbstractRepo -----------------------------
(***************************************************************************)
(* What the commits of a repository need of its trees: a tree holds its    *)
(* leaves, whatever nodes it is made of, and a comparison meets what two   *)
(* trees hold, the keys in their order, and passes by only what both hold. *)
(* The diff and the rest of the commit are those of the code (modules      *)
(* DataDiff and RepoCommit).                                               *)
(*                                                                         *)
(* The specification leaves open which nodes a tree has and in which order *)
(* a comparison comes upon them, and it has no bounds.                     *)
(***************************************************************************)
EXTENDS RepoCommit

VARIABLES
    stored,    \* the leaves of the stored tree, as a table
    nodes,     \* its nodes
    leaves,    \* the leaves of the tree that writes were applied to, as a table
    newNodes,  \* its nodes
    indexed,   \* the table record with the writes so far
    prevNodes, \* the nodes of the stored tree that the comparison has yet to meet
    prevKeys,  \* its keys that the comparison has yet to meet
    currNodes, \* and the nodes
    currKeys   \* and keys of the new tree

treeVars == <<stored, nodes, leaves, newNodes>>
walkNodes == <<prevNodes, currNodes>>
walkKeys == <<prevKeys, currKeys>>
walkVars == <<walkNodes, walkKeys>>
vars == <<phase, storeVars, writes, diff, treeVars, indexed, walkVars>>

\* Nodes are named by hashes, as records are
AreNodes(ns) == ns \cap Val = {}

TypeOK ==
    /\ phase \in {"idle", "writing", "comparing"}
    /\ {records, stored, leaves, indexed} \subseteq Table
    /\ AreNodes(nodes) /\ AreNodes(newNodes)
    /\ rev \in Nat /\ blocks \in [DOMAIN blocks -> 0 .. rev]
    /\ writes \in Seq(Write)
    /\ DOMAIN history = 0 .. rev /\ moved \in BOOLEAN

Init ==
    /\ AreNodes(nodes)
    /\ NewStore(nodes)
    /\ stored = <<>> /\ leaves = <<>> /\ newNodes = nodes /\ indexed = <<>>
    /\ diff = EmptyDiff
    /\ prevNodes = nodes /\ currNodes = nodes /\ prevKeys = {} /\ currKeys = {}

-----------------------------------------------------------------------------
(* Writes *)

Start ==
    /\ phase = "idle"
    /\ phase' = "writing" /\ writes' = <<>>
    /\ leaves' = stored /\ newNodes' = nodes /\ indexed' = records
    /\ UNCHANGED <<storeVars, stored, nodes, diff, walkVars>>

\* A write brings some other nodes
Apply(w, table) ==
    /\ writes' = Append(writes, w)
    /\ leaves' = table /\ AreNodes(newNodes')
    /\ indexed' = IndexWrite(indexed, w)
    /\ UNCHANGED <<phase, storeVars, stored, nodes, diff, walkVars>>

Create(k, v) ==
    /\ k \notin DOMAIN leaves
    /\ Apply([action |-> "create", key |-> k, val |-> v], With(leaves, k, v))

UpdateRecord(k, v) ==
    /\ k \in DOMAIN leaves
    /\ Apply([action |-> "update", key |-> k, val |-> v], With(leaves, k, v))

DeleteRecord(k) ==
    /\ k \in DOMAIN leaves
    /\ Apply([action |-> "delete", key |-> k], Without(leaves, k))

-----------------------------------------------------------------------------
(* The comparison *)

StartDiff ==
    /\ phase = "writing"
    /\ phase' = "comparing"
    /\ diff' = EmptyDiff
    /\ prevNodes' = nodes /\ currNodes' = newNodes
    /\ prevKeys' = DOMAIN stored /\ currKeys' = DOMAIN leaves
    /\ UNCHANGED <<storeVars, writes, treeVars, indexed>>

LeaveNode(n) ==
    /\ diff' = TreeDelete(diff, n)
    /\ prevNodes' = prevNodes \ {n}
    /\ UNCHANGED <<currNodes, walkKeys>>

EnterNode(n) ==
    /\ diff' = TreeAdd(diff, n)
    /\ currNodes' = currNodes \ {n}
    /\ UNCHANGED <<prevNodes, walkKeys>>

\* One node in the place of another
ReplaceNode(n, m) ==
    /\ n # m
    /\ diff' = TreeDelete(TreeAdd(diff, m), n)
    /\ prevNodes' = prevNodes \ {n} /\ currNodes' = currNodes \ {m}
    /\ UNCHANGED walkKeys

\* A subtree of both trees
PassShared(ns, ks) ==
    /\ \A k \in ks : stored[k] = leaves[k]
    /\ prevNodes' = prevNodes \ ns /\ currNodes' = currNodes \ ns
    /\ prevKeys' = prevKeys \ ks /\ currKeys' = currKeys \ ks
    /\ UNCHANGED diff

\* No key before it has yet to be met
IsNext(k) == \A j \in prevKeys \cup currKeys : k <= j

OldLeaf(k) == Leaf(k, stored[k])
NewLeaf(k) == Leaf(k, leaves[k])

SameKey(k) ==
    /\ k \in prevKeys \cap currKeys
    /\ diff' = IF stored[k] = leaves[k] THEN diff ELSE LeafUpdate(diff, OldLeaf(k), NewLeaf(k))
    /\ prevKeys' = prevKeys \ {k} /\ currKeys' = currKeys \ {k}

\* Once the new tree is done, what is left of the stored one goes
KeyGone(k) ==
    /\ k \in prevKeys \ currKeys
    /\ \/ diff' = LeafDelete(diff, OldLeaf(k))
       \/ currKeys = {} /\ diff' = LeafGone(diff, OldLeaf(k))
    /\ prevKeys' = prevKeys \ {k} /\ UNCHANGED currKeys

KeyCame(k) ==
    /\ k \in currKeys \ prevKeys
    /\ diff' = LeafAdd(diff, NewLeaf(k))
    /\ currKeys' = currKeys \ {k} /\ UNCHANGED prevKeys

MeetKey(k) ==
    /\ IsNext(k)
    /\ SameKey(k) \/ KeyGone(k) \/ KeyCame(k)
    /\ UNCHANGED walkNodes

Compare ==
    /\ phase = "comparing"
    /\ \/ \E k \in prevKeys \cup currKeys : MeetKey(k)
       \/ \E n \in prevNodes : LeaveNode(n)
       \/ \E n \in currNodes : EnterNode(n)
       \/ \E n \in prevNodes, m \in currNodes : ReplaceNode(n, m)
       \/ \E ns \in SUBSET (prevNodes \cap currNodes), ks \in SUBSET (prevKeys \cap currKeys) :
             PassShared(ns, ks)
    /\ UNCHANGED <<phase, storeVars, writes, treeVars, indexed>>

-----------------------------------------------------------------------------

Compared ==
    /\ phase = "comparing"
    /\ prevNodes = {} /\ currNodes = {} /\ prevKeys = {} /\ currKeys = {}

Commit ==
    /\ Compared
    /\ StoreCommit(indexed, newNodes \cup Range(leaves))
    /\ stored' = leaves /\ nodes' = newNodes
    /\ UNCHANGED <<leaves, newNodes, indexed, diff, walkVars>>

Next ==
    \/ Start
    \/ /\ phase = "writing"
       /\ \E k \in Key : \/ \E v \in Val : Create(k, v) \/ UpdateRecord(k, v)
                         \/ DeleteRecord(k)
    \/ StartDiff
    \/ Compare
    \/ Commit

Spec == Init /\ [][Next]_vars

-----------------------------------------------------------------------------
(* Properties; those of the stored blocks are in RepoCommit *)

\* The table of records and the tree, which are written by different code, say
\* the same after every commit.
RecordsMatchTree == records = stored

\* A comparison that has met everything has told it as it is, though it came upon
\* nodes and keys of the two trees in any order, and cancelled out some of them.
DiffIsExact ==
    Compared => IsExact(diff, LeavesOf(stored), LeavesOf(leaves), nodes, newNodes)

=============================================================================
