--------------------------------- MODULE Mst ---------------------------------
(***************************************************************************)
(* The Merkle search tree of a repository (packages/repo/src/mst/mst.ts).  *)
(*                                                                         *)
(* A key belongs on the layer that the leading zeros of its hash give.  A  *)
(* node holds, in the order of the keys, the leaves of its layer and the   *)
(* subtrees of the keys between them, one layer down.  The code rewrites   *)
(* nodes in place, key by key; Canonical, the reference, builds the tree   *)
(* from the set of its leaves.                                             *)
(*                                                                         *)
(* Abstraction.  A block is named by its hash, so the pointer of a node is *)
(* modelled by its content: the entries, down to the leaves, without the   *)
(* layer hints, which live in memory only.  The layer check of appendMerge *)
(* and the "repeated reference" checks are assertions, and left out.       *)
(***************************************************************************)
EXTENDS Records, SequencesExt

CONSTANT MaxZeros  \* bound: leading zeros of the hash of a key

VARIABLE zeros  \* leadingZerosOnHash: an arbitrary function of the key

Unknown == -1

Node(layer, entries) == [layer |-> layer, entries |-> entries]
IsTree(e) == "entries" \in DOMAIN e

\* The content of a node, and its name
RECURSIVE Pointer(_)
Pointer(e) ==
    IF IsTree(e) THEN [entries |-> [i \in DOMAIN e.entries |-> Pointer(e.entries[i])]]
                 ELSE e

EmptyPointer == Pointer(Node(Unknown, <<>>))

\* The leaves of a node, without those of its subtrees, in order
OwnLeaves(t) == SelectSeq(t.entries, LAMBDA e : ~IsTree(e))

RECURSIVE Leaves(_)
Leaves(e) ==
    IF IsTree(e) THEN UNION {Leaves(e.entries[i]) : i \in DOMAIN e.entries}
                 ELSE {e}

\* The node and every node below it
RECURSIVE Nodes(_)
Nodes(t) ==
    {Pointer(t)} \cup
        UNION {Nodes(t.entries[i]) : i \in {j \in DOMAIN t.entries : IsTree(t.entries[j])}}

-----------------------------------------------------------------------------
(* Layers *)

\* layerForEntries
LayerForEntries(t) ==
    IF OwnLeaves(t) = <<>> THEN Unknown ELSE zeros[OwnLeaves(t)[1].key]

\* load, getEntries, deserializeNodeData: a node that holds a leaf tells its
\* subtrees their layer; one of layer 0, or that holds no leaf, does not
RECURSIVE Load(_, _)
Load(pointer, layer) ==
    LET below == IF LayerForEntries(pointer) > 0 THEN LayerForEntries(pointer) - 1
                 ELSE Unknown
    IN  Node(layer, [i \in DOMAIN pointer.entries |->
                IF IsTree(pointer.entries[i]) THEN Load(pointer.entries[i], below)
                ELSE pointer.entries[i]])

\* attemptGetLayer: the hint, or a leaf, or the layer above a subtree (a node
\* without leaves has at most one)
RECURSIVE AttemptGetLayer(_)
AttemptGetLayer(t) ==
    IF t.layer # Unknown THEN t.layer
    ELSE IF LayerForEntries(t) # Unknown THEN LayerForEntries(t)
    ELSE IF t.entries = <<>> \/ AttemptGetLayer(t.entries[1]) = Unknown THEN Unknown
    ELSE AttemptGetLayer(t.entries[1]) + 1

GetLayer(t) == IF AttemptGetLayer(t) = Unknown THEN 0 ELSE AttemptGetLayer(t)

-----------------------------------------------------------------------------
(* Positions and pieces of a node *)

\* findGtOrEqualLeafIndex
Position(t, k) ==
    SelectInSeq(t.entries \o <<Leaf(k, k)>>, LAMBDA e : ~IsTree(e) /\ e.key >= k)

HasTreeAt(t, i) == i \in DOMAIN t.entries /\ IsTree(t.entries[i])
HasLeafAt(t, i, k) ==
    i \in DOMAIN t.entries /\ ~IsTree(t.entries[i]) /\ t.entries[i].key = k

WithEntries(t, entries) == Node(t.layer, entries)
UpdateEntry(t, i, e) == WithEntries(t, ReplaceAt(t.entries, i, e))
RemoveEntry(t, i) == WithEntries(t, RemoveAt(t.entries, i))
SpliceIn(t, i, e) == WithEntries(t, InsertAt(t.entries, i, e))

\* A tree that may be absent is a sequence of at most one tree
IfAny(t) == IF t.entries = <<>> THEN <<>> ELSE <<t>>

\* splitAround: the parts of a tree before and after a key
RECURSIVE SplitAround(_, _)
SplitAround(t, k) ==
    LET i == Position(t, k)
        before == SubSeq(t.entries, 1, i - 1)
        after == SubSeq(t.entries, i, Len(t.entries))
        split == SplitAround(t.entries[i - 1], k)
    IN  IF HasTreeAt(t, i - 1)
        THEN <<IfAny(WithEntries(t, Front(before) \o split[1])),
               IfAny(WithEntries(t, split[2] \o after))>>
        ELSE <<IfAny(WithEntries(t, before)), IfAny(WithEntries(t, after))>>

\* appendMerge: two neighbours of one layer, all keys of u after those of t
RECURSIVE AppendMerge(_, _)
AppendMerge(t, u) ==
    Node(GetLayer(t),
         IF HasTreeAt(t, Len(t.entries)) /\ HasTreeAt(u, 1)
         THEN Front(t.entries) \o <<AppendMerge(Last(t.entries), Head(u.entries))>>
                               \o Tail(u.entries)
         ELSE t.entries \o u.entries)

\* createParent, n times
RECURSIVE Raise(_, _)
Raise(ts, n) ==
    IF n = 0 \/ ts = <<>> THEN ts
    ELSE LET layer == GetLayer(ts[1])
         IN  Raise(<<Node(layer + 1, <<Node(layer, ts[1].entries)>>)>>, n - 1)

-----------------------------------------------------------------------------
(* Operations *)

\* add, of a key that the tree does not hold; getLayer caches the layer
RECURSIVE Add(_, _, _)
Add(tree, k, v) ==
    LET layer == GetLayer(tree)
        t == Node(layer, tree.entries)
        i == Position(t, k)
        \* where the key splits the subtree before it, or the whole tree
        around == SplitAround(t.entries[i - 1], k)
        split == SplitAround(t, k)
    IN  IF zeros[k] > layer
        THEN Node(zeros[k], Raise(split[1], zeros[k] - layer - 1)
                            \o <<Leaf(k, v)>>
                            \o Raise(split[2], zeros[k] - layer - 1))
        ELSE IF zeros[k] = layer
        THEN IF HasTreeAt(t, i - 1)
             THEN WithEntries(t, SubSeq(t.entries, 1, i - 2)
                                 \o around[1] \o <<Leaf(k, v)>> \o around[2]
                                 \o SubSeq(t.entries, i, Len(t.entries)))
             ELSE SpliceIn(t, i, Leaf(k, v))
        ELSE IF HasTreeAt(t, i - 1)
             THEN UpdateEntry(t, i - 1, Add(t.entries[i - 1], k, v))
             ELSE SpliceIn(t, i, Add(Node(layer - 1, <<>>), k, v))

\* update, of a key that the tree holds
RECURSIVE Update(_, _, _)
Update(t, k, v) ==
    LET i == Position(t, k)
    IN  IF HasLeafAt(t, i, k) THEN UpdateEntry(t, i, Leaf(k, v))
        ELSE UpdateEntry(t, i - 1, Update(t.entries[i - 1], k, v))

\* deleteRecurse, of a key that the tree holds
RECURSIVE DeleteRecurse(_, _)
DeleteRecurse(t, k) ==
    LET i == Position(t, k)
        subtree == DeleteRecurse(t.entries[i - 1], k)
    IN  IF HasLeafAt(t, i, k)
        THEN IF HasTreeAt(t, i - 1) /\ HasTreeAt(t, i + 1)
             THEN WithEntries(t, SubSeq(t.entries, 1, i - 2)
                      \o <<AppendMerge(t.entries[i - 1], t.entries[i + 1])>>
                      \o SubSeq(t.entries, i + 2, Len(t.entries)))
             ELSE RemoveEntry(t, i)
        ELSE IF subtree.entries = <<>> THEN RemoveEntry(t, i - 1)
        ELSE UpdateEntry(t, i - 1, subtree)

\* trimTop: a root that only points to another tree goes
RECURSIVE TrimTop(_)
TrimTop(t) ==
    IF Len(t.entries) = 1 /\ IsTree(t.entries[1]) THEN TrimTop(t.entries[1]) ELSE t

\* Mutant: the root stays
DeleteUntrimmed(t, k) == DeleteRecurse(t, k)

Delete(t, k) == TrimTop(DeleteRecurse(t, k))

-----------------------------------------------------------------------------
(* The reference: the tree that a set of leaves determines *)

\* The node of a layer over a set of leaves, all of this layer or below
RECURSIVE CanonicalNode(_, _)
CanonicalNode(leaves, layer) ==
    LET own == SetToSortSeq({l \in leaves : zeros[l.key] = layer},
                            LAMBDA a, b : a.key < b.key)
        gap(i) == {l \in leaves : /\ i > 0 => l.key > own[i].key
                                  /\ i < Len(own) => l.key < own[i + 1].key}
        below(i) == IF gap(i) = {} THEN <<>>
                    ELSE <<CanonicalNode(gap(i), layer - 1)>>
    IN  [entries |-> below(0) \o FlattenSeq([i \in DOMAIN own |-> <<own[i]>> \o below(i)])]

Canonical(leaves) ==
    IF leaves = {} THEN EmptyPointer
    ELSE CanonicalNode(leaves, CHOOSE n \in 0 .. MaxZeros :
             /\ \E l \in leaves : zeros[l.key] = n
             /\ \A l \in leaves : zeros[l.key] <= n)

=============================================================================
