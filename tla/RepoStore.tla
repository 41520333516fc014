------------------------------ MODULE RepoStore ------------------------------
(***************************************************************************)
(* The repository of one account: its tree, its blocks and its records     *)
(* (packages/repo/src/repo.ts,                                             *)
(* packages/pds/src/actor-store/repo/transactor.ts, sql-repo-transactor.ts)*)
(*                                                                         *)
(* A commit loads the stored tree, applies its writes one by one, compares *)
(* the two trees (module MstDiff) and does the rest of module RepoCommit.  *)
(* All of it is one transaction of the account's SQLite file, so no other  *)
(* commit is in between; its steps are actions here.  A write that the     *)
(* tree refuses aborts the transaction, which then did not happen.         *)
(*                                                                         *)
(* Abstraction.  A record is its hash; the signed commit block, new every  *)
(* time, and what readers of the firehose need of the tree are left out.   *)
(***************************************************************************)
EXTENDS MstDiff, RepoCommit

CONSTANTS
    MaxWrites,  \* bound: writes of one commit (200 in the code)
    MaxTotal,   \* bound: writes of all commits
    MaxRev      \* bound: commits

VARIABLES
    root,     \* the pointer of the tree in the commit that repo_root names
    data,     \* the tree that the writes have been applied to
    total,    \* history: writes so far
    emptied   \* history: a commit has emptied its tree and added to it again

vars == <<zeros, diffVars, phase, root, storeVars, writes, data, total, emptied>>

\* Blocks that a tree is made of
TreeBlocks(pointer) == Nodes(pointer) \cup {l.val : l \in Leaves(pointer)}

TypeOK ==
    /\ zeros \in [Key -> 0 .. MaxZeros]
    /\ phase \in {"idle", "writing", "comparing"}
    /\ DOMAIN records \subseteq Key /\ Range(records) \subseteq Val
    /\ root \in DOMAIN blocks /\ Range(blocks) \subseteq 0 .. rev
    /\ rev \in 0 .. MaxRev
    /\ writes \in Seq(Write) /\ Len(writes) <= MaxWrites
    /\ DOMAIN history = 0 .. rev
    /\ total \in 0 .. MaxTotal /\ emptied \in BOOLEAN /\ moved \in BOOLEAN

Init ==
    /\ zeros \in [Key -> 0 .. MaxZeros]
    /\ root = EmptyPointer
    /\ NewStore({EmptyPointer})
    /\ data = Load(EmptyPointer, Unknown)
    /\ left = Walker(data) /\ right = Walker(data) /\ diff = EmptyDiff
    /\ total = 0 /\ emptied = FALSE

-----------------------------------------------------------------------------
(* Repo.formatCommit: the writes *)

Start ==
    /\ phase = "idle" /\ rev < MaxRev
    /\ phase' = "writing"
    /\ data' = Load(root, Unknown) /\ writes' = <<>>
    /\ UNCHANGED <<zeros, diffVars, root, storeVars, total, emptied>>

Apply(w, tree) ==
    /\ phase = "writing" /\ Len(writes) < MaxWrites
    /\ total < MaxTotal /\ total' = total + 1
    /\ writes' = Append(writes, w)
    /\ data' = tree
    /\ emptied' = (emptied \/ (writes # <<>> /\ Leaves(data) = {}))
    /\ UNCHANGED <<zeros, diffVars, phase, root, storeVars>>

Holds(k) == \E l \in Leaves(data) : l.key = k

Create(k, v) ==
    ~Holds(k) /\ Apply([action |-> "create", key |-> k, val |-> v], Add(data, k, v))

\* An update to the record that is there already is one too
UpdateRecord(k, v) ==
    Holds(k) /\ Apply([action |-> "update", key |-> k, val |-> v], Update(data, k, v))

DeleteRecord(k) ==
    Holds(k) /\ Apply([action |-> "delete", key |-> k], Delete(data, k))

\* DataDiff.of
StartDiff ==
    /\ phase = "writing" /\ writes # <<>>
    /\ phase' = "comparing"
    /\ Begin(Load(root, Unknown), data)
    /\ UNCHANGED <<zeros, root, storeVars, writes, data, total, emptied>>

Compare ==
    /\ phase = "comparing"
    /\ DiffStep
    /\ UNCHANGED <<zeros, phase, root, storeVars, writes, data, total, emptied>>

-----------------------------------------------------------------------------
(* The rest of the commit *)

Commit ==
    /\ phase = "comparing" /\ Done(left) /\ Done(right)
    /\ root' = Pointer(data)
    /\ StoreCommit(FoldLeft(IndexWrite, records, writes), TreeBlocks(Pointer(data)))
    /\ UNCHANGED <<zeros, diffVars, data, total, emptied>>

Next ==
    \/ Start
    \/ \E k \in Key : \/ \E v \in Val : Create(k, v) \/ UpdateRecord(k, v)
                      \/ DeleteRecord(k)
    \/ StartDiff
    \/ Compare
    \/ Commit

Spec == Init /\ [][Next]_vars

-----------------------------------------------------------------------------
(* Properties *)

\* "An ordered, insert-order-independent, deterministic tree": whatever commits
\* led to it, the stored tree is the one its leaves determine, unless a commit
\* has emptied its tree and added to it again: the empty tree keeps its layer.
TreeIsCanonical == ~emptied => root = Canonical(Leaves(root))

\* The walk ends, and has told added, updated and deleted keys and the nodes
\* that came and went exactly, whatever layers the walkers could see.
DiffIsExact ==
    (phase = "comparing" /\ Done(left) /\ Done(right)) =>
        IsExact(diff, Leaves(root), Leaves(data), Nodes(root), Nodes(data))

-----------------------------------------------------------------------------
(* Refinement *)

AsTable(tree) ==
    LET set == Leaves(tree)
    IN  [k \in {l.key : l \in set} |-> (CHOOSE l \in set : l.key = k).val]

\* The entries that a walker has yet to meet, with all that is below them
Ahead(w) ==
    IF w.at = "root" THEN {w.root}
    ELSE UNION {
        LET f == w.frames[i]
            from == IF i = Len(w.frames) THEN f.index ELSE f.index + 1
        IN  {f.node.entries[j] : j \in from .. Len(f.node.entries)} : i \in DOMAIN w.frames}

UnmetNodes(w) == UNION {Nodes(e) : e \in {t \in Ahead(w) : IsTree(t)}}
UnmetKeys(w) == {l.key : l \in UNION {Leaves(e) : e \in Ahead(w)}}

\* The trees hold the leaves that the writes say, and the table of records the
\* same; the walkers meet or pass by all that the trees hold, in the order of the
\* keys, whatever the trees' shapes (module AbstractRepo).
Abstract == INSTANCE AbstractRepo WITH
    stored <- AsTable(root), nodes <- Nodes(root),
    leaves <- AsTable(data), newNodes <- Nodes(data),
    indexed <- FoldLeft(IndexWrite, records, writes),
    prevNodes <- UnmetNodes(left), prevKeys <- UnmetKeys(left),
    currNodes <- UnmetNodes(right), currKeys <- UnmetKeys(right)

ImplementsAbstractRepo == Abstract!Spec

=============================================================================
