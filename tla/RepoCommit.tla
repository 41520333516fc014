------------------------------ MODULE RepoCommit ------------------------------
(***************************************************************************)
(* What a commit does to the database of an account once its tree has been *)
(* compared with the stored one                                            *)
(* (packages/pds/src/actor-store/repo/transactor.ts,                       *)
(* sql-repo-transactor.ts): it keeps the removed records that another key  *)
(* still holds, stores and deletes blocks, indexes the writes, and tells   *)
(* the firehose which records came.                                        *)
(*                                                                         *)
(* None of it depends on how trees are built: RepoStore conjoins it with   *)
(* the trees of the code, AbstractRepo with any trees that hold their      *)
(* leaves.  The properties of the stored blocks are stated here, for both. *)
(***************************************************************************)
EXTENDS DataDiff

VARIABLES
    phase,    \* idle, writing or comparing
    blocks,   \* repo_block: the stored blocks, each with its repoRev
    records,  \* the table record: a function of the keys that are set
    rev,      \* number of the last commit
    writes,   \* the writes of the commit in progress
    event,    \* the records the last commit set, and the records sent along
    history,  \* history: the blocks of the repository at every commit
    moved     \* history: a commit has moved a record among the keys it writes

storeVars == <<blocks, records, rev, event, history, moved>>

\* An empty repository, its tree stored
NewStore(content) ==
    /\ phase = "idle"
    /\ blocks = [c \in content |-> 0]
    /\ records = <<>>
    /\ rev = 0
    /\ writes = <<>>
    /\ event = [set |-> {}, records |-> {}]
    /\ history = [n \in {0} |-> content]
    /\ moved = FALSE

WriteSet == {writes[i] : i \in DOMAIN writes}
Written == {w.key : w \in WriteSet}
DelAndUpdate == {w.key : w \in {x \in WriteSet : x.action # "create"}}
NewRecordCids == {w.val : w \in {x \in WriteSet : x.action # "delete"}}

\* Mutant: no look for other keys of a record
NoDuplicates(cids, touched) == {}

\* getDuplicateRecordCids: removed records that a key other than the touched
\* ones holds, in the table as it was before the commit
GetDuplicateRecordCids(cids, touched) ==
    {c \in cids : touched # {} /\ \E k \in DOMAIN records \ touched : records[k] = c}

\* indexWrites: one write
IndexWrite(table, w) ==
    IF w.action = "delete" THEN Without(table, w.key) ELSE With(table, w.key, w.val)

\* Mutant: nothing is deleted
PutOnly(put, removed) ==
    [c \in put \cup DOMAIN blocks |->
        IF c \in DOMAIN blocks THEN blocks[c] ELSE rev + 1]

\* applyCommit: putMany keeps the revision of a block that is there already;
\* deleteMany comes after it
ApplyCommit(put, removed) ==
    [c \in (put \cup DOMAIN blocks) \ removed |->
        IF c \in DOMAIN blocks THEN blocks[c] ELSE rev + 1]

\* Mutant: the records of the diff alone
DiffRecords(new) == new \cap diff.newLeafCids

\* The records an event carries: those of the diff, and those that the storage
\* holds before the commit is applied
RelevantRecords(new) == new \cap (diff.newLeafCids \cup DOMAIN blocks)

\* A record that one key loses and that another key, also written by the commit,
\* has at its end; only a later key that is new is safe
Moved(old, new) ==
    \E k \in DOMAIN old, l \in DOMAIN new \cap Written :
        /\ k \notin DOMAIN new \/ new[k] # old[k]
        /\ new[l] = old[k]
        /\ l < k \/ l \in DOMAIN old

\* processWrites after the diff: the table becomes what the writes make of it,
\* the repository what is in content
StoreCommit(table, content) ==
    /\ phase' = "idle"
    /\ rev' = rev + 1
    /\ blocks' = ApplyCommit(diff.newMstBlocks \cup diff.newLeafCids,
                    diff.removedCids \ GetDuplicateRecordCids(diff.removedCids, DelAndUpdate))
    /\ records' = table
    /\ event' = [set |-> {table[k] : k \in Written \cap DOMAIN table},
                 records |-> RelevantRecords(NewRecordCids)]
    /\ history' = [n \in 0 .. rev + 1 |-> IF n <= rev THEN history[n] ELSE content]
    /\ moved' = (moved \/ Moved(records, table))
    /\ writes' = <<>>

-----------------------------------------------------------------------------
(* Properties *)

\* "Find blocks that would be deleted but are referenced by another record": a
\* commit never leaves a node or a record of the repository without its block.
NothingMissing == history[rev] \subseteq DOMAIN blocks

\* The stored blocks are those of the repository, and what nothing refers to any
\* more is deleted, unless a commit has moved a record among the keys that it
\* writes: the block of such a record may be lost (NothingMissing).
StoreIsExact == ~moved => DOMAIN blocks = history[rev]

\* An export of what came after a revision (getRepo with since), which selects
\* blocks by their repoRev, completes the repository of a consumer that has it.
SinceSuffices ==
    ~moved =>
        \A n \in DOMAIN history :
            history[rev] \subseteq history[n] \cup {c \in DOMAIN blocks : blocks[c] > n}

\* "Find blocks that are relevant to ops but not included in diff": the event
\* of a commit carries the record of every key that the commit has set, also
\* one that only moved to another key and is no news to the diff (as long as no
\* block was lost before).
EventHasRecords == ~moved => event.set \subseteq event.records

=============================================================================
