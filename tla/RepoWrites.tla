----------------------------- MODULE RepoWrites -----------------------------
(***************************************************************************)
(* The write path of one account's repository: createRecord, putRecord,    *)
(* deleteRecord and applyWrites (packages/pds/src/api/com/atproto/repo),   *)
(* RepoTransactor.processWrites and Database.transaction.                  *)
(*                                                                         *)
(* A request opens a transaction on the account's SQLite file, reads a     *)
(* snapshot, formats a commit, writes it, inserts its event into the       *)
(* sequencer's file, ends the transaction, and notes the new root in the   *)
(* account manager's file.  Writers of one file exclude each other, and a  *)
(* transaction whose snapshot is old cannot write: SQLite answers busy and *)
(* the transaction is run again from its start.  The three files have no   *)
(* transaction in common, and the process may stop between any two steps.  *)
(*                                                                         *)
(* Abstraction.  The table of records stands for the tree, whose code is   *)
(* the subject of RepoStore.  Two operations of a commit on the same key   *)
(* count as one.  Accounts share the sequencer only, so one is modelled.   *)
(***************************************************************************)
EXTENDS Integers, Sequences

CONSTANTS
    Req,        \* requests
    Key,        \* paths of records
    Val,        \* hashes of records
    None,       \* no record
    Unset,      \* no swap condition
    Subject,    \* what records link to
    Link,       \* the subject that a record links to, or None
    Calls,      \* the calls that clients make, without their swapCommit
    MaxRev,     \* bound: revisions ever taken
    MaxFaults   \* bound: crashes and failed COMMITs

Maybe == Val \cup {None}
Table == [Key -> Maybe]

Write == [action : {"create", "put", "update", "delete"}, val : Maybe,
          swapRecord : Maybe \cup {Unset}]
Handler == {"createRecord", "putRecord", "deleteRecord", "applyWrites"}
Call == [handler : Handler, writes : UNION {[ks -> Write] : ks \in SUBSET Key}]

ASSUME RepoWritesConstants ==
    /\ None \notin Val \cup {Unset} /\ Unset \notin Val
    /\ None \notin Req /\ Unset \notin Nat
    /\ Link \in [Val -> Subject \cup {None}]
    /\ Calls \subseteq Call
    /\ MaxRev \in Nat /\ MaxFaults \in Nat

Swap == Nat \cup {Unset}
Op == [val : Maybe, prev : Maybe]
Commit == [rev : Nat, since : Nat \cup {None}, table : Table,
           ops : UNION {[ks -> Op] : ks \in SUBSET Key},
           call : Call \cup {None}, swapCommit : Swap]

\* A request and what it holds; the commit is the one it has formatted
Ended == {"done", "failed", "lost"}
Step == {"idle", "called", "formatted", "written", "sequenced", "landed"} \cup Ended
Request == [pc : Step, call : Call \cup {None}, swap : Swap, base : Nat, commit : Commit]

VARIABLES
    history,  \* the commits of the account's file; the last is its root
    lock,     \* the request that writes the account's file, or None
    log,      \* the commit events of the account in the sequencer's file
    listed,   \* the revision in the account manager's repo_root
    nextRev,  \* TID.next: what the clock gives next; the clock is not set back
    req,      \* the requests; base is the position in history they have read
    faults    \* history: crashes and failed COMMITs so far

vars == <<history, lock, log, listed, nextRev, req, faults>>

\* createAccount makes the first commit, with its event and its root
FirstCommit ==
    [rev |-> 0, since |-> None, table |-> [k \in Key |-> None], ops |-> <<>>,
     call |-> None, swapCommit |-> Unset]

\* A request that is not there (yet, or any more) holds nothing
At(step) == [pc |-> step, call |-> None, swap |-> Unset, base |-> 0, commit |-> FirstCommit]

TypeOK ==
    /\ history \in Seq(Commit) /\ history # <<>>
    /\ lock \in Req \cup {None}
    /\ log \in Seq(Commit)
    /\ listed \in Nat
    /\ nextRev \in Nat
    /\ req \in [Req -> Request]
    /\ faults \in Nat

Init ==
    /\ history = <<FirstCommit>>
    /\ lock = None
    /\ log = <<FirstCommit>>
    /\ listed = 0
    /\ nextRev = 1
    /\ req = [r \in Req |-> At("idle")]
    /\ faults = 0

-----------------------------------------------------------------------------
(* The commit that a call makes from a table of records *)

\* getBacklinkConflicts: records that link to what the created one links to.  A
\* createRecord with validate === false does not ask: it is the call of applyWrites
\* with that one create.
Conflicts(c, table) ==
    {k \in Key :
        /\ c.handler = "createRecord"
        /\ table[k] # None
        /\ \E q \in DOMAIN c.writes :
               /\ Link[c.writes[q].val] # None
               /\ Link[c.writes[q].val] = Link[table[k]]}

Touched(c, table) == DOMAIN c.writes \cup Conflicts(c, table)

\* The prepared writes; those of a conflict are deletions
NewValue(c, k) == IF k \in DOMAIN c.writes THEN c.writes[k].val ELSE None

\* Mutant: a record that was not there leaves its prev unset
OpsUnset(c, table) ==
    [k \in Touched(c, table) |->
        [val |-> NewValue(c, k), prev |-> IF table[k] = None THEN Unset ELSE table[k]]]

Ops(c, table) ==
    [k \in Touched(c, table) |-> [val |-> NewValue(c, k), prev |-> table[k]]]

Apply(ops, table) ==
    [k \in Key |-> IF k \in DOMAIN ops THEN ops[k].val ELSE table[k]]

\* putRecord of what is there, deleteRecord of what is not
IsNoOp(c, table) ==
    \/ c.handler = "putRecord" /\ \A k \in DOMAIN c.writes : c.writes[k].val = table[k]
    \/ c.handler = "deleteRecord" /\ \A k \in DOMAIN c.writes : table[k] = None

\* BadCommitSwapError and BadRecordSwapError
SwapsHold(c, s, head) ==
    /\ s \in {Unset, head.rev}
    /\ \A k \in DOMAIN c.writes : c.writes[k].swapRecord \in {Unset, head.table[k]}

\* What the tree refuses; putRecord decides for create or update itself
TreeAccepts(c, table) ==
    \A k \in DOMAIN c.writes :
        CASE c.writes[k].action = "create" -> table[k] = None \/ k \in Conflicts(c, table)
          [] c.writes[k].action = "put" -> TRUE
          [] OTHER -> table[k] # None

Accepted(c, s, head) == SwapsHold(c, s, head) /\ TreeAccepts(c, head.table)

\* getRootDetailed, in a transaction that has just begun
Tip == history[Len(history)]

-----------------------------------------------------------------------------
(* Steps of a request *)

Goto(r, step) == req' = [req EXCEPT ![r].pc = step]
End(r, step) == req' = [req EXCEPT ![r] = At(step)]

\* retrySqlite: a busy file makes the transaction run again from its start, on
\* what the file holds then, until 5 s are over
Retry(r) ==
    \/ req' = [req EXCEPT ![r] =
                [At("called") EXCEPT !.call = req[r].call, !.swap = req[r].swap]]
    \/ End(r, "failed")

\* The request arrives; a client takes its swapCommit from an event it has seen
Start(r) ==
    /\ req[r].pc = "idle"
    /\ \E c \in Calls, s \in {Unset} \cup {log[i].rev : i \in DOMAIN log} :
           req' = [req EXCEPT ![r] = [At("called") EXCEPT !.call = c, !.swap = s]]
    /\ UNCHANGED <<history, lock, log, listed, nextRev, faults>>

\* The transaction begins with a read, and ends without a commit
NoOp(r) ==
    /\ req[r].pc = "called"
    /\ IsNoOp(req[r].call, Tip.table)
    /\ End(r, "done")
    /\ UNCHANGED <<history, lock, log, listed, nextRev, faults>>

Refuse(r) ==
    /\ req[r].pc = "called"
    /\ ~IsNoOp(req[r].call, Tip.table)
    /\ ~Accepted(req[r].call, req[r].swap, Tip)
    /\ End(r, "failed")
    /\ UNCHANGED <<history, lock, log, listed, nextRev, faults>>

NewCommit(c, s, tip) ==
    [rev |-> nextRev, since |-> tip.rev, table |-> Apply(Ops(c, tip.table), tip.table),
     ops |-> Ops(c, tip.table), call |-> c, swapCommit |-> s]

\* formatCommit: reads only, all of the snapshot that the first one takes
Format(r) ==
    /\ req[r].pc = "called"
    /\ nextRev <= MaxRev
    /\ ~IsNoOp(req[r].call, Tip.table)
    /\ Accepted(req[r].call, req[r].swap, Tip)
    /\ req' = [req EXCEPT ![r] =
          [req[r] EXCEPT !.pc = "formatted", !.base = Len(history),
                         !.commit = NewCommit(req[r].call, req[r].swap, Tip)]]
    /\ nextRev' = nextRev + 1
    /\ UNCHANGED <<history, lock, log, listed, faults>>

\* Mutant: an old snapshot may write
MayWriteOld(r) == lock = None

\* Nobody writes, and the snapshot is what the file holds
MayWrite(r) == lock = None /\ req[r].base = Len(history)

\* applyCommit, indexWrites: the first write of the transaction takes the lock
ApplyCommit(r) ==
    /\ req[r].pc = "formatted"
    /\ MayWrite(r)
    /\ Goto(r, "written")
    /\ lock' = r
    /\ UNCHANGED <<history, log, listed, nextRev, faults>>

Busy(r) ==
    /\ req[r].pc = "formatted"
    /\ ~MayWrite(r)
    /\ Retry(r)
    /\ UNCHANGED <<history, lock, log, listed, nextRev, faults>>

\* Mutant: a failed insert is overlooked
SequenceOrNot(r) ==
    /\ req[r].pc = "written"
    /\ Goto(r, "sequenced")
    /\ log' \in {log, Append(log, req[r].commit)}
    /\ UNCHANGED <<history, lock, listed, nextRev, faults>>

\* sequenceCommit, in the transaction
SequenceCommit(r) ==
    /\ req[r].pc = "written"
    /\ Goto(r, "sequenced")
    /\ log' = Append(log, req[r].commit)
    /\ UNCHANGED <<history, lock, listed, nextRev, faults>>

\* Mutant: the transaction stays open
AbortHalf(r) ==
    /\ req[r].pc = "written"
    /\ Retry(r)
    /\ UNCHANGED <<history, lock, log, listed, nextRev, faults>>

\* A blob of the writes or the sequencer's insert fails: rolled back, and run
\* again when the sequencer was busy
Abort(r) ==
    /\ req[r].pc = "written"
    /\ lock' = None
    /\ Retry(r)
    /\ UNCHANGED <<history, log, listed, nextRev, faults>>

\* COMMIT
Land(r) ==
    /\ req[r].pc = "sequenced"
    /\ Goto(r, "landed")
    /\ history' = Append(history, req[r].commit)
    /\ lock' = None
    /\ UNCHANGED <<log, listed, nextRev, faults>>

\* Mutant: the same transaction is tried once more, with its event
CommitAgain(r) ==
    /\ req[r].pc = "sequenced"
    /\ faults < MaxFaults
    /\ faults' = faults + 1
    /\ Goto(r, "written")
    /\ UNCHANGED <<history, lock, log, listed, nextRev>>

\* COMMIT fails, after the event is out
CommitFails(r) ==
    /\ req[r].pc = "sequenced"
    /\ faults < MaxFaults
    /\ faults' = faults + 1
    /\ lock' = None
    /\ End(r, "failed")
    /\ UNCHANGED <<history, log, listed, nextRev>>

\* Mutant: the root is noted before the transaction ends
UpdateRepoRootEarly(r) ==
    /\ req[r].pc \in {"sequenced", "landed"}
    /\ listed # req[r].commit.rev
    /\ listed' = req[r].commit.rev
    /\ UNCHANGED <<history, lock, log, nextRev, req, faults>>

\* updateRepoRoot, an upsert without a look at what is there; its failure is
\* logged and the request succeeds
UpdateRepoRoot(r) ==
    /\ req[r].pc = "landed"
    /\ End(r, "done")
    /\ listed' \in {listed, req[r].commit.rev}
    /\ UNCHANGED <<history, lock, log, nextRev, faults>>

\* The process stops: open transactions are rolled back, requests are lost
Crash ==
    /\ faults < MaxFaults
    /\ faults' = faults + 1
    /\ lock' = None
    /\ req' = [r \in Req |-> IF req[r].pc \in Ended \cup {"idle"} THEN req[r] ELSE At("lost")]
    /\ UNCHANGED <<history, log, listed, nextRev>>

Proceed(r) ==
    \/ NoOp(r) \/ Refuse(r) \/ Format(r) \/ ApplyCommit(r) \/ Busy(r)
    \/ SequenceCommit(r) \/ Abort(r) \/ Land(r) \/ CommitFails(r) \/ UpdateRepoRoot(r)

Next == Crash \/ \E r \in Req : Start(r) \/ Proceed(r)

Spec == Init /\ [][Next]_vars

\* SQLite and the sequencer answer, and a request that is under way goes on;
\* a crash or a new request is never forced
FairSpec == Spec /\ \A r \in Req : WF_vars(Proceed(r))

-----------------------------------------------------------------------------
(* Properties *)

\* c was made from p: it names p, is younger, and tells what it changed
Follows(c, p) ==
    /\ c.since = p.rev
    /\ c.rev > p.rev
    /\ c.table = Apply(c.ops, p.table)
    /\ \A k \in DOMAIN c.ops : c.ops[k].prev = p.table[k]

\* Commits are made from snapshots and written later, yet none is lost or
\* built on a state that was not the last: every commit follows the one before
\* it, and the prev of its operations is what it replaced.
HistoryIsLinear ==
    \A i \in 2 .. Len(history) : Follows(history[i], history[i - 1])

\* "Compare-and-swap": a commit with a swap condition follows the commit that
\* it names and replaces the records that it names, whatever other requests
\* did between its check and its write.
SwapHeld ==
    \A i \in 2 .. Len(history) :
        LET c == history[i]
            p == history[i - 1]
        IN  /\ c.swapCommit \in {Unset, p.rev}
            /\ \A k \in DOMAIN c.call.writes :
                   c.call.writes[k].swapRecord \in {Unset, p.table[k]}

\* The event goes out before the COMMIT: no crash leaves a commit in the
\* account's file that the firehose has not told of.
EveryCommitAnnounced ==
    \A i \in DOMAIN history : \E j \in DOMAIN log : log[j] = history[i]

\* A transaction that runs again announces nothing twice: revisions in the
\* firehose are unique.
AnnouncedOnce ==
    \A i, j \in DOMAIN log : log[i].rev = log[j].rev => i = j

Durable(c) == \E i \in DOMAIN history : history[i] = c

\* The firehose tells of the commits of the account in their order, whatever
\* commits that did not land it tells of in between.
DurableInOrder ==
    \A i, j \in DOMAIN log :
        (i < j /\ Durable(log[i]) /\ Durable(log[j])) => log[i].rev < log[j].rev

\* Every event builds on a commit that landed, so that a consumer who has
\* applied one that did not notices it by the since of the next.
BuildsOnDurable ==
    \A j \in DOMAIN log :
        j = 1 \/ \E i \in DOMAIN history : Follows(log[j], history[i])

\* listRepos never shows a revision that the repository does not have, though
\* it is kept in another file and written late, out of order or never.
ListedIsDurable == \E i \in DOMAIN history : history[i].rev = listed

\* No failure keeps the account's file locked.
LockReleased == lock # None ~> lock = None

\* The account's commits are one announced line (module LinearRepo).
Linear == INSTANCE LinearRepo WITH line <- history, announced <- log

ImplementsLinearRepo == Linear!Spec

=============================================================================
