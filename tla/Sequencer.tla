----------------------------- MODULE Sequencer -----------------------------
(***************************************************************************)
(* The event log of a PDS (packages/pds/src/sequencer/sequencer.ts).       *)
(*                                                                         *)
(* Every repository commit, identity change and account change is a row of *)
(* the table repo_seq, whose autoincrement key seq is the position of the  *)
(* event in the firehose.  Writers insert rows with sequenceEvts; one poll *)
(* loop reads the rows after lastSeen and emits them to the listeners that *)
(* the subscriptions register (module Outbox).                             *)
(*                                                                         *)
(* Abstraction.  An event keeps the account it is about, whether it is the *)
(* account's "deleted" event, and the instant it was formatted at.  Pages  *)
(* of a query are sets of rows: a page is always read in ascending seq.    *)
(***************************************************************************)
EXTENDS Integers, Sequences, FiniteSets

CONSTANTS
    Did,           \* accounts
    Batches,       \* sequences of kinds that one call of sequenceEvts inserts
    MaxSeq,        \* bound: number of rows ever inserted
    MaxClock,      \* bound: last instant of the wall clock
    MaxDelay,      \* instants that may pass between formatting and insertion
    MaxDeletions,  \* bound: deletions of one account in progress together
    PollLimit,     \* rows read by one poll (1000 in the code)
    MaxRestarts    \* bound: restarts of the process

Kind == {"commit", "sync", "identity", "account", "deleted"}

ASSUME SequencerConstants ==
    /\ Batches \subseteq Seq(Kind \ {"deleted"})
    /\ MaxSeq \in Nat
    /\ MaxClock \in Nat
    /\ MaxDelay \in Nat
    /\ MaxDeletions \in Nat
    /\ PollLimit \in Nat \ {0}
    /\ MaxRestarts \in Nat

Row == [seq : Nat \ {0}, did : Did, kind : Kind, at : Nat]

VARIABLES
    repoSeq,    \* rows of the table repo_seq
    nextSeq,    \* the key the next inserted row gets (AUTOINCREMENT)
    clock,      \* the wall clock
    deletions,  \* calls of sequenceAccountDeletion between their two queries
    seqLastSeen, \* Sequencer.lastSeen: seq of the last emitted row
    pollPage,   \* rows read by pollDb and not yet emitted
    sequenced,  \* history: every row ever inserted
    restarts    \* history: restarts so far

dbVars == <<repoSeq, nextSeq, clock, deletions, sequenced>>
pollVars == <<seqLastSeen, pollPage, restarts>>
sequencerVars == <<dbVars, pollVars>>

-----------------------------------------------------------------------------
(* Queries *)

\* requestSeqRange without a limit: the rows after a position
RowsAfter(pos) == {r \in repoSeq : r.seq > pos}

\* requestSeqRange with a limit: the first rows after a position
PageAfter(pos, limit) ==
    {r \in RowsAfter(pos) :
        Cardinality({q \in RowsAfter(pos) : q.seq <= r.seq}) <= limit}

\* The row of a page that is read first / last
IsFirst(r, page) == r \in page /\ \A q \in page : r.seq <= q.seq
IsLast(r, page) == r \in page /\ \A q \in page : q.seq <= r.seq

\* A cursor is in the future when curr() ?? 0 is before it
InFuture(cursor) == cursor > 0 /\ RowsAfter(cursor - 1) = {}

-----------------------------------------------------------------------------
SequencerTypeOK ==
    /\ repoSeq \subseteq Row
    /\ nextSeq \in Nat \ {0}
    /\ clock \in Nat
    /\ deletions \subseteq [did : Did, keep : Nat \ {0}]
    /\ seqLastSeen \in Nat
    /\ pollPage \subseteq Row
    /\ sequenced \subseteq Row
    /\ restarts \in Nat

SequencerInit ==
    /\ repoSeq = {}
    /\ nextSeq = 1
    /\ clock = 0
    /\ deletions = {}
    /\ seqLastSeen = 0
    /\ pollPage = {}
    /\ sequenced = {}
    /\ restarts = 0

\* The rows that one insert of a batch formatted at instant t creates
NewRows(d, batch, t) ==
    {[seq |-> nextSeq + i - 1, did |-> d, kind |-> batch[i], at |-> t] :
        i \in 1 .. Len(batch)}

\* sequenceEvts: one INSERT of events stamped when they were formatted, which
\* may be before rows that other calls have inserted meanwhile
Insert(d, batch, t) ==
    /\ nextSeq + Len(batch) - 1 <= MaxSeq
    /\ clock - MaxDelay <= t
    /\ repoSeq' = repoSeq \cup NewRows(d, batch, t)
    /\ sequenced' = sequenced \cup NewRows(d, batch, t)
    /\ nextSeq' = nextSeq + Len(batch)

\* sequenceCommit, sequenceSync, sequenceIdentity, sequenceAccount,
\* sequenceAccountCreation and sequenceAccountActivation
SequenceEvts(d) ==
    /\ \E batch \in Batches, t \in 0 .. clock : Insert(d, batch, t)
    /\ UNCHANGED <<clock, deletions, pollVars>>

\* sequenceAccountDeletion, up to its first await: the "deleted" event
SequenceDeletion(d) ==
    /\ Cardinality({x \in deletions : x.did = d}) < MaxDeletions
    /\ \E t \in 0 .. clock : Insert(d, <<"deleted">>, t)
    /\ deletions' = deletions \cup {[did |-> d, keep |-> nextSeq]}
    /\ UNCHANGED <<clock, pollVars>>

\* sequenceAccountDeletion, its second query: the account's other rows go
PurgeRows(x) ==
    /\ x \in deletions
    /\ repoSeq' = {r \in repoSeq : r.did = x.did => r.seq = x.keep}
    /\ deletions' = deletions \ {x}
    /\ UNCHANGED <<nextSeq, clock, sequenced, pollVars>>

Tick ==
    /\ clock < MaxClock
    /\ clock' = clock + 1
    /\ UNCHANGED <<repoSeq, nextSeq, deletions, sequenced, pollVars>>

Write ==
    \/ \E d \in Did : SequenceEvts(d) \/ SequenceDeletion(d)
    \/ \E x \in deletions : PurgeRows(x)
    \/ Tick

\* pollDb up to its await; a page without rows leads to a backoff and a retry
PollQuery ==
    /\ pollPage = {}
    /\ PageAfter(seqLastSeen, PollLimit) # {}
    /\ pollPage' = PageAfter(seqLastSeen, PollLimit)
    /\ UNCHANGED <<dbVars, seqLastSeen, restarts>>

\* Mutant: lastSeen becomes the newest row of the table, not of the page
PollEmitToCurr ==
    /\ pollPage # {}
    /\ \E r \in repoSeq : IsLast(r, repoSeq) /\ seqLastSeen' = r.seq
    /\ pollPage' = {}
    /\ UNCHANGED <<dbVars, restarts>>

\* pollDb after its await: emit the page, then move lastSeen to its last row.
\* What the listeners do with the page is conjoined by the module Outbox.
PollEmit ==
    /\ pollPage # {}
    /\ \E r \in pollPage : IsLast(r, pollPage) /\ seqLastSeen' = r.seq
    /\ pollPage' = {}
    /\ UNCHANGED <<dbVars, restarts>>

\* Mutant: an empty table leaves lastSeen at -1
RestartBeforeFirst ==
    /\ restarts < MaxRestarts
    /\ restarts' = restarts + 1
    /\ \/ repoSeq = {} /\ seqLastSeen' = -1
       \/ \E r \in repoSeq : IsLast(r, repoSeq) /\ seqLastSeen' = r.seq
    /\ pollPage' = {}
    /\ deletions' = {}
    /\ UNCHANGED <<repoSeq, nextSeq, clock, sequenced>>

\* The process stops at any point and starts again: start() resumes after the
\* last row of the table; deletions in progress never reach their purge
Restart ==
    /\ restarts < MaxRestarts
    /\ restarts' = restarts + 1
    /\ \/ repoSeq = {} /\ seqLastSeen' = 0
       \/ \E r \in repoSeq : IsLast(r, repoSeq) /\ seqLastSeen' = r.seq
    /\ pollPage' = {}
    /\ deletions' = {}
    /\ UNCHANGED <<repoSeq, nextSeq, clock, sequenced>>

=============================================================================
