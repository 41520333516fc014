# A formal model of a PDS: repository, accounts and event stream

TLA+ models of the parts of this repository that decide whether the data of an
account is kept and reaches the network whole and in order: the sequencer and
firehose of a PDS, the firehose consumer of `@atproto/sync`, the repository
(Merkle search tree, diff, commit and block storage), the write path over its
three databases, the life of an account and of its blobs, and its sessions, both
those of the PDS and those of OAuth with the client's side. TLC checks every
module on small instances. TLAPS proves, for every value of the constants, the
safety of the firehose and its consumer, of the write path, of accounts, blobs
and sessions, and that the firehose and the write path each implement an
abstract specification; and that commits store and announce the right blocks,
for any trees that do what TLC checks of the repository's.

Paths below are relative to `packages/` unless they start with `src/`.

## 1. Inventory

### The system

A PDS keeps one SQLite file per account (the *actor store*: repository blocks,
records, blobs), one for accounts and sessions, and one for the *sequencer*. A
write request opens a transaction on the account's file, builds a commit of the
repository, inserts the commit's event into the sequencer, ends the
transaction, and notes the new root in the account database. A poll loop reads
the sequencer's table and emits new rows to the subscriptions of
`com.atproto.sync.subscribeRepos`. A consumer (relay, app view, indexer) uses
`Firehose` and `MemoryRunner` to handle the events, repo by repo, and comes back
with its cursor after a broken connection.

| component | state | operations | talks to | hard because |
|---|---|---|---|---|
| sequencer `pds/src/sequencer/sequencer.ts` | table `repo_seq`, `lastSeen`, poll promise | sequenceCommit, …Sync, …Identity, …Account, …AccountDeletion, pollDb, start, next, curr, earliestAfterTime | writers (calls), outboxes (events) | state read before an await and used after it; two-query deletion; restart |
| outbox `pds/src/sequencer/outbox.ts`, `subscribeRepos.ts` | phase of the generators, `lastSeen`, `cutoverBuffer`, `outBuffer` | getBackfill, cutover, addToBuffer, events | sequencer, consumer (pull) | cutover is not awaited; query and emitted pages overlap; buffer limit |
| firehose consumer `sync/src/firehose`, `sync/src/runner` | partitions, main queue, ConsecutiveList, cursor | trackEvent, complete, setCursor, reconnect, destroy | firehose, handlers, persisted cursor | completion in any order, replays, crash between handler and setCursor |
| MST `repo/src/mst/mst.ts` | immutable nodes with a layer hint | add, update, delete, load | storage | must not depend on history; hints outlive entries |
| diff `repo/src/mst/diff.ts`, `walker.ts`, `data-diff.ts` | two walkers, a DataDiff | mstDiff | MST | layers guessed from hints; cancellations depend on the order of keys |
| commit `repo/src/repo.ts`, `pds/src/actor-store/repo` | root, `repo_block`, `record` | formatCommit, applyCommit, indexWrites, getDuplicateRecordCids | MST, diff, sequencer | blocks are shared by content; two views (tree, table) of the records |
| export `sql-repo-reader.ts`, `getRepo.ts` | paging cursor | getCarStream | commits | pages without a transaction |
| write handlers `pds/src/api/com/atproto/repo` | open transactions | createRecord, putRecord, deleteRecord, applyWrites | three databases | crash between them, retries of a whole transaction, root updated late |
| account manager `pds/src/account-manager`, `createAccount.ts`, `deleteAccount.ts` | account rows, directory of the account, roots | create, activate, deactivate, takedown, delete | sequencer, actor store | three places and no common transaction; status read and sequenced in two awaits |
| sessions `account-manager/helpers/auth.ts` | `refresh_token` | createSession, rotateRefreshToken, deleteSession, revocations | clients that retry | row read before the transaction; grace period |
| OAuth session `oauth/oauth-client`, `oauth-provider`, `oauth-store.ts` | session store and lock of the client, `token`, `used_refresh_token` | getSession, signOut, callback; refresh and revoke endpoints | each other, several instances of the client | a refresh token is good once; lookups and deletions in separate queries |
| blobs `pds/src/actor-store/blob`, `disk-blobstore.ts` | blob tables, three directories, background queue | uploadBlob, processWriteBlobs, importRepo, takedowns, deleteDereferencedBlobs | repository writes | files change inside a transaction that may be rolled back; background deletion against a new upload |
| crawlers, DID cache | throttle times, stale entries | notifyOfUpdate, refreshCache | network | small |
| sequencer recovery `pds/src/scripts` | cursor, account locks | processAll | actor stores | parallel replays by account |
| `bsync`, `tap`, `ws-client` | operation logs, acknowledgements, sockets | scan, ack, reconnect | network | later candidates |
| `bsky`, `ozone`, `lex*`, `syntax`, `crypto`, `api`, … | various | queries, validation, encoding, generated code | | out of scope: see `PROJECT.json` for the reason per part |

### What makes each component correct

- Sequencer: the poll loop skips nothing; a deletion leaves its event in the log.
- Outbox: ascending order, no gap, nothing before the cursor without a reason,
  a refusal only of a cursor nobody was given, delivery in the end.
- Consumer: nothing dropped, order per repo, every event handled in the end, a
  shutdown that ends.
- Repository: the tree is the one its records determine; the diff is exact; a
  commit deletes what is garbage and only that; table and tree agree; a
  partial export completes an older copy; an event carries its records.
- Write path: commits form one line whatever requests overlap; swap conditions
  hold at the commit; the firehose knows every commit and repeats none; the
  listed revision exists; no failure keeps the file locked.
- Accounts: in the end the firehose, the database and the files agree.
- Sessions: a revocation leaves nothing that a rotation under way brings back;
  one successor per token; requests that disturb each other still end.
- OAuth: no replay of a refresh token by honest instances; no token set lost;
  locks given back; what is revoked is dead.
- Blobs: no file is lost that a row speaks of; what a record refers to is
  permanent.

`PROJECT.json` lists every hazard at its line with the properties that cover it,
and for those not covered why not.

## 2. Plan

1. **Done.** `Sequencer`, `Outbox`, `EventStream`: runs, proofs, refinement.
2. **Done.** `MemoryRunner`: runs, proofs.
3. **Done.** `Mst`, `MstDiff`, `RepoStore`: runs. `AbstractRepo`, over the same
   `DataDiff` and `RepoCommit`: refinement checked, properties proved.
4. **Done.** `RepoWrites` over an abstract repository, `LinearRepo`: run, proofs,
   refinement.
5. **Done.** `AccountStatus`, `RefreshTokens`, `OauthSession`, `Blobs`: runs, proofs.
6. **Done.** The window of an outdated cursor in `OutboxProofs`.
7. Next: a consumer behind the stream that `EventStream` promises (`MemoryRunner`
   takes a log that loses no rows), with what it is owed after a deletion.
8. `Export`: pages of `getRepo` while `RepoStore` commits; `CoveringProof`: the
   blocks of an event suffice to invert its operations.
9. Small ones: `DidCache`, bsync scans, tap acknowledgements, `ws-client`,
   sequencer recovery (a reader of the log that `RepoWrites` writes).

Composition: `Outbox` extends `Sequencer` and conjoins its actions with those of
the subscription; `MemoryRunner` consumes what `EventStream` promises (a log from a
position on); `RepoStore` conjoins the trees of `Mst`, `MstDiff` with the rest of a
commit in `RepoCommit`, and `AbstractRepo` any trees with the same; `RepoWrites` takes
commits as `RepoStore` makes them and writes the log that `Sequencer` reads;
`Blobs` presupposes the exclusive transactions of `RepoWrites`; `AccountStatus`
makes the events that `Sequencer` stores. `OauthSession` composes the client's
session getter, the token endpoint and the token tables in one module, because
the properties are about what the client and the server do to each other.

## 3. Modules

### Sequencer

`repoSeq`, `nextSeq` are the table and its AUTOINCREMENT key; `seqLastSeen` is
`Sequencer.lastSeen`; `pollPage` is the answer of the poll's query between its
await and the emit; `deletions` are the calls of `sequenceAccountDeletion` between
their two queries. `SequenceEvts` is one insert of one to three rows with the
instant at which they were formatted; `SequenceDeletion` and `PurgeRows` are the
two halves of a deletion; `PollQuery`, `PollEmit` the two halves of `pollDb`;
`Restart` is a crash at any point and `start()`. A poll that finds nothing or
fails only backs off and asks again, which is no step. Events keep their
account, whether they are "deleted", and their instant. What the listeners call
next (`crawlers.notifyOfUpdate`) is another component's state.

### Outbox

One subscription: `subscribeRepos` (`ConnectLive`, `ConnectFuture`, `ConnectFrom`,
`FindWindow`) and the generators of `outbox.ts` (`BackfillQuery`, `YieldBackfill`,
`EndPage`; `Listen`, `CutoverQuery`, `CutoverDone`, `AddToBuffer`; `YieldLive`,
`TooSlow`), `Disconnect` and a restart. `floor` is `backfillCursor`, or, for a
stream without one, the position it starts at; `received`, `listenedAt`, `ended`
are history that the properties need. Subscriptions only read the sequencer, so
one stands for all. Buffers hold pages, each a set of rows that is read in
ascending seq: that is the order of the query and of the emit.

Two simplifications: `curr()` and `next(cursor)` of one connect, which the code
awaits together, are one read of the table, and the backfill time is taken then.
`maxBufferSize` is positive: `AsyncBuffer` takes 0 as "no limit".

### EventStream

What is promised: an append-only log with events that may be expunged, and a
stream that yields, from an origin on, the next event that is not expunged, in
order. `ImplementsEventStream` is the refinement (`log` is every row ever inserted,
`gone` those no longer in the table).

### MemoryRunner

`tasks` are the events given to `trackEvent`, with their stage; the first
`spliced` of them have left the ConsecutiveList. PQueue (external) is modelled by
what it does: it starts tasks first come first served up to `Concurrency`, and a
partition runs one task at a time, so `Running` is a function of the unfinished
tasks. `Deliver` is a message (a message that fails validation is reported and
skipped), `Handle` the handler's effect, `Complete` the code after it, `Save` the end
of a `setCursor`, `Drop` and `Connect` the subscription of `xrpc-server`, `Destroy`
shutdown, `Restart` a crash and a new process with the persisted cursor. The server
refuses a cursor ahead of its log (FutureCursor in `subscribeRepos.ts`), which is
the guard of `Connect`.

### Records, DataDiff, Mst, MstDiff, RepoCommit, RepoStore

`Records` are keys, records and tables of them, `DataDiff` the operations of that class.

`Mst` has one operator per method of the tree that changes it, in the form of the
code (positions, splices, splits, merges, parents, trims, layer hints), and the
reference `Canonical`, which builds the tree from a set of leaves. A pointer is the
content it is the hash of. `zeros`, the layer of a key, is an arbitrary function.

`MstDiff` has one action per branch of the loop of `mstDiff` and one operator per
method of the walker. Whether a node in memory has its layer hint
depends on earlier calls; the model lets each be there or not at every
comparison, so the properties hold for both.

`RepoStore` is a commit: `Start` loads, `Create`, `UpdateRecord`, `DeleteRecord` apply
writes, `StartDiff` and `Compare` run the diff, `Commit` does the rest of the
transaction: duplicates, relevant records, `applyCommit` (put, then delete, root),
`indexWrites`. All of that rest but the root is `StoreCommit` of `RepoCommit`. One
transaction of SQLite excludes every other commit, so only commits follow each other. A write the tree refuses (create of a key that is set,
update or delete of one that is not) aborts the transaction: no action. `moved` and
`emptied` are history: a commit that takes a record away at one key and brings it
at another (section 6), and one that empties the tree on its way.

### AbstractRepo

What the rest of a commit needs of the trees. A tree is a table of its leaves with
any set of nodes; a write changes the table and brings any other nodes; a
comparison meets the nodes of the two trees in any order, the keys in theirs, and
may pass by nodes and equal keys that both trees have. `DataDiff` and `RepoCommit`
are the same modules that `RepoStore` uses, so what is proved of `AbstractRepo` is
about the code of the diff and of the commit. What the trees owe it is
`ImplementsAbstractRepo`, which the run `repo_store` checks: `add`, `update` and `delete`
set and remove their leaf and no other, the `record` table holds the same, and the
walkers meet or pass by every node and key, whatever layers they see. The mapping
reads the leaves and nodes off the trees, and what a comparison has yet to meet off
the walkers (`UnmetNodes`, `UnmetKeys`: what is at and after the position of each
frame). `AbstractRepo` allows more than the code: a node may come before the key
that is left of it, an empty commit may be made, and there are no bounds.

### RepoWrites, LinearRepo

One request is a program: `Start` (the call arrives, perhaps with a swapCommit
from an event the client saw), `NoOp`, `Refuse` or `Format` (the reads of the
transaction, of one snapshot: swap conditions, backlink conflicts, the commit),
`ApplyCommit` or `Busy` (the first write takes SQLite's write lock, or finds it
taken or the snapshot old; `retrySqlite` runs the transaction again), `Abort`,
`SequenceCommit` (the insert in the sequencer's file), `Land` or `CommitFails`
(COMMIT), `UpdateRepoRoot` (after the transaction, may fail unseen), and `Crash` of
the process at any point. `history` is the account's file, `log` the sequencer's,
`listed` the root in the account manager's. The tree is its table of records here;
`RepoStore` is about the tree. `LinearRepo` is what this promises: a line of commits,
each made from the last one, and none lands that was not announced before.

### AccountStatus

Account rows (`actor`, and `data` for the other tables), the directory (`store`) and
the firehose (`events`) change in separate awaits. An operation is the program of
its kind (`Program`, in the order of the awaits of each handler), `todo` is what is
left of it, `Recovery` what its catch and finally clauses put in place of that when
the current step fails. Every step is an action (`Update`, `Read`, `Announce`,
`CheckStore`, `MakeStore`, …), and `Fail` and `Crash` may come at any step. `untold`,
`soiled` and `hasty` are history and name the cases in which the code lets the
three places disagree (section 6, "Remarks").

### RefreshTokens

`rows` is the table, `proc` the requests with the row each has read: `Login` and
`CreateSession` (the answer waits 350 ms between the two), `Refresh`, `Read`, `Tidy`,
and `Rotate` or `Conflict` (the transaction finds its row as it was read, or
`ConcurrentRefreshError` starts over), `Logout`, `RevokeAppPassword`, `Takedown`,
`NewPassword`, and the clock. `session`, `era`, `grants`, `leavers` are history.

### OauthSession

`call` are calls of client instances and, from `send` to `reply`, the request each
has at the token endpoint: `Acquire` … `DelStored` are `SessionGetter.get` under its
lock, `FindUsed` … `GrantFails` the queries of `refreshTokenGrant` and
`consumeRefreshToken`, `FindRevoked` and `Revoke` the revocation endpoint, `Forget` and
`Put` the writes of the store by sign-out and callback. `Unsatisfiable` stands for the
errors before a refresh is sent that delete the session (the account's issuer has
changed, or the server's ways to authenticate). `shared` chooses between a
runtime with a lock common to the instances and one lock per instance.

### Blobs

`db` is the committed database, `txn` the open transaction, `temp`, `stored` and
`quarantined` the three directories, `io` the file operations under way (`own` when
their transaction is still open), `pending` the background deletions. `PutTemp`,
`TrackUntetheredBlob` are an upload, `ProcessWriteBlobs`, `VerifyBlob`, `HasStored`,
`ReadTemp`, `OpenStored`, `WriteStored`, `RemoveTemp` a record write with its tasks side
by side, `Quarantine`, `Unquarantine` a takedown, `Commit`, `Abort`, `DeleteFile`,
`Crash`. `fs.writeFile` is not atomic: `OpenStored` makes the file or empties the one
there is, `WriteStored` is its end, and between them it may fail (`WriteFails`, `Abort`)
or the process may stop; `truncated` says whose file such a write left. A task whose
transaction fails, also by the queue's timeout of 60 seconds, fails with its file
operation or leaves that running. The history `raced`, `torn`, `mistaken`, `imported`
names the cases that section 6 remarks on.

## 4. Runs

Every run sets `CHECK_DEADLOCK FALSE`: the bounds on rows, connections and
commits end every behaviour, and an idle PDS has nothing to do.

| run | checks | states |
|---|---|---|
| `outbox` | TypeOK, NoGap, NothingStale, PollNeverSkips, ImplementsEventStream | 1.1 M |
| `outbox_live` | WindowKept, Delivery (FairSpec) | 0.7 M |
| `runner` | TypeOK, NoneDropped, FirstEffectsInOrder, EveryEventHandled (FairSpec) | 1.2 M |
| `repo_store` | TypeOK, TreeIsCanonical, DiffIsExact, StoreIsExact, SinceSuffices, EventHasRecords, ImplementsAbstractRepo | 1.2 M |
| `writes` | TypeOK, SwapHeld, AnnouncedOnce, ListedIsDurable, LockReleased, ImplementsLinearRepo (FairSpec) | 0.9 M |
| `tokens` | TypeOK, NothingSurvives, OneSuccessor, ReuseWithinGrace, RequestsEnd (FairSpec) | 1.0 M |
| `oauth_session` | TypeOK, NoReplay, IssuedIsStored, CallsEnd (FairSpec) | 0.1 M |
| `accounts` | TypeOK, StatusIsTold, AccountHasStore, NothingLeft | 3.6 M |
| `blobs` | TypeOK, NoFileLost, ReferencedIsPermanent | 2.7 M |
| `runner_destroy`, `repo_lost`, `oauth_revoke` | one property each, violated (section 6) | |

Bounds, and why they are enough:

- `outbox`: three rows, two accounts, pages and polls of two, a buffer of three,
  two connections, cursors -1 to 3, one restart. Three rows are the fewest with a
  full page, a row after it, and a row that arrives in the cutover; every
  cursor from before the first to after the last row is tried; two connections
  let a consumer come back with what it received. The buffer of three is
  exceeded by a cutover that repeats a page. One deletion of an account at a
  time (`MaxDeletions`), since two purge each other (section 6). The clock stands
  still: every row is inside the window. The poll's limit (1000 in the code) and
  the page size (500) are parameters of the proofs.
- `outbox_live`: a clock of two ticks, stamps taken up to one tick before the insert
  (`MaxDelay` = 1), a window of one tick and the cursor 0. Three rows with these stamps
  have the one case that a row of the window is before the row found: a row that is
  inserted before one with an earlier stamp. A restart, pages and other cursors
  are in `outbox`.
- `runner`: three events of two repos, two handlers at a time, three subscriptions
  and one restart: overlapping completions, replays while the first delivery
  is still in progress, setCursor calls that overlap and a crash between them. The
  consumer starts from cursor 0 and persists.
- `repo_store`: three keys on any of three layers, in every order of layers, two
  records, up to four writes in commits of one or two. Three keys have every
  shape with a subtree before, between and after leaves, a split, a merge, a
  raise by two layers and a trim; four writes delete a record and bring it back.
  Commits of one write are what createRecord, putRecord and deleteRecord make,
  commits of two what applyWrites makes.
- `writes`: three requests, two keys, two records that link to one subject, calls of
  all four handlers with and without swapRecord, any swapCommit ever announced,
  one crash or failed COMMIT, revisions up to 3 (each attempt takes one). Two
  requests conflict; the third builds on what they left.
- `tokens`: two requests under way, three tokens, a password and an app password,
  three ticks, a grace period of two and a life of three: a token is rotated, its
  successor is rotated or reused, both grace periods end, and an expired row is
  tidied while a rotation is between its reads.
- `oauth_session`: two instances with a call each, two logins, four token sets, one
  fault, with and without a common lock. Three token sets let one instance refresh
  twice while the other holds what it has read.
- `accounts`: three operations of any of the eight kinds and two faults: a creation
  and a deletion that overlap and a third that finds what they left.
- `blobs`: one blob, two uploads of it, two records, three transactions, one fault.
  Three transactions refer to a blob, fail or undo that, and refer to it again;
  each of them may also be rolled back, with its writes cut short or running on.
  Blobs meet only in a transaction that has tasks for several; two tasks for one
  blob are there with two records.

Fairness: `Outbox`: the poll loop starts its next round whatever the last one did,
queries of a connection are answered, the consumer pulls. A writer, the clock, a
disconnect and a restart are never forced. `MemoryRunner`: the subscription
reconnects for ever, messages arrive, handlers and setCursor end (a PQueue runs
what it holds); a drop, a crash or destroy is never forced, and the last of the
bounded subscriptions stays. `RepoWrites`: SQLite and the sequencer answer, so a
request under way goes on. `RefreshTokens`: the database answers. `OauthSession`:
the server and the store answer, and the lock is granted in turn (strong fairness
of `Acquire`: `navigator.locks` and the local lock queue their requesters). Crashes,
new requests, revocations and the clock are never forced.

Each property of a passing run comes with a mutant, a definition next to the one
it replaces that a plausible mistake would have written (comment "Mutant:").

## 5. Proofs

`OutboxProofs` proves, for any accounts, batches, cursors, page sizes, limits and
bounds that satisfy `SequencerConstants` and `OutboxConstants`:

- `TypeCorrect`, `OrderedDelivery` (InOrder), `GapFreeDelivery` (NoGap),
  `StaleOnlyWhenBehind` (NothingStale): invariants of `Spec`;
- `PollLoop` (PollNeverSkips): an action property.

`Refinement`, in the same module: `Spec` implies `ImplementsEventStream`.

`RepoWritesProofs` proves, for any requests, keys, records, links, calls and bounds
that satisfy `RepoWritesConstants`: `TypeCorrect`, `WritesAreSerial` (the commits are
linear, SwapHeld), `FirehoseTellsAll` (every commit is announced, AnnouncedOnce,
DurableInOrder, BuildsOnDurable), `ListingIsTrue` (ListedIsDurable) and
`WritesImplementLinearRepo`: `Spec` implies `ImplementsLinearRepo`.

NoGap is not inductive: it speaks of what was yielded, and what will be yielded
is already decided by pages that were read from a table that has changed since.
The inductive invariant `IInv` is the conjunction of

- `LogInv`: keys are unique and below `nextSeq`, the loop is not ahead of the log;
- `PollInv`: the page to be emitted continues after `seqLastSeen` and has no hole;
- `PhaseInv`: which buffers are in use in which phase;
- `BackfillInv`: the rest of a backfill page continues after what the consumer has
  reached (`Reached`, the larger of cursor and last yield) and has no hole;
- `BufferInv`: reading first the answer of the cutover query and then the buffers,
  no row is read before an owed row that precedes it (`Covers`), and once the
  buffers are read the consumer is where the poll loop is;
- `OrderInv`: the received rows, InOrder, NoGap, NothingStale.

"No hole" is about the rows still in the table, so a purge preserves it; an insert
does because its keys are new. The two crucial steps are `BufferCutover`, where
the query's answer goes before what the loop emitted meanwhile, and `BufferYield`,
where the test on yield removes their overlap. The refinement uses `IInv` before
each step: a yield is a `Yield` of the abstract stream by NoGap and InOrder in the
next state.

For the write path, linearity and the swap conditions are not inductive: they
speak of commits that have landed, and what lands was formatted from a snapshot
several steps before. `RepoWritesProofs!IInv` adds what a request knows at each
step:

- `BaseInv`: what a request has formatted follows, and fits the swap conditions at,
  the commit at `base`, and while it writes `base` is still the last one;
- `LockInv`: exactly the requests between first write and COMMIT hold the lock, so at
  most one does;
- `RevInv`: revisions come from `nextRev` one by one, so those of requests and events
  differ unless the event is the request's own;
- `EventInv`: the event of the transaction that is about to land is the last one
  of the log, which is what `LinearRepo!Land` asks for;
- `TipInv`, `CallInv`: the last commit is the youngest; a request under way has a call.

`OrderedDelivery` (InOrder) and the parts of `WritesAreSerial` and `FirehoseTellsAll`
that are not named in a run follow there from the refinements, which are checked.

The window. `earliestAfterTime` looks for the first row whose stamp is inside the
backfill window, but rows are in the order of their insert. `OnlyLateRowsAreLeft`
says what that costs for any `MaxDelay` between stamp and insert (WindowKept): a row of
the window that stays behind the cursor was inserted before one with an earlier
stamp. `WindowNearlyKept`, in the same theorem, bounds it: such a row is not younger
than the window's first row by more than the delay. The invariant adds `TimeInv`,
that a row is stamped at most `MaxDelay` before what was inserted earlier.

`MemoryRunnerProofs`, from `RunnerConstants`: `TypeCorrect`, and for a consumer with a
cursor to start from (`StartCursor` # -1) `NothingIsDropped` (NoneDropped) and
`ReposInOrder` (FirstEffectsInOrder). The hypothesis is needed: without a start
cursor a connection that breaks before the first completion resumes at the end of
the log (section 6). `sync/README.md:56` promises that no events are dropped for a
consumer that has a cursor to return to. The invariant has two parts: every cursor
that exists (in memory, persisted, on its way to `setCursor`) is `Covered`, that is
every event up to it was handled; and every event before a task's, or before the
subscription's position, was handled or is `Tracked` by an earlier task. What
leaves the ConsecutiveList is complete, so the cursor may move to its last event.

`RefreshTokensProofs`, from `RefreshTokensConstants` (finitely many requests, so that
those under way can be counted against the bound on tokens): `TypeCorrect`,
`RevokedStaysEnded` (NothingSurvives), `SuccessorIsUnique` (OneSuccessor), `GraceEnds`
(ReuseWithinGrace). The invariant says what a rotation that has read its row may
still find: `StaleInv`, a row that is still there keeps the successor that was
read, and what precedes it ends within a grace period; `RowInv`, the successor of a
live token is live and ends no earlier, unless its session was logged out. So a
revocation that took a token also took its predecessors, and a rotation stores
no token a second time.

`OauthSessionProofs`, from `OauthSessionConstants` (finitely many calls, 0 is not the
name of one, at least one token set): `TypeCorrect` and `NoSessionIsReplayed`
(NoReplay, which itself is about a lock that all instances share and no faults).
A token set is `Good` while no later one of its session was issued; the invariant
says that whatever may yet be presented is good: what the holder of the lock has
read, what it is about to store, what a login has yet to store, and what is
stored, unless the holder has just replaced it. Sign-out and callback write the
store without the lock; they write nothing, or a token set that nobody else has.

`BlobsProofs`, from `BlobsConstants` and `NoneIsDistinct`: `TypeCorrect`, `FilesAreKept`
(NoFileLost), `ReferencesArePermanent` (ReferencedIsPermanent). The invariant
follows a file through its stages: `TxnRow` says what the open transaction may have
made of a row, and that what it made permanent has its file in place; `UploadInv`,
that an upload whose temporary file is gone has a permanent one; `PendingInv`, that
a deletion that is pending takes no file that a row needs; `IoInv`, that the file
operations an aborted transaction leaves behind only touch keys that no upload
has, which is why a retry of the request cannot lose the file. What the files hold
is a second invariant over this one, `WholeInv`: at most one write of a file is under
way that nothing was mistaken about (`OneWriter`), and as long as its file is not whole (`Cut`) the temporary
file that is copied from stays (`CutInv`).

`AccountStatusProofs`, from `AccountStatusConstants` and `NoneIsDistinct`: `TypeCorrect`,
`StatusGetsOut` (StatusIsTold), `StoreGoesLast` (AccountHasStore),
`DeletionIsComplete` (NothingLeft), for any number of overlapping operations and
faults. The properties speak of states in which nothing is under way; the
invariant names who will still put right what is not right now: a `Debtor` will
announce the status, a `Destroyer` will remove the store. `PlanInv` lists what may be
left of each operation's program, with and without a failed step; `MetInv` says that
whatever runs while a creation fills the store has met it, so that a cleanup that
met none destroys only what is its own.

`AbstractRepoProofs`, from `KeysAreOrdered` (keys are integers, their order): of
`AbstractRepo`, for any keys, records, nodes, and any number of commits and writes,
`TypeCorrect`, `DiffExact` (DiffIsExact),
`StoreExact` (StoreIsExact), `SinceComplete` (SinceSuffices), `EventComplete`
(EventHasRecords). The last three are the very definitions that `repo_store`
checks; DiffIsExact is the one of `RepoStore` with tables for trees. A block is
content, so what is new at one key may be what another key loses, and `DataDiff`
cancels such pairs in some orders only. The invariant therefore follows a record
through the walk:

- `WritesInv`: only written keys change, those that lose a record are updates or
  deletes, and a key that was written has one of the new records;
- `WalkInv`: changed keys were met before all that are ahead, and a key of both trees
  is ahead in both or in neither;
- `NotedInv`: adds, updates, deletes are those of the keys met so far, `newMstBlocks`
  and the nodes of `removedCids` those met in one tree only;
- `CidInv`: a lost record is noted as removed unless some key gained it, a gained one
  is noted as new unless some key lost it, and one that is noted as removed although
  gained was `Taken`: by a key that was set before, or by one that is before a key
  that lost it. A later key that is new is the only safe place, since `leafAdd`
  alone takes a record back out of `removedCids`;
- `StoreInv` with `AgeInv`: the stored blocks are the repository, and a block was in
  every revision since its repoRev.

At the commit, a record that is removed although a key still holds it is either
one that `getDuplicateRecordCids` finds (its holder was not written), or was taken,
and then `moved` is set (section 6, `NothingMissing`). So every lost
block is a case of `Moved`: the proof needs no other exception.

`NoneIsDistinct` says that "no value" differs from every value it stands beside, as
`null` and `undefined` do in the code and a model value does in TLC.

These six modules have their inductive invariant as `IInv`, the lemma `Initially`,
one lemma per action and the theorem `Invariance`.

Left to TLC: liveness (Delivery, EveryEventHandled, LockReleased, RequestsEnd,
IssuedIsStored, CallsEnd), since fairness and ENABLED are out of the prover's
reach; and what the operators of `Mst` and `MstDiff` compute, since they are
recursive over trees and that could only be proved by induction over data, which
the prover does not do. These are TreeIsCanonical and ImplementsAbstractRepo: the
theorems about commits hold of the repository as far as `RepoStore` implements
`AbstractRepo`, which is checked and not proved. `ImplementsEventStream` and
`ImplementsLinearRepo` are proved as well as checked. Every other safety property of
a passing run is a theorem of its module or, for `repo_store`, of `AbstractRepo` (the
exception is the type invariant of `RepoStore`, whose trees the proofs do not see).

## 6. Where code and documentation disagree

Three runs violate one property each; `PROJECT.json` quotes the lines.

- `runner_destroy`: `destroy()` never ends when two events of one repo are in
  progress.
- `repo_lost`: a commit that creates a record at a key and deletes the same record
  at a later key deletes its block; applyWrites can make such a commit. So does
  one that deletes a key and updates or re-creates another with the same record.
  StoreIsExact, SinceSuffices and EventHasRecords leave such commits out (`moved`).
- `oauth_revoke`: a refresh between the revocation endpoint's lookup and its
  deletion gives the session a new token id; the endpoint answers and the session
  lives on.

Remarks. The following are behaviours that the models show and the properties
name as exceptions, or that bounds keep out.

- Sequencer and outbox. Two overlapping deletions of an account purge each
  other's event, and the log keeps none (`MaxDeletions` = 1). `earliestAfterTime`
  orders by the stamp, which is taken before the insert, so a row of the window may
  be before the cursor it finds (WindowKept says which). A consumer that is up to
  date is refused (FutureCursor) when the newest rows were purged. A consumer whose
  cursor is ahead of the poll loop receives rows at or before its cursor
  (NothingStale says exactly when).
- Consumer. Without a start cursor, a connection lost before the first completion
  resumes at the end of the log. A replayed event may run after newer events of its
  repo, which are not replayed; FirstEffectsInOrder is about first effects.
- Tree. A commit that empties the tree and then creates a key on a lower layer
  stores nodes that only point down (`emptied` in TreeIsCanonical).
- Write path. A crash between the event and the COMMIT leaves an event of a commit
  that never lands; the next event's `since` shows it (BuildsOnDurable).
- Accounts. Two status changes may be announced in the wrong order and nothing
  corrects it (`untold`). The cleanup of a failed creation announces the deletion
  before it removes the account's rows, the reverse of the order that
  `deleteAccount.ts:73` calls important. `ActorStore.create` checks and then makes; a
  deletion that overlaps a new creation may purge its events or destroy its
  directory (`hasty`). What a crash in the middle of a deletion leaves, only another
  deletion removes (`soiled`).
- Sessions. A login that was checked before a takedown or a new password stores its
  session up to 350 ms later (`opened` in NothingSurvives). After the logout of a
  successor its predecessor may, within the grace period, store it again
  (`LoggedOut`; each token is logged out once).
- OAuth. Sign-out and callback write the store outside of the lock, so a refresh
  under way can bring a signed-out session back or overwrite a new login. Without a
  common lock the recovery after one second may find a session that the server has
  already ended (`shared` in NoReplay).
- Blobs. An import makes references to blobs that stay temporary (`imported`). A
  background deletion may remove the file of a blob that was uploaded and
  referenced again (`raced`). A takedown that is rolled back leaves its file moved
  until another commits (`torn`). `makePermanent` writes in place
  (`disk-blobstore.ts:99`), so a write that fails or a crash leaves part of a file; the
  next write of the blob finds a file there (`hasStored`, line 96), removes the
  temporary one (line 102) and clears `tempKey`: the row is permanent and the content
  lost. The same happens when two writes of one blob overlap and the one that
  was writing fails; NoFileLost leaves out both from the mistake on (`mistaken`). The temporary file of a second upload, and a
  deletion lost in a crash, leave files that nobody removes.

## 7. Not modelled

The reasons per component are in `PROJECT.json`. Most of the repository by lines is
generated code, schemas, codecs, SQL queries of the application view and of the
moderation service, and client wrappers: pure functions over data, or queries
without a protocol between steps. Within the modelled components: encoding and
signatures of events and blocks, the commit block, covering proofs, lists and
leaf walks of the tree, the limits on writes and event size (which only abort),
resigning, authentication of events by the consumer, a consumer without a
runner, backoff and heartbeats; password hashing, e-mail factors and tokens,
handles and invites; authorization requests, codes, devices and DPoP; in
`OauthSession` the deletion by `fetchHandler` and by `restore`
(AuthMethodUnsatisfiable) and a callback whose setStored fails; the S3 blob
store. Small branches that no property depends on: the clock of the process that is
behind the last revision, after which `TID.nextStr` counts on from that revision
(`tid.ts:43`; revisions ascend either way); `validate` === false in `createRecord`, which
asks for no backlink conflicts and is here the call of `applyWrites` with one create;
the revocation endpoint's lookup of a used refresh token and of its session, two
queries and here one step. The checks
that throw on malformed trees are assertions that the modelled trees meet. That
SQLite's transactions are atomic, that CIDs do not collide and that PQueue does
what its documentation says is assumed.
