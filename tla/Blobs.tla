------------------------------- MODULE Blobs -------------------------------
(***************************************************************************)
(* The blobs of one account of a PDS: BlobTransactor                       *)
(* (packages/pds/src/actor-store/blob/transactor.ts), DiskBlobStore and    *)
(* the background queue that deletes files.                                *)
(*                                                                         *)
(* A blob has a row in the account's database and a file in one of three   *)
(* directories.  An upload puts a temporary file; the first record that    *)
(* refers to the blob makes the file permanent; the write that removes the *)
(* last reference removes the row, and the file in the background.  Files  *)
(* change while a transaction is open: a rollback undoes rows and          *)
(* references, but no file.                                                *)
(*                                                                         *)
(* Abstraction.  Transactions that write exclude each other, and one that  *)
(* finds another in its way begins again (module RepoWrites), so a         *)
(* transaction's queries are one step, and between them only its own file  *)
(* operations, those that an aborted transaction left, and the background  *)
(* queue run.  The checks of size and type are failures like any other.    *)
(***************************************************************************)
EXTENDS Integers, FiniteSets

CONSTANTS
    Blob,       \* hashes of blobs
    Record,     \* paths of records
    None,       \* no row, no record, no open transaction
    Gone,       \* the deletion of a record
    MaxKey,     \* bound: uploads
    MaxTxn,     \* bound: record writes, imports and takedowns
    MaxFaults   \* bound: crashes and failed background deletions

ASSUME BlobsConstants ==
    /\ None \notin Record /\ Gone # None
    /\ MaxKey \in Nat /\ MaxTxn \in Nat /\ MaxFaults \in Nat

Key == 1 .. MaxKey
Permanent == 0      \* tempKey is null

\* The tables blob, record_blob and record
Row == [temp : Key \cup {Permanent}, taken : BOOLEAN]
Db == [row : [Blob -> Row \cup {None}], refs : SUBSET (Record \X Blob),
       records : SUBSET Record]

\* An open transaction: what it has written, the verifications it has still to
\* do, the files to delete on commit, and the upload or the takedown it serves
Uploaded == Key \X Blob
Txn == [db : Db, tasks : SUBSET ((Record \cup {None}) \X Blob), drop : SUBSET Blob,
        serves : Uploaded \cup Blob \cup {None}]

ASSUME NoneIsDistinct ==
    /\ None \notin Blob \cup Uploaded \cup Row \cup Txn
    /\ Blob \cap Uploaded = {}

\* A file operation under way, of the open transaction or of one that is over
Io == [task : Record \cup {None}, blob : Blob, key : Key \cup {Permanent}, own : BOOLEAN,
       stage : {"check", "read", "write", "fill", "remove", "quarantine", "unquarantine"}]

VARIABLES
    db,           \* the account's database, as committed
    txn,          \* the open transaction, or None
    io,           \* file operations under way
    keys,         \* temporary keys given so far
    uploads,      \* uploads whose file is there and whose row is not yet
    temp,         \* temporary files
    stored,       \* permanent files, whole or not
    quarantined,  \* files of blobs that were taken down
    truncated,    \* blobs whose file was last written by a write that ended half way
    pending,      \* deletions in the background queue
    begun,        \* history: transactions other than uploads so far
    faults,       \* history: faults so far
    raced,        \* history: blobs whose file was deleted while it was being stored again
    torn,         \* history: blobs whose file a takedown moved without committing
    mistaken,     \* history: blobs whose file was taken for stored before it was whole
    imported      \* history: blobs that an import refers to

disk == <<temp, stored, quarantined, truncated>>
history == <<begun, faults, raced, torn, mistaken, imported>>
vars == <<db, txn, io, keys, uploads, disk, pending, history>>

TypeOK ==
    /\ db \in Db
    /\ txn \in Txn \cup {None}
    /\ io \in SUBSET Io
    /\ keys \in 0 .. MaxKey
    /\ uploads \in SUBSET Uploaded
    /\ temp \in SUBSET Uploaded
    /\ stored \in SUBSET Blob /\ quarantined \in SUBSET Blob /\ truncated \in SUBSET Blob
    /\ pending \in [Blob -> Nat]
    /\ begun \in 0 .. MaxTxn /\ faults \in 0 .. MaxFaults
    /\ raced \in SUBSET Blob /\ torn \in SUBSET Blob
    /\ mistaken \in SUBSET Blob /\ imported \in SUBSET Blob

Init ==
    /\ db = [row |-> [c \in Blob |-> None], refs |-> {}, records |-> {}]
    /\ txn = None
    /\ io = {}
    /\ keys = 0
    /\ uploads = {}
    /\ temp = {} /\ stored = {} /\ quarantined = {} /\ truncated = {}
    /\ pending = [c \in Blob |-> 0]
    /\ begun = 0 /\ faults = 0
    /\ raced = {} /\ torn = {} /\ mistaken = {} /\ imported = {}

-----------------------------------------------------------------------------
(* Uploads *)

\* putTemp, outside any transaction; one that fails leaves a file whose key nobody has
PutTemp(c) ==
    /\ keys < MaxKey
    /\ keys' = keys + 1
    /\ temp' = temp \cup {<<keys', c>>}
    /\ uploads' = uploads \cup {<<keys', c>>}
    /\ UNCHANGED <<db, txn, io, stored, quarantined, truncated, pending, history>>

\* The row that an upload leaves: a permanent one keeps its file
Tracked(row, key) ==
    IF row # None /\ row.temp = Permanent THEN row ELSE [temp |-> key, taken |-> FALSE]

TakenDown(d, c) == d.row[c] # None /\ d.row[c].taken

Refers(d, c) == \E r \in Record : <<r, c>> \in d.refs

\* trackUntetheredBlob, and a verification if a record refers to the blob already
TrackUntetheredBlob(u) ==
    LET key == u[1]
        c == u[2]
    IN  /\ txn = None
        /\ ~TakenDown(db, c)
        /\ txn' = [db |-> [db EXCEPT !.row[c] = Tracked(@, key)],
                   tasks |-> IF Refers(db, c) THEN {<<None, c>>} ELSE {},
                   drop |-> {}, serves |-> u]
        /\ UNCHANGED <<db, io, keys, uploads, disk, pending, history>>

\* Refused because the blob is taken down, or given up on; the file stays
UploadFails(u) ==
    /\ txn = None
    /\ uploads' = uploads \ {u}
    /\ UNCHANGED <<db, txn, io, keys, disk, pending, history>>

-----------------------------------------------------------------------------
(* Record writes, imports and takedowns *)

Begin ==
    /\ txn = None
    /\ begun < MaxTxn
    /\ begun' = begun + 1

\* Writes are a blob set, or Gone, for some records
Writes == UNION {[rs -> SUBSET Blob \cup {Gone}] : rs \in SUBSET Record \ {{}}}

Written(ws) == {r \in DOMAIN ws : ws[r] # Gone}
NewRefs(ws) == {ref \in Written(ws) \X Blob : ref[2] \in ws[ref[1]]}
Records(d, ws) == (d.records \ DOMAIN ws) \cup Written(ws)

\* The references that deletions and updates remove
OldRefs(d, ws) == {ref \in d.refs : ref[1] \in DOMAIN ws \cap d.records}

\* Mutant: other records are not asked
OnlyNew(d, ws) ==
    {ref[2] : ref \in OldRefs(d, ws)} \ {ref[2] : ref \in NewRefs(ws)}

\* deleteDereferencedBlobs: no new reference and no remaining one
Dereferenced(d, ws) ==
    {ref[2] : ref \in OldRefs(d, ws)}
      \ {ref[2] : ref \in NewRefs(ws) \cup (d.refs \ OldRefs(d, ws))}

\* processWriteBlobs up to its tasks; every task associates its blob first
ProcessWriteBlobs(ws) ==
    /\ Begin
    /\ \A r \in DOMAIN ws : ws[r] = Gone => r \in db.records
    /\ txn' = [db |-> [row |-> [c \in Blob |->
                                  IF c \in Dereferenced(db, ws) THEN None ELSE db.row[c]],
                       refs |-> (db.refs \ OldRefs(db, ws)) \cup NewRefs(ws),
                       records |-> Records(db, ws)],
               tasks |-> NewRefs(ws), drop |-> Dereferenced(db, ws), serves |-> None]
    /\ UNCHANGED <<db, io, keys, uploads, disk, pending, faults, raced, torn, mistaken,
                   imported>>

\* importRepo: references are added and none is removed or verified
ImportRepo(ws) ==
    /\ Begin
    /\ \A r \in DOMAIN ws : ws[r] = Gone => r \in db.records
    /\ db' = [db EXCEPT !.refs = @ \cup NewRefs(ws), !.records = Records(db, ws)]
    /\ imported' = imported \cup {ref[2] : ref \in NewRefs(ws)}
    /\ UNCHANGED <<txn, io, keys, uploads, disk, pending, faults, raced, torn, mistaken>>

\* updateBlobTakedownStatus: the row if there is one, and then the file
UpdateBlobTakedownStatus(c, applied) ==
    /\ Begin
    /\ txn' = [db |-> IF db.row[c] = None THEN db ELSE [db EXCEPT !.row[c].taken = applied],
               tasks |-> {}, drop |-> {}, serves |-> c]
    /\ io' = io \cup {[task |-> None, blob |-> c, key |-> Permanent, own |-> TRUE,
                       stage |-> IF applied THEN "quarantine" ELSE "unquarantine"]}
    /\ UNCHANGED <<db, keys, uploads, disk, pending, faults, raced, torn, mistaken, imported>>

-----------------------------------------------------------------------------
(* The tasks of a transaction *)

Own == {x \in io : x.own}

\* verifyBlobAndMakePermanent: a blob without a row, or taken down, makes the
\* transaction fail; the tasks run side by side
VerifyBlob(t) ==
    LET c == t[2]
    IN  /\ txn.db.row[c] # None /\ ~TakenDown(txn.db, c)
        /\ txn' = [txn EXCEPT !.tasks = @ \ {t}]
        /\ io' = IF txn.db.row[c].temp = Permanent THEN io
                 ELSE io \cup {[task |-> t[1], blob |-> c, key |-> txn.db.row[c].temp,
                                own |-> TRUE, stage |-> "check"]}
        /\ UNCHANGED <<db, keys, uploads, disk, pending, history>>

Advance(x, stage) == io' = (io \ {x}) \cup {[x EXCEPT !.stage = stage]}

\* A file that is found or written while its deletion is pending
Race(c) == raced' = IF pending[c] > 0 THEN raced \cup {c} ELSE raced

\* Some operation is writing the file of a blob
Filling(c) == \E x \in io : x.blob = c /\ x.stage = "fill"

\* makePermanent: hasStored asks whether there is a file, whole or not
HasStored(x) ==
    /\ x.stage = "check"
    /\ Advance(x, IF x.blob \in stored THEN "remove" ELSE "read")
    /\ Race(x.blob)
    /\ mistaken' = IF x.blob \in stored /\ (x.blob \in truncated \/ Filling(x.blob))
                   THEN mistaken \cup {x.blob} ELSE mistaken
    /\ UNCHANGED <<db, txn, keys, uploads, disk, pending, begun, faults, torn, imported>>

ReadTemp(x) ==
    /\ x.stage = "read"
    /\ <<x.key, x.blob>> \in temp
    /\ Advance(x, "write")
    /\ UNCHANGED <<db, txn, keys, uploads, disk, pending, history>>

\* The temporary file is gone; an open transaction fails of it
ReadFails(x) ==
    /\ x.stage = "read"
    /\ ~x.own
    /\ <<x.key, x.blob>> \notin temp
    /\ io' = io \ {x}
    /\ UNCHANGED <<db, txn, keys, uploads, disk, pending, history>>

\* Mutant: the write of the file is not awaited before the temporary file is removed
OpenUnawaited(x) ==
    /\ x.stage = "write"
    /\ Advance(x, "fill")
    /\ stored' = stored \cup {x.blob}
    /\ temp' = temp \ {<<x.key, x.blob>>}
    /\ Race(x.blob)
    /\ UNCHANGED <<db, txn, keys, uploads, quarantined, truncated, pending, begun, faults, torn,
                   mistaken, imported>>

\* writeFile makes the file, or empties the one there is, and then writes it
OpenStored(x) ==
    /\ x.stage = "write"
    /\ Advance(x, "fill")
    /\ stored' = stored \cup {x.blob}
    /\ truncated' = truncated \ {x.blob}
    /\ Race(x.blob)
    /\ mistaken' = IF x.blob \in stored \cup quarantined \/ Filling(x.blob)
                   THEN mistaken \cup {x.blob} ELSE mistaken
    /\ UNCHANGED <<db, txn, keys, uploads, temp, quarantined, pending, begun, faults, torn,
                   imported>>

\* The file is whole
WriteStored(x) ==
    /\ x.stage = "fill"
    /\ Advance(x, "remove")
    /\ UNCHANGED <<db, txn, keys, uploads, disk, pending, history>>

\* What the writes that end half way leave behind
Truncate(xs) == truncated' = truncated \cup {x.blob : x \in {y \in xs : y.stage = "fill"}}

\* A write that no transaction waits for any more fails; for the others see Abort
WriteFails(x) ==
    /\ x.stage = "fill"
    /\ ~x.own
    /\ io' = io \ {x}
    /\ Truncate({x})
    /\ UNCHANGED <<db, txn, keys, uploads, temp, stored, quarantined, pending, history>>

\* The row's tempKey is cleared where it is the key that was made permanent
Cleared(d, key) ==
    [d EXCEPT !.row = [c \in Blob |->
        IF d.row[c] # None /\ d.row[c].temp = key THEN [d.row[c] EXCEPT !.temp = Permanent]
        ELSE d.row[c]]]

\* The end of makePermanent, and the update; an aborted task does not update
RemoveTemp(x) ==
    /\ x.stage = "remove"
    /\ temp' = temp \ {<<x.key, x.blob>>}
    /\ io' = io \ {x}
    /\ txn' = IF x.own THEN [txn EXCEPT !.db = Cleared(@, x.key)] ELSE txn
    /\ UNCHANGED <<db, keys, uploads, stored, quarantined, truncated, pending, history>>

\* Renames; a file that is not there is not an error
Quarantine(x) ==
    /\ x.stage = "quarantine"
    /\ io' = io \ {x}
    /\ stored' = stored \ {x.blob}
    /\ quarantined' = quarantined \cup (stored \cap {x.blob})
    /\ torn' = torn \cup (stored \cap {x.blob})
    /\ UNCHANGED <<db, txn, keys, uploads, temp, truncated, pending, begun, faults, raced,
                   mistaken, imported>>

Unquarantine(x) ==
    /\ x.stage = "unquarantine"
    /\ io' = io \ {x}
    /\ quarantined' = quarantined \ {x.blob}
    /\ stored' = stored \cup (quarantined \cap {x.blob})
    /\ torn' = torn \cup (quarantined \cap {x.blob})
    /\ UNCHANGED <<db, txn, keys, uploads, temp, truncated, pending, begun, faults, raced,
                   mistaken, imported>>

\* COMMIT; the hook hands the files to the background queue.  A takedown that
\* commits makes the row agree with the place of the file again; a file is
\* dropped in a race when an upload that has used its temporary file runs again.
Commit ==
    /\ txn # None
    /\ txn.tasks = {} /\ Own = {}
    /\ db' = txn.db
    /\ txn' = None
    /\ uploads' = uploads \ {txn.serves}
    /\ pending' = [c \in Blob |-> pending[c] + (IF c \in txn.drop THEN 1 ELSE 0)]
    /\ torn' = torn \ {txn.serves}
    /\ raced' = raced \cup {c \in txn.drop : \E u \in uploads \ temp : u[2] = c}
    /\ UNCHANGED <<io, keys, disk, begun, faults, mistaken, imported>>

Stray(xs) == {[x EXCEPT !.own = FALSE] : x \in xs}

\* A task fails its verification, or a file operation, or a later step or COMMIT
\* does; of the other tasks of a record write, those in a file operation finish it,
\* also one that the queue gave up on after 60 s
Failed == (IF txn.serves = None \/ Own = {} THEN {{}} ELSE {}) \cup {{x} : x \in Own}

\* Rows and references are rolled back, files are not; an upload that found the
\* database busy is tried again
Abort ==
    /\ txn # None
    /\ \E failed \in Failed : io' = (io \ Own) \cup Stray(Own \ failed) /\ Truncate(failed)
    /\ txn' = None
    /\ uploads' \in {uploads, uploads \ {txn.serves}}
    /\ UNCHANGED <<db, keys, temp, stored, quarantined, pending, history>>

-----------------------------------------------------------------------------
(* The background queue and the process *)

\* Mutant: a task is counted off when it starts and when it ends
DoneTwice(c) == pending' = [pending EXCEPT ![c] = @ - 2]

Done(c) == pending' = [pending EXCEPT ![c] = @ - 1]

DeleteFile(c) ==
    /\ pending[c] > 0
    /\ Done(c)
    /\ stored' = stored \ {c}
    /\ UNCHANGED <<db, txn, io, keys, uploads, temp, quarantined, truncated, history>>

\* Logged, and not tried again
DeleteFails(c) ==
    /\ pending[c] > 0
    /\ faults < MaxFaults
    /\ faults' = faults + 1
    /\ Done(c)
    /\ UNCHANGED <<db, txn, io, keys, uploads, disk, begun, raced, torn, mistaken, imported>>

\* The process stops: what is open is rolled back, the queue is lost
Crash ==
    /\ faults < MaxFaults
    /\ faults' = faults + 1
    /\ txn' = None
    /\ io' = {}
    /\ Truncate(io)
    /\ uploads' = {}
    /\ pending' = [c \in Blob |-> 0]
    /\ UNCHANGED <<db, keys, temp, stored, quarantined, begun, raced, torn, mistaken, imported>>

Next ==
    \/ \E c \in Blob : PutTemp(c) \/ DeleteFile(c) \/ DeleteFails(c)
    \/ \E u \in uploads : TrackUntetheredBlob(u) \/ UploadFails(u)
    \/ \E ws \in Writes : ProcessWriteBlobs(ws) \/ ImportRepo(ws)
    \/ \E c \in Blob, applied \in BOOLEAN : UpdateBlobTakedownStatus(c, applied)
    \/ txn # None /\ \E t \in txn.tasks : VerifyBlob(t)
    \/ \E x \in io : \/ HasStored(x) \/ ReadTemp(x) \/ ReadFails(x) \/ OpenStored(x)
                     \/ WriteStored(x) \/ WriteFails(x) \/ RemoveTemp(x)
                     \/ Quarantine(x) \/ Unquarantine(x)
    \/ Commit \/ Abort \/ Crash

Spec == Init /\ [][Next]_vars

-----------------------------------------------------------------------------
(* Properties *)

HasRow(c) == db.row[c] # None

\* Whatever was rolled back, retried, cut short or deleted in the background, no
\* content is lost.  A permanent blob has its file where its row says, and it is
\* whole.  A temporary one has its upload, or a write that was rolled back has made
\* that permanent already, and the next write finds it whole.  Three cases are left
\* out: a file whose deletion in the background met a new upload or write of the
\* same blob; a takedown that moved the file and did not commit, until a later one
\* commits; and a file that ends half way because its write failed or the process
\* stopped, once another write has taken it for stored or written over it.
NoFileLost ==
    \A c \in Blob \ raced :
        HasRow(c) =>
            LET whole == c \notin truncated \ mistaken
            IN  IF db.row[c].temp # Permanent
                THEN <<db.row[c].temp, c>> \in temp \/ (whole /\ c \in stored \cup quarantined)
                ELSE /\ whole
                     /\ c \in torn \/ c \in (IF db.row[c].taken THEN quarantined ELSE stored)

\* What a record refers to is permanent, whoever deleted, updated or uploaded
\* what in the meantime, unless an import made references without a blob.
ReferencedIsPermanent ==
    \A c \in Blob \ imported :
        Refers(db, c) => HasRow(c) /\ db.row[c].temp = Permanent

=============================================================================
