---------------------------- MODULE BlobsProofs ----------------------------
(***************************************************************************)
(* Proofs about the blobs of an account: whatever blobs, records and       *)
(* faults, no file is lost and what a record refers to is permanent.       *)
(*                                                                         *)
(* The inductive invariant follows a file through its stages.  A blob whose*)
(* deletion is pending has no row, or one with a temporary file of its own *)
(* that no file operation is about to remove; what makes a blob permanent  *)
(* in the open transaction has its file in place; an upload whose temporary*)
(* file is gone has its file among the permanent ones (IInv).  What these  *)
(* files hold is a second invariant over the first (WholeInv): while a file*)
(* is not whole, the temporary file that it is copied from stays.          *)
(***************************************************************************)
EXTENDS Blobs, TLAPS

Copying == {"check", "read", "write", "fill", "remove"}
Placed == {"fill", "remove"}    \* the file is there
Moving == {"quarantine", "unquarantine"}

Files == stored \cup quarantined
Pair(x) == <<x.key, x.blob>>

\* A temporary key is given once
Known ==
    uploads \cup {Pair(x) : x \in {y \in io : y.stage \in Copying}}
            \cup {<<db.row[c].temp, c>> : c \in {d \in Blob : db.row[d] # None}}

KeyInv ==
    \A a, b \in Known :
        a[1] # Permanent => a[1] <= keys /\ (a[1] = b[1] => a = b)

\* The file operations of an aborted transaction copy what was uploaded before
IoInv ==
    \A x \in io :
        /\ x.own => txn # None
        /\ x.stage \in Copying => x.key # Permanent
        /\ x.stage \in Moving => x.own
        /\ ~x.own => Pair(x) \notin uploads

\* ... and those of the open transaction what its row says
CopyInv(x) ==
    /\ txn.serves \notin Blob
    /\ txn.db.row[x.blob] # None
    /\ txn.db.row[x.blob].temp \in {x.key, Permanent} /\ ~txn.db.row[x.blob].taken
    /\ Pair(x) \in uploads => txn.serves = Pair(x)
    /\ (x.stage \in Placed /\ x.blob \notin raced) => x.blob \in stored /\ pending[x.blob] = 0

\* A transaction for an upload or a takedown does one thing at a time
SingleInv ==
    /\ txn.serves # None =>
          /\ txn.drop = {}
          /\ \A x \in Own : txn.tasks = {} /\ \A y \in Own : y = x
          /\ \A s, t \in txn.tasks : s = t
    /\ txn.serves \in Uploaded => txn.serves \in uploads
    /\ txn.serves \in Blob => txn.tasks = {}

\* The rows of the open transaction
MadePermanent(c) ==
    /\ txn.serves \notin Blob
    /\ txn.db.row[c] = [temp |-> Permanent, taken |-> FALSE]
    /\ c \notin raced => c \in stored /\ pending[c] = 0

TxnRow(c) ==
    \/ txn.db.row[c] = db.row[c]
    \/ c \in txn.drop
    \/ MadePermanent(c)
    \/ /\ txn.serves \in Uploaded /\ txn.serves[2] = c
       /\ txn.db.row[c] = [temp |-> txn.serves[1], taken |-> FALSE]
    \/ /\ txn.serves = c /\ db.row[c] # None
       /\ txn.db.row[c] # None /\ txn.db.row[c].temp = db.row[c].temp

Place(row) == IF row.taken THEN quarantined ELSE stored

TxnInv ==
    txn # None =>
        /\ \A x \in Own : x.stage \in Copying => CopyInv(x)
        /\ \A x \in Own : x.stage \in Moving =>
              /\ txn.serves = x.blob
              /\ txn.db.row[x.blob] # None => (txn.db.row[x.blob].taken <=> x.stage = "quarantine")
        /\ SingleInv
        /\ \A c \in Blob : TxnRow(c) /\ (c \in txn.drop => txn.db.row[c] = None)
        /\ \A c \in Blob \ raced :
              (txn.serves = c /\ Own = {} /\ txn.db.row[c] # None
                 /\ txn.db.row[c].temp = Permanent) => c \in Place(txn.db.row[c])

\* An upload has its temporary file, or a transaction that was aborted has made
\* that permanent
UploadInv ==
    \A u \in uploads :
        (u \notin temp /\ u[2] \notin raced) => u[2] \in Files /\ pending[u[2]] = 0

\* The committed rows
FileInv(c) ==
    HasRow(c) =>
        /\ <<db.row[c].temp, c>> \notin uploads
        /\ db.row[c].temp = Permanent => c \in Files /\ (c \in torn \/ c \in Place(db.row[c]))
        /\ db.row[c].temp # Permanent => <<db.row[c].temp, c>> \in temp \/ c \in Files
        /\ \A x \in io :
              (x.blob = c /\ x.stage \in Placed /\ x.key = db.row[c].temp) => c \in Files

\* A pending deletion takes no file that a row needs
PendingInv(c) ==
    pending[c] > 0 =>
        /\ HasRow(c) => db.row[c].temp # Permanent /\ <<db.row[c].temp, c>> \in temp
        /\ \A x \in io :
              (x.blob = c /\ x.stage \in Placed) =>
                  ~x.own /\ (HasRow(c) => x.key # db.row[c].temp)

FilesInv == \A c \in Blob \ raced : FileInv(c) /\ PendingInv(c)
NoUploadOfRow == \A c \in Blob : HasRow(c) => <<db.row[c].temp, c>> \notin uploads

\* References of the open transaction that are not permanent are about to be
RefersInv ==
    txn # None =>
        \A c \in Blob \ imported :
            Refers(txn.db, c) =>
                \/ txn.db.row[c] # None /\ txn.db.row[c].temp = Permanent
                \/ \E t \in txn.tasks : t[2] = c
                \/ \E x \in Own : x.stage \in Copying /\ x.blob = c

\* A file that is not whole and that nothing has taken for a whole one
Cut(c) == c \notin mistaken /\ (c \in truncated \/ Filling(c))

\* Until it is written to its end, the temporary file stays, and no row, committed
\* or not, says otherwise
CutInv(c) ==
    Cut(c) =>
        /\ HasRow(c) => db.row[c].temp # Permanent /\ <<db.row[c].temp, c>> \in temp
        /\ (txn # None /\ txn.db.row[c] # None) => txn.db.row[c].temp # Permanent
        /\ \A u \in uploads : u[2] = c => u \in temp
        /\ \A x \in io :
              (x.blob = c /\ x.stage = "remove") =>
                  ~x.own /\ (HasRow(c) => x.key # db.row[c].temp)

OneWriter ==
    \A c \in Blob \ mistaken : \A x, y \in io :
        (x.blob = c /\ y.blob = c /\ x.stage = "fill" /\ y.stage = "fill") =>
            x = y /\ c \notin truncated

WholeInv == OneWriter /\ \A c \in Blob \ raced : CutInv(c)

IInv ==
    /\ TypeOK /\ KeyInv /\ IoInv /\ TxnInv /\ UploadInv /\ FilesInv /\ NoUploadOfRow
    /\ RefersInv /\ ReferencedIsPermanent

-----------------------------------------------------------------------------
(* Types *)

LEMMA KeyTypes ==
  /\ Permanent = 0 /\ Key \subseteq Nat \ {0} /\ Permanent \notin Key
  /\ \A k \in Key, c \in Blob : <<k, c>> \in Uploaded
  /\ \A u \in Uploaded : u[1] \in Key /\ u[2] \in Blob /\ u = <<u[1], u[2]>>
  /\ None \notin Uploaded /\ None \notin Blob
  BY NoneIsDistinct DEF Permanent, Key, Uploaded

LEMMA RowTypes ==
  ASSUME NEW d \in Db, NEW c \in Blob, d.row[c] # None
  PROVE  /\ d.row[c] \in Row
         /\ d.row[c].temp \in Key \cup {Permanent} /\ d.row[c].taken \in BOOLEAN
         /\ d.row[c] = [temp |-> d.row[c].temp, taken |-> d.row[c].taken]
  <1>1. d.row[c] \in Row
    BY DEF Db
  <1>2. QED
    BY <1>1 DEF Row

LEMMA RowIsNotNone ==
  \A k \in Key \cup {Permanent}, b \in BOOLEAN :
      [temp |-> k, taken |-> b] \in Row /\ [temp |-> k, taken |-> b] # None
  BY NoneIsDistinct DEF Row

LEMMA TxnTypes ==
  ASSUME TypeOK, txn # None
  PROVE  /\ txn.db \in Db /\ txn.tasks \subseteq (Record \cup {None}) \X Blob
         /\ txn.drop \subseteq Blob /\ txn.serves \in Uploaded \cup Blob \cup {None}
         /\ txn = [db |-> txn.db, tasks |-> txn.tasks, drop |-> txn.drop, serves |-> txn.serves]
         /\ \A t \in txn.tasks : t[2] \in Blob
  <1>1. txn \in Txn
    BY DEF TypeOK
  <1>2. QED
    BY <1>1 DEF Txn

LEMMA IoTypes ==
  ASSUME TypeOK, NEW x \in io
  PROVE  /\ x \in Io /\ x.blob \in Blob /\ x.key \in Key \cup {Permanent}
         /\ x.own \in BOOLEAN /\ x.stage \in Copying \cup Moving
  <1>1. x \in Io
    BY DEF TypeOK
  <1>2. QED
    BY <1>1 DEF Io, Copying, Moving

\* A file operation in its next stage
LEMMA Advances ==
  ASSUME NEW x \in Io, NEW s \in Copying \cup Moving
  PROVE  LET y == [x EXCEPT !.stage = s]
         IN  /\ y \in Io /\ y.stage = s /\ y.key = x.key /\ y.blob = x.blob /\ y.own = x.own
             /\ Pair(y) = Pair(x)
  BY DEF Io, Copying, Moving, Pair

LEMMA Strays ==
  ASSUME NEW x \in Io
  PROVE  LET y == [x EXCEPT !.own = FALSE]
         IN  /\ y \in Io /\ y.stage = x.stage /\ y.key = x.key /\ y.blob = x.blob /\ ~y.own
             /\ Pair(y) = Pair(x)
  BY DEF Io, Pair

LEMMA KnownTypes ==
  ASSUME TypeOK
  PROVE  \A a \in Known : a[1] \in Nat
  <1>1. \A u \in uploads : u[1] \in Nat
    BY KeyTypes DEF TypeOK
  <1>2. \A x \in io : Pair(x)[1] \in Nat
    BY IoTypes, KeyTypes DEF Pair
  <1>3. ASSUME NEW c \in Blob, db.row[c] # None PROVE <<db.row[c].temp, c>>[1] \in Nat
    <2>1. db.row[c].temp \in Key \cup {Permanent}
      BY <1>3, RowTypes DEF TypeOK
    <2>2. QED
      BY <2>1, KeyTypes
  <1>4. QED
    BY <1>1, <1>2, <1>3 DEF Known

LEMMA KeysStay ==
  ASSUME KeyInv, \A a \in Known' : a \in Known \/ a[1] = Permanent, keys' = keys
  PROVE  KeyInv'
  BY DEF KeyInv

LEMMA NothingOwn ==
  ASSUME IInv, txn = None
  PROVE  Own = {}
  BY DEF IInv, IoInv, Own

\* Keys that were given are not given again
LEMMA NewKey ==
  ASSUME IInv, NEW c \in Blob
  PROVE  /\ \A u \in Known : u # <<keys + 1, c>>
         /\ \A x \in io : ~x.own => Pair(x) # <<keys + 1, c>>
         /\ \A x \in io : x.stage \in Copying => Pair(x) # <<keys + 1, c>>
         /\ \A d \in Blob : HasRow(d) => <<db.row[d].temp, d>> # <<keys + 1, c>>
  <1>1. keys \in Nat /\ Permanent = 0
    BY BlobsConstants DEF IInv, TypeOK, Permanent
  <1>2. \A u \in Known : u # <<keys + 1, c>>
    BY <1>1 DEF IInv, KeyInv
  <1>3. \A x \in io : x.stage \in Copying => Pair(x) \in Known
    BY DEF Known
  <1>4. \A x \in io : ~x.own => x.stage \in Copying
    BY IoTypes DEF IInv, IoInv
  <1>5. \A d \in Blob : HasRow(d) => <<db.row[d].temp, d>> \in Known
    BY DEF Known, HasRow
  <1>6. QED
    BY <1>2, <1>3, <1>4, <1>5

-----------------------------------------------------------------------------
(* Uploads *)

LEMMA PutTempKeeps ==
  ASSUME IInv, NEW c \in Blob, PutTemp(c)
  PROVE  IInv'
  <1> DEFINE k == keys + 1
             n == <<k, c>>
  <1>1. /\ keys < MaxKey /\ keys' = k /\ temp' = temp \cup {n} /\ uploads' = uploads \cup {n}
        /\ UNCHANGED <<db, txn, io, stored, quarantined, truncated, pending, history>>
    BY DEF PutTemp
  <1>2. keys \in Nat /\ k \in Key /\ n \in Uploaded
    BY <1>1, BlobsConstants, KeyTypes DEF IInv, TypeOK, Key
  <1>3. TypeOK'
    BY <1>1, <1>2, BlobsConstants DEF IInv, TypeOK, history, Key
  <1>4. Known' = Known \cup {n}
    BY <1>1 DEF Known, Pair
  <1>5. KeyInv'
    <2>1. \A a \in Known : a[1] # Permanent => a[1] <= keys
      BY DEF IInv, KeyInv
    <2>2. \A a \in Known : a[1] \in Nat
      BY KnownTypes DEF IInv
    <2>3. QED
      BY <1>1, <1>2, <1>4, <2>1, <2>2, KeyTypes DEF IInv, KeyInv
  <1>6. IoInv'
    BY <1>1, NewKey DEF IInv, IoInv, Pair
  <1>7. TxnInv'
    <2>1. \A x \in Own : x.stage \in Copying => Pair(x) # n
      BY NewKey DEF Own
    <2> HIDE DEF n
    <2>2. QED
      BY <1>1, <2>1 DEF IInv, TxnInv, CopyInv, SingleInv, TxnRow, MadePermanent, Own, Pair,
                        Place, history
  <1>8. UploadInv' /\ NoUploadOfRow'
    BY <1>1, NewKey DEF IInv, UploadInv, NoUploadOfRow, HasRow, Files, history
  <1>9. FilesInv'
    BY <1>1, NewKey DEF IInv, FilesInv, FileInv, PendingInv, HasRow, Files, Place, history
  <1>10. RefersInv' /\ ReferencedIsPermanent'
    BY <1>1 DEF IInv, RefersInv, ReferencedIsPermanent, Refers, Own, HasRow, history
  <1>11. QED
    BY <1>3, <1>5, <1>6, <1>7, <1>8, <1>9, <1>10 DEF IInv

LEMMA UploadFailsKeeps ==
  ASSUME IInv, NEW u \in uploads, UploadFails(u)
  PROVE  IInv'
  <1>1. /\ txn = None /\ uploads' = uploads \ {u}
        /\ UNCHANGED <<db, txn, io, keys, temp, stored, quarantined, truncated, pending, history>>
    BY DEF UploadFails, disk
  <1>2. TypeOK'
    BY <1>1 DEF IInv, TypeOK, history
  <1>3. KeyInv'
    BY <1>1, KeysStay DEF IInv, Known, Pair
  <1>4. IoInv' /\ TxnInv' /\ RefersInv'
    BY <1>1 DEF IInv, IoInv, TxnInv, RefersInv, Pair
  <1>5. UploadInv' /\ NoUploadOfRow' /\ FilesInv' /\ ReferencedIsPermanent'
    BY <1>1 DEF IInv, UploadInv, NoUploadOfRow, FilesInv, FileInv, PendingInv, HasRow, Files,
                Place, ReferencedIsPermanent, Refers, history
  <1>6. QED
    BY <1>2, <1>3, <1>4, <1>5 DEF IInv

LEMMA TrackKeeps ==
  ASSUME IInv, NEW u \in uploads, TrackUntetheredBlob(u)
  PROVE  IInv'
  <1> DEFINE k == u[1]
             c == u[2]
             d == [db EXCEPT !.row[c] = Tracked(@, k)]
             tasks == IF Refers(db, c) THEN {<<None, c>>} ELSE {}
  <1>1. /\ txn = None
        /\ txn' = [db |-> d, tasks |-> tasks, drop |-> {}, serves |-> u]
        /\ UNCHANGED <<db, io, keys, uploads, temp, stored, quarantined, truncated, pending,
                       history>>
    BY DEF TrackUntetheredBlob, disk
  <1>2. /\ u \in Uploaded /\ k \in Key /\ c \in Blob /\ u = <<k, c>> /\ u \notin Blob /\ u # None
        /\ db \in Db
    BY KeyTypes, NoneIsDistinct DEF IInv, TypeOK
  <1>3. Own = {} /\ Own' = {}
    BY <1>1, NothingOwn DEF Own
  <1>4. /\ \A x \in Blob \ {c} : d.row[x] = db.row[x]
        /\ d.row[c] = Tracked(db.row[c], k)
        /\ d.refs = db.refs
    BY <1>2 DEF Db
  <1>5. /\ d.row[c] = db.row[c] \/ d.row[c] = [temp |-> k, taken |-> FALSE]
        /\ HasRow(c) /\ db.row[c].temp = Permanent => d.row[c] = db.row[c]
        /\ d.row[c] \in Row \cup {None}
    <2>1. db.row[c] \in Row \cup {None}
      BY <1>2 DEF Db
    <2>2. [temp |-> k, taken |-> FALSE] \in Row
      BY <1>2, RowIsNotNone
    <2>3. QED
      BY <1>4, <2>1, <2>2 DEF Tracked, HasRow
  <1>6. d \in Db
    <2>1. d = [row |-> [db.row EXCEPT ![c] = Tracked(@, k)], refs |-> db.refs,
               records |-> db.records]
      BY <1>2 DEF Db
    <2>2. [db.row EXCEPT ![c] = Tracked(@, k)] \in [Blob -> Row \cup {None}]
      BY <1>2, <1>4, <1>5 DEF Db
    <2>3. QED
      BY <1>2, <2>1, <2>2 DEF Db
  <1> HIDE DEF d, k
  <1>7. txn' \in Txn /\ txn' # None
    BY <1>1, <1>2, <1>6, NoneIsDistinct DEF Txn
  <1>8. TypeOK'
    BY <1>1, <1>7 DEF IInv, TypeOK, history
  <1>9. KeyInv' /\ IoInv'
    BY <1>1, <1>3, KeysStay DEF IInv, Known, Pair, IoInv, Own
  <1>10. TxnInv'
    <2>1. SingleInv'
      BY <1>1, <1>2, <1>3 DEF SingleInv
    <2>2. \A x \in Blob : TxnRow(x)'
      <3>1. /\ txn'.db.row = d.row /\ db'.row = db.row /\ txn'.serves \in Uploaded
            /\ txn'.serves[1] = k /\ txn'.serves[2] = c
        BY <1>1, <1>2
      <3>2. QED
        BY <1>4, <1>5, <3>1 DEF TxnRow
    <2>3. txn'.drop = {} /\ txn'.serves \notin Blob
      BY <1>1, <1>2
    <2>4. QED
      BY <1>3, <2>1, <2>2, <2>3 DEF TxnInv
  <1>11. UploadInv' /\ FilesInv' /\ NoUploadOfRow'
    BY <1>1 DEF IInv, UploadInv, NoUploadOfRow, FilesInv, FileInv, PendingInv, HasRow, Files,
                Place, history
  <1>12. ReferencedIsPermanent' /\ RefersInv'
    <2>1. ReferencedIsPermanent'
      BY <1>1 DEF IInv, ReferencedIsPermanent, Refers, HasRow, history
    <2>2. ASSUME NEW x \in Blob \ imported, Refers(d, x)
          PROVE  d.row[x] # None /\ d.row[x].temp = Permanent
      <3>1. HasRow(x) /\ db.row[x].temp = Permanent
        BY <1>4, <2>2 DEF IInv, ReferencedIsPermanent, Refers
      <3>2. QED
        BY <1>4, <1>5, <3>1 DEF HasRow
    <2>3. txn'.db = d /\ imported' = imported
      BY <1>1 DEF history
    <2>4. QED
      BY <2>1, <2>2, <2>3 DEF RefersInv
  <1>13. QED
    BY <1>8, <1>9, <1>10, <1>11, <1>12 DEF IInv

-----------------------------------------------------------------------------
(* Record writes, imports and takedowns *)

LEMMA WriteTypes ==
  ASSUME NEW ws \in Writes, NEW d \in Db
  PROVE  /\ NewRefs(ws) \subseteq Record \X Blob /\ Records(d, ws) \subseteq Record
         /\ Dereferenced(d, ws) \subseteq Blob
  <1>1. PICK rs \in SUBSET Record : ws \in [rs -> SUBSET Blob \cup {Gone}]
    BY DEF Writes
  <1>2. Written(ws) \subseteq Record
    BY <1>1 DEF Written
  <1>3. d.refs \subseteq Record \X Blob /\ d.records \subseteq Record
    BY DEF Db
  <1>4. QED
    BY <1>2, <1>3 DEF NewRefs, Records, Dereferenced, OldRefs

LEMMA ProcessWriteBlobsKeeps ==
  ASSUME IInv, NEW ws \in Writes, ProcessWriteBlobs(ws)
  PROVE  IInv'
  <1> DEFINE drop == Dereferenced(db, ws)
             refs == (db.refs \ OldRefs(db, ws)) \cup NewRefs(ws)
             row == [c \in Blob |-> IF c \in drop THEN None ELSE db.row[c]]
             d == [row |-> row, refs |-> refs, records |-> Records(db, ws)]
  <1>1. /\ txn = None /\ begun < MaxTxn /\ begun' = begun + 1
        /\ txn' = [db |-> d, tasks |-> NewRefs(ws), drop |-> drop, serves |-> None]
        /\ UNCHANGED <<db, io, keys, uploads, temp, stored, quarantined, truncated, pending,
                       faults, raced,
                       torn, mistaken, imported>>
    BY DEF ProcessWriteBlobs, Begin, disk
  <1>2. db \in Db /\ None \notin Blob /\ None \notin Uploaded
    BY KeyTypes DEF IInv, TypeOK
  <1>3. Own = {} /\ Own' = {}
    BY <1>1, NothingOwn DEF Own
  <1>4. /\ NewRefs(ws) \subseteq Record \X Blob /\ Records(db, ws) \subseteq Record
        /\ drop \subseteq Blob
    BY <1>2, WriteTypes
  <1>5. \A c \in Blob : Refers(d, c) =>
           (\E t \in NewRefs(ws) : t[2] = c) \/ (Refers(db, c) /\ c \notin drop)
    BY <1>2 DEF Refers, Dereferenced, Db
  <1>6. row \in [Blob -> Row \cup {None}] /\ refs \subseteq Record \X Blob
    BY <1>2, <1>4 DEF Db
  <1> HIDE DEF drop, refs
  <1>7. d \in Db
    BY <1>4, <1>6 DEF Db
  <1>8. txn'.db.row = row /\ txn'.db = d /\ txn'.drop = drop /\ txn'.serves = None
        /\ txn'.tasks = NewRefs(ws)
    BY <1>1
  <1>9. txn' \in Txn /\ txn' # None
    <2>1. NewRefs(ws) \subseteq (Record \cup {None}) \X Blob
      BY <1>4
    <2>2. txn' \in Txn
      BY <1>1, <1>4, <1>7, <2>1 DEF Txn
    <2>3. QED
      BY <2>2, NoneIsDistinct
  <1>10. TypeOK'
    <2>1. begun' \in 0 .. MaxTxn
      BY <1>1, BlobsConstants DEF IInv, TypeOK
    <2>2. QED
      BY <1>1, <1>9, <2>1 DEF IInv, TypeOK
  <1>11. KeyInv' /\ IoInv'
    BY <1>1, <1>3, KeysStay DEF IInv, Known, Pair, IoInv, Own
  <1>12. TxnInv'
    <2>1. SingleInv'
      BY <1>2, <1>8 DEF SingleInv
    <2>2. \A c \in Blob : TxnRow(c)' /\ (c \in drop => row[c] = None)
      BY <1>1, <1>8 DEF TxnRow
    <2>3. QED
      BY <1>2, <1>3, <1>8, <2>1, <2>2 DEF TxnInv
  <1>13. UploadInv' /\ FilesInv' /\ NoUploadOfRow' /\ ReferencedIsPermanent'
    BY <1>1 DEF IInv, UploadInv, NoUploadOfRow, FilesInv, FileInv, PendingInv, HasRow, Files,
                Place, ReferencedIsPermanent, Refers
  <1>14. RefersInv'
    <2>1. ASSUME NEW c \in Blob \ imported, Refers(d, c)
          PROVE  (row[c] # None /\ row[c].temp = Permanent) \/ (\E t \in NewRefs(ws) : t[2] = c)
      BY <1>5, <2>1 DEF IInv, ReferencedIsPermanent, HasRow
    <2>2. imported' = imported
      BY <1>1
    <2>3. QED
      BY <1>8, <2>1, <2>2 DEF RefersInv
  <1>15. QED
    BY <1>10, <1>11, <1>12, <1>13, <1>14 DEF IInv

LEMMA ImportRepoKeeps ==
  ASSUME IInv, NEW ws \in Writes, ImportRepo(ws)
  PROVE  IInv'
  <1>1. /\ txn = None /\ begun < MaxTxn /\ begun' = begun + 1
        /\ db' = [db EXCEPT !.refs = @ \cup NewRefs(ws), !.records = Records(db, ws)]
        /\ imported' = imported \cup {ref[2] : ref \in NewRefs(ws)}
        /\ UNCHANGED <<txn, io, keys, uploads, temp, stored, quarantined, truncated, pending,
                       faults,
                       raced, torn, mistaken>>
    BY DEF ImportRepo, Begin, disk
  <1>2. db \in Db
    BY DEF IInv, TypeOK
  <1>3. NewRefs(ws) \subseteq Record \X Blob /\ Records(db, ws) \subseteq Record
    BY <1>2, WriteTypes
  <1>4. db'.row = db.row /\ db'.refs = db.refs \cup NewRefs(ws) /\ db' \in Db
    BY <1>1, <1>2, <1>3 DEF Db
  <1>5. TypeOK'
    <2>1. begun' \in 0 .. MaxTxn
      BY <1>1, BlobsConstants DEF IInv, TypeOK
    <2>2. imported' \subseteq Blob
      BY <1>1, <1>3 DEF IInv, TypeOK
    <2>3. QED
      BY <1>1, <1>4, <2>1, <2>2 DEF IInv, TypeOK
  <1>6. Known' = Known
    BY <1>1, <1>4 DEF Known, Pair
  <1>7. KeyInv' /\ IoInv' /\ TxnInv' /\ RefersInv'
    BY <1>1, <1>6, KeysStay DEF IInv, Pair, IoInv, TxnInv, RefersInv
  <1>8. UploadInv' /\ FilesInv' /\ NoUploadOfRow'
    BY <1>1, <1>4 DEF IInv, UploadInv, NoUploadOfRow, FilesInv, FileInv, PendingInv, HasRow,
                      Files, Place
  <1>9. ReferencedIsPermanent'
    BY <1>1, <1>4 DEF IInv, ReferencedIsPermanent, Refers, HasRow
  <1>10. QED
    BY <1>5, <1>7, <1>8, <1>9 DEF IInv

LEMMA TakedownKeeps ==
  ASSUME IInv, NEW c \in Blob, NEW applied \in BOOLEAN, UpdateBlobTakedownStatus(c, applied)
  PROVE  IInv'
  <1> DEFINE d == IF db.row[c] = None THEN db ELSE [db EXCEPT !.row[c].taken = applied]
             stage == IF applied THEN "quarantine" ELSE "unquarantine"
             z == [task |-> None, blob |-> c, key |-> Permanent, own |-> TRUE, stage |-> stage]
  <1>1. /\ txn = None /\ begun < MaxTxn /\ begun' = begun + 1
        /\ txn' = [db |-> d, tasks |-> {}, drop |-> {}, serves |-> c]
        /\ io' = io \cup {z}
        /\ UNCHANGED <<db, keys, uploads, temp, stored, quarantined, truncated, pending,
                       faults, raced,
                       torn, mistaken, imported>>
    BY DEF UpdateBlobTakedownStatus, Begin, disk
  <1>2. db \in Db /\ c # None /\ c \notin Uploaded
    BY NoneIsDistinct DEF IInv, TypeOK
  <1>3. /\ z \in Io /\ z.own /\ z.blob = c /\ z.stage = stage /\ stage \in Moving
        /\ stage \notin Copying
        /\ stage \notin Placed /\ (applied <=> stage = "quarantine")
    BY DEF Io, Moving, Copying, Placed
  <1>4. /\ d \in Db /\ d.refs = db.refs
        /\ \A x \in Blob \ {c} : d.row[x] = db.row[x]
        /\ db.row[c] = None => d.row[c] = None
        /\ db.row[c] # None => /\ d.row[c] # None /\ d.row[c].temp = db.row[c].temp
                               /\ d.row[c].taken = applied
    <2>1. CASE db.row[c] = None
      BY <1>2, <2>1
    <2>2. CASE db.row[c] # None
      <3> DEFINE r == [db.row[c] EXCEPT !.taken = applied]
      <3>1. /\ r = [temp |-> db.row[c].temp, taken |-> applied]
            /\ r \in Row /\ r # None
        <4>1. /\ db.row[c] = [temp |-> db.row[c].temp, taken |-> db.row[c].taken]
              /\ db.row[c].temp \in Key \cup {Permanent}
          BY <1>2, <2>2, RowTypes
        <4>2. r = [temp |-> db.row[c].temp, taken |-> applied]
          BY <4>1
        <4>3. QED
          BY <4>1, <4>2, RowIsNotNone
      <3> HIDE DEF r
      <3>2. d = [row |-> [db.row EXCEPT ![c] = r], refs |-> db.refs, records |-> db.records]
        BY <1>2, <2>2 DEF Db, r
      <3>3. [db.row EXCEPT ![c] = r] \in [Blob -> Row \cup {None}]
        BY <1>2, <3>1 DEF Db
      <3>4. d \in Db /\ d.row[c] = r /\ d.refs = db.refs
            /\ \A x \in Blob \ {c} : d.row[x] = db.row[x]
        BY <1>2, <3>2, <3>3 DEF Db
      <3>5. QED
        BY <2>2, <3>1, <3>4
    <2>3. QED
      BY <2>1, <2>2
  <1> HIDE DEF d, stage, z
  <1>5. Own = {} /\ Own' = {z}
    BY <1>1, <1>3, NothingOwn DEF Own
  <1>6. txn' \in Txn /\ txn' # None /\ txn'.db = d /\ txn'.serves = c /\ txn'.drop = {}
        /\ txn'.tasks = {}
    <2>1. txn' \in Txn
      BY <1>1, <1>4 DEF Txn
    <2>2. QED
      BY <1>1, <2>1, NoneIsDistinct
  <1>7. TypeOK'
    <2>1. begun' \in 0 .. MaxTxn
      BY <1>1, BlobsConstants DEF IInv, TypeOK
    <2>2. QED
      BY <1>1, <1>3, <1>6, <2>1 DEF IInv, TypeOK
  <1>8. Known' = Known
    BY <1>1, <1>3 DEF Known, Pair
  <1>9. KeyInv' /\ IoInv'
    BY <1>1, <1>3, <1>6, <1>8, KeysStay DEF IInv, Pair, IoInv
  <1>10. TxnInv'
    <2>1. SingleInv'
      BY <1>2, <1>5, <1>6 DEF SingleInv
    <2>2. \A x \in Blob : TxnRow(x)'
      BY <1>1, <1>4, <1>6 DEF TxnRow
    <2>3. \A x \in Own' : /\ x.stage \notin Copying /\ txn'.serves = x.blob
                          /\ d.row[x.blob] # None => (d.row[x.blob].taken <=> x.stage = "quarantine")
      BY <1>3, <1>4, <1>5, <1>6
    <2>4. QED
      BY <1>5, <1>6, <2>1, <2>2, <2>3 DEF TxnInv
  <1>11. UploadInv' /\ NoUploadOfRow' /\ ReferencedIsPermanent'
    BY <1>1 DEF IInv, UploadInv, NoUploadOfRow, HasRow, Files, ReferencedIsPermanent, Refers
  <1>12. FilesInv'
    BY <1>1, <1>3 DEF IInv, FilesInv, FileInv, PendingInv, HasRow, Files, Place
  <1>13. RefersInv'
    <2>1. ASSUME NEW x \in Blob \ imported, Refers(d, x)
          PROVE  d.row[x] # None /\ d.row[x].temp = Permanent
      <3>1. HasRow(x) /\ db.row[x].temp = Permanent
        BY <1>4, <2>1 DEF IInv, ReferencedIsPermanent, Refers
      <3>2. QED
        BY <1>4, <3>1 DEF HasRow
    <2>2. imported' = imported
      BY <1>1
    <2>3. QED
      BY <1>6, <2>1, <2>2 DEF RefersInv
  <1>14. QED
    BY <1>7, <1>9, <1>10, <1>11, <1>12, <1>13 DEF IInv

-----------------------------------------------------------------------------
(* The tasks of a transaction *)

\* The key of a temporary blob of the open transaction is known
LEMMA TxnRowKey ==
  ASSUME IInv, txn # None, NEW c \in Blob, txn.db.row[c] # None,
         txn.db.row[c].temp # Permanent
  PROVE  /\ <<txn.db.row[c].temp, c>> \in Known
         /\ <<txn.db.row[c].temp, c>> \in uploads => txn.serves = <<txn.db.row[c].temp, c>>
  <1> DEFINE k == txn.db.row[c].temp
  <1>1. TxnRow(c) /\ c \notin txn.drop /\ (txn.serves \in Uploaded => txn.serves \in uploads)
    BY DEF IInv, TxnInv, SingleInv
  <1>2. HasRow(c) => /\ <<db.row[c].temp, c>> \in Known
                     /\ <<db.row[c].temp, c>> \notin uploads
    BY DEF IInv, NoUploadOfRow, Known, HasRow
  <1>3. CASE txn.db.row[c] = db.row[c]
    BY <1>2, <1>3 DEF HasRow
  <1>4. CASE MadePermanent(c)
    BY <1>4 DEF MadePermanent
  <1>5. CASE /\ txn.serves \in Uploaded /\ txn.serves[2] = c
             /\ txn.db.row[c] = [temp |-> txn.serves[1], taken |-> FALSE]
    <2>1. txn.serves = <<k, c>>
      BY <1>5, KeyTypes
    <2>2. QED
      BY <1>1, <1>5, <2>1 DEF Known
  <1>6. CASE txn.serves = c /\ db.row[c] # None /\ txn.db.row[c].temp = db.row[c].temp
    BY <1>2, <1>6 DEF HasRow
  <1>7. QED
    BY <1>1, <1>3, <1>4, <1>5, <1>6 DEF TxnRow

LEMMA VerifyBlobKeeps ==
  ASSUME IInv, txn # None, NEW t \in txn.tasks, VerifyBlob(t)
  PROVE  IInv'
  <1> DEFINE c == t[2]
             k == txn.db.row[c].temp
             z == [task |-> t[1], blob |-> c, key |-> k, own |-> TRUE, stage |-> "check"]
  <1>1. /\ txn.db.row[c] # None /\ ~txn.db.row[c].taken
        /\ txn' = [txn EXCEPT !.tasks = @ \ {t}]
        /\ IF k = Permanent THEN io' = io ELSE io' = io \cup {z}
        /\ UNCHANGED <<db, keys, uploads, temp, stored, quarantined, truncated, pending, begun,
                       faults,
                       raced, torn, mistaken, imported>>
    BY DEF VerifyBlob, TakenDown, disk, history
  <1>2. /\ txn \in Txn /\ txn.db \in Db /\ t \in (Record \cup {None}) \X Blob /\ c \in Blob
        /\ txn.serves \in Uploaded \cup Blob \cup {None}
    BY TxnTypes DEF IInv, TypeOK
  <1>3. /\ txn' \in Txn /\ txn' # None /\ txn'.db = txn.db /\ txn'.tasks = txn.tasks \ {t}
        /\ txn'.drop = txn.drop /\ txn'.serves = txn.serves
    <2>1. txn' \in Txn /\ txn'.db = txn.db /\ txn'.tasks = txn.tasks \ {t}
          /\ txn'.drop = txn.drop /\ txn'.serves = txn.serves
      BY <1>1, <1>2 DEF Txn
    <2>2. QED
      BY <2>1, NoneIsDistinct
  <1>4. /\ z \in Io /\ z.own /\ z.blob = c /\ z.key = k /\ z.stage = "check"
        /\ z.stage \in Copying /\ z.stage \notin Moving \cup Placed /\ Pair(z) = <<k, c>>
    <2>1. k \in Key \cup {Permanent}
      BY <1>1, <1>2, RowTypes
    <2>2. QED
      BY <1>2, <2>1 DEF Io, Copying, Moving, Placed, Pair
  <1>5. txn.serves \notin Blob
    BY DEF IInv, TxnInv, SingleInv
  <1>6. k # Permanent => /\ Pair(z) \in Known
                         /\ Pair(z) \in uploads => txn.serves = Pair(z)
    BY <1>1, <1>2, <1>4, <1>5, TxnRowKey
  <1>7. io \subseteq io' /\ \A x \in io' : x \notin io => x = z /\ k # Permanent
    BY <1>1
  <1>8. Own \subseteq Own' /\ \A x \in Own' : x \in Own \/ (x = z /\ k # Permanent)
    BY <1>7 DEF Own
  <1>9. k = Permanent \/ z \in Own'
    BY <1>1, <1>4 DEF Own
  <1> HIDE DEF z, k
  <1>10. TypeOK'
    BY <1>1, <1>3, <1>4, <1>7 DEF IInv, TypeOK
  <1>11. KeyInv'
    <2>1. Known' \subseteq Known
      BY <1>1, <1>6, <1>7 DEF Known, Pair
    <2>2. QED
      BY <1>1, <2>1, KeysStay DEF IInv
  <1>12. IoInv'
    BY <1>1, <1>3, <1>4, <1>7 DEF IInv, IoInv, Pair
  <1>13. TxnInv'
    <2>1. ASSUME NEW x \in Own', x.stage \in Copying PROVE CopyInv(x)'
      <3>1. CASE x \in Own
        <4>1. CopyInv(x)
          BY <2>1, <3>1 DEF IInv, TxnInv
        <4>2. QED
          BY <1>1, <1>3, <4>1 DEF CopyInv, Pair
      <3>2. CASE x = z /\ k # Permanent
        <4>1. /\ Pair(x) = Pair(z) /\ txn.db.row[x.blob] # None /\ ~txn.db.row[x.blob].taken
              /\ txn.db.row[x.blob].temp = x.key /\ x.stage \notin Placed
          BY <1>1, <1>4, <3>2 DEF k
        <4>2. Pair(x) \in uploads => txn.serves = Pair(x)
          BY <1>6, <3>2
        <4>3. QED
          BY <1>1, <1>3, <1>5, <4>1, <4>2 DEF CopyInv, Pair
      <3>3. QED
        BY <1>8, <3>1, <3>2
    <2>2. ASSUME NEW x \in Own' PROVE x.stage \notin Moving
      BY <1>2, <1>4, <1>5, <1>8, IoTypes DEF IInv, TxnInv, Own
    <2>3. SingleInv'
      <3>1. txn.serves # None => txn.drop = {} /\ Own = {} /\ txn.tasks = {t}
        BY DEF IInv, TxnInv, SingleInv
      <3>2. txn.serves # None => Own' \subseteq {z} /\ txn'.tasks = {} /\ txn'.drop = {}
        BY <1>3, <1>8, <3>1
      <3>3. txn.serves \in Uploaded => txn.serves \in uploads
        BY DEF IInv, TxnInv, SingleInv
      <3>4. QED
        BY <1>1, <1>3, <1>5, <3>2, <3>3 DEF SingleInv
    <2>4. \A d \in Blob : TxnRow(d)' /\ (d \in txn'.drop => txn'.db.row[d] = None)
      BY <1>1, <1>3 DEF IInv, TxnInv, TxnRow, MadePermanent
    <2>5. txn'.serves \notin Blob
      BY <1>3, <1>5
    <2>6. QED
      BY <2>1, <2>2, <2>3, <2>4, <2>5 DEF TxnInv
  <1>14. UploadInv' /\ NoUploadOfRow' /\ ReferencedIsPermanent'
    BY <1>1 DEF IInv, UploadInv, NoUploadOfRow, HasRow, Files, ReferencedIsPermanent, Refers
  <1>15. FilesInv'
    BY <1>1, <1>4, <1>7 DEF IInv, FilesInv, FileInv, PendingInv, HasRow, Files, Place
  <1>16. RefersInv'
    <2>1. ASSUME NEW d \in Blob \ imported, Refers(txn.db, d)
          PROVE  \/ txn.db.row[d] # None /\ txn.db.row[d].temp = Permanent
                 \/ \E s \in txn'.tasks : s[2] = d
                 \/ \E x \in Own' : x.stage \in Copying /\ x.blob = d
      <3>1. CASE d = c
        BY <1>1, <1>4, <1>9, <3>1 DEF k
      <3>2. CASE d # c
        BY <1>3, <1>8, <2>1, <3>2 DEF IInv, RefersInv
      <3>3. QED
        BY <3>1, <3>2
    <2>2. QED
      BY <1>1, <1>3, <2>1 DEF RefersInv
  <1>17. QED
    BY <1>10, <1>11, <1>12, <1>13, <1>14, <1>15, <1>16 DEF IInv

\* A file operation goes on: files are added, races noted
LEMMA AdvanceKeeps ==
  ASSUME IInv, NEW x \in io, x.stage \in Copying, NEW s \in Copying, Advance(x, s),
         raced \subseteq raced', raced' \subseteq Blob,
         stored \subseteq stored', stored' \subseteq Blob,
         truncated' \subseteq Blob, mistaken' \subseteq Blob,
         UNCHANGED <<db, txn, keys, uploads, temp, quarantined, pending, begun, faults, torn,
                     imported>>,
         \/ s \notin Placed \/ x.stage \in Placed
         \/ x.blob \notin raced' => x.blob \in stored' /\ pending[x.blob] = 0
  PROVE  IInv'
  <1> DEFINE y == [x EXCEPT !.stage = s]
  <1>1. /\ y \in Io /\ y.stage = s /\ y.key = x.key /\ y.blob = x.blob /\ y.own = x.own
        /\ Pair(y) = Pair(x) /\ x.blob \in Blob /\ s \notin Moving
    <2>1. x \in Io /\ x.blob \in Blob /\ s \in Copying \cup Moving /\ s \notin Moving
      BY IoTypes DEF IInv, Copying, Moving
    <2>2. QED
      BY <2>1, Advances
  <1>2. io' = (io \ {x}) \cup {y}
    BY DEF Advance
  <1> HIDE DEF y
  <1>3. /\ Own' = IF x.own THEN (Own \ {x}) \cup {y} ELSE Own
        /\ x.own <=> x \in Own
    BY <1>1, <1>2 DEF Own
  <1>4. TypeOK'
    BY <1>1, <1>2 DEF IInv, TypeOK
  <1>5. KeyInv'
    <2>1. Known' \subseteq Known
      BY <1>1, <1>2 DEF Known, Pair
    <2>2. QED
      BY <2>1, KeysStay DEF IInv
  <1>6. IoInv'
    BY <1>1, <1>2 DEF IInv, IoInv, Pair
  <1>7. TxnInv'
    <2>1. SUFFICES ASSUME txn # None PROVE TxnInv'
      BY DEF TxnInv
    <2>2. ASSUME NEW z \in Own', z.stage \in Copying PROVE CopyInv(z)'
      <3>1. CASE z \in Own
        <4>1. CopyInv(z) /\ z.blob \in Blob
          BY <2>1, <2>2, <3>1, IoTypes DEF IInv, TxnInv, Own
        <4>2. QED
          BY <4>1 DEF CopyInv, Pair
      <3>2. CASE z = y /\ x.own
        <4>1. CopyInv(x)
          BY <1>3, <2>1, <3>2 DEF IInv, TxnInv
        <4>2. QED
          BY <1>1, <3>2, <4>1 DEF CopyInv, Pair
      <3>3. QED
        BY <1>3, <3>1, <3>2
    <2>3. \A z \in Own' : z.stage \in Moving => z \in Own
      BY <1>1, <1>3
    <2>4. SingleInv'
      BY <1>3, <2>1 DEF IInv, TxnInv, SingleInv
    <2>5. \A d \in Blob : TxnRow(d)' /\ (d \in txn.drop => txn.db.row[d] = None)
      BY <2>1 DEF IInv, TxnInv, TxnRow, MadePermanent
    <2>6. Own' = {} => Own = {}
      BY <1>3
    <2>7. \A d \in Blob \ raced' :
             (txn.serves = d /\ Own' = {} /\ txn.db.row[d] # None
                 /\ txn.db.row[d].temp = Permanent) => d \in Place(txn.db.row[d])'
      BY <2>1, <2>6 DEF IInv, TxnInv, Place
    <2>8. QED
      BY <2>1, <2>2, <2>3, <2>4, <2>5, <2>7 DEF IInv, TxnInv, Place
  <1>8. UploadInv' /\ NoUploadOfRow' /\ ReferencedIsPermanent'
    BY DEF IInv, UploadInv, NoUploadOfRow, HasRow, Files, ReferencedIsPermanent, Refers
  <1>9. FilesInv'
    <2>1. ASSUME NEW d \in Blob \ raced' PROVE FileInv(d)'
      <3>1. FileInv(d)
        BY <2>1 DEF IInv, FilesInv
      <3>2. \A z \in io' : z \in io \/ z = y
        BY <1>2
      <3>3. (y.blob = d /\ y.stage \in Placed /\ HasRow(d) /\ y.key = db.row[d].temp)
               => d \in Files'
        BY <1>1, <2>1, <3>1 DEF Files, FileInv
      <3>4. QED
        BY <3>1, <3>2, <3>3 DEF FileInv, HasRow, Files, Place
    <2>2. ASSUME NEW d \in Blob \ raced' PROVE PendingInv(d)'
      <3>1. PendingInv(d)
        BY <2>2 DEF IInv, FilesInv
      <3>2. \A z \in io' : z \in io \/ z = y
        BY <1>2
      <3>3. (y.blob = d /\ y.stage \in Placed /\ pending[d] > 0) =>
               ~y.own /\ (HasRow(d) => y.key # db.row[d].temp)
        <4>1. CASE x.stage \in Placed
          BY <1>1, <3>1, <4>1 DEF PendingInv
        <4>2. CASE x.stage \notin Placed
          BY <1>1, <2>2, <4>2
        <4>3. QED
          BY <4>1, <4>2
      <3>4. QED
        BY <3>1, <3>2, <3>3 DEF PendingInv, HasRow
    <2>3. QED
      BY <2>1, <2>2 DEF FilesInv
  <1>10. RefersInv'
    BY <1>1, <1>3 DEF IInv, RefersInv, Own
  <1>11. QED
    BY <1>4, <1>5, <1>6, <1>7, <1>8, <1>9, <1>10 DEF IInv

LEMMA HasStoredKeeps ==
  ASSUME IInv, NEW x \in io, HasStored(x)
  PROVE  IInv'
  <1> DEFINE s == IF x.blob \in stored THEN "remove" ELSE "read"
  <1>1. /\ x.stage \in Copying /\ s \in Copying /\ Advance(x, s)
        /\ x.blob \in Blob /\ pending[x.blob] \in Nat
        /\ s \in Placed => x.blob \in stored
        /\ raced' = IF pending[x.blob] > 0 THEN raced \cup {x.blob} ELSE raced
        /\ mistaken' \subseteq mistaken \cup {x.blob}
        /\ UNCHANGED <<db, txn, keys, uploads, temp, stored, quarantined, truncated, pending,
                       begun, faults, torn, imported>>
    BY IoTypes DEF HasStored, Copying, Placed, Race, disk, IInv, TypeOK
  <1>2. s \in Placed => (x.blob \notin raced' => x.blob \in stored' /\ pending[x.blob] = 0)
    BY <1>1
  <1>3. raced \subseteq raced' /\ raced' \subseteq Blob /\ stored' \subseteq Blob
        /\ truncated' \subseteq Blob /\ mistaken' \subseteq Blob
    BY <1>1 DEF IInv, TypeOK
  <1> HIDE DEF s
  <1>4. QED
    BY <1>1, <1>2, <1>3, AdvanceKeeps

LEMMA ReadTempKeeps ==
  ASSUME IInv, NEW x \in io, ReadTemp(x)
  PROVE  IInv'
  <1>1. /\ x.stage \in Copying /\ "write" \in Copying \ Placed /\ Advance(x, "write")
        /\ UNCHANGED <<db, txn, keys, uploads, temp, stored, quarantined, truncated, pending,
                       begun, faults, raced, torn, mistaken, imported>>
    BY DEF ReadTemp, Copying, Placed, disk, history
  <1>2. raced \subseteq Blob /\ stored \subseteq Blob /\ truncated \subseteq Blob
        /\ mistaken \subseteq Blob
    BY DEF IInv, TypeOK
  <1>3. QED
    BY <1>1, <1>2, AdvanceKeeps

LEMMA OpenStoredKeeps ==
  ASSUME IInv, NEW x \in io, OpenStored(x)
  PROVE  IInv'
  <1>1. /\ x.stage \in Copying /\ "fill" \in Copying /\ Advance(x, "fill")
        /\ x.blob \in Blob /\ pending[x.blob] \in Nat
        /\ stored' = stored \cup {x.blob} /\ truncated' \subseteq truncated
        /\ raced' = IF pending[x.blob] > 0 THEN raced \cup {x.blob} ELSE raced
        /\ mistaken' \subseteq mistaken \cup {x.blob}
        /\ UNCHANGED <<db, txn, keys, uploads, temp, quarantined, pending, begun, faults,
                       torn, imported>>
    BY IoTypes DEF OpenStored, Copying, Race, IInv, TypeOK
  <1>2. raced \subseteq raced' /\ raced' \subseteq Blob /\ stored' \subseteq Blob
        /\ truncated' \subseteq Blob /\ mistaken' \subseteq Blob
    BY <1>1 DEF IInv, TypeOK
  <1>3. x.blob \notin raced' => x.blob \in stored' /\ pending[x.blob] = 0
    BY <1>1
  <1>4. QED
    BY <1>1, <1>2, <1>3, AdvanceKeeps

LEMMA WriteStoredKeeps ==
  ASSUME IInv, NEW x \in io, WriteStored(x)
  PROVE  IInv'
  <1>1. /\ x.stage \in Copying \cap Placed /\ "remove" \in Copying /\ Advance(x, "remove")
        /\ UNCHANGED <<db, txn, keys, uploads, temp, stored, quarantined, truncated, pending,
                       begun, faults, raced, torn, mistaken, imported>>
    BY DEF WriteStored, Copying, Placed, disk, history
  <1>2. raced \subseteq Blob /\ stored \subseteq Blob /\ truncated \subseteq Blob
        /\ mistaken \subseteq Blob
    BY DEF IInv, TypeOK
  <1>3. QED
    BY <1>1, <1>2, AdvanceKeeps

\* An operation that no transaction waits for ends
LEMMA StrayFailsKeeps ==
  ASSUME IInv, NEW x \in io, ReadFails(x) \/ WriteFails(x)
  PROVE  IInv'
  <1>1. /\ ~x.own /\ io' = io \ {x} /\ x.blob \in Blob
        /\ truncated' \subseteq truncated \cup {x.blob}
        /\ UNCHANGED <<db, txn, keys, uploads, temp, stored, quarantined, pending,
                       begun, faults, raced, torn, mistaken, imported>>
    BY IoTypes DEF ReadFails, WriteFails, Truncate, disk, history, IInv
  <1>2. Own' = Own
    BY <1>1 DEF Own
  <1>3. TypeOK' /\ IoInv'
    BY <1>1 DEF IInv, TypeOK, IoInv, Pair
  <1>4. KeyInv'
    BY <1>1, KeysStay DEF IInv, Known, Pair
  <1>5. TxnInv' /\ RefersInv'
    BY <1>1, <1>2 DEF IInv, TxnInv, CopyInv, SingleInv, TxnRow, MadePermanent, Place, Pair,
                      RefersInv
  <1>6. UploadInv' /\ NoUploadOfRow' /\ ReferencedIsPermanent' /\ FilesInv'
    BY <1>1 DEF IInv, UploadInv, NoUploadOfRow, HasRow, Files, ReferencedIsPermanent, Refers,
                FilesInv, FileInv, PendingInv, Place
  <1>7. QED
    BY <1>3, <1>4, <1>5, <1>6 DEF IInv

\* The update that ends the task of an open transaction
LEMMA RemoveTempClears ==
  ASSUME IInv, NEW x \in io, RemoveTemp(x), x.own
  PROVE  LET d == Cleared(txn.db, x.key)
             p == [temp |-> Permanent, taken |-> FALSE]
         IN  /\ txn # None /\ CopyInv(x)
             /\ \A b \in Blob : d.row[b] = IF b = x.blob THEN p ELSE txn.db.row[b]
             /\ d.refs = txn.db.refs
             /\ txn' \in Txn /\ txn' # None /\ txn'.db = d /\ txn'.tasks = txn.tasks
             /\ txn'.drop = txn.drop /\ txn'.serves = txn.serves
             /\ p \in Row /\ p # None /\ p.temp = Permanent /\ p.taken = FALSE
  <1> DEFINE c == x.blob
             k == x.key
             d == Cleared(txn.db, k)
             p == [temp |-> Permanent, taken |-> FALSE]
  <1>1. x.stage \in Placed /\ x.stage \in Copying /\ x \in Own
    BY DEF RemoveTemp, Copying, Placed, Own
  <1>2. c \in Blob /\ k \in Key /\ Pair(x) = <<k, c>> /\ Pair(x) \in Known
    BY <1>1, IoTypes, KeyTypes DEF IInv, IoInv, Pair, Known
  <1>3. txn # None /\ CopyInv(x)
    BY <1>1 DEF IInv, IoInv, TxnInv, Own
  <1>4. txn' = [txn EXCEPT !.db = d]
    BY DEF RemoveTemp
  <1>5. txn \in Txn /\ txn.db \in Db
    BY <1>3, TxnTypes DEF IInv, TypeOK
  <1>6. p \in Row /\ p # None
    BY RowIsNotNone
  <1>7. /\ txn.serves \notin Blob /\ txn.db.row[c] # None
        /\ txn.db.row[c].temp \in {k, Permanent} /\ ~txn.db.row[c].taken
        /\ c \notin raced => c \in stored /\ pending[c] = 0
        /\ Pair(x) \in uploads => txn.serves = Pair(x)
    BY <1>1, <1>3 DEF CopyInv
  <1>8. txn.db.row[c] = [temp |-> txn.db.row[c].temp, taken |-> FALSE]
    <2>1. /\ txn.db.row[c] = [temp |-> txn.db.row[c].temp, taken |-> txn.db.row[c].taken]
          /\ txn.db.row[c].taken \in BOOLEAN
      BY <1>2, <1>5, <1>7, RowTypes
    <2>2. txn.db.row[c].taken = FALSE
      BY <1>7, <2>1
    <2>3. QED
      BY <2>1, <2>2
  <1>9. ASSUME NEW b \in Blob \ {c}, txn.db.row[b] # None PROVE txn.db.row[b].temp # k
    <2>1. SUFFICES ASSUME txn.db.row[b].temp = k PROVE FALSE
      OBVIOUS
    <2>2. k # Permanent
      BY <1>2, KeyTypes
    <2>3. <<k, b>> \in Known
      BY <1>3, <1>9, <2>1, <2>2, TxnRowKey
    <2>4. <<k, b>> = <<k, c>>
      BY <1>2, <2>2, <2>3 DEF IInv, KeyInv
    <2>5. QED
      BY <1>9, <2>4
  <1>10. d.row = [txn.db.row EXCEPT ![c] = p] /\ d.refs = txn.db.refs
        /\ d.records = txn.db.records
    <2>1. [txn.db.row[c] EXCEPT !.temp = Permanent] = p
      <3>1. PICK r : r = txn.db.row[c]
        OBVIOUS
      <3>2. PICK v, b : r = [temp |-> v, taken |-> b] /\ b = FALSE
        BY <1>8, <3>1
      <3>3. [r EXCEPT !.temp = Permanent] = [temp |-> Permanent, taken |-> b]
        BY <3>2
      <3>4. QED
        BY <3>1, <3>2, <3>3
    <2>2. txn.db.row[c].temp = Permanent => txn.db.row[c] = p
      BY <1>8
    <2>3. \A b \in Blob : d.row[b] = IF b = c THEN p ELSE txn.db.row[b]
      BY <1>5, <1>7, <1>9, <2>1, <2>2 DEF Cleared, Db
    <2>4. d.row \in [Blob -> Row \cup {None}] /\ d.refs = txn.db.refs
          /\ d.records = txn.db.records
      <3>1. d.refs = txn.db.refs /\ d.records = txn.db.records
        BY <1>5 DEF Cleared, Db
      <3>2. d.row = [b \in Blob |-> d.row[b]]
        BY <1>5 DEF Cleared, Db
      <3> HIDE DEF d, p
      <3>3. \A b \in Blob : d.row[b] \in Row \cup {None}
        BY <1>5, <1>6, <2>3 DEF Db
      <3>4. QED
        BY <3>1, <3>2, <3>3
    <2> HIDE DEF d, p
    <2>5. QED
      BY <1>2, <1>5, <2>3, <2>4 DEF Db
  <1>11. d \in Db
    <2>1. d = [row |-> d.row, refs |-> d.refs, records |-> d.records]
      BY <1>5 DEF Cleared, Db
    <2> HIDE DEF d, p
    <2>2. d.row \in [Blob -> Row \cup {None}]
      BY <1>5, <1>6, <1>10 DEF Db
    <2>3. QED
      BY <1>5, <1>10, <2>1, <2>2 DEF Db
  <1>12. \A b \in Blob : d.row[b] = IF b = c THEN p ELSE txn.db.row[b]
    BY <1>5, <1>10 DEF Db
  <1> HIDE DEF d
  <1>13. /\ txn' \in Txn /\ txn' # None /\ txn'.db = d /\ txn'.tasks = txn.tasks
         /\ txn'.drop = txn.drop /\ txn'.serves = txn.serves
    <2>1. txn' \in Txn /\ txn'.db = d /\ txn'.tasks = txn.tasks
          /\ txn'.drop = txn.drop /\ txn'.serves = txn.serves
      BY <1>4, <1>5, <1>11 DEF Txn
    <2>2. QED
      BY <2>1, NoneIsDistinct
  <1>14. p.temp = Permanent /\ p.taken = FALSE
    OBVIOUS
  <1>15. QED
    BY <1>3, <1>6, <1>10, <1>12, <1>13, <1>14 DEF d

LEMMA RemoveTempKeeps ==
  ASSUME IInv, NEW x \in io, RemoveTemp(x)
  PROVE  IInv'
  <1> DEFINE c == x.blob
             k == x.key
  <1>1. /\ x.stage \in Placed /\ x.stage \in Copying /\ io' = io \ {x}
        /\ temp' = temp \ {Pair(x)}
        /\ UNCHANGED <<db, keys, uploads, stored, quarantined, truncated, pending, begun,
                       faults, raced,
                       torn, mistaken, imported>>
    BY DEF RemoveTemp, Copying, Placed, Pair, history
  <1>2. c \in Blob /\ k \in Key /\ Pair(x) = <<k, c>> /\ x.own \in BOOLEAN /\ Pair(x) \in Known
    BY <1>1, IoTypes, KeyTypes DEF IInv, IoInv, Pair, Known
  <1>3. Own' = Own \ {x} /\ (x.own <=> x \in Own)
    BY <1>1 DEF Own
  <1>4. TypeOK' /\ NoUploadOfRow' /\ ReferencedIsPermanent' /\ KeyInv' /\ IoInv'
          /\ UploadInv' /\ FilesInv' /\ TxnInv' /\ RefersInv'
    <2>1. /\ NoUploadOfRow' /\ ReferencedIsPermanent'
      BY <1>1 DEF IInv, NoUploadOfRow, HasRow, ReferencedIsPermanent, Refers
    <2>2. KeyInv'
      BY <1>1, KeysStay DEF IInv, Known, Pair
    <2>3. FilesInv'
      <3>1. ASSUME NEW d \in Blob \ raced, HasRow(d), <<db.row[d].temp, d>> = Pair(x)
            PROVE  d \in Files /\ ~(pending[d] > 0)
        <4>1. d = c /\ db.row[d].temp = k
          BY <1>2, <3>1
        <4>2. FileInv(d) /\ PendingInv(d)
          BY <3>1 DEF IInv, FilesInv
        <4>3. QED
          BY <1>1, <3>1, <4>1, <4>2 DEF FileInv, PendingInv
      <3>2. ASSUME NEW d \in Blob \ raced PROVE FileInv(d)'
        <4>1. FileInv(d) /\ (HasRow(d) => <<db.row[d].temp, d>> # Pair(x) \/ d \in Files)
          BY <3>1, <3>2 DEF IInv, FilesInv
        <4>2. \A y \in io' : y \in io
          BY <1>1
        <4>3. QED
          BY <1>1, <4>1, <4>2 DEF FileInv, HasRow, Files, Place
      <3>3. ASSUME NEW d \in Blob \ raced PROVE PendingInv(d)'
        <4>1. /\ PendingInv(d)
              /\ HasRow(d) => <<db.row[d].temp, d>> # Pair(x) \/ ~(pending[d] > 0)
          BY <3>1, <3>3 DEF IInv, FilesInv
        <4>2. QED
          BY <1>1, <4>1 DEF PendingInv, HasRow
      <3>4. QED
        BY <1>1, <3>2, <3>3 DEF FilesInv
    <2>4. CASE ~x.own
      <3>1. txn' = txn /\ Own' = Own
        BY <1>3, <2>4 DEF RemoveTemp
      <3>2. Pair(x) \notin uploads
        BY <2>4 DEF IInv, IoInv
      <3>3. TypeOK' /\ IoInv'
        BY <1>1, <3>1 DEF IInv, TypeOK, IoInv, Pair
      <3>4. UploadInv'
        BY <1>1, <3>2 DEF IInv, UploadInv, Files
      <3>5. TxnInv' /\ RefersInv'
        BY <1>1, <3>1 DEF IInv, TxnInv, CopyInv, SingleInv, TxnRow, MadePermanent, Place, Pair,
                          RefersInv
      <3>6. QED
        BY <2>1, <2>2, <2>3, <3>3, <3>4, <3>5
    <2>5. CASE x.own
      <3> DEFINE d == Cleared(txn.db, k)
                 p == [temp |-> Permanent, taken |-> FALSE]
      <3>1. /\ txn # None /\ CopyInv(x)
            /\ txn' \in Txn /\ txn' # None /\ txn'.db = d /\ txn'.tasks = txn.tasks
            /\ txn'.drop = txn.drop /\ txn'.serves = txn.serves
        BY <2>5, RemoveTempClears
      <3>2. /\ \A b \in Blob : d.row[b] = IF b = c THEN p ELSE txn.db.row[b]
            /\ d.refs = txn.db.refs
        BY <2>5, RemoveTempClears
      <3>3. p \in Row /\ p # None /\ p.temp = Permanent /\ p.taken = FALSE
        BY RowIsNotNone
      <3> HIDE DEF d
      <3>4. /\ txn.serves \notin Blob /\ txn.db.row[c] # None
            /\ txn.db.row[c].temp \in {k, Permanent} /\ ~txn.db.row[c].taken
            /\ c \notin raced => c \in stored /\ pending[c] = 0
            /\ Pair(x) \in uploads => txn.serves = Pair(x)
        BY <1>1, <3>1 DEF CopyInv
      <3>5. TypeOK' /\ IoInv'
        BY <1>1, <3>1 DEF IInv, TypeOK, IoInv, Pair
      <3>6. UploadInv'
        <4>1. Pair(x)[2] = c
          BY <1>2
        <4>2. ASSUME NEW u \in uploads, u \notin temp', u[2] \notin raced
              PROVE  u[2] \in Files /\ pending[u[2]] = 0
          <5>1. CASE u = Pair(x)
            BY <3>4, <4>1, <4>2, <5>1 DEF Files
          <5>2. CASE u # Pair(x)
            BY <1>1, <4>2, <5>2 DEF IInv, UploadInv
          <5>3. QED
            BY <5>1, <5>2
        <4>3. QED
          BY <1>1, <4>2 DEF UploadInv, Files
      <3>7. TxnInv'
        <4>1. ASSUME NEW y \in Own', y.stage \in Copying PROVE CopyInv(y)'
          <5>1. CopyInv(y) /\ y.blob \in Blob
            BY <1>3, <3>1, <4>1, IoTypes DEF IInv, TxnInv, Own
          <5>2. txn'.db.row[y.blob] = IF y.blob = c THEN p ELSE txn.db.row[y.blob]
            BY <3>1, <3>2, <5>1
          <5> HIDE DEF p
          <5>3. QED
            BY <1>1, <3>1, <3>3, <3>4, <5>1, <5>2 DEF CopyInv, Pair
        <4>2. ASSUME NEW y \in Own' PROVE y.stage \notin Moving
          BY <1>3, <3>1, <3>4, IoTypes DEF IInv, TxnInv, Own
        <4>3. SingleInv'
          BY <1>1, <1>3, <3>1 DEF IInv, TxnInv, SingleInv
        <4>4. ASSUME NEW b \in Blob
              PROVE TxnRow(b)' /\ (b \in txn'.drop => txn'.db.row[b] = None)
          <5>1. TxnRow(b) /\ (b \in txn.drop => txn.db.row[b] = None)
            BY <3>1 DEF IInv, TxnInv
          <5>2. CASE b = c
            <6>1. MadePermanent(c)'
              BY <1>1, <1>2, <3>1, <3>2, <3>4 DEF MadePermanent
            <6>2. QED
              BY <3>1, <3>4, <5>1, <5>2, <6>1 DEF TxnRow
          <5>3. CASE b # c
            <6>1. txn'.db.row[b] = txn.db.row[b]
              BY <3>1, <3>2, <5>3
            <6>2. QED
              BY <1>1, <3>1, <5>1, <6>1 DEF TxnRow, MadePermanent
          <5>4. QED
            BY <5>2, <5>3
        <4>5. QED
          BY <3>1, <3>4, <4>1, <4>2, <4>3, <4>4 DEF TxnInv
      <3>8. RefersInv'
        <4>1. ASSUME NEW b \in Blob \ imported, Refers(txn.db, b)
              PROVE  \/ d.row[b] # None /\ d.row[b].temp = Permanent
                     \/ \E s \in txn.tasks : s[2] = b
                     \/ \E y \in Own' : y.stage \in Copying /\ y.blob = b
          <5>1. CASE b = c
            BY <3>2, <3>3, <5>1
          <5>2. CASE b # c
            <6>1. d.row[b] = txn.db.row[b]
              BY <3>2, <5>2
            <6>2. QED
              BY <1>3, <3>1, <4>1, <5>2, <6>1 DEF IInv, RefersInv
          <5>3. QED
            BY <5>1, <5>2
        <4>2. \A b \in Blob : Refers(d, b) => Refers(txn.db, b)
          BY <3>2 DEF Refers
        <4>3. QED
          BY <1>1, <3>1, <4>1, <4>2 DEF RefersInv
      <3>9. QED
        BY <2>1, <2>2, <2>3, <3>5, <3>6, <3>7, <3>8
    <2>6. QED
      BY <1>2, <2>4, <2>5
  <1>5. QED
    BY <1>4 DEF IInv

\* A takedown moves its file
LEMMA MoveKeeps ==
  ASSUME IInv, NEW x \in io, x.stage \in Moving, io' = io \ {x},
         UNCHANGED <<db, txn, keys, uploads, temp, truncated, pending, begun, faults, raced,
                     mistaken, imported>>,
         stored' \subseteq Blob, quarantined' \subseteq Blob, torn' \subseteq Blob,
         Files' = Files, torn \subseteq torn',
         \A d \in Blob \ {x.blob} : (d \in stored' <=> d \in stored)
                                      /\ (d \in quarantined' <=> d \in quarantined),
         x.blob \in torn' \/ ((x.blob \in stored => x.blob \in stored')
                                /\ (x.blob \in quarantined => x.blob \in quarantined')),
         x.blob \in Files => x.blob \in (IF x.stage = "quarantine" THEN quarantined' ELSE stored')
  PROVE  IInv'
  <1> DEFINE c == x.blob
  <1>1. x \in Own /\ txn # None /\ txn.serves = c /\ c \in Blob /\ c # None /\ c \notin Uploaded
    BY IoTypes, NoneIsDistinct DEF IInv, IoInv, TxnInv, Own
  <1>2. /\ Own = {x} /\ Own' = {} /\ txn.tasks = {} /\ txn.drop = {}
        /\ txn.db.row[c] # None => (txn.db.row[c].taken <=> x.stage = "quarantine")
    <2>1. \A y \in Own : y = x
      BY <1>1 DEF IInv, TxnInv, SingleInv
    <2>2. QED
      BY <1>1, <2>1 DEF IInv, TxnInv, SingleInv, Own
  <1>3. TypeOK' /\ IoInv'
    BY DEF IInv, TypeOK, IoInv, Pair
  <1>4. KeyInv'
    BY KeysStay DEF IInv, Known, Pair
  <1>5. UploadInv' /\ NoUploadOfRow' /\ ReferencedIsPermanent'
    BY DEF IInv, UploadInv, NoUploadOfRow, HasRow, ReferencedIsPermanent, Refers
  <1>6. FilesInv'
    <2>1. ASSUME NEW d \in Blob \ raced PROVE FileInv(d)'
      <3>1. FileInv(d)
        BY <2>1 DEF IInv, FilesInv
      <3>2. d \in torn' \/ ((d \in stored => d \in stored')
                                /\ (d \in quarantined => d \in quarantined'))
        BY <2>1
      <3>3. QED
        BY <3>1, <3>2 DEF FileInv, HasRow, Place
    <2>2. ASSUME NEW d \in Blob \ raced PROVE PendingInv(d)'
      BY <2>2 DEF IInv, FilesInv, PendingInv, HasRow
    <2>3. QED
      BY <2>1, <2>2 DEF FilesInv
  <1>7. TxnInv'
    <2>1. SingleInv'
      BY <1>1, <1>2 DEF IInv, TxnInv, SingleInv
    <2>2. \A d \in Blob : TxnRow(d)' /\ (d \in txn.drop => txn.db.row[d] = None)
      BY <1>1, <1>2 DEF IInv, TxnInv, TxnRow, MadePermanent
    <2>3. ASSUME c \notin raced, txn.db.row[c] # None, txn.db.row[c].temp = Permanent
          PROVE  c \in Place(txn.db.row[c])'
      <3>1. HasRow(c) /\ db.row[c].temp = Permanent
        BY <1>1, <1>2, <2>3 DEF IInv, TxnInv, TxnRow, MadePermanent, HasRow
      <3>2. c \in Files
        BY <1>1, <2>3, <3>1 DEF IInv, FilesInv, FileInv
      <3>3. QED
        BY <1>2, <2>3, <3>2 DEF Place
    <2>4. QED
      BY <1>1, <1>2, <2>1, <2>2, <2>3 DEF TxnInv, Place
  <1>8. RefersInv'
    BY <1>2 DEF IInv, RefersInv, Moving, Copying
  <1>9. QED
    BY <1>3, <1>4, <1>5, <1>6, <1>7, <1>8 DEF IInv

LEMMA QuarantineKeeps ==
  ASSUME IInv, NEW x \in io, Quarantine(x) \/ Unquarantine(x)
  PROVE  IInv'
  <1>1. /\ x.stage \in Moving /\ io' = io \ {x} /\ x.blob \in Blob
        /\ UNCHANGED <<db, txn, keys, uploads, temp, truncated, pending, begun, faults, raced,
                       mistaken, imported>>
    BY IoTypes DEF Quarantine, Unquarantine, Moving, IInv
  <1>2. stored \subseteq Blob /\ quarantined \subseteq Blob /\ torn \subseteq Blob
    BY DEF IInv, TypeOK
  <1>3. CASE Quarantine(x)
    <2>1. /\ x.stage = "quarantine" /\ stored' = stored \ {x.blob}
          /\ quarantined' = quarantined \cup (stored \cap {x.blob})
          /\ torn' = torn \cup (stored \cap {x.blob})
      BY <1>3 DEF Quarantine
    <2>2. Files' = Files
      BY <2>1 DEF Files
    <2>3. stored' \subseteq Blob /\ quarantined' \subseteq Blob /\ torn' \subseteq Blob
      BY <1>2, <2>1
    <2>4. x.blob \in Files => x.blob \in quarantined'
      BY <2>1 DEF Files
    <2>5. QED
      BY <1>1, <2>1, <2>2, <2>3, <2>4, MoveKeeps
  <1>4. CASE Unquarantine(x)
    <2>1. /\ x.stage = "unquarantine" /\ quarantined' = quarantined \ {x.blob}
          /\ stored' = stored \cup (quarantined \cap {x.blob})
          /\ torn' = torn \cup (quarantined \cap {x.blob})
      BY <1>4 DEF Unquarantine
    <2>2. Files' = Files
      BY <2>1 DEF Files
    <2>3. stored' \subseteq Blob /\ quarantined' \subseteq Blob /\ torn' \subseteq Blob
      BY <1>2, <2>1
    <2>4. x.blob \in Files => x.blob \in stored'
      BY <2>1 DEF Files
    <2>5. QED
      BY <1>1, <2>1, <2>2, <2>3, <2>4, MoveKeeps
  <1>5. QED
    BY <1>3, <1>4

-----------------------------------------------------------------------------
(* The end of a transaction *)

LEMMA CommitKeeps ==
  ASSUME IInv, Commit
  PROVE  IInv'
  <1>1. /\ txn # None /\ txn.tasks = {} /\ Own = {}
        /\ db' = txn.db /\ txn' = None /\ uploads' = uploads \ {txn.serves}
        /\ pending' = [c \in Blob |-> pending[c] + (IF c \in txn.drop THEN 1 ELSE 0)]
        /\ torn' = torn \ {txn.serves}
        /\ raced' = raced \cup {c \in txn.drop : \E u \in uploads \ temp : u[2] = c}
        /\ UNCHANGED <<io, keys, temp, stored, quarantined, truncated, begun, faults,
                       mistaken, imported>>
    BY DEF Commit, disk
  <1>2. txn.db \in Db /\ txn.drop \subseteq Blob
    BY <1>1, TxnTypes DEF IInv
  <1>3. TypeOK'
    BY <1>1, <1>2 DEF IInv, TypeOK
  <1>4. KeyInv'
    <2>1. ASSUME NEW c \in Blob, txn.db.row[c] # None
          PROVE  <<txn.db.row[c].temp, c>> \in Known \/ txn.db.row[c].temp = Permanent
      BY <1>1, <2>1, TxnRowKey
    <2>2. \A a \in Known' : a \in Known \/ a[1] = Permanent
      BY <1>1, <2>1 DEF Known, Pair
    <2>3. QED
      BY <1>1, <2>2, KeysStay DEF IInv
  <1>5. IoInv' /\ TxnInv' /\ RefersInv'
    BY <1>1 DEF IInv, IoInv, TxnInv, RefersInv, Own, Pair
  <1>6. UploadInv'
    <2>1. ASSUME NEW u \in uploads', u \notin temp, u[2] \notin raced'
          PROVE  u[2] \in Files /\ pending'[u[2]] = 0
      <3>1. u \in uploads /\ u[2] \in Blob /\ u[2] \notin txn.drop /\ u[2] \notin raced
        BY <1>1, <2>1, KeyTypes DEF IInv, TypeOK
      <3>2. u[2] \in Files /\ pending[u[2]] = 0
        BY <2>1, <3>1 DEF IInv, UploadInv
      <3>3. QED
        BY <1>1, <3>1, <3>2
    <2>2. QED
      BY <1>1, <2>1 DEF UploadInv, Files
  <1>7. NoUploadOfRow'
    <2>1. ASSUME NEW c \in Blob, txn.db.row[c] # None
          PROVE  <<txn.db.row[c].temp, c>> \notin uploads \ {txn.serves}
      <3>1. CASE txn.db.row[c].temp = Permanent
        <4>1. <<Permanent, c>> \notin Uploaded
          BY KeyTypes
        <4>2. QED
          BY <3>1, <4>1 DEF IInv, TypeOK
      <3>2. CASE txn.db.row[c].temp # Permanent
        BY <1>1, <2>1, <3>2, TxnRowKey
      <3>3. QED
        BY <3>1, <3>2
    <2>2. QED
      BY <1>1, <2>1 DEF NoUploadOfRow, HasRow
  <1>8. FilesInv'
    <2>1. SUFFICES ASSUME NEW c \in Blob \ raced', c \notin raced
                   PROVE  FileInv(c)' /\ PendingInv(c)'
      BY <1>1 DEF FilesInv
    <2> DEFINE row == txn.db.row[c]
    <2>2. FileInv(c) /\ PendingInv(c) /\ TxnRow(c) /\ (c \in txn.drop => row = None)
      BY <1>1, <2>1 DEF IInv, FilesInv, TxnInv
    <2>3. /\ (txn.serves = c /\ row # None /\ row.temp = Permanent) => c \in Place(row)
          /\ txn.serves # c => (c \in torn' <=> c \in torn)
      BY <1>1, <2>1 DEF IInv, TxnInv
    <2>4. /\ \A x \in io : ~x.own /\ (x.stage \in Copying => x.key # Permanent)
          /\ \A x \in io : Pair(x) \notin uploads
      BY <1>1 DEF IInv, IoInv, Own
    <2>5. /\ (pending[c] \in Nat /\ c \in txn.drop) \/ pending'[c] = pending[c]
          /\ row # None => <<row.temp, c>> \notin uploads'
      BY <1>1, <1>7, <2>1 DEF IInv, TypeOK, NoUploadOfRow, HasRow
    <2>6. row # None => row.temp \in Key \cup {Permanent}
      BY <1>2, <2>1, RowTypes
    <2> HIDE DEF row
    <2>7. CASE c \in txn.drop
      BY <1>1, <2>2, <2>4, <2>7 DEF FileInv, PendingInv, HasRow, row
    <2>8. CASE c \notin txn.drop /\ row # None
      <3>1. CASE row = db.row[c] \/ (txn.serves = c /\ db.row[c] # None /\ row.temp = db.row[c].temp)
        <4>1. HasRow(c) /\ row.temp = db.row[c].temp /\ (txn.serves # c => row = db.row[c])
          BY <2>8, <3>1 DEF HasRow
        <4>2. row.temp = Permanent => c \in Files /\ (c \in torn' \/ c \in Place(row))
          BY <2>2, <2>3, <2>8, <4>1 DEF FileInv
        <4>3. row.temp # Permanent => <<row.temp, c>> \in temp \/ c \in Files
          BY <2>2, <4>1 DEF FileInv
        <4>4. \A x \in io : (x.blob = c /\ x.stage \in Placed /\ x.key = row.temp) => c \in Files
          BY <2>2, <4>1 DEF FileInv
        <4>5. FileInv(c)'
          BY <1>1, <2>5, <2>8, <4>2, <4>3, <4>4 DEF FileInv, HasRow, Files, Place, row
        <4>6. PendingInv(c)'
          BY <1>1, <2>2, <2>5, <2>8, <4>1 DEF PendingInv, HasRow, row
        <4>7. QED
          BY <4>5, <4>6
      <3>2. CASE MadePermanent(c)
        <4>1. row.temp = Permanent /\ ~row.taken /\ c \in stored /\ pending[c] = 0
          BY <2>1, <3>2 DEF MadePermanent, row
        <4>2. FileInv(c)'
          BY <1>1, <2>5, <4>1 DEF FileInv, HasRow, Files, Place, row
        <4>3. PendingInv(c)'
          BY <2>5, <2>8, <4>1 DEF PendingInv
        <4>4. QED
          BY <4>2, <4>3
      <3>3. CASE /\ txn.serves \in Uploaded /\ txn.serves[2] = c
                 /\ row = [temp |-> txn.serves[1], taken |-> FALSE]
        <4>1. txn.serves \in uploads /\ txn.serves = <<row.temp, c>> /\ row.temp # Permanent
              /\ txn.serves[2] = c
          BY <1>1, <3>3, KeyTypes DEF IInv, TxnInv, SingleInv
        <4>2. <<row.temp, c>> \in temp \/ (c \in Files /\ pending[c] = 0)
          BY <2>1, <4>1 DEF IInv, UploadInv
        <4>3. \A x \in io : ~(x.blob = c /\ x.key = row.temp)
          BY <2>4, <4>1 DEF Pair
        <4>4. FileInv(c)'
          BY <1>1, <2>5, <2>8, <4>1, <4>2, <4>3 DEF FileInv, HasRow, Files, Place, row
        <4>5. PendingInv(c)'
          BY <1>1, <2>4, <2>5, <2>8, <4>1, <4>2, <4>3 DEF PendingInv, HasRow, row
        <4>6. QED
          BY <4>4, <4>5
      <3>4. QED
        BY <2>2, <2>8, <3>1, <3>2, <3>3 DEF TxnRow, row
    <2>9. CASE c \notin txn.drop /\ row = None
      <3>1. ~HasRow(c)'
        BY <1>1, <2>9 DEF HasRow, row
      <3>2. QED
        BY <1>1, <2>4, <3>1 DEF FileInv, PendingInv
    <2>10. QED
      BY <2>7, <2>8, <2>9
  <1>9. ReferencedIsPermanent'
    <2>1. \A c \in Blob \ imported :
             Refers(txn.db, c) => txn.db.row[c] # None /\ txn.db.row[c].temp = Permanent
      BY <1>1 DEF IInv, RefersInv
    <2>2. QED
      BY <1>1, <2>1 DEF ReferencedIsPermanent, Refers, HasRow
  <1>10. QED
    BY <1>3, <1>4, <1>5, <1>6, <1>7, <1>8, <1>9 DEF IInv

LEMMA AbortKeeps ==
  ASSUME IInv, Abort
  PROVE  IInv'
  <1>1. /\ txn # None /\ txn' = None /\ uploads' \subseteq uploads
        /\ UNCHANGED <<db, keys, temp, stored, quarantined, pending, begun, faults, raced, torn,
                       mistaken, imported>>
    BY DEF Abort, history
  <1>2. PICK failed \in Failed : /\ io' = (io \ Own) \cup Stray(Own \ failed)
                                /\ Truncate(failed)
    BY DEF Abort
  <1>3. ASSUME NEW x \in Own \ failed
        PROVE  x.stage \in Copying /\ Pair(x) \notin uploads
    <2>1. SUFFICES ASSUME txn.serves # None PROVE FALSE
      <3>1. x \in io /\ x.stage \in Copying \cup Moving /\ x.blob \in Blob
        BY IoTypes DEF Own, IInv
      <3>2. x.stage \in Moving => txn.serves = x.blob
        BY <1>1 DEF IInv, TxnInv
      <3>3. x.stage \in Copying /\ Pair(x) \in uploads => txn.serves \in Uploaded
        BY <1>1 DEF IInv, TxnInv, CopyInv, TypeOK
      <3>4. QED
        BY <3>1, <3>2, <3>3, KeyTypes
    <2>2. Own = {x}
      BY <1>1, <1>3, <2>1 DEF IInv, TxnInv, SingleInv
    <2>3. failed = {x}
      BY <2>1, <2>2 DEF Failed
    <2>4. QED
      BY <1>3, <2>3
  <1>4. ASSUME NEW y \in io'
        PROVE  /\ y \in Io /\ ~y.own /\ y.stage \in Copying /\ Pair(y) \notin uploads
               /\ \E x \in io : /\ y.stage = x.stage /\ y.key = x.key /\ y.blob = x.blob
                                /\ Pair(y) = Pair(x)
    <2>1. CASE y \in io \ Own
      <3>1. y.own \in BOOLEAN /\ y.stage \in Copying \cup Moving /\ y \in Io
        BY <2>1, IoTypes DEF IInv
      <3>2. QED
        BY <2>1, <3>1 DEF Own, IInv, IoInv
    <2>2. CASE y \in Stray(Own \ failed)
      <3>1. PICK x \in Own \ failed : y = [x EXCEPT !.own = FALSE]
        BY <2>2 DEF Stray
      <3>2. x \in io /\ x \in Io
        BY IoTypes DEF Own, IInv
      <3>3. /\ y \in Io /\ y.stage = x.stage /\ y.key = x.key /\ y.blob = x.blob /\ ~y.own
            /\ Pair(y) = Pair(x)
        BY <3>1, <3>2, Strays
      <3>4. QED
        BY <1>3, <3>2, <3>3
    <2>3. QED
      BY <1>2, <2>1, <2>2
  <1>5. TypeOK'
    <2>1. truncated' \subseteq Blob
      <3>1. failed \subseteq Own /\ Own \subseteq io
        BY DEF Failed, Own
      <3>2. QED
        BY <1>2, <3>1, IoTypes DEF Truncate, IInv, TypeOK
    <2>2. QED
      BY <1>1, <1>4, <2>1 DEF IInv, TypeOK
  <1>6. KeyInv'
    <2>1. Known' \subseteq Known
      BY <1>1, <1>4 DEF Known, Pair
    <2>2. QED
      BY <1>1, <2>1, KeysStay DEF IInv
  <1>7. IoInv'
    <2>1. SUFFICES ASSUME NEW y \in io'
                   PROVE  /\ ~y.own /\ y.stage \notin Moving /\ y.key # Permanent
                          /\ Pair(y) \notin uploads'
      BY DEF IoInv, Pair
    <2>2. PICK x \in io : y.stage = x.stage /\ y.key = x.key
      BY <1>4
    <2>3. y.stage \in Copying /\ ~y.own /\ Pair(y) \notin uploads
      BY <1>4
    <2>4. x.key # Permanent
      BY <2>2, <2>3 DEF IInv, IoInv
    <2>5. QED
      BY <1>1, <2>2, <2>3, <2>4 DEF Copying, Moving
  <1>8. TxnInv' /\ RefersInv'
    BY <1>1 DEF TxnInv, RefersInv
  <1>9. UploadInv' /\ NoUploadOfRow' /\ ReferencedIsPermanent'
    BY <1>1 DEF IInv, UploadInv, NoUploadOfRow, HasRow, Files, ReferencedIsPermanent, Refers
  <1>10. FilesInv'
    <2>1. ASSUME NEW c \in Blob \ raced PROVE FileInv(c)' /\ PendingInv(c)'
      <3>1. FileInv(c) /\ PendingInv(c)
        BY <2>1 DEF IInv, FilesInv
      <3>2. \A y \in io' : /\ ~y.own
                           /\ \E x \in io : /\ y.stage = x.stage /\ y.key = x.key
                                            /\ y.blob = x.blob
        BY <1>4
      <3>3. FileInv(c)'
        BY <1>1, <3>1, <3>2 DEF FileInv, HasRow, Files, Place
      <3>4. PendingInv(c)'
        BY <1>1, <3>1, <3>2 DEF PendingInv, HasRow
      <3>5. QED
        BY <3>3, <3>4
    <2>2. QED
      BY <1>1, <2>1 DEF FilesInv
  <1>11. QED
    BY <1>5, <1>6, <1>7, <1>8, <1>9, <1>10 DEF IInv

-----------------------------------------------------------------------------
(* The background queue and the process *)

LEMMA DeleteKeeps ==
  ASSUME IInv, NEW c \in Blob, DeleteFile(c) \/ DeleteFails(c)
  PROVE  IInv'
  <1>1. /\ pending[c] > 0 /\ pending' = [pending EXCEPT ![c] = @ - 1]
        /\ stored' = stored \/ stored' = stored \ {c}
        /\ faults' \in 0 .. MaxFaults
        /\ UNCHANGED <<db, txn, io, keys, uploads, temp, quarantined, truncated, begun, raced,
                       torn, mistaken, imported>>
    BY BlobsConstants DEF DeleteFile, DeleteFails, Done, disk, history, IInv, TypeOK
  <1>2. pending \in [Blob -> Nat] /\ pending' \in [Blob -> Nat]
    BY <1>1 DEF IInv, TypeOK
  <1>3. \A d \in Blob : /\ pending'[d] > 0 => pending[d] > 0
                        /\ pending[d] = 0 => d # c /\ pending'[d] = 0
                        /\ d # c => (d \in stored' <=> d \in stored)
    BY <1>1, <1>2
  <1>4. TypeOK'
    BY <1>1, <1>2 DEF IInv, TypeOK
  <1>5. KeyInv' /\ IoInv' /\ NoUploadOfRow' /\ ReferencedIsPermanent' /\ RefersInv'
    BY <1>1, KeysStay DEF IInv, Known, Pair, IoInv, NoUploadOfRow, HasRow, ReferencedIsPermanent,
                          Refers, RefersInv, Own
  <1>6. c \notin raced =>
           (HasRow(c) => db.row[c].temp # Permanent /\ <<db.row[c].temp, c>> \in temp)
    BY <1>1 DEF IInv, FilesInv, PendingInv
  <1>7. UploadInv'
    <2>1. \A u \in uploads : u[2] \in Blob
      BY KeyTypes DEF IInv, TypeOK
    <2>2. QED
      BY <1>1, <1>3, <2>1 DEF IInv, UploadInv, Files
  <1>8. FilesInv'
    <2>1. ASSUME NEW d \in Blob \ raced PROVE FileInv(d)' /\ PendingInv(d)'
      <3>1. FileInv(d) /\ PendingInv(d)
        BY <2>1 DEF IInv, FilesInv
      <3>2. PendingInv(d)'
        BY <1>1, <1>3, <3>1 DEF PendingInv, HasRow
      <3>3. ASSUME d = c PROVE FileInv(d)'
        BY <1>1, <3>1, <3>3 DEF FileInv, PendingInv, HasRow
      <3>4. ASSUME d # c PROVE FileInv(d)'
        <4>1. d \in stored' <=> d \in stored
          BY <1>3, <2>1, <3>4
        <4>2. QED
          BY <1>1, <3>1, <4>1 DEF FileInv, HasRow, Files, Place
      <3>5. QED
        BY <3>2, <3>3, <3>4
    <2>2. QED
      BY <1>1, <2>1 DEF FilesInv
  <1>9. TxnInv'
    <2>1. SUFFICES ASSUME txn # None PROVE TxnInv'
      BY <1>1 DEF TxnInv
    <2>2. Own' = Own
      BY <1>1 DEF Own
    <2>3. ASSUME NEW x \in Own, x.stage \in Copying PROVE CopyInv(x)'
      <3>1. CopyInv(x) /\ x.blob \in Blob
        BY <2>1, <2>3, IoTypes DEF IInv, TxnInv, Own
      <3>2. QED
        BY <1>1, <1>3, <3>1 DEF CopyInv, Pair
    <2>4. SingleInv'
      BY <1>1, <2>1, <2>2 DEF IInv, TxnInv, SingleInv
    <2>5. \A d \in Blob : TxnRow(d)'
      BY <1>1, <1>3, <2>1 DEF IInv, TxnInv, TxnRow, MadePermanent
    <2>6. ASSUME NEW d \in Blob \ raced, txn.serves = d, Own = {}, txn.db.row[d] # None,
                 txn.db.row[d].temp = Permanent
          PROVE  d \in Place(txn.db.row[d])'
      <3>1. d \in Place(txn.db.row[d]) /\ TxnRow(d) /\ d \notin txn.drop /\ d \notin Uploaded
        BY <2>1, <2>6, NoneIsDistinct DEF IInv, TxnInv
      <3>2. HasRow(d) /\ db.row[d].temp = Permanent
        BY <2>6, <3>1 DEF TxnRow, MadePermanent, HasRow
      <3>3. d # c
        BY <1>6, <2>6, <3>2
      <3>4. QED
        BY <1>1, <1>3, <3>1, <3>3 DEF Place
    <2>7. QED
      BY <1>1, <2>1, <2>2, <2>3, <2>4, <2>5, <2>6 DEF IInv, TxnInv, Place
  <1>10. QED
    BY <1>4, <1>5, <1>7, <1>8, <1>9 DEF IInv

LEMMA CrashKeeps ==
  ASSUME IInv, Crash
  PROVE  IInv'
  <1>1. /\ faults < MaxFaults /\ faults' = faults + 1
        /\ txn' = None /\ io' = {} /\ uploads' = {} /\ pending' = [c \in Blob |-> 0]
        /\ UNCHANGED <<db, keys, temp, stored, quarantined, begun, raced, torn, mistaken,
                       imported>>
    BY DEF Crash
  <1>2. TypeOK'
    <2>1. faults' \in 0 .. MaxFaults
      BY <1>1, BlobsConstants DEF IInv, TypeOK
    <2>2. truncated' \subseteq Blob
      BY IoTypes DEF Crash, Truncate, IInv, TypeOK
    <2>3. QED
      BY <1>1, <2>1, <2>2 DEF IInv, TypeOK
  <1>3. KeyInv'
    BY <1>1, KeysStay DEF IInv, Known
  <1>4. IoInv' /\ TxnInv' /\ UploadInv' /\ RefersInv'
    BY <1>1 DEF IoInv, TxnInv, UploadInv, RefersInv
  <1>5. FilesInv'
    <2>1. \A c \in Blob : ~(pending'[c] > 0)
      BY <1>1
    <2>2. QED
      BY <1>1, <2>1 DEF IInv, FilesInv, FileInv, PendingInv, HasRow, Files, Place
  <1>6. NoUploadOfRow' /\ ReferencedIsPermanent'
    BY <1>1 DEF IInv, NoUploadOfRow, ReferencedIsPermanent, Refers, HasRow
  <1>7. QED
    BY <1>2, <1>3, <1>4, <1>5, <1>6 DEF IInv

-----------------------------------------------------------------------------

LEMMA Initially ==
  Init => IInv
  <1> SUFFICES ASSUME Init PROVE IInv
    OBVIOUS
  <1>1. /\ db.refs = {} /\ \A c \in Blob : db.row[c] = None
        /\ txn = None /\ io = {} /\ uploads = {} /\ \A c \in Blob : pending[c] = 0
    BY DEF Init
  <1>2. TypeOK
    <2>1. db \in Db
      BY DEF Init, Db
    <2>2. /\ keys \in 0 .. MaxKey /\ begun \in 0 .. MaxTxn /\ faults \in 0 .. MaxFaults
          /\ pending \in [Blob -> Nat]
      BY BlobsConstants DEF Init
    <2>3. QED
      BY <2>1, <2>2 DEF Init, TypeOK
  <1>3. KeyInv /\ IoInv /\ TxnInv /\ UploadInv /\ FilesInv /\ NoUploadOfRow /\ RefersInv
    BY <1>1 DEF KeyInv, Known, IoInv, TxnInv, UploadInv, FilesInv, FileInv, PendingInv,
                NoUploadOfRow, RefersInv, HasRow
  <1>4. ReferencedIsPermanent
    BY <1>1 DEF ReferencedIsPermanent, Refers
  <1>5. QED
    BY <1>2, <1>3, <1>4 DEF IInv

LEMMA Keeps ==
  IInv /\ [Next]_vars => IInv'
  <1> SUFFICES ASSUME IInv, [Next]_vars PROVE IInv'
    OBVIOUS
  <1>1. ASSUME NEW c \in Blob, PutTemp(c) \/ DeleteFile(c) \/ DeleteFails(c) PROVE IInv'
    BY <1>1, PutTempKeeps, DeleteKeeps
  <1>2. ASSUME NEW u \in uploads, TrackUntetheredBlob(u) \/ UploadFails(u) PROVE IInv'
    BY <1>2, TrackKeeps, UploadFailsKeeps
  <1>3. ASSUME NEW ws \in Writes, ProcessWriteBlobs(ws) \/ ImportRepo(ws) PROVE IInv'
    BY <1>3, ProcessWriteBlobsKeeps, ImportRepoKeeps
  <1>4. ASSUME NEW c \in Blob, NEW applied \in BOOLEAN, UpdateBlobTakedownStatus(c, applied)
        PROVE  IInv'
    BY <1>4, TakedownKeeps
  <1>5. ASSUME txn # None, NEW t \in txn.tasks, VerifyBlob(t) PROVE IInv'
    BY <1>5, VerifyBlobKeeps
  <1>6. ASSUME NEW x \in io,
               \/ HasStored(x) \/ ReadTemp(x) \/ ReadFails(x) \/ OpenStored(x)
               \/ WriteStored(x) \/ WriteFails(x) \/ RemoveTemp(x)
               \/ Quarantine(x) \/ Unquarantine(x)
        PROVE  IInv'
    BY <1>6, HasStoredKeeps, ReadTempKeeps, OpenStoredKeeps, WriteStoredKeeps, StrayFailsKeeps,
       RemoveTempKeeps, QuarantineKeeps
  <1>7. ASSUME Commit \/ Abort \/ Crash PROVE IInv'
    BY <1>7, CommitKeeps, AbortKeeps, CrashKeeps
  <1>8. ASSUME UNCHANGED vars PROVE IInv'
    <2>1. UNCHANGED <<db, txn, io, keys, uploads, temp, stored, quarantined, truncated,
                      pending, begun,
                      faults, raced, torn, mistaken, imported>>
      BY <1>8 DEF vars, disk, history
    <2>2. TypeOK' /\ KeyInv' /\ IoInv' /\ UploadInv' /\ NoUploadOfRow' /\ ReferencedIsPermanent'
      BY <2>1, KeysStay DEF IInv, TypeOK, Known, Pair, IoInv, UploadInv, Files, NoUploadOfRow,
                            HasRow, ReferencedIsPermanent, Refers
    <2>3. TxnInv' /\ RefersInv'
      BY <2>1 DEF IInv, TxnInv, CopyInv, SingleInv, TxnRow, MadePermanent, Place, Pair, Own,
                  RefersInv
    <2>4. FilesInv'
      BY <2>1 DEF IInv, FilesInv, FileInv, PendingInv, HasRow, Files, Place
    <2>5. QED
      BY <2>2, <2>3, <2>4 DEF IInv
  <1>9. QED
    BY <1>1, <1>2, <1>3, <1>4, <1>5, <1>6, <1>7, <1>8 DEF Next

-----------------------------------------------------------------------------
(* What the files hold *)

\* No write begins
LEMMA OneWriterStays ==
  ASSUME OneWriter, mistaken \subseteq mistaken', truncated' \subseteq truncated,
         \A y \in io' : y.stage = "fill" => y \in io
  PROVE  OneWriter'
  BY DEF OneWriter

LEMMA SameCuts ==
  ASSUME mistaken \subseteq mistaken', truncated' \subseteq truncated,
         \A y \in io' : y.stage = "fill" => y \in io
  PROVE  \A c \in Blob : Cut(c)' => Cut(c)
  BY DEF Cut, Filling

\* A step that cuts no further file, and leaves the rows alone
LEMMA CutStays ==
  ASSUME WholeInv, raced \subseteq raced', db'.row = db.row, txn' = txn \/ txn' = None,
         temp \subseteq temp', \A u \in uploads' : u \in uploads \/ u \in temp',
         \A c \in Blob : Cut(c)' => Cut(c),
         \A y \in io' : (y.stage = "remove" /\ Cut(y.blob)') =>
             \E x \in io : /\ x.blob = y.blob /\ x.key = y.key /\ (y.own => x.own)
                           /\ x.stage = "remove"
  PROVE  \A c \in Blob \ raced' : CutInv(c)'
  <1>1. SUFFICES ASSUME NEW c \in Blob \ raced', Cut(c)' PROVE CutInv(c)'
    BY DEF CutInv
  <1>2. c \in Blob \ raced /\ Cut(c) /\ CutInv(c)
    BY <1>1 DEF WholeInv
  <1>3. HasRow(c)' <=> HasRow(c)
    BY DEF HasRow
  <1>4. ASSUME NEW y \in io', y.blob = c, y.stage = "remove"
        PROVE  ~y.own /\ (HasRow(c) => y.key # db.row[c].temp)
    <2>1. PICK x \in io : /\ x.blob = y.blob /\ x.key = y.key /\ (y.own => x.own)
                          /\ x.stage = "remove"
      BY <1>1, <1>4
    <2>2. QED
      BY <1>2, <1>4, <2>1 DEF CutInv
  <1>5. QED
    BY <1>2, <1>3, <1>4 DEF CutInv

\* Uploads, imports and the background queue touch no file operation
LEMMA OthersKeepWhole ==
  ASSUME WholeInv, UNCHANGED <<txn, io, raced, mistaken, truncated>>, db'.row = db.row,
         temp \subseteq temp', \A u \in uploads' : u \in uploads \/ u \in temp'
  PROVE  WholeInv'
  <1>1. OneWriter' /\ \A c \in Blob : Cut(c)' => Cut(c)
    BY OneWriterStays, SameCuts DEF WholeInv
  <1>2. \A c \in Blob \ raced' : CutInv(c)'
    BY <1>1, CutStays
  <1>3. QED
    BY <1>1, <1>2 DEF WholeInv

\* A transaction begins: what it calls permanent is permanent already
LEMMA BeginKeepsWhole ==
  ASSUME WholeInv, UNCHANGED <<db, uploads, temp, raced, mistaken, truncated>>,
         \A c \in Blob : (txn'.db.row[c] # None /\ txn'.db.row[c].temp = Permanent) =>
                             HasRow(c) /\ db.row[c].temp = Permanent,
         \A y \in io' : y \in io \/ y.stage \in Moving
  PROVE  WholeInv'
  <1>1. \A y \in io' : y.stage \in {"fill", "remove"} => y \in io
    BY DEF Moving
  <1>2. OneWriter' /\ \A c \in Blob : Cut(c)' => Cut(c)
    BY <1>1, OneWriterStays, SameCuts DEF WholeInv
  <1>3. ASSUME NEW c \in Blob \ raced, Cut(c)' PROVE CutInv(c)'
    <2>1. Cut(c) /\ CutInv(c)
      BY <1>2, <1>3 DEF WholeInv
    <2>2. QED
      BY <1>1, <2>1 DEF CutInv, HasRow
  <1>4. QED
    BY <1>2, <1>3 DEF WholeInv, CutInv

LEMMA TrackKeepsWhole ==
  ASSUME IInv, WholeInv, NEW u \in uploads, TrackUntetheredBlob(u)
  PROVE  WholeInv'
  <1> DEFINE d == [db EXCEPT !.row[u[2]] = Tracked(@, u[1])]
  <1>1. db \in Db /\ u[1] \in Key /\ u[2] \in Blob /\ Permanent \notin Key
    BY KeyTypes DEF IInv, TypeOK
  <1>2. /\ \A c \in Blob \ {u[2]} : d.row[c] = db.row[c]
        /\ d.row[u[2]] = Tracked(db.row[u[2]], u[1])
    BY <1>1 DEF Db
  <1>3. \A c \in Blob : (d.row[c] # None /\ d.row[c].temp = Permanent) =>
                            HasRow(c) /\ db.row[c].temp = Permanent
    BY <1>1, <1>2 DEF Tracked, HasRow
  <1>4. txn'.db = d
    BY DEF TrackUntetheredBlob
  <1> HIDE DEF d
  <1>5. QED
    BY <1>3, <1>4, BeginKeepsWhole DEF TrackUntetheredBlob, disk, history

LEMMA WriteKeepsWhole ==
  ASSUME IInv, WholeInv, NEW ws \in Writes, ProcessWriteBlobs(ws)
  PROVE  WholeInv'
  <1>1. \A c \in Blob : txn'.db.row[c] = IF c \in Dereferenced(db, ws) THEN None ELSE db.row[c]
    BY DEF ProcessWriteBlobs
  <1>2. \A c \in Blob : (txn'.db.row[c] # None /\ txn'.db.row[c].temp = Permanent) =>
                            HasRow(c) /\ db.row[c].temp = Permanent
    BY <1>1 DEF HasRow
  <1>3. QED
    BY <1>2, BeginKeepsWhole DEF ProcessWriteBlobs, disk

LEMMA TakedownKeepsWhole ==
  ASSUME IInv, WholeInv, NEW c \in Blob, NEW applied \in BOOLEAN,
         UpdateBlobTakedownStatus(c, applied)
  PROVE  WholeInv'
  <1>1. db \in Db
    BY DEF IInv, TypeOK
  <1>2. \A b \in Blob : (txn'.db.row[b] # None /\ txn'.db.row[b].temp = Permanent) =>
                            HasRow(b) /\ db.row[b].temp = Permanent
    <2>1. txn'.db = IF db.row[c] = None THEN db ELSE [db EXCEPT !.row[c].taken = applied]
      BY DEF UpdateBlobTakedownStatus
    <2>2. CASE db.row[c] = None
      BY <2>1, <2>2 DEF HasRow
    <2>3. CASE db.row[c] # None
      <3> DEFINE r == [db.row[c] EXCEPT !.taken = applied]
      <3>1. r.temp = db.row[c].temp
        <4>1. db.row[c] = [temp |-> db.row[c].temp, taken |-> db.row[c].taken]
          BY <1>1, <2>3, RowTypes
        <4>2. QED
          BY <4>1
      <3>2. txn'.db.row = [db.row EXCEPT ![c] = r]
        BY <1>1, <2>1, <2>3 DEF Db
      <3> HIDE DEF r
      <3>3. \A b \in Blob : txn'.db.row[b] = IF b = c THEN r ELSE db.row[b]
        BY <1>1, <3>2 DEF Db
      <3>4. QED
        BY <2>3, <3>1, <3>3 DEF HasRow
    <2>4. QED
      BY <2>2, <2>3
  <1>3. \A y \in io' : y \in io \/ y.stage \in Moving
    BY DEF UpdateBlobTakedownStatus, Moving
  <1>4. QED
    BY <1>2, <1>3, BeginKeepsWhole DEF UpdateBlobTakedownStatus, disk

LEMMA VerifyKeepsWhole ==
  ASSUME IInv, WholeInv, txn # None, NEW t \in txn.tasks, VerifyBlob(t)
  PROVE  WholeInv'
  <1>1. txn'.db = txn.db
    BY TxnTypes DEF VerifyBlob, IInv, TypeOK, Txn
  <1>2. UNCHANGED <<db, uploads, temp, raced, mistaken, truncated>>
    BY DEF VerifyBlob, disk, history
  <1>3. \A y \in io' : y.stage \in {"fill", "remove"} => y \in io
    BY DEF VerifyBlob
  <1>4. OneWriter' /\ \A c \in Blob : Cut(c)' => Cut(c)
    BY <1>2, <1>3, OneWriterStays, SameCuts DEF WholeInv
  <1>5. ASSUME NEW c \in Blob \ raced, Cut(c)' PROVE CutInv(c)'
    <2>1. Cut(c) /\ CutInv(c)
      BY <1>4, <1>5 DEF WholeInv
    <2>2. QED
      BY <1>1, <1>2, <1>3, <2>1 DEF CutInv, HasRow
  <1>6. QED
    BY <1>2, <1>4, <1>5 DEF WholeInv, CutInv

\* A file operation in its next stage
LEMMA Advanced ==
  ASSUME IInv, NEW x \in io, NEW s \in Copying, Advance(x, s)
  PROVE  LET y == [x EXCEPT !.stage = s]
         IN  /\ io' = (io \ {x}) \cup {y}
             /\ y.stage = s /\ y.blob = x.blob /\ y.key = x.key /\ y.own = x.own
             /\ x.blob \in Blob
  BY Advances, IoTypes DEF IInv, Advance

LEMMA HasStoredKeepsWhole ==
  ASSUME IInv, WholeInv, NEW x \in io, HasStored(x)
  PROVE  WholeInv'
  <1> DEFINE s == IF x.blob \in stored THEN "remove" ELSE "read"
             y == [x EXCEPT !.stage = s]
  <1>1. s \in Copying /\ Advance(x, s)
    BY DEF HasStored, Copying
  <1>2. /\ io' = (io \ {x}) \cup {y} /\ x.blob \in Blob
        /\ y.stage = s /\ y.blob = x.blob /\ y.key = x.key /\ y.own = x.own
    BY <1>1, Advanced
  <1>3. /\ UNCHANGED <<db, txn, uploads, temp, truncated>> /\ raced \subseteq raced'
        /\ mistaken' = IF x.blob \in stored /\ (x.blob \in truncated \/ Filling(x.blob))
                       THEN mistaken \cup {x.blob} ELSE mistaken
    BY DEF HasStored, Race, disk
  <1>4. \A z \in io' : z.stage = "fill" => z \in io
    <2>1. s # "fill"
      OBVIOUS
    <2> HIDE DEF s, y
    <2>2. QED
      BY <1>2, <2>1
  <1>5. OneWriter' /\ \A c \in Blob : Cut(c)' => Cut(c)
    BY <1>3, <1>4, OneWriterStays, SameCuts DEF WholeInv
  <1>6. s = "remove" => ~Cut(x.blob)'
    <2>1. Filling(x.blob)' => Filling(x.blob)
      BY <1>4 DEF Filling
    <2>2. QED
      BY <1>2, <1>3, <2>1 DEF Cut
  <1> HIDE DEF s, y
  <1>7. \A c \in Blob \ raced' : CutInv(c)'
    <2>1. \A z \in io' : (z.stage = "remove" /\ Cut(z.blob)') => z \in io
      BY <1>2, <1>6
    <2>2. QED
      BY <1>3, <1>5, <2>1, CutStays
  <1>8. QED
    BY <1>5, <1>7 DEF WholeInv

LEMMA ReadTempKeepsWhole ==
  ASSUME IInv, WholeInv, NEW x \in io, ReadTemp(x)
  PROVE  WholeInv'
  <1>1. "write" \in Copying /\ Advance(x, "write")
    BY DEF ReadTemp, Copying
  <1>2. \A z \in io' : z.stage \in {"fill", "remove"} => z \in io
    <2> DEFINE y == [x EXCEPT !.stage = "write"]
    <2>1. io' = (io \ {x}) \cup {y} /\ y.stage = "write"
      BY <1>1, Advanced
    <2> HIDE DEF y
    <2>2. QED
      BY <2>1
  <1>3. UNCHANGED <<db, txn, uploads, temp, raced, truncated, mistaken>>
    BY DEF ReadTemp, disk, history
  <1>4. OneWriter' /\ \A c \in Blob : Cut(c)' => Cut(c)
    BY <1>2, <1>3, OneWriterStays, SameCuts DEF WholeInv
  <1>5. \A c \in Blob \ raced' : CutInv(c)'
    BY <1>2, <1>3, <1>4, CutStays
  <1>6. QED
    BY <1>4, <1>5 DEF WholeInv

LEMMA OpenStoredKeepsWhole ==
  ASSUME IInv, WholeInv, NEW x \in io, OpenStored(x)
  PROVE  WholeInv'
  <1> DEFINE c == x.blob
             y == [x EXCEPT !.stage = "fill"]
  <1>1. "fill" \in Copying /\ Advance(x, "fill")
    BY DEF OpenStored, Copying
  <1>2. /\ io' = (io \ {x}) \cup {y} /\ c \in Blob
        /\ y.stage = "fill" /\ y.blob = c
    BY <1>1, Advanced
  <1>3. /\ UNCHANGED <<db, txn, uploads, temp>> /\ raced \subseteq raced'
        /\ truncated' = truncated \ {c}
        /\ mistaken' = IF c \in stored \cup quarantined \/ Filling(c)
                       THEN mistaken \cup {c} ELSE mistaken
    BY DEF OpenStored, Race
  <1> HIDE DEF y
  <1>4. OneWriter'
    <2>1. SUFFICES ASSUME NEW b \in Blob \ mistaken', NEW v \in io', NEW w \in io',
                          v.blob = b, w.blob = b, v.stage = "fill", w.stage = "fill"
                   PROVE  v = w /\ b \notin truncated'
      BY DEF OneWriter
    <2>2. CASE b = c
      <3>1. \A z \in io : ~(z.blob = c /\ z.stage = "fill")
        BY <1>3, <2>1, <2>2 DEF Filling
      <3>2. v = y /\ w = y
        BY <1>2, <2>1, <2>2, <3>1
      <3>3. QED
        BY <1>3, <2>2, <3>2
    <2>3. CASE b # c
      <3>1. v \in io /\ w \in io /\ b \notin mistaken
        BY <1>2, <1>3, <2>1, <2>3
      <3>2. QED
        BY <1>3, <2>1, <3>1 DEF WholeInv, OneWriter
    <2>4. QED
      BY <2>2, <2>3
  <1>5. ASSUME NEW b \in Blob \ raced', Cut(b)' PROVE CutInv(b)'
    <2>1. CASE b # c
      <3>1. Cut(b)
        BY <1>2, <1>3, <1>5, <2>1 DEF Cut, Filling
      <3>2. CutInv(b)
        BY <1>3, <1>5 DEF WholeInv
      <3>3. \A z \in io' : z.stage = "remove" => z \in io
        BY <1>2
      <3>4. QED
        BY <1>3, <3>1, <3>2, <3>3 DEF CutInv, HasRow
    <2>2. CASE b = c
      <3>1. c \notin Files /\ c \notin raced
        BY <1>3, <1>5, <2>2 DEF Cut, Files
      <3>2. FileInv(c)
        BY <1>2, <3>1 DEF IInv, FilesInv
      <3>3. HasRow(c) => db.row[c].temp # Permanent /\ <<db.row[c].temp, c>> \in temp
        BY <3>1, <3>2 DEF FileInv
      <3>4. (txn # None /\ txn.db.row[c] # None) => txn.db.row[c].temp # Permanent
        <4>1. SUFFICES ASSUME txn # None, txn.db.row[c] # None PROVE txn.db.row[c].temp # Permanent
          OBVIOUS
        <4>2. TxnRow(c) /\ c \notin txn.drop /\ (txn.serves \in Uploaded => txn.serves \in uploads)
          BY <1>2, <4>1 DEF IInv, TxnInv, SingleInv
        <4>3. ~MadePermanent(c)
          BY <3>1 DEF MadePermanent, Files
        <4>4. txn.serves \in Uploaded => txn.serves[1] # Permanent
          BY KeyTypes
        <4>5. QED
          BY <3>3, <4>1, <4>2, <4>3, <4>4 DEF TxnRow, HasRow
      <3>5. \A u \in uploads : u[2] = c => u \in temp
        BY <3>1 DEF IInv, UploadInv
      <3>6. ASSUME NEW z \in io, z.blob = c, z.stage = "remove"
            PROVE  ~z.own /\ (HasRow(c) => z.key # db.row[c].temp)
        <4>1. z.stage \in Placed /\ z.stage \in Copying
          BY <3>6 DEF Placed, Copying
        <4>2. ~z.own
          BY <3>1, <3>6, <4>1 DEF IInv, IoInv, TxnInv, Own, CopyInv, Files
        <4>3. HasRow(c) => z.key # db.row[c].temp
          BY <3>1, <3>2, <3>6, <4>1 DEF FileInv
        <4>4. QED
          BY <4>2, <4>3
      <3>7. \A z \in io' : z.stage = "remove" => z \in io
        BY <1>2
      <3>8. QED
        BY <1>3, <2>2, <3>3, <3>4, <3>5, <3>6, <3>7 DEF CutInv, HasRow
    <2>3. QED
      BY <2>1, <2>2
  <1>6. QED
    BY <1>4, <1>5 DEF WholeInv, CutInv

LEMMA WriteStoredKeepsWhole ==
  ASSUME IInv, WholeInv, NEW x \in io, WriteStored(x)
  PROVE  WholeInv'
  <1> DEFINE c == x.blob
             y == [x EXCEPT !.stage = "remove"]
  <1>1. "remove" \in Copying /\ Advance(x, "remove") /\ x.stage = "fill"
    BY DEF WriteStored, Copying
  <1>2. io' = (io \ {x}) \cup {y} /\ c \in Blob /\ y.stage = "remove" /\ y.blob = c
    BY <1>1, Advanced
  <1>3. UNCHANGED <<db, txn, uploads, temp, raced, truncated, mistaken>>
    BY DEF WriteStored, disk, history
  <1> HIDE DEF y
  <1>4. \A z \in io' : z.stage = "fill" => z \in io /\ z # x
    BY <1>1, <1>2
  <1>5. OneWriter' /\ \A b \in Blob : Cut(b)' => Cut(b)
    BY <1>3, <1>4, OneWriterStays, SameCuts DEF WholeInv
  <1>6. ~Cut(c)'
    BY <1>1, <1>2, <1>3, <1>4 DEF Cut, Filling, WholeInv, OneWriter
  <1>7. \A b \in Blob \ raced' : CutInv(b)'
    <2>1. \A z \in io' : (z.stage = "remove" /\ Cut(z.blob)') => z \in io
      BY <1>2, <1>6
    <2>2. QED
      BY <1>3, <1>5, <2>1, CutStays
  <1>8. QED
    BY <1>5, <1>7 DEF WholeInv

\* Operations end, and those in a write leave the file as it is; others are left to
\* themselves
LEMMA WritersNext ==
  ASSUME \A c \in Blob \ mistaken' : \A v, w \in io' :
            (v.blob = c /\ w.blob = c /\ v.stage = "fill" /\ w.stage = "fill") =>
                v = w /\ c \notin truncated'
  PROVE  OneWriter'
  BY DEF OneWriter

LEMMA EndsKeepWhole ==
  ASSUME IInv, WholeInv, NEW gone \in SUBSET io, NEW own \in SUBSET io,
         io' = ((io \ own) \ gone) \cup Stray(own \ gone), Truncate(gone),
         UNCHANGED <<db, temp, raced, mistaken>>, txn' = txn \/ txn' = None,
         uploads' \subseteq uploads
  PROVE  WholeInv'
  <1>1. ASSUME NEW y \in io'
        PROVE  \E x \in io \ gone :
                  /\ x.blob = y.blob /\ x.key = y.key /\ x.stage = y.stage /\ (y.own => x.own)
                  /\ y = IF x \in own THEN [x EXCEPT !.own = FALSE] ELSE x
    <2>1. CASE y \in (io \ own) \ gone
      BY <2>1
    <2>2. CASE y \in Stray(own \ gone)
      <3>1. PICK x \in own \ gone : y = [x EXCEPT !.own = FALSE]
        BY <2>2 DEF Stray
      <3>2. /\ x \in io \ gone /\ y.stage = x.stage /\ y.key = x.key /\ y.blob = x.blob
            /\ ~y.own
        BY <3>1, IoTypes, Strays DEF IInv
      <3>3. QED
        BY <3>1, <3>2
    <2>3. QED
      BY <2>1, <2>2
  <1>2. \A c \in Blob : c \in truncated' =>
            c \in truncated \/ \E z \in gone : z.blob = c /\ z.stage = "fill"
    BY DEF Truncate
  <1>3. ASSUME NEW c \in Blob \ mistaken', NEW v \in io', NEW w \in io',
               v.blob = c, w.blob = c, v.stage = "fill", w.stage = "fill"
        PROVE  v = w /\ c \notin truncated'
    <2>1. PICK x \in io \ gone : /\ x.blob = c /\ x.stage = "fill"
                                 /\ v = IF x \in own THEN [x EXCEPT !.own = FALSE] ELSE x
      BY <1>1, <1>3
    <2>2. PICK z \in io \ gone : /\ z.blob = c /\ z.stage = "fill"
                                 /\ w = IF z \in own THEN [z EXCEPT !.own = FALSE] ELSE z
      <3>1. PICK z \in io \ gone : /\ z.blob = w.blob /\ z.stage = w.stage
                                   /\ w = IF z \in own THEN [z EXCEPT !.own = FALSE] ELSE z
        BY <1>1
      <3>2. QED
        BY <1>3, <3>1
    <2>3. x = z /\ c \notin truncated
          /\ \A g \in io : (g.blob = c /\ g.stage = "fill") => g = x
      BY <2>1, <2>2 DEF WholeInv, OneWriter
    <2>4. c \notin truncated'
      BY <1>2, <2>1, <2>3
    <2>5. QED
      BY <2>1, <2>2, <2>3, <2>4
  <1>4. \A c \in Blob : Cut(c)' => Cut(c)
    <2>1. ASSUME NEW c \in Blob, Filling(c)' PROVE Filling(c)
      BY <1>1, <2>1 DEF Filling
    <2>2. ASSUME NEW c \in Blob, c \in truncated' PROVE c \in truncated \/ Filling(c)
      BY <1>2, <2>2 DEF Filling
    <2>3. QED
      BY <2>1, <2>2 DEF Cut
  <1>5. \A c \in Blob \ raced' : CutInv(c)'
    BY <1>1, <1>4, CutStays
  <1>6. OneWriter'
    <2>1. ASSUME NEW c \in Blob \ mistaken'
          PROVE  \A v, w \in io' :
                    (v.blob = c /\ w.blob = c /\ v.stage = "fill" /\ w.stage = "fill") =>
                        v = w /\ c \notin truncated'
      BY ONLY <1>3, <2>1
    <2>2. QED
      BY ONLY <2>1, WritersNext
  <1>7. QED
    BY <1>5, <1>6 DEF WholeInv

LEMMA StopsKeepWhole ==
  ASSUME IInv, WholeInv,
         \/ \E x \in io : ReadFails(x) \/ WriteFails(x) \/ Quarantine(x) \/ Unquarantine(x)
         \/ Abort \/ Crash
  PROVE  WholeInv'
  <1>1. ASSUME NEW x \in io, ReadFails(x) \/ WriteFails(x) \/ Quarantine(x) \/ Unquarantine(x)
        PROVE  WholeInv'
    <2>1. Truncate({x})
      BY <1>1 DEF ReadFails, WriteFails, Quarantine, Unquarantine, Truncate, disk
    <2>2. io' = ((io \ {}) \ {x}) \cup Stray({} \ {x})
      BY <1>1 DEF ReadFails, WriteFails, Quarantine, Unquarantine, Stray
    <2>3. UNCHANGED <<db, temp, raced, mistaken, txn, uploads>>
      BY <1>1 DEF ReadFails, WriteFails, Quarantine, Unquarantine, disk, history
    <2>4. QED
      BY <2>1, <2>2, <2>3, EndsKeepWhole
  <1>2. ASSUME Abort PROVE WholeInv'
    <2>1. PICK failed \in Failed : io' = (io \ Own) \cup Stray(Own \ failed) /\ Truncate(failed)
      BY <1>2 DEF Abort
    <2>2. failed \subseteq Own /\ Own \subseteq io
      BY DEF Failed, Own
    <2>3. (io \ Own) \ failed = io \ Own
      BY <2>2
    <2>4. UNCHANGED <<db, temp, raced, mistaken>> /\ txn' = None /\ uploads' \subseteq uploads
      BY <1>2 DEF Abort, history
    <2>5. QED
      BY <2>1, <2>2, <2>3, <2>4, EndsKeepWhole
  <1>3. ASSUME Crash PROVE WholeInv'
    <2>1. io' = ((io \ {}) \ io) \cup Stray({} \ io) /\ Truncate(io)
      BY <1>3 DEF Crash, Stray
    <2>2. UNCHANGED <<db, temp, raced, mistaken>> /\ txn' = None /\ uploads' \subseteq uploads
      BY <1>3 DEF Crash
    <2>3. QED
      BY <2>1, <2>2, EndsKeepWhole
  <1>4. QED
    BY <1>1, <1>2, <1>3

LEMMA RemoveTempKeepsWhole ==
  ASSUME IInv, WholeInv, NEW x \in io, RemoveTemp(x)
  PROVE  WholeInv'
  <1>1. /\ x.stage = "remove" /\ io' = io \ {x} /\ temp' = temp \ {Pair(x)}
        /\ UNCHANGED <<db, uploads, raced, mistaken, truncated>>
        /\ x.blob \in Blob
    BY IoTypes DEF RemoveTemp, Pair, disk, history, IInv
  <1>2. OneWriter' /\ \A c \in Blob : Cut(c)' => Cut(c)
    BY <1>1, OneWriterStays, SameCuts DEF WholeInv
  <1>3. ASSUME NEW c \in Blob \ raced, Cut(c)' PROVE CutInv(c)'
    <2>1. Cut(c) /\ CutInv(c)
      BY <1>2, <1>3 DEF WholeInv
    <2>2. x.blob = c => ~x.own /\ (HasRow(c) => x.key # db.row[c].temp)
      BY <1>1, <2>1 DEF CutInv
    <2>3. HasRow(c) => <<db.row[c].temp, c>> # Pair(x)
      BY <2>2 DEF Pair
    <2>4. \A u \in uploads : u[2] = c => u # Pair(x)
      BY <2>2 DEF Pair, IInv, IoInv
    <2>5. (txn' # None /\ txn'.db.row[c] # None) => txn'.db.row[c].temp # Permanent
      <3>1. CASE ~x.own
        BY <2>1, <3>1 DEF RemoveTemp, CutInv
      <3>2. CASE x.own
        <4>1. txn # None /\ txn'.db.row[c] = txn.db.row[c]
          BY <1>3, <2>2, <3>2, RemoveTempClears
        <4>2. QED
          BY <2>1, <4>1 DEF CutInv
      <3>3. QED
        BY <3>1, <3>2
    <2>6. QED
      BY <1>1, <2>1, <2>3, <2>4, <2>5 DEF CutInv, HasRow
  <1>4. QED
    BY <1>1, <1>2, <1>3 DEF WholeInv, CutInv

LEMMA CommitKeepsWhole ==
  ASSUME IInv, WholeInv, Commit
  PROVE  WholeInv'
  <1>1. /\ txn # None /\ Own = {} /\ db' = txn.db /\ txn' = None
        /\ uploads' = uploads \ {txn.serves} /\ raced \subseteq raced'
        /\ UNCHANGED <<io, temp, mistaken, truncated>>
    BY DEF Commit, disk
  <1>2. OneWriter' /\ \A c \in Blob : Cut(c)' => Cut(c)
    BY <1>1, OneWriterStays, SameCuts DEF WholeInv
  <1>3. ASSUME NEW c \in Blob \ raced', Cut(c)' PROVE CutInv(c)'
    <2> DEFINE row == txn.db.row[c]
    <2>1. Cut(c) /\ CutInv(c) /\ c \notin raced
      BY <1>1, <1>2, <1>3 DEF WholeInv
    <2>2. /\ row # None => row.temp # Permanent
          /\ \A u \in uploads : u[2] = c => u \in temp
          /\ HasRow(c) => <<db.row[c].temp, c>> \in temp
          /\ \A x \in io : (x.blob = c /\ x.stage = "remove") =>
                               ~x.own /\ (HasRow(c) => x.key # db.row[c].temp)
      BY <1>1, <2>1 DEF CutInv
    <2>3. TxnRow(c) /\ (c \in txn.drop => row = None)
      BY <1>1 DEF IInv, TxnInv
    <2>4. \A x \in io : Pair(x) \notin uploads
      BY <1>1 DEF IInv, IoInv, Own
    <2> HIDE DEF row
    <2>5. ASSUME row # None
          PROVE  /\ <<row.temp, c>> \in temp
                 /\ \A x \in io : (x.blob = c /\ x.stage = "remove") => ~x.own /\ x.key # row.temp
      <3>1. CASE row = db.row[c] \/ (db.row[c] # None /\ row.temp = db.row[c].temp)
        BY <2>2, <2>5, <3>1 DEF HasRow
      <3>2. CASE /\ txn.serves \in Uploaded /\ txn.serves[2] = c
                 /\ row = [temp |-> txn.serves[1], taken |-> FALSE]
        <4>1. txn.serves \in uploads /\ txn.serves = <<row.temp, c>> /\ txn.serves[2] = c
          BY <1>1, <3>2, KeyTypes DEF IInv, TxnInv, SingleInv
        <4>2. \A x \in io : ~(x.blob = c /\ x.key = row.temp)
          BY <2>4, <4>1 DEF Pair
        <4>3. QED
          BY <2>2, <4>1, <4>2
      <3>3. ~MadePermanent(c)
        BY <2>2, <2>5 DEF MadePermanent, row
      <3>4. QED
        BY <2>3, <2>5, <3>1, <3>2, <3>3 DEF TxnRow, row
    <2>6. QED
      BY <1>1, <2>2, <2>5 DEF CutInv, HasRow, row
  <1>4. QED
    BY <1>2, <1>3 DEF WholeInv, CutInv

LEMMA WholeInitially ==
  Init => WholeInv
  BY DEF Init, WholeInv, OneWriter, CutInv, Cut, Filling

LEMMA WholeKeeps ==
  IInv /\ WholeInv /\ [Next]_vars => WholeInv'
  <1> SUFFICES ASSUME IInv, WholeInv, [Next]_vars PROVE WholeInv'
    OBVIOUS
  <1>1. ASSUME NEW c \in Blob, PutTemp(c) \/ DeleteFile(c) \/ DeleteFails(c) PROVE WholeInv'
    <2>1. /\ UNCHANGED <<db, txn, io, raced, mistaken, truncated>> /\ temp \subseteq temp'
          /\ \A u \in uploads' : u \in uploads \/ u \in temp'
      BY <1>1 DEF PutTemp, DeleteFile, DeleteFails, disk, history
    <2>2. QED
      BY <2>1, OthersKeepWhole
  <1>2. ASSUME NEW u \in uploads, TrackUntetheredBlob(u) \/ UploadFails(u) PROVE WholeInv'
    <2>1. CASE UploadFails(u)
      BY <2>1, OthersKeepWhole DEF UploadFails, disk, history
    <2>2. QED
      BY <1>2, <2>1, TrackKeepsWhole
  <1>3. ASSUME NEW ws \in Writes, ProcessWriteBlobs(ws) \/ ImportRepo(ws) PROVE WholeInv'
    <2>1. CASE ImportRepo(ws)
      <3>1. db'.row = db.row
        BY <2>1 DEF ImportRepo, IInv, TypeOK, Db
      <3>2. QED
        BY <2>1, <3>1, OthersKeepWhole DEF ImportRepo, disk
    <2>2. QED
      BY <1>3, <2>1, WriteKeepsWhole
  <1>4. ASSUME NEW c \in Blob, NEW applied \in BOOLEAN, UpdateBlobTakedownStatus(c, applied)
        PROVE  WholeInv'
    BY <1>4, TakedownKeepsWhole
  <1>5. ASSUME txn # None, NEW t \in txn.tasks, VerifyBlob(t) PROVE WholeInv'
    BY <1>5, VerifyKeepsWhole
  <1>6. ASSUME NEW x \in io, HasStored(x) \/ OpenStored(x) \/ WriteStored(x) \/ RemoveTemp(x)
        PROVE  WholeInv'
    BY <1>6, HasStoredKeepsWhole, OpenStoredKeepsWhole, WriteStoredKeepsWhole,
       RemoveTempKeepsWhole
  <1>7. ASSUME NEW x \in io, ReadTemp(x) PROVE WholeInv'
    BY <1>7, ReadTempKeepsWhole
  <1>8. ASSUME \/ \E x \in io : ReadFails(x) \/ WriteFails(x) \/ Quarantine(x) \/ Unquarantine(x)
               \/ Abort \/ Crash
        PROVE  WholeInv'
    BY <1>8, StopsKeepWhole
  <1>9. ASSUME UNCHANGED vars PROVE WholeInv'
    BY <1>9, OthersKeepWhole DEF vars, disk, history
  <1>10. QED
    BY <1>1, <1>2, <1>3, <1>4, <1>5, <1>6, <1>7, <1>8, <1>9, CommitKeepsWhole DEF Next

-----------------------------------------------------------------------------

\* The two invariants hold in every state.
THEOREM Invariance ==
  Spec => [](IInv /\ WholeInv)
  <1>1. Init => IInv /\ WholeInv
    BY Initially, WholeInitially
  <1>2. (IInv /\ WholeInv) /\ [Next]_vars => (IInv /\ WholeInv)'
    BY Keeps, WholeKeeps
  <1>3. QED
    BY <1>1, <1>2, PTL DEF Spec

\* The account's rows, files and transactions have their types.
THEOREM TypeCorrect ==
  Spec => []TypeOK
  <1>1. IInv => TypeOK
    BY DEF IInv
  <1>2. QED
    BY <1>1, Invariance, PTL

\* Whatever is rolled back, retried, cut short, taken down or deleted in the
\* background, the content of a blob with a row is kept: whole in the place that the
\* row says, or where the next write finds it, or in the temporary file.
THEOREM FilesAreKept ==
  Spec => []NoFileLost
  <1>1. ASSUME IInv, WholeInv PROVE NoFileLost
    <2>1. SUFFICES ASSUME NEW c \in Blob \ raced, HasRow(c)
                   PROVE  LET whole == c \notin truncated \ mistaken
                          IN  IF db.row[c].temp # Permanent
                              THEN <<db.row[c].temp, c>> \in temp
                                     \/ (whole /\ c \in stored \cup quarantined)
                              ELSE whole /\ (c \in torn \/ c \in Place(db.row[c]))
      BY DEF NoFileLost, Place
    <2>2. FileInv(c) /\ CutInv(c)
      BY <1>1 DEF IInv, FilesInv, WholeInv
    <2>3. QED
      BY <2>1, <2>2 DEF FileInv, CutInv, Cut, Files
  <1>2. QED
    BY <1>1, Invariance, PTL

\* A committed record refers to permanent blobs only, but for those of imports.
THEOREM ReferencesArePermanent ==
  Spec => []ReferencedIsPermanent
  <1>1. IInv => ReferencedIsPermanent
    BY DEF IInv
  <1>2. QED
    BY <1>1, Invariance, PTL

=============================================================================
