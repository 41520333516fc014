-------------------------- MODULE AbstractRepoProofs --------------------------
(***************************************************************************)
(* Commits keep the stored blocks exact, for any keys, records and trees,  *)
(* any number of writes in a commit, and any order in which a comparison   *)
(* comes upon what the trees hold, as long as it meets the keys in order.  *)
(*                                                                         *)
(* The inductive invariant says what a comparison has noted so far: of the *)
(* nodes, those met in one tree only; of the records, which of those that  *)
(* a key lost may have been cancelled by a key that gained the same, and   *)
(* that none is left as removed when only later, new keys have gained it.  *)
(***************************************************************************)
EXTENDS AbstractRepo, TLAPS

\* A key has another record than before, or has one no more
Loses(k) == k \in DOMAIN stored /\ (k \in DOMAIN leaves => leaves[k] # stored[k])
Gains(k) == k \in DOMAIN leaves /\ (k \in DOMAIN stored => leaves[k] # stored[k])

\* ... of the keys that the comparison has met
Lost == {k \in DOMAIN stored \ prevKeys : Loses(k)}
Gained == {k \in DOMAIN leaves \ currKeys : Gains(k)}

LostCids == {stored[k] : k \in Lost}
GainedCids == {leaves[k] : k \in Gained}

\* The writes say which keys have changed
WritesInv ==
    /\ indexed = leaves
    /\ \A k \in Key : Loses(k) => k \in DelAndUpdate
    /\ \A k \in Key : Gains(k) => k \in Written
    /\ \A k \in Written \cap DOMAIN leaves : leaves[k] \in NewRecordCids

\* Keys that changed were met before what is ahead; a key of both trees is met in both
WalkInv ==
    /\ prevNodes \subseteq nodes /\ currNodes \subseteq newNodes
    /\ prevKeys \subseteq DOMAIN stored /\ currKeys \subseteq DOMAIN leaves
    /\ \A k \in DOMAIN stored \cap DOMAIN leaves : k \in prevKeys <=> k \in currKeys
    /\ \A k \in Lost \cup Gained : \A j \in prevKeys \cup currKeys : k < j

\* A diff has its six parts and no other
Parts(adds, updates, deletes, nodesIn, leavesIn, out) ==
    [adds |-> adds, updates |-> updates, deletes |-> deletes,
     newMstBlocks |-> nodesIn, newLeafCids |-> leavesIn, removedCids |-> out]

IsDiff(d) ==
    d = Parts(d.adds, d.updates, d.deletes, d.newMstBlocks, d.newLeafCids, d.removedCids)

\* What was noted of nodes and keys
NotedInv ==
    /\ IsDiff(diff)
    /\ diff.adds = {NewLeaf(k) : k \in Gained \ DOMAIN stored}
    /\ diff.updates = {NewLeaf(k) : k \in Gained \cap DOMAIN stored}
    /\ diff.deletes = {OldLeaf(k) : k \in Lost \ DOMAIN leaves}
    /\ diff.newMstBlocks = (newNodes \ currNodes) \ (nodes \ prevNodes)
    /\ diff.removedCids \ Val = (nodes \ prevNodes) \ (newNodes \ currNodes)

\* A record that one key lost and another gained, which was set before or comes
\* before the one that lost it
Taken(c) ==
    \E l \in Gained, j \in Lost :
        leaves[l] = c /\ stored[j] = c /\ (l \in DOMAIN stored \/ l < j)

\* What was noted of records
RemovedRecords == diff.removedCids \cap Val

CidInv ==
    /\ diff.newLeafCids \subseteq GainedCids
    /\ RemovedRecords \subseteq LostCids
    /\ GainedCids \subseteq diff.newLeafCids \cup LostCids
    /\ LostCids \subseteq RemovedRecords \cup GainedCids
    /\ \A c \in GainedCids \cap RemovedRecords : Taken(c)

DiffInv == WalkInv /\ NotedInv /\ CidInv

\* A block is there since the revision it is stored with
AgeInv ==
    \A c \in DOMAIN blocks : \A n \in 0 .. rev : blocks[c] <= n => c \in history[n]

StoreInv ==
    /\ history[rev] = nodes \cup Range(stored)
    /\ ~moved => DOMAIN blocks = history[rev] /\ AgeInv
    /\ EventHasRecords

IInv ==
    /\ TypeOK
    /\ RecordsMatchTree
    /\ phase # "idle" => WritesInv
    /\ phase = "comparing" => DiffInv
    /\ StoreInv

-----------------------------------------------------------------------------
(* Tables *)

LEMMA TableFacts ==
  ASSUME NEW f \in Table
  PROVE  /\ DOMAIN f \subseteq Key
         /\ \A k \in DOMAIN f : f[k] \in Val
         /\ Range(f) \subseteq Val
         /\ \A k \in DOMAIN f : k \in Int
  <1>1. PICK keys \in SUBSET Key : f \in [keys -> Val]
    BY DEF Table
  <1>2. DOMAIN f = keys
    BY <1>1
  <1>3. \A k \in DOMAIN f : f[k] \in Val
    BY <1>1, <1>2
  <1>4. Range(f) \subseteq Val
    BY <1>3 DEF Range
  <1>5. QED
    BY <1>2, <1>3, <1>4, KeysAreOrdered

LEMMA WithTable ==
  ASSUME NEW f \in Table, NEW k \in Key, NEW v \in Val
  PROVE  /\ With(f, k, v) \in Table
         /\ DOMAIN With(f, k, v) = DOMAIN f \cup {k}
         /\ With(f, k, v)[k] = v
         /\ \A j \in DOMAIN f \ {k} : With(f, k, v)[j] = f[j]
  <1>1. DOMAIN f \subseteq Key /\ \A j \in DOMAIN f : f[j] \in Val
    BY TableFacts
  <1>2. With(f, k, v) \in [{k} \cup DOMAIN f -> Val]
    BY <1>1 DEF With
  <1>3. QED
    BY <1>1, <1>2 DEF With, Table

LEMMA WithoutTable ==
  ASSUME NEW f \in Table, NEW k \in Key
  PROVE  /\ Without(f, k) \in Table
         /\ DOMAIN Without(f, k) = DOMAIN f \ {k}
         /\ \A j \in DOMAIN f \ {k} : Without(f, k)[j] = f[j]
  <1>1. DOMAIN f \subseteq Key /\ \A j \in DOMAIN f : f[j] \in Val
    BY TableFacts
  <1>2. Without(f, k) \in [DOMAIN f \ {k} -> Val]
    BY <1>1 DEF Without, Restrict
  <1>3. QED
    BY <1>1, <1>2 DEF Without, Restrict, Table

-----------------------------------------------------------------------------
(* What the operations of a diff do to each part of it *)

LEMMA PartsFields ==
  ASSUME NEW a, NEW u, NEW x, NEW m, NEW n, NEW r, NEW d, d = Parts(a, u, x, m, n, r)
  PROVE  /\ IsDiff(d) /\ d.adds = a /\ d.updates = u /\ d.deletes = x
         /\ d.newMstBlocks = m /\ d.newLeafCids = n /\ d.removedCids = r
  BY DEF IsDiff, Parts

LEMMA LeafUpdateParts ==
  ASSUME NEW a, NEW u, NEW x, NEW m, NEW n, NEW r, NEW old, NEW leaf
  PROVE  LeafUpdate(Parts(a, u, x, m, n, r), old, leaf) =
            Parts(a, u \cup {leaf}, x, m, n \cup {leaf.val}, r \cup {old.val})
  <1> DEFINE d == Parts(a, u, x, m, n, r)
             now == n \cup {leaf.val}
             out == r \cup {old.val}
  <1>1. d.updates = u /\ d.newLeafCids = n /\ d.removedCids = r
    BY DEF Parts
  <1>2. LeafUpdate(d, old, leaf) =
            [d EXCEPT !.updates = u \cup {leaf}, !.removedCids = out, !.newLeafCids = now]
    BY <1>1, Zenon DEF LeafUpdate
  <1> HIDE DEF now, out
  <1>3. [d EXCEPT !.updates = u \cup {leaf}] = Parts(a, u \cup {leaf}, x, m, n, r)
    BY DEF Parts
  <1>4. [Parts(a, u \cup {leaf}, x, m, n, r) EXCEPT !.removedCids = out] =
            Parts(a, u \cup {leaf}, x, m, n, out)
    BY DEF Parts
  <1>5. [Parts(a, u \cup {leaf}, x, m, n, out) EXCEPT !.newLeafCids = now] =
            Parts(a, u \cup {leaf}, x, m, now, out)
    BY DEF Parts
  <1> HIDE DEF d
  <1>6. [d EXCEPT !.updates = u \cup {leaf}, !.removedCids = out, !.newLeafCids = now] =
            [[[d EXCEPT !.updates = u \cup {leaf}] EXCEPT !.removedCids = out]
                EXCEPT !.newLeafCids = now]
    OBVIOUS
  <1>7. QED
    BY <1>2, <1>3, <1>4, <1>5, <1>6, Zenon DEF d, now, out

LEMMA LeafGoneParts ==
  ASSUME NEW a, NEW u, NEW x, NEW m, NEW n, NEW r, NEW leaf
  PROVE  LeafGone(Parts(a, u, x, m, n, r), leaf) =
            Parts(a, u, x \cup {leaf}, m, n, r \cup {leaf.val})
  <1> DEFINE d == Parts(a, u, x, m, n, r)
             out == r \cup {leaf.val}
  <1>1. d.deletes = x /\ d.removedCids = r
    BY DEF Parts
  <1>2. LeafGone(d, leaf) = [d EXCEPT !.deletes = x \cup {leaf}, !.removedCids = out]
    BY <1>1, Zenon DEF LeafGone
  <1> HIDE DEF out
  <1>3. [d EXCEPT !.deletes = x \cup {leaf}] = Parts(a, u, x \cup {leaf}, m, n, r)
    BY DEF Parts
  <1>4. [Parts(a, u, x \cup {leaf}, m, n, r) EXCEPT !.removedCids = out] =
            Parts(a, u, x \cup {leaf}, m, n, out)
    BY DEF Parts
  <1> HIDE DEF d
  <1>5. [d EXCEPT !.deletes = x \cup {leaf}, !.removedCids = out] =
            [[d EXCEPT !.deletes = x \cup {leaf}] EXCEPT !.removedCids = out]
    OBVIOUS
  <1>6. QED
    BY <1>2, <1>3, <1>4, <1>5, Zenon DEF d, out

\* The same of a diff that is named by its fields: first its keys, then its blocks
LEMMA TreeAddKeys ==
  ASSUME NEW d, IsDiff(d), NEW cid
  PROVE  /\ IsDiff(TreeAdd(d, cid))
         /\ TreeAdd(d, cid).adds = d.adds
         /\ TreeAdd(d, cid).updates = d.updates
         /\ TreeAdd(d, cid).deletes = d.deletes
  <1>1. PICK a, u, x, m, n, r : d = Parts(a, u, x, m, n, r)
    BY DEF IsDiff
  <1>2. /\ d.adds = a /\ d.updates = u /\ d.deletes = x
        /\ d.newMstBlocks = m /\ d.newLeafCids = n /\ d.removedCids = r
    BY <1>1, PartsFields
  <1>3. CASE cid \in r
    <2>1. TreeAdd(d, cid) = Parts(a, u, x, m, n, r \ {cid})
      BY <1>1, <1>3 DEF TreeAdd, Parts
    <2>2. /\ IsDiff(TreeAdd(d, cid))
          /\ TreeAdd(d, cid).adds = a
          /\ TreeAdd(d, cid).updates = u
          /\ TreeAdd(d, cid).deletes = x
      BY <2>1, PartsFields
    <2>3. QED
      BY <1>2, <1>3, <2>2
  <1>4. CASE ~(cid \in r)
    <2>1. TreeAdd(d, cid) = Parts(a, u, x, m \cup {cid}, n, r)
      BY <1>1, <1>4 DEF TreeAdd, Parts
    <2>2. /\ IsDiff(TreeAdd(d, cid))
          /\ TreeAdd(d, cid).adds = a
          /\ TreeAdd(d, cid).updates = u
          /\ TreeAdd(d, cid).deletes = x
      BY <2>1, PartsFields
    <2>3. QED
      BY <1>2, <1>4, <2>2
  <1>5. QED
    BY <1>3, <1>4

LEMMA TreeAddCids ==
  ASSUME NEW d, IsDiff(d), NEW cid
  PROVE  /\ TreeAdd(d, cid).newMstBlocks =
              IF cid \in d.removedCids THEN d.newMstBlocks
              ELSE d.newMstBlocks \cup {cid}
         /\ TreeAdd(d, cid).newLeafCids = d.newLeafCids
         /\ TreeAdd(d, cid).removedCids = d.removedCids \ {cid}
  <1>1. PICK a, u, x, m, n, r : d = Parts(a, u, x, m, n, r)
    BY DEF IsDiff
  <1>2. /\ d.adds = a /\ d.updates = u /\ d.deletes = x
        /\ d.newMstBlocks = m /\ d.newLeafCids = n /\ d.removedCids = r
    BY <1>1, PartsFields
  <1>3. CASE cid \in r
    <2>1. TreeAdd(d, cid) = Parts(a, u, x, m, n, r \ {cid})
      BY <1>1, <1>3 DEF TreeAdd, Parts
    <2>2. /\ TreeAdd(d, cid).newMstBlocks = m
          /\ TreeAdd(d, cid).newLeafCids = n
          /\ TreeAdd(d, cid).removedCids = r \ {cid}
      BY <2>1, PartsFields
    <2>3. QED
      BY <1>2, <1>3, <2>2
  <1>4. CASE ~(cid \in r)
    <2>1. TreeAdd(d, cid) = Parts(a, u, x, m \cup {cid}, n, r)
      BY <1>1, <1>4 DEF TreeAdd, Parts
    <2>2. /\ TreeAdd(d, cid).newMstBlocks = m \cup {cid}
          /\ TreeAdd(d, cid).newLeafCids = n
          /\ TreeAdd(d, cid).removedCids = r
      BY <2>1, PartsFields
    <2>3. r \ {cid} = r
      BY <1>4
    <2>4. QED
      BY <1>2, <1>4, <2>2, <2>3
  <1>5. QED
    BY <1>3, <1>4

LEMMA TreeDeleteKeys ==
  ASSUME NEW d, IsDiff(d), NEW cid
  PROVE  /\ IsDiff(TreeDelete(d, cid))
         /\ TreeDelete(d, cid).adds = d.adds
         /\ TreeDelete(d, cid).updates = d.updates
         /\ TreeDelete(d, cid).deletes = d.deletes
  <1>1. PICK a, u, x, m, n, r : d = Parts(a, u, x, m, n, r)
    BY DEF IsDiff
  <1>2. /\ d.adds = a /\ d.updates = u /\ d.deletes = x
        /\ d.newMstBlocks = m /\ d.newLeafCids = n /\ d.removedCids = r
    BY <1>1, PartsFields
  <1>3. CASE cid \in m
    <2>1. TreeDelete(d, cid) = Parts(a, u, x, m \ {cid}, n, r)
      BY <1>1, <1>3 DEF TreeDelete, Parts
    <2>2. /\ IsDiff(TreeDelete(d, cid))
          /\ TreeDelete(d, cid).adds = a
          /\ TreeDelete(d, cid).updates = u
          /\ TreeDelete(d, cid).deletes = x
      BY <2>1, PartsFields
    <2>3. QED
      BY <1>2, <1>3, <2>2
  <1>4. CASE ~(cid \in m)
    <2>1. TreeDelete(d, cid) = Parts(a, u, x, m, n, r \cup {cid})
      BY <1>1, <1>4 DEF TreeDelete, Parts
    <2>2. /\ IsDiff(TreeDelete(d, cid))
          /\ TreeDelete(d, cid).adds = a
          /\ TreeDelete(d, cid).updates = u
          /\ TreeDelete(d, cid).deletes = x
      BY <2>1, PartsFields
    <2>3. QED
      BY <1>2, <1>4, <2>2
  <1>5. QED
    BY <1>3, <1>4

LEMMA TreeDeleteCids ==
  ASSUME NEW d, IsDiff(d), NEW cid
  PROVE  /\ TreeDelete(d, cid).newMstBlocks = d.newMstBlocks \ {cid}
         /\ TreeDelete(d, cid).newLeafCids = d.newLeafCids
         /\ TreeDelete(d, cid).removedCids =
              IF cid \in d.newMstBlocks THEN d.removedCids
              ELSE d.removedCids \cup {cid}
  <1>1. PICK a, u, x, m, n, r : d = Parts(a, u, x, m, n, r)
    BY DEF IsDiff
  <1>2. /\ d.adds = a /\ d.updates = u /\ d.deletes = x
        /\ d.newMstBlocks = m /\ d.newLeafCids = n /\ d.removedCids = r
    BY <1>1, PartsFields
  <1>3. CASE cid \in m
    <2>1. TreeDelete(d, cid) = Parts(a, u, x, m \ {cid}, n, r)
      BY <1>1, <1>3 DEF TreeDelete, Parts
    <2>2. /\ TreeDelete(d, cid).newMstBlocks = m \ {cid}
          /\ TreeDelete(d, cid).newLeafCids = n
          /\ TreeDelete(d, cid).removedCids = r
      BY <2>1, PartsFields
    <2>3. QED
      BY <1>2, <1>3, <2>2
  <1>4. CASE ~(cid \in m)
    <2>1. TreeDelete(d, cid) = Parts(a, u, x, m, n, r \cup {cid})
      BY <1>1, <1>4 DEF TreeDelete, Parts
    <2>2. /\ TreeDelete(d, cid).newMstBlocks = m
          /\ TreeDelete(d, cid).newLeafCids = n
          /\ TreeDelete(d, cid).removedCids = r \cup {cid}
      BY <2>1, PartsFields
    <2>3. m \ {cid} = m
      BY <1>4
    <2>4. QED
      BY <1>2, <1>4, <2>2, <2>3
  <1>5. QED
    BY <1>3, <1>4

LEMMA LeafAddKeys ==
  ASSUME NEW d, IsDiff(d), NEW leaf
  PROVE  /\ IsDiff(LeafAdd(d, leaf))
         /\ LeafAdd(d, leaf).adds = d.adds \cup {leaf}
         /\ LeafAdd(d, leaf).updates = d.updates
         /\ LeafAdd(d, leaf).deletes = d.deletes
  <1>1. PICK a, u, x, m, n, r : d = Parts(a, u, x, m, n, r)
    BY DEF IsDiff
  <1>2. /\ d.adds = a /\ d.updates = u /\ d.deletes = x
        /\ d.newMstBlocks = m /\ d.newLeafCids = n /\ d.removedCids = r
    BY <1>1, PartsFields
  <1>3. CASE leaf.val \in r
    <2>1. LeafAdd(d, leaf) = Parts(a \cup {leaf}, u, x, m, n, r \ {leaf.val})
      BY <1>1, <1>3 DEF LeafAdd, Parts
    <2>2. /\ IsDiff(LeafAdd(d, leaf))
          /\ LeafAdd(d, leaf).adds = a \cup {leaf}
          /\ LeafAdd(d, leaf).updates = u
          /\ LeafAdd(d, leaf).deletes = x
      BY <2>1, PartsFields
    <2>3. QED
      BY <1>2, <1>3, <2>2
  <1>4. CASE ~(leaf.val \in r)
    <2>1. LeafAdd(d, leaf) = Parts(a \cup {leaf}, u, x, m, n \cup {leaf.val}, r)
      BY <1>1, <1>4 DEF LeafAdd, Parts
    <2>2. /\ IsDiff(LeafAdd(d, leaf))
          /\ LeafAdd(d, leaf).adds = a \cup {leaf}
          /\ LeafAdd(d, leaf).updates = u
          /\ LeafAdd(d, leaf).deletes = x
      BY <2>1, PartsFields
    <2>3. QED
      BY <1>2, <1>4, <2>2
  <1>5. QED
    BY <1>3, <1>4

LEMMA LeafAddCids ==
  ASSUME NEW d, IsDiff(d), NEW leaf
  PROVE  /\ LeafAdd(d, leaf).newMstBlocks = d.newMstBlocks
         /\ LeafAdd(d, leaf).newLeafCids =
              IF leaf.val \in d.removedCids THEN d.newLeafCids
              ELSE d.newLeafCids \cup {leaf.val}
         /\ LeafAdd(d, leaf).removedCids = d.removedCids \ {leaf.val}
  <1>1. PICK a, u, x, m, n, r : d = Parts(a, u, x, m, n, r)
    BY DEF IsDiff
  <1>2. /\ d.adds = a /\ d.updates = u /\ d.deletes = x
        /\ d.newMstBlocks = m /\ d.newLeafCids = n /\ d.removedCids = r
    BY <1>1, PartsFields
  <1>3. CASE leaf.val \in r
    <2>1. LeafAdd(d, leaf) = Parts(a \cup {leaf}, u, x, m, n, r \ {leaf.val})
      BY <1>1, <1>3 DEF LeafAdd, Parts
    <2>2. /\ LeafAdd(d, leaf).newMstBlocks = m
          /\ LeafAdd(d, leaf).newLeafCids = n
          /\ LeafAdd(d, leaf).removedCids = r \ {leaf.val}
      BY <2>1, PartsFields
    <2>3. QED
      BY <1>2, <1>3, <2>2
  <1>4. CASE ~(leaf.val \in r)
    <2>1. LeafAdd(d, leaf) = Parts(a \cup {leaf}, u, x, m, n \cup {leaf.val}, r)
      BY <1>1, <1>4 DEF LeafAdd, Parts
    <2>2. /\ LeafAdd(d, leaf).newMstBlocks = m
          /\ LeafAdd(d, leaf).newLeafCids = n \cup {leaf.val}
          /\ LeafAdd(d, leaf).removedCids = r
      BY <2>1, PartsFields
    <2>3. r \ {leaf.val} = r
      BY <1>4
    <2>4. QED
      BY <1>2, <1>4, <2>2, <2>3
  <1>5. QED
    BY <1>3, <1>4

LEMMA LeafUpdateKeys ==
  ASSUME NEW d, IsDiff(d), NEW old, NEW leaf
  PROVE  /\ IsDiff(LeafUpdate(d, old, leaf))
         /\ LeafUpdate(d, old, leaf).adds = d.adds
         /\ LeafUpdate(d, old, leaf).updates = d.updates \cup {leaf}
         /\ LeafUpdate(d, old, leaf).deletes = d.deletes
  <1>1. PICK a, u, x, m, n, r : d = Parts(a, u, x, m, n, r)
    BY DEF IsDiff
  <1>2. /\ d.adds = a /\ d.updates = u /\ d.deletes = x
        /\ d.newMstBlocks = m /\ d.newLeafCids = n /\ d.removedCids = r
    BY <1>1, PartsFields
  <1>3. LeafUpdate(d, old, leaf) =
            Parts(a, u \cup {leaf}, x, m, n \cup {leaf.val}, r \cup {old.val})
    BY <1>1, LeafUpdateParts
  <1>4. /\ IsDiff(LeafUpdate(d, old, leaf))
        /\ LeafUpdate(d, old, leaf).adds = a
        /\ LeafUpdate(d, old, leaf).updates = u \cup {leaf}
        /\ LeafUpdate(d, old, leaf).deletes = x
    BY <1>3, PartsFields
  <1>5. QED
    BY <1>2, <1>4

LEMMA LeafUpdateCids ==
  ASSUME NEW d, IsDiff(d), NEW old, NEW leaf
  PROVE  /\ LeafUpdate(d, old, leaf).newMstBlocks = d.newMstBlocks
         /\ LeafUpdate(d, old, leaf).newLeafCids = d.newLeafCids \cup {leaf.val}
         /\ LeafUpdate(d, old, leaf).removedCids = d.removedCids \cup {old.val}
  <1>1. PICK a, u, x, m, n, r : d = Parts(a, u, x, m, n, r)
    BY DEF IsDiff
  <1>2. /\ d.adds = a /\ d.updates = u /\ d.deletes = x
        /\ d.newMstBlocks = m /\ d.newLeafCids = n /\ d.removedCids = r
    BY <1>1, PartsFields
  <1>3. LeafUpdate(d, old, leaf) =
            Parts(a, u \cup {leaf}, x, m, n \cup {leaf.val}, r \cup {old.val})
    BY <1>1, LeafUpdateParts
  <1>4. /\ LeafUpdate(d, old, leaf).newMstBlocks = m
        /\ LeafUpdate(d, old, leaf).newLeafCids = n \cup {leaf.val}
        /\ LeafUpdate(d, old, leaf).removedCids = r \cup {old.val}
    BY <1>3, PartsFields
  <1>5. QED
    BY <1>2, <1>4

LEMMA LeafDeleteKeys ==
  ASSUME NEW d, IsDiff(d), NEW leaf
  PROVE  /\ IsDiff(LeafDelete(d, leaf))
         /\ LeafDelete(d, leaf).adds = d.adds
         /\ LeafDelete(d, leaf).updates = d.updates
         /\ LeafDelete(d, leaf).deletes = d.deletes \cup {leaf}
  <1>1. PICK a, u, x, m, n, r : d = Parts(a, u, x, m, n, r)
    BY DEF IsDiff
  <1>2. /\ d.adds = a /\ d.updates = u /\ d.deletes = x
        /\ d.newMstBlocks = m /\ d.newLeafCids = n /\ d.removedCids = r
    BY <1>1, PartsFields
  <1>3. CASE leaf.val \in n
    <2>1. LeafDelete(d, leaf) = Parts(a, u, x \cup {leaf}, m, n \ {leaf.val}, r)
      BY <1>1, <1>3 DEF LeafDelete, Parts
    <2>2. /\ IsDiff(LeafDelete(d, leaf))
          /\ LeafDelete(d, leaf).adds = a
          /\ LeafDelete(d, leaf).updates = u
          /\ LeafDelete(d, leaf).deletes = x \cup {leaf}
      BY <2>1, PartsFields
    <2>3. QED
      BY <1>2, <1>3, <2>2
  <1>4. CASE ~(leaf.val \in n)
    <2>1. LeafDelete(d, leaf) = Parts(a, u, x \cup {leaf}, m, n, r \cup {leaf.val})
      BY <1>1, <1>4 DEF LeafDelete, Parts
    <2>2. /\ IsDiff(LeafDelete(d, leaf))
          /\ LeafDelete(d, leaf).adds = a
          /\ LeafDelete(d, leaf).updates = u
          /\ LeafDelete(d, leaf).deletes = x \cup {leaf}
      BY <2>1, PartsFields
    <2>3. QED
      BY <1>2, <1>4, <2>2
  <1>5. QED
    BY <1>3, <1>4

LEMMA LeafDeleteCids ==
  ASSUME NEW d, IsDiff(d), NEW leaf
  PROVE  /\ LeafDelete(d, leaf).newMstBlocks = d.newMstBlocks
         /\ LeafDelete(d, leaf).newLeafCids = d.newLeafCids \ {leaf.val}
         /\ LeafDelete(d, leaf).removedCids =
              IF leaf.val \in d.newLeafCids THEN d.removedCids
              ELSE d.removedCids \cup {leaf.val}
  <1>1. PICK a, u, x, m, n, r : d = Parts(a, u, x, m, n, r)
    BY DEF IsDiff
  <1>2. /\ d.adds = a /\ d.updates = u /\ d.deletes = x
        /\ d.newMstBlocks = m /\ d.newLeafCids = n /\ d.removedCids = r
    BY <1>1, PartsFields
  <1>3. CASE leaf.val \in n
    <2>1. LeafDelete(d, leaf) = Parts(a, u, x \cup {leaf}, m, n \ {leaf.val}, r)
      BY <1>1, <1>3 DEF LeafDelete, Parts
    <2>2. /\ LeafDelete(d, leaf).newMstBlocks = m
          /\ LeafDelete(d, leaf).newLeafCids = n \ {leaf.val}
          /\ LeafDelete(d, leaf).removedCids = r
      BY <2>1, PartsFields
    <2>3. QED
      BY <1>2, <1>3, <2>2
  <1>4. CASE ~(leaf.val \in n)
    <2>1. LeafDelete(d, leaf) = Parts(a, u, x \cup {leaf}, m, n, r \cup {leaf.val})
      BY <1>1, <1>4 DEF LeafDelete, Parts
    <2>2. /\ LeafDelete(d, leaf).newMstBlocks = m
          /\ LeafDelete(d, leaf).newLeafCids = n
          /\ LeafDelete(d, leaf).removedCids = r \cup {leaf.val}
      BY <2>1, PartsFields
    <2>3. n \ {leaf.val} = n
      BY <1>4
    <2>4. QED
      BY <1>2, <1>4, <2>2, <2>3
  <1>5. QED
    BY <1>3, <1>4

LEMMA LeafGoneKeys ==
  ASSUME NEW d, IsDiff(d), NEW leaf
  PROVE  /\ IsDiff(LeafGone(d, leaf))
         /\ LeafGone(d, leaf).adds = d.adds
         /\ LeafGone(d, leaf).updates = d.updates
         /\ LeafGone(d, leaf).deletes = d.deletes \cup {leaf}
  <1>1. PICK a, u, x, m, n, r : d = Parts(a, u, x, m, n, r)
    BY DEF IsDiff
  <1>2. /\ d.adds = a /\ d.updates = u /\ d.deletes = x
        /\ d.newMstBlocks = m /\ d.newLeafCids = n /\ d.removedCids = r
    BY <1>1, PartsFields
  <1>3. LeafGone(d, leaf) = Parts(a, u, x \cup {leaf}, m, n, r \cup {leaf.val})
    BY <1>1, LeafGoneParts
  <1>4. /\ IsDiff(LeafGone(d, leaf))
        /\ LeafGone(d, leaf).adds = a
        /\ LeafGone(d, leaf).updates = u
        /\ LeafGone(d, leaf).deletes = x \cup {leaf}
    BY <1>3, PartsFields
  <1>5. QED
    BY <1>2, <1>4

LEMMA LeafGoneCids ==
  ASSUME NEW d, IsDiff(d), NEW leaf
  PROVE  /\ LeafGone(d, leaf).newMstBlocks = d.newMstBlocks
         /\ LeafGone(d, leaf).newLeafCids = d.newLeafCids
         /\ LeafGone(d, leaf).removedCids = d.removedCids \cup {leaf.val}
  <1>1. PICK a, u, x, m, n, r : d = Parts(a, u, x, m, n, r)
    BY DEF IsDiff
  <1>2. /\ d.adds = a /\ d.updates = u /\ d.deletes = x
        /\ d.newMstBlocks = m /\ d.newLeafCids = n /\ d.removedCids = r
    BY <1>1, PartsFields
  <1>3. LeafGone(d, leaf) = Parts(a, u, x \cup {leaf}, m, n, r \cup {leaf.val})
    BY <1>1, LeafGoneParts
  <1>4. /\ LeafGone(d, leaf).newMstBlocks = m
        /\ LeafGone(d, leaf).newLeafCids = n
        /\ LeafGone(d, leaf).removedCids = r \cup {leaf.val}
    BY <1>3, PartsFields
  <1>5. QED
    BY <1>2, <1>4

-----------------------------------------------------------------------------
(* Writes *)

LEMMA AppendWrite ==
  ASSUME writes \in Seq(Write), NEW w \in Write, writes' = Append(writes, w)
  PROVE  /\ writes' \in Seq(Write)
         /\ WriteSet' = WriteSet \cup {w}
  <1>1. /\ writes' \in Seq(Write) /\ DOMAIN writes' = 1 .. Len(writes) + 1
        /\ DOMAIN writes = 1 .. Len(writes) /\ Len(writes) \in Nat
    OBVIOUS
  <1>2. /\ writes'[Len(writes) + 1] = w
        /\ \A i \in 1 .. Len(writes) : writes'[i] = writes[i]
    OBVIOUS
  <1>3. ASSUME NEW v PROVE v \in WriteSet' <=> v \in WriteSet \cup {w}
    <2>1. v \in WriteSet' <=> \E i \in 1 .. Len(writes) + 1 : v = writes'[i]
      BY <1>1 DEF WriteSet
    <2>2. v \in WriteSet <=> \E i \in 1 .. Len(writes) : v = writes[i]
      BY <1>1 DEF WriteSet
    <2>3. QED
      BY <1>1, <1>2, <2>1, <2>2
  <1>4. QED
    BY <1>1, <1>3

\* What the write adds to what is known of the writes
LEMMA WriteKnown ==
  ASSUME NEW w, WriteSet' = WriteSet \cup {w}
  PROVE  /\ Written' = Written \cup {w.key}
         /\ DelAndUpdate' = DelAndUpdate \cup (IF w.action # "create" THEN {w.key} ELSE {})
         /\ NewRecordCids' = NewRecordCids \cup (IF w.action # "delete" THEN {w.val} ELSE {})
  <1>1. Written' = Written \cup {w.key}
    BY DEF Written
  <1>2. DelAndUpdate' = DelAndUpdate \cup (IF w.action # "create" THEN {w.key} ELSE {})
    BY DEF DelAndUpdate
  <1>3. NewRecordCids' = NewRecordCids \cup (IF w.action # "delete" THEN {w.val} ELSE {})
    BY DEF NewRecordCids
  <1>4. QED
    BY <1>1, <1>2, <1>3

-----------------------------------------------------------------------------
(* Steps between the start of a commit and its comparison *)

LEMMA Initially == Init => IInv
  <1> SUFFICES ASSUME Init PROVE IInv
    OBVIOUS
  <1> USE DEF Init, NewStore
  <1>1. <<>> \in Table /\ DOMAIN <<>> = {} /\ Range(<<>>) = {}
    BY DEF Table, Range
  <1>2. TypeOK
    BY <1>1 DEF TypeOK
  <1>3. RecordsMatchTree
    BY DEF RecordsMatchTree
  <1>4. history[rev] = nodes \cup Range(stored)
    BY <1>1
  <1>5. DOMAIN blocks = history[rev]
    OBVIOUS
  <1>6. AgeInv
    BY DEF AgeInv
  <1>7. EventHasRecords
    BY DEF EventHasRecords
  <1>8. QED
    BY <1>2, <1>3, <1>4, <1>5, <1>6, <1>7 DEF IInv, StoreInv

\* Nothing of the store changes but in a commit
LEMMA StoreFrame ==
  ASSUME StoreInv, UNCHANGED <<storeVars, stored, nodes>>
  PROVE  StoreInv'
  BY DEF StoreInv, storeVars, AgeInv, EventHasRecords

LEMMA StartKeeps == IInv /\ Start => IInv'
  <1> SUFFICES ASSUME IInv, Start PROVE IInv'
    OBVIOUS
  <1>1. TypeOK'
    BY DEF IInv, TypeOK, Start, storeVars, walkVars
  <1>2. RecordsMatchTree' /\ phase' = "writing"
    BY DEF IInv, RecordsMatchTree, Start, storeVars
  <1>3. leaves' = stored /\ stored' = stored /\ indexed' = leaves'
    BY DEF IInv, RecordsMatchTree, Start
  <1>4. \A k : ~Loses(k)' /\ ~Gains(k)'
    BY <1>3 DEF Loses, Gains
  <1>5. Written' = {}
    BY DEF Start, Written, WriteSet
  <1>6. WritesInv'
    BY <1>3, <1>4, <1>5 DEF WritesInv
  <1>7. StoreInv'
    BY StoreFrame DEF IInv, Start
  <1>8. QED
    BY <1>1, <1>2, <1>6, <1>7 DEF IInv

\* Any write, once it is known what becomes of the keys
LEMMA ApplyKeeps ==
  ASSUME IInv, phase = "writing", NEW w \in Write, NEW table \in Table, Apply(w, table),
         table = IndexWrite(leaves, w),
         \A j \in Key : j # w.key =>
            (j \in DOMAIN table <=> j \in DOMAIN leaves)
                /\ (j \in DOMAIN leaves => table[j] = leaves[j]),
         w.action = "create" => w.key \notin DOMAIN leaves,
         w.key \in DOMAIN table => w.action # "delete" /\ table[w.key] = w.val
  PROVE  IInv'
  <1> USE DEF Apply
  <1>1. /\ writes' \in Seq(Write) /\ WriteSet' = WriteSet \cup {w}
    BY AppendWrite DEF IInv, TypeOK
  <1>2. WritesInv
    BY DEF IInv
  <1>3. /\ indexed' = table /\ leaves' = table /\ stored' = stored /\ records' = records
        /\ phase' = "writing"
    BY <1>2 DEF WritesInv, storeVars
  <1>4. TypeOK'
    BY <1>1, <1>3 DEF IInv, TypeOK, storeVars, walkVars
  <1>5. DOMAIN table \subseteq Key /\ DOMAIN stored \subseteq Key
    BY TableFacts DEF IInv, TypeOK
  <1>6. /\ Written' = Written \cup {w.key}
        /\ DelAndUpdate' = DelAndUpdate \cup (IF w.action # "create" THEN {w.key} ELSE {})
        /\ NewRecordCids' = NewRecordCids \cup (IF w.action # "delete" THEN {w.val} ELSE {})
    BY <1>1, WriteKnown
  <1>7. ASSUME NEW k \in Key, Loses(k)' PROVE k \in DelAndUpdate'
    <2>1. CASE k # w.key
      <3>1. Loses(k)
        BY <1>3, <1>7, <2>1 DEF Loses
      <3>2. QED
        BY <1>2, <1>6, <3>1 DEF WritesInv
    <2>2. CASE k = w.key /\ w.action = "create"
      <3>1. Loses(k)
        BY <1>3, <1>7, <2>2 DEF Loses
      <3>2. QED
        BY <1>2, <1>6, <3>1 DEF WritesInv
    <2>3. CASE k = w.key /\ w.action # "create"
      BY <1>6, <2>3
    <2>4. QED
      BY <2>1, <2>2, <2>3
  <1>8. ASSUME NEW k \in Key, Gains(k)' PROVE k \in Written'
    <2>1. CASE k # w.key
      <3>1. Gains(k)
        BY <1>3, <1>8, <2>1 DEF Gains
      <3>2. QED
        BY <1>2, <1>6, <3>1 DEF WritesInv
    <2>2. QED
      BY <1>6, <2>1
  <1>9. ASSUME NEW k \in Written' \cap DOMAIN leaves' PROVE leaves'[k] \in NewRecordCids'
    <2>1. CASE k # w.key
      <3>1. k \in Written \cap DOMAIN leaves /\ leaves'[k] = leaves[k]
        BY <1>3, <1>5, <1>6, <1>9, <2>1
      <3>2. QED
        BY <1>2, <1>6, <3>1 DEF WritesInv
    <2>2. QED
      BY <1>3, <1>6, <1>9, <2>1
  <1>10. WritesInv'
    BY <1>3, <1>7, <1>8, <1>9 DEF WritesInv
  <1>11. RecordsMatchTree'
    BY <1>3 DEF IInv, RecordsMatchTree
  <1>12. StoreInv'
    BY StoreFrame DEF IInv
  <1>13. QED
    BY <1>3, <1>4, <1>10, <1>11, <1>12 DEF IInv

LEMMA WriteKeeps ==
  ASSUME IInv, phase = "writing", NEW k \in Key,
         (\E v \in Val : Create(k, v) \/ UpdateRecord(k, v)) \/ DeleteRecord(k)
  PROVE  IInv'
  <1>1. leaves \in Table
    BY DEF IInv, TypeOK
  <1>2. ASSUME NEW v \in Val, Create(k, v) PROVE IInv'
    <2> DEFINE w == [action |-> "create", key |-> k, val |-> v]
    <2>1. w \in Write /\ w.action = "create" /\ w.key = k /\ w.val = v
      BY DEF Write
    <2>2. k \notin DOMAIN leaves /\ Apply(w, With(leaves, k, v))
      BY <1>2 DEF Create
    <2> DEFINE table == With(leaves, k, v)
    <2>3. table = IndexWrite(leaves, w)
      BY <2>1 DEF IndexWrite
    <2>4. /\ table \in Table /\ DOMAIN table = DOMAIN leaves \cup {k} /\ table[k] = v
          /\ \A j \in DOMAIN leaves \ {k} : table[j] = leaves[j]
      BY <1>1, WithTable
    <2> HIDE DEF w, table
    <2>5. /\ \A j \in Key : j # w.key =>
              (j \in DOMAIN table <=> j \in DOMAIN leaves)
                  /\ (j \in DOMAIN leaves => table[j] = leaves[j])
          /\ w.key \in DOMAIN table => w.action # "delete" /\ table[w.key] = w.val
      BY <2>1, <2>4
    <2>6. QED
      BY <2>1, <2>2, <2>3, <2>4, <2>5, ApplyKeeps DEF table
  <1>3. ASSUME NEW v \in Val, UpdateRecord(k, v) PROVE IInv'
    <2> DEFINE w == [action |-> "update", key |-> k, val |-> v]
    <2>1. w \in Write /\ w.action = "update" /\ w.key = k /\ w.val = v
      BY DEF Write
    <2>2. Apply(w, With(leaves, k, v))
      BY <1>3 DEF UpdateRecord
    <2> DEFINE table == With(leaves, k, v)
    <2>3. table = IndexWrite(leaves, w)
      BY <2>1 DEF IndexWrite
    <2>4. /\ table \in Table /\ DOMAIN table = DOMAIN leaves \cup {k} /\ table[k] = v
          /\ \A j \in DOMAIN leaves \ {k} : table[j] = leaves[j]
      BY <1>1, WithTable
    <2> HIDE DEF w, table
    <2>5. /\ \A j \in Key : j # w.key =>
              (j \in DOMAIN table <=> j \in DOMAIN leaves)
                  /\ (j \in DOMAIN leaves => table[j] = leaves[j])
          /\ w.key \in DOMAIN table => w.action # "delete" /\ table[w.key] = w.val
      BY <2>1, <2>4
    <2>6. QED
      BY <2>1, <2>2, <2>3, <2>4, <2>5, ApplyKeeps DEF table
  <1>4. ASSUME DeleteRecord(k) PROVE IInv'
    <2> DEFINE w == [action |-> "delete", key |-> k]
    <2>1. w \in Write /\ w.action = "delete" /\ w.key = k
      BY DEF Write
    <2>2. Apply(w, Without(leaves, k))
      BY <1>4 DEF DeleteRecord
    <2> DEFINE table == Without(leaves, k)
    <2>3. table = IndexWrite(leaves, w)
      BY <2>1 DEF IndexWrite
    <2>4. /\ table \in Table /\ DOMAIN table = DOMAIN leaves \ {k}
          /\ \A j \in DOMAIN leaves \ {k} : table[j] = leaves[j]
      BY <1>1, WithoutTable
    <2> HIDE DEF w, table
    <2>5. /\ \A j \in Key : j # w.key =>
              (j \in DOMAIN table <=> j \in DOMAIN leaves)
                  /\ (j \in DOMAIN leaves => table[j] = leaves[j])
          /\ w.key \in DOMAIN table => w.action # "delete" /\ table[w.key] = w.val
      BY <2>1, <2>4
    <2>6. QED
      BY <2>1, <2>2, <2>3, <2>4, <2>5, ApplyKeeps DEF table
  <1>5. QED
    BY <1>2, <1>3, <1>4

-----------------------------------------------------------------------------
(* The comparison *)

LEMMA StartDiffKeeps == IInv /\ StartDiff => IInv'
  <1> SUFFICES ASSUME IInv, StartDiff PROVE IInv'
    OBVIOUS
  <1> USE DEF StartDiff, treeVars, storeVars
  <1>1. TypeOK' /\ RecordsMatchTree' /\ StoreInv'
    BY StoreFrame DEF IInv, TypeOK, RecordsMatchTree
  <1>2. WritesInv'
    BY DEF IInv, WritesInv, Loses, Gains, DelAndUpdate, Written, NewRecordCids, WriteSet
  <1>3. Lost' = {} /\ Gained' = {}
    BY DEF Lost, Gained
  <1>4. LostCids' = {} /\ GainedCids' = {}
    BY <1>3 DEF LostCids, GainedCids
  <1>5. DOMAIN stored \subseteq Key /\ DOMAIN leaves \subseteq Key
    BY TableFacts DEF IInv, TypeOK
  <1>6. WalkInv'
    BY <1>3 DEF WalkInv
  <1>7. /\ IsDiff(diff') /\ diff'.adds = {} /\ diff'.updates = {} /\ diff'.deletes = {}
        /\ diff'.newMstBlocks = {} /\ diff'.newLeafCids = {} /\ diff'.removedCids = {}
    <2>1. diff' = Parts({}, {}, {}, {}, {}, {})
      BY DEF EmptyDiff, Parts
    <2>2. QED
      BY <2>1, PartsFields
  <1>8. NotedInv'
    BY <1>3, <1>7 DEF NotedInv
  <1>9. CidInv'
    BY <1>4, <1>7 DEF CidInv, RemovedRecords
  <1>10. QED
    BY <1>1, <1>2, <1>6, <1>8, <1>9 DEF IInv, DiffInv

\* A comparison changes the diff alone
LEMMA CompareFrame ==
  ASSUME IInv, phase = "comparing", DiffInv',
         UNCHANGED <<phase, storeVars, writes, treeVars, indexed>>
  PROVE  IInv'
  <1> USE DEF treeVars, storeVars
  <1>1. TypeOK' /\ RecordsMatchTree' /\ StoreInv'
    BY StoreFrame DEF IInv, TypeOK, RecordsMatchTree
  <1>2. WritesInv'
    BY DEF IInv, WritesInv, Loses, Gains, DelAndUpdate, Written, NewRecordCids, WriteSet
  <1>3. QED
    BY <1>1, <1>2 DEF IInv

\* Which keys changed does not depend on how far a comparison is
LEMMA ChangeFrame ==
  ASSUME UNCHANGED treeVars, NEW k
  PROVE  (Loses(k)' <=> Loses(k)) /\ (Gains(k)' <=> Gains(k))
  BY DEF treeVars, Loses, Gains

\* As long as no changed key is met, nothing changes of what was noted of keys
LEMMA SameKeysNoted ==
  ASSUME DiffInv, UNCHANGED treeVars, Lost' = Lost, Gained' = Gained,
         diff'.adds = diff.adds, diff'.updates = diff.updates, diff'.deletes = diff.deletes,
         diff'.newLeafCids = diff.newLeafCids, RemovedRecords' = RemovedRecords
  PROVE  /\ CidInv'
         /\ diff'.adds = {NewLeaf(k)' : k \in Gained' \ DOMAIN stored'}
         /\ diff'.updates = {NewLeaf(k)' : k \in Gained' \cap DOMAIN stored'}
         /\ diff'.deletes = {OldLeaf(k)' : k \in Lost' \ DOMAIN leaves'}
  <1> USE DEF DiffInv, treeVars
  <1>1. LostCids' = LostCids /\ GainedCids' = GainedCids
    BY DEF LostCids, GainedCids
  <1>2. \A c : Taken(c) => Taken(c)'
    BY DEF Taken
  <1>3. CidInv'
    BY <1>1, <1>2 DEF CidInv
  <1>4. \A k : NewLeaf(k)' = NewLeaf(k) /\ OldLeaf(k)' = OldLeaf(k)
    BY DEF NewLeaf, OldLeaf
  <1>5. diff'.adds = {NewLeaf(k)' : k \in Gained' \ DOMAIN stored'}
    BY <1>4 DEF NotedInv
  <1>6. diff'.updates = {NewLeaf(k)' : k \in Gained' \cap DOMAIN stored'}
    BY <1>4 DEF NotedInv
  <1>7. diff'.deletes = {OldLeaf(k)' : k \in Lost' \ DOMAIN leaves'}
    BY <1>4 DEF NotedInv
  <1>8. QED
    BY <1>3, <1>5, <1>6, <1>7

\* Of the nodes, those of one tree only are left over
LEMMA NodesNoted ==
  ASSUME DiffInv, UNCHANGED <<treeVars, walkKeys>>,
         prevNodes' \subseteq prevNodes, currNodes' \subseteq currNodes,
         IsDiff(diff'),
         diff'.adds = diff.adds, diff'.updates = diff.updates, diff'.deletes = diff.deletes,
         diff'.newLeafCids = diff.newLeafCids, RemovedRecords' = RemovedRecords,
         diff'.newMstBlocks = (newNodes \ currNodes') \ (nodes \ prevNodes'),
         diff'.removedCids \ Val = (nodes \ prevNodes') \ (newNodes \ currNodes')
  PROVE  DiffInv'
  <1>1. Lost' = Lost /\ Gained' = Gained
    BY ChangeFrame DEF Lost, Gained, treeVars, walkKeys
  <1>2. WalkInv'
    BY <1>1 DEF DiffInv, WalkInv, treeVars, walkKeys
  <1>3. QED
    BY <1>1, <1>2, SameKeysNoted DEF DiffInv, NotedInv, treeVars

LEMMA LeaveNodeKeeps ==
  ASSUME IInv, phase = "comparing", UNCHANGED treeVars, NEW n \in prevNodes, LeaveNode(n)
  PROVE  DiffInv'
  <1>1. DiffInv /\ AreNodes(nodes) /\ AreNodes(newNodes)
    BY DEF IInv, TypeOK
  <1>2. /\ IsDiff(diff') /\ diff'.adds = diff.adds /\ diff'.updates = diff.updates
        /\ diff'.deletes = diff.deletes /\ diff'.newLeafCids = diff.newLeafCids
        /\ diff'.newMstBlocks = diff.newMstBlocks \ {n}
        /\ diff'.removedCids = IF n \in diff.newMstBlocks THEN diff.removedCids
                               ELSE diff.removedCids \cup {n}
    BY <1>1, TreeDeleteKeys, TreeDeleteCids DEF LeaveNode, DiffInv, NotedInv
  <1>3. n \in nodes /\ n \notin Val /\ prevNodes' = prevNodes \ {n} /\ currNodes' = currNodes
    BY <1>1 DEF AreNodes, DiffInv, WalkInv, LeaveNode
  <1>4. RemovedRecords' = RemovedRecords
    BY <1>2, <1>3 DEF RemovedRecords
  <1>5. diff'.newMstBlocks = (newNodes \ currNodes') \ (nodes \ prevNodes')
    BY <1>1, <1>2, <1>3 DEF DiffInv, NotedInv
  <1>6. diff'.removedCids \ Val = (nodes \ prevNodes') \ (newNodes \ currNodes')
    BY <1>1, <1>2, <1>3 DEF DiffInv, NotedInv
  <1>7. QED
    BY <1>1, <1>2, <1>3, <1>4, <1>5, <1>6, NodesNoted DEF LeaveNode

LEMMA EnterNodeKeeps ==
  ASSUME IInv, phase = "comparing", UNCHANGED treeVars, NEW n \in currNodes, EnterNode(n)
  PROVE  DiffInv'
  <1>1. DiffInv /\ AreNodes(nodes) /\ AreNodes(newNodes)
    BY DEF IInv, TypeOK
  <1>2. /\ IsDiff(diff') /\ diff'.adds = diff.adds /\ diff'.updates = diff.updates
        /\ diff'.deletes = diff.deletes /\ diff'.newLeafCids = diff.newLeafCids
        /\ diff'.newMstBlocks = IF n \in diff.removedCids THEN diff.newMstBlocks
                                ELSE diff.newMstBlocks \cup {n}
        /\ diff'.removedCids = diff.removedCids \ {n}
    BY <1>1, TreeAddKeys, TreeAddCids DEF EnterNode, DiffInv, NotedInv
  <1>3. /\ n \in newNodes /\ n \notin Val
        /\ prevNodes' = prevNodes /\ currNodes' = currNodes \ {n}
    BY <1>1 DEF AreNodes, DiffInv, WalkInv, EnterNode
  <1>4. RemovedRecords' = RemovedRecords
    BY <1>2, <1>3 DEF RemovedRecords
  <1>5. n \in diff.removedCids <=> n \in nodes \ prevNodes
    BY <1>1, <1>3 DEF DiffInv, NotedInv
  <1>6. diff'.newMstBlocks = (newNodes \ currNodes') \ (nodes \ prevNodes')
    BY <1>1, <1>2, <1>3, <1>5 DEF DiffInv, NotedInv
  <1>7. diff'.removedCids \ Val = (nodes \ prevNodes') \ (newNodes \ currNodes')
    BY <1>1, <1>2, <1>3 DEF DiffInv, NotedInv
  <1>8. QED
    BY <1>1, <1>2, <1>3, <1>4, <1>6, <1>7, NodesNoted DEF EnterNode

LEMMA ReplaceNodeKeeps ==
  ASSUME IInv, phase = "comparing", UNCHANGED treeVars,
         NEW n \in prevNodes, NEW m \in currNodes, ReplaceNode(n, m)
  PROVE  DiffInv'
  <1> PICK mid : mid = TreeAdd(diff, m)
    OBVIOUS
  <1>1. DiffInv /\ AreNodes(nodes) /\ AreNodes(newNodes)
    BY DEF IInv, TypeOK
  <1>2. /\ IsDiff(mid) /\ mid.adds = diff.adds /\ mid.updates = diff.updates
        /\ mid.deletes = diff.deletes /\ mid.newLeafCids = diff.newLeafCids
        /\ mid.newMstBlocks = IF m \in diff.removedCids THEN diff.newMstBlocks
                              ELSE diff.newMstBlocks \cup {m}
        /\ mid.removedCids = diff.removedCids \ {m}
    <2>1. IsDiff(diff)
      BY <1>1 DEF DiffInv, NotedInv
    <2>2. QED
      BY <2>1, TreeAddKeys, TreeAddCids
  <1>3. diff' = TreeDelete(mid, n)
    BY DEF ReplaceNode
  <1>4. /\ IsDiff(diff') /\ diff'.adds = diff.adds /\ diff'.updates = diff.updates
        /\ diff'.deletes = diff.deletes /\ diff'.newLeafCids = diff.newLeafCids
        /\ diff'.newMstBlocks = mid.newMstBlocks \ {n}
        /\ diff'.removedCids = IF n \in mid.newMstBlocks THEN mid.removedCids
                               ELSE mid.removedCids \cup {n}
    <2>1. IsDiff(mid)
      BY <1>2
    <2>2. /\ IsDiff(diff') /\ diff'.adds = mid.adds /\ diff'.updates = mid.updates
          /\ diff'.deletes = mid.deletes
      BY <1>3, <2>1, TreeDeleteKeys
    <2>3. /\ diff'.newLeafCids = mid.newLeafCids
          /\ diff'.newMstBlocks = mid.newMstBlocks \ {n}
          /\ diff'.removedCids = IF n \in mid.newMstBlocks THEN mid.removedCids
                                 ELSE mid.removedCids \cup {n}
      BY <1>3, <2>1, TreeDeleteCids
    <2>4. QED
      BY <1>2, <2>2, <2>3
  <1>5. /\ n \in nodes /\ n \notin Val /\ m \in newNodes /\ m \notin Val /\ n # m
        /\ prevNodes' = prevNodes \ {n} /\ currNodes' = currNodes \ {m}
    BY <1>1 DEF AreNodes, DiffInv, WalkInv, ReplaceNode
  <1>6. RemovedRecords' = RemovedRecords
    BY <1>2, <1>4, <1>5 DEF RemovedRecords
  <1>7. /\ mid.newMstBlocks = (newNodes \ currNodes') \ (nodes \ prevNodes)
        /\ mid.removedCids \ Val = (nodes \ prevNodes) \ (newNodes \ currNodes')
    <2>1. m \in diff.removedCids <=> m \in nodes \ prevNodes
      BY <1>1, <1>5 DEF DiffInv, NotedInv
    <2>2. mid.newMstBlocks = (newNodes \ currNodes') \ (nodes \ prevNodes)
      BY <1>1, <1>2, <1>5, <2>1 DEF DiffInv, NotedInv
    <2>3. mid.removedCids \ Val = (nodes \ prevNodes) \ (newNodes \ currNodes')
      BY <1>1, <1>2, <1>5 DEF DiffInv, NotedInv
    <2>4. QED
      BY <2>2, <2>3
  <1>8. diff'.newMstBlocks = (newNodes \ currNodes') \ (nodes \ prevNodes')
    BY <1>4, <1>5, <1>7
  <1>9. diff'.removedCids \ Val = (nodes \ prevNodes') \ (newNodes \ currNodes')
    BY <1>1, <1>4, <1>5, <1>7 DEF DiffInv, WalkInv
  <1>10. QED
    BY <1>1, <1>4, <1>5, <1>6, <1>8, <1>9, NodesNoted DEF ReplaceNode

LEMMA PassSharedKeeps ==
  ASSUME IInv, phase = "comparing", UNCHANGED treeVars,
         NEW ns \in SUBSET (prevNodes \cap currNodes), NEW ks \in SUBSET (prevKeys \cap currKeys),
         PassShared(ns, ks)
  PROVE  DiffInv'
  <1>1. DiffInv
    BY DEF IInv
  <1>2. /\ prevNodes' = prevNodes \ ns /\ currNodes' = currNodes \ ns
        /\ prevKeys' = prevKeys \ ks /\ currKeys' = currKeys \ ks /\ diff' = diff
    BY DEF PassShared
  <1>3. \A k \in ks : ~Loses(k) /\ ~Gains(k)
    BY <1>1 DEF PassShared, Loses, Gains, DiffInv, WalkInv
  <1>4. Lost' = Lost
    BY <1>2, <1>3, ChangeFrame DEF Lost, treeVars
  <1>5. Gained' = Gained
    BY <1>2, <1>3, ChangeFrame DEF Gained, treeVars
  <1>6. WalkInv'
    <2>1. /\ prevNodes' \subseteq nodes' /\ currNodes' \subseteq newNodes'
          /\ prevKeys' \subseteq DOMAIN stored' /\ currKeys' \subseteq DOMAIN leaves'
      BY <1>1, <1>2 DEF DiffInv, WalkInv, treeVars
    <2>2. \A k \in DOMAIN stored' \cap DOMAIN leaves' : k \in prevKeys' <=> k \in currKeys'
      BY <1>1, <1>2 DEF DiffInv, WalkInv, treeVars
    <2>3. \A k \in Lost' \cup Gained' : \A j \in prevKeys' \cup currKeys' : k < j
      BY <1>1, <1>2, <1>4, <1>5 DEF DiffInv, WalkInv
    <2>4. QED
      BY <2>1, <2>2, <2>3 DEF WalkInv
  <1>7. RemovedRecords' = RemovedRecords
    BY <1>2 DEF RemovedRecords
  <1>8. ns \subseteq nodes /\ ns \subseteq newNodes
    BY <1>1 DEF DiffInv, WalkInv
  <1>9. (newNodes \ currNodes) \ (nodes \ prevNodes) =
            (newNodes \ currNodes') \ (nodes \ prevNodes')
    BY <1>2, <1>8
  <1>10. (nodes \ prevNodes) \ (newNodes \ currNodes) =
            (nodes \ prevNodes') \ (newNodes \ currNodes')
    BY <1>2, <1>8
  <1>11. QED
    BY <1>1, <1>2, <1>4, <1>5, <1>6, <1>7, <1>9, <1>10, SameKeysNoted
    DEF DiffInv, NotedInv, treeVars

\* The keys that were met so far are before the next one
LEMMA KeyMet ==
  ASSUME IInv, phase = "comparing", UNCHANGED <<treeVars, walkNodes>>,
         NEW k \in prevKeys \cup currKeys, IsNext(k),
         prevKeys' = prevKeys \ {k}, currKeys' = currKeys \ {k}
  PROVE  /\ WalkInv'
         /\ Loses(k) => Lost' = Lost \cup {k}
         /\ ~Loses(k) => Lost' = Lost
         /\ Gains(k) => Gained' = Gained \cup {k}
         /\ ~Gains(k) => Gained' = Gained
         /\ \A j \in Lost \cup Gained : j < k
         /\ k \in DOMAIN stored <=> k \in prevKeys
         /\ k \in DOMAIN leaves <=> k \in currKeys
  <1>1. WalkInv
    BY DEF IInv, DiffInv
  <1>2. \A j \in DOMAIN stored \cup DOMAIN leaves : j \in Int
    BY TableFacts DEF IInv, TypeOK
  <1>3. /\ k \in DOMAIN stored <=> k \in prevKeys
        /\ k \in DOMAIN leaves <=> k \in currKeys
    BY <1>1 DEF WalkInv
  <1>4. \A j \in Lost \cup Gained : j < k
    BY <1>1 DEF WalkInv
  <1>5. (Loses(k) => Lost' = Lost \cup {k}) /\ (~Loses(k) => Lost' = Lost)
    <2>1. Lost' = {j \in DOMAIN stored \ (prevKeys \ {k}) : Loses(j)}
      BY ChangeFrame DEF Lost, treeVars
    <2>2. QED
      BY <1>3, <2>1 DEF Lost, Loses
  <1>6. (Gains(k) => Gained' = Gained \cup {k}) /\ (~Gains(k) => Gained' = Gained)
    <2>1. Gained' = {j \in DOMAIN leaves \ (currKeys \ {k}) : Gains(j)}
      BY ChangeFrame DEF Gained, treeVars
    <2>2. QED
      BY <1>3, <2>1 DEF Gained, Gains
  <1>7. Lost' \cup Gained' \subseteq Lost \cup Gained \cup {k}
    BY <1>5, <1>6
  <1>8. /\ prevNodes' \subseteq nodes' /\ currNodes' \subseteq newNodes'
        /\ prevKeys' \subseteq DOMAIN stored' /\ currKeys' \subseteq DOMAIN leaves'
    BY <1>1 DEF WalkInv, treeVars, walkNodes
  <1>9. \A j \in DOMAIN stored' \cap DOMAIN leaves' : j \in prevKeys' <=> j \in currKeys'
    BY <1>1 DEF WalkInv, treeVars
  <1>10. \A j \in prevKeys' \cup currKeys' : k < j
    <2>1. \A j \in prevKeys \cup currKeys : k <= j /\ j \in Int
      BY <1>1, <1>2 DEF IsNext, WalkInv
    <2>2. QED
      BY <2>1
  <1>11. \A l \in Lost' \cup Gained' : \A j \in prevKeys' \cup currKeys' : l < j
    BY <1>1, <1>7, <1>10 DEF WalkInv
  <1>12. WalkInv'
    BY <1>8, <1>9, <1>11 DEF WalkInv
  <1>13. QED
    BY <1>3, <1>4, <1>5, <1>6, <1>12

LEMMA TakenStays ==
  ASSUME UNCHANGED treeVars, Lost \subseteq Lost', Gained \subseteq Gained', NEW c, Taken(c)
  PROVE  Taken(c)'
  BY DEF treeVars, Taken

LEMMA LostCidsGrow ==
  ASSUME UNCHANGED treeVars, NEW k, Lost' = Lost \cup {k}
  PROVE  LostCids' = LostCids \cup {stored[k]}
  BY DEF treeVars, LostCids

LEMMA GainedCidsGrow ==
  ASSUME UNCHANGED treeVars, NEW k, Gained' = Gained \cup {k}
  PROVE  GainedCids' = GainedCids \cup {leaves[k]}
  BY DEF treeVars, GainedCids

\* Nodes are no records
LEMMA RecordsOnly ==
  ASSUME IInv, phase = "comparing", NEW k
  PROVE  /\ k \in DOMAIN stored => stored[k] \in Val
         /\ k \in DOMAIN leaves => leaves[k] \in Val
         /\ LostCids \subseteq Val /\ GainedCids \subseteq Val
  <1>1. /\ \A j \in DOMAIN stored : stored[j] \in Val
        /\ \A j \in DOMAIN leaves : leaves[j] \in Val
    BY TableFacts DEF IInv, TypeOK
  <1>2. QED
    BY <1>1 DEF LostCids, GainedCids, Lost, Gained

\* What was noted of nodes stays as it is when a record is noted
LEMMA NodesStay ==
  ASSUME IInv, phase = "comparing", UNCHANGED <<treeVars, walkNodes>>,
         diff'.newMstBlocks = diff.newMstBlocks,
         diff'.removedCids \ Val = diff.removedCids \ Val
  PROVE  /\ diff'.newMstBlocks = (newNodes' \ currNodes') \ (nodes' \ prevNodes')
         /\ diff'.removedCids \ Val = (nodes' \ prevNodes') \ (newNodes' \ currNodes')
  BY DEF IInv, DiffInv, NotedInv, treeVars, walkNodes

LEMMA LeafFields ==
  ASSUME NEW k
  PROVE  OldLeaf(k).val = stored[k] /\ NewLeaf(k).val = leaves[k]
  BY DEF OldLeaf, NewLeaf, Leaf

LEMMA SameKeyKeeps ==
  ASSUME IInv, phase = "comparing", UNCHANGED <<treeVars, walkNodes>>,
         NEW k \in prevKeys \cup currKeys, IsNext(k), SameKey(k)
  PROVE  DiffInv'
  <1> USE DEF DiffInv
  <1>1. DiffInv
    BY DEF IInv
  <1>2. prevKeys' = prevKeys \ {k} /\ currKeys' = currKeys \ {k} /\ k \in prevKeys \cap currKeys
    BY DEF SameKey
  <1>3. /\ WalkInv'
        /\ Loses(k) => Lost' = Lost \cup {k}
        /\ ~Loses(k) => Lost' = Lost
        /\ Gains(k) => Gained' = Gained \cup {k}
        /\ ~Gains(k) => Gained' = Gained
        /\ \A j \in Lost \cup Gained : j < k
        /\ k \in DOMAIN stored /\ k \in DOMAIN leaves
    BY <1>2, KeyMet
  <1>4. CASE stored[k] = leaves[k]
    <2>1. diff' = diff
      BY <1>4 DEF SameKey
    <2>2. Lost' = Lost /\ Gained' = Gained
      BY <1>3, <1>4 DEF Loses, Gains
    <2>3. RemovedRecords' = RemovedRecords
      BY <2>1 DEF RemovedRecords
    <2>4. /\ CidInv'
          /\ diff'.adds = {NewLeaf(j)' : j \in Gained' \ DOMAIN stored'}
          /\ diff'.updates = {NewLeaf(j)' : j \in Gained' \cap DOMAIN stored'}
          /\ diff'.deletes = {OldLeaf(j)' : j \in Lost' \ DOMAIN leaves'}
      BY <1>1, <2>1, <2>2, <2>3, SameKeysNoted
    <2>5. QED
      BY <1>1, <1>3, <2>1, <2>4, NodesStay DEF NotedInv
  <1>5. CASE stored[k] # leaves[k]
    <2>1. diff' = LeafUpdate(diff, OldLeaf(k), NewLeaf(k))
      BY <1>5 DEF SameKey
    <2>2. IsDiff(diff)
      BY <1>1 DEF NotedInv
    <2>3. /\ IsDiff(diff') /\ diff'.adds = diff.adds
          /\ diff'.updates = diff.updates \cup {NewLeaf(k)} /\ diff'.deletes = diff.deletes
      BY <2>1, <2>2, LeafUpdateKeys
    <2>4. /\ diff'.newMstBlocks = diff.newMstBlocks
          /\ diff'.newLeafCids = diff.newLeafCids \cup {leaves[k]}
          /\ diff'.removedCids = diff.removedCids \cup {stored[k]}
      BY <2>1, <2>2, LeafUpdateCids, LeafFields
    <2>5. Lost' = Lost \cup {k} /\ Gained' = Gained \cup {k}
      BY <1>3, <1>5 DEF Loses, Gains
    <2>6. stored[k] \in Val /\ leaves[k] \in Val
      BY <1>3, RecordsOnly
    <2>7. RemovedRecords' = RemovedRecords \cup {stored[k]}
      BY <2>4, <2>6 DEF RemovedRecords
    <2>8. LostCids' = LostCids \cup {stored[k]} /\ GainedCids' = GainedCids \cup {leaves[k]}
      BY <2>5, LostCidsGrow, GainedCidsGrow
    <2>9. ASSUME NEW c \in GainedCids' \cap RemovedRecords' PROVE Taken(c)'
      <3>1. CASE c = leaves[k]
        <4>1. c \in LostCids'
          BY <1>1, <2>7, <2>8, <2>9 DEF CidInv
        <4>2. PICK j \in Lost' : stored[j] = c
          BY <4>1 DEF LostCids, treeVars
        <4>3. QED
          BY <1>3, <2>5, <3>1, <4>2 DEF Taken, treeVars
      <3>2. CASE c = stored[k] /\ c # leaves[k]
        <4>1. PICK l \in Gained : leaves[l] = c
          BY <2>8, <2>9, <3>2 DEF GainedCids
        <4>2. l < k
          BY <1>3
        <4>3. QED
          BY <2>5, <3>2, <4>1, <4>2 DEF Taken, treeVars
      <3>3. CASE c # stored[k] /\ c # leaves[k]
        <4>1. Taken(c)
          BY <1>1, <2>7, <2>8, <2>9, <3>3 DEF CidInv
        <4>2. QED
          BY <2>5, <4>1, TakenStays
      <3>4. QED
        BY <3>1, <3>2, <3>3
    <2>10. CidInv'
      BY <1>1, <2>4, <2>7, <2>8, <2>9 DEF CidInv
    <2>11. /\ diff'.adds = {NewLeaf(j)' : j \in Gained' \ DOMAIN stored'}
           /\ diff'.updates = {NewLeaf(j)' : j \in Gained' \cap DOMAIN stored'}
           /\ diff'.deletes = {OldLeaf(j)' : j \in Lost' \ DOMAIN leaves'}
      <3>1. \A j : NewLeaf(j)' = NewLeaf(j) /\ OldLeaf(j)' = OldLeaf(j)
        BY DEF NewLeaf, OldLeaf, treeVars
      <3>2. stored' = stored /\ leaves' = leaves
        BY DEF treeVars
      <3>3. /\ Gained' \ DOMAIN stored = Gained \ DOMAIN stored
            /\ Gained' \cap DOMAIN stored = (Gained \cap DOMAIN stored) \cup {k}
            /\ Lost' \ DOMAIN leaves = Lost \ DOMAIN leaves
        BY <1>3, <2>5
      <3>4. diff'.adds = {NewLeaf(j) : j \in Gained' \ DOMAIN stored}
        BY <1>1, <2>3, <3>3 DEF NotedInv
      <3>5. diff'.updates = {NewLeaf(j) : j \in Gained' \cap DOMAIN stored}
        BY <1>1, <2>3, <3>3 DEF NotedInv
      <3>6. diff'.deletes = {OldLeaf(j) : j \in Lost' \ DOMAIN leaves}
        BY <1>1, <2>3, <3>3 DEF NotedInv
      <3>7. QED
        BY <3>1, <3>2, <3>4, <3>5, <3>6
    <2>12. diff'.removedCids \ Val = diff.removedCids \ Val
      BY <2>4, <2>6
    <2>13. QED
      BY <1>3, <2>3, <2>4, <2>10, <2>11, <2>12, NodesStay DEF NotedInv
  <1>6. QED
    BY <1>4, <1>5

\* A key that went: its record is removed, unless it was new with an earlier key
LEMMA KeyGoneKeeps ==
  ASSUME IInv, phase = "comparing", UNCHANGED <<treeVars, walkNodes>>,
         NEW k \in prevKeys \cup currKeys, IsNext(k), KeyGone(k)
  PROVE  DiffInv'
  <1> USE DEF DiffInv
  <1>1. DiffInv /\ IsDiff(diff)
    BY DEF IInv, NotedInv
  <1>2. prevKeys' = prevKeys \ {k} /\ currKeys' = currKeys \ {k} /\ k \in prevKeys \ currKeys
    BY DEF KeyGone
  <1>3. /\ WalkInv'
        /\ Loses(k) => Lost' = Lost \cup {k}
        /\ ~Gains(k) => Gained' = Gained
        /\ \A j \in Lost \cup Gained : j < k
        /\ k \in DOMAIN stored /\ k \notin DOMAIN leaves
    BY <1>2, KeyMet
  <1>4. Lost' = Lost \cup {k} /\ Gained' = Gained
    BY <1>3 DEF Loses, Gains
  <1>5. stored[k] \in Val
    BY <1>3, RecordsOnly
  <1>6. /\ IsDiff(diff') /\ diff'.adds = diff.adds /\ diff'.updates = diff.updates
        /\ diff'.deletes = diff.deletes \cup {OldLeaf(k)}
    <2>1. CASE diff' = LeafDelete(diff, OldLeaf(k))
      BY <1>1, <2>1, LeafDeleteKeys
    <2>2. CASE diff' = LeafGone(diff, OldLeaf(k))
      BY <1>1, <2>2, LeafGoneKeys
    <2>3. QED
      BY <2>1, <2>2 DEF KeyGone
  <1>7. /\ diff'.newMstBlocks = diff.newMstBlocks
        /\ \/ /\ stored[k] \in diff.newLeafCids
              /\ diff'.newLeafCids = diff.newLeafCids \ {stored[k]}
              /\ diff'.removedCids = diff.removedCids
           \/ /\ diff'.newLeafCids = diff.newLeafCids
              /\ diff'.removedCids = diff.removedCids \cup {stored[k]}
    <2>1. CASE diff' = LeafDelete(diff, OldLeaf(k))
      <3>1. /\ diff'.newMstBlocks = diff.newMstBlocks
            /\ diff'.newLeafCids = diff.newLeafCids \ {stored[k]}
            /\ diff'.removedCids = IF stored[k] \in diff.newLeafCids THEN diff.removedCids
                                   ELSE diff.removedCids \cup {stored[k]}
        <4>1. /\ diff'.newMstBlocks = diff.newMstBlocks
              /\ diff'.newLeafCids = diff.newLeafCids \ {OldLeaf(k).val}
              /\ diff'.removedCids =
                    IF OldLeaf(k).val \in diff.newLeafCids THEN diff.removedCids
                    ELSE diff.removedCids \cup {OldLeaf(k).val}
          BY <1>1, <2>1, LeafDeleteCids
        <4>2. OldLeaf(k).val = stored[k]
          BY LeafFields
        <4>3. QED
          BY <4>1, <4>2
      <3>2. CASE stored[k] \in diff.newLeafCids
        BY <3>1, <3>2
      <3>3. CASE stored[k] \notin diff.newLeafCids
        <4>1. diff'.newLeafCids = diff.newLeafCids
          BY <3>1, <3>3
        <4>2. QED
          BY <3>1, <3>3, <4>1
      <3>4. QED
        BY <3>2, <3>3
    <2>2. CASE diff' = LeafGone(diff, OldLeaf(k))
      BY <1>1, <2>2, LeafGoneCids, LeafFields
    <2>3. QED
      BY <2>1, <2>2 DEF KeyGone
  <1>8. LostCids' = LostCids \cup {stored[k]} /\ GainedCids' = GainedCids
    <2>1. GainedCids' = GainedCids
      BY <1>4 DEF GainedCids, treeVars
    <2>2. QED
      BY <1>4, <2>1, LostCidsGrow
  <1>9. /\ RemovedRecords' \subseteq RemovedRecords \cup {stored[k]}
        /\ RemovedRecords \subseteq RemovedRecords'
        /\ stored[k] \in RemovedRecords' \/ stored[k] \in diff.newLeafCids
        /\ diff'.newLeafCids \subseteq diff.newLeafCids
        /\ diff.newLeafCids \subseteq diff'.newLeafCids \cup {stored[k]}
    BY <1>5, <1>7 DEF RemovedRecords
  <1>10. ASSUME NEW c \in GainedCids' \cap RemovedRecords' PROVE Taken(c)'
    <2>1. CASE c = stored[k]
      <3>1. PICK l \in Gained : leaves[l] = c
        BY <1>8, <1>10 DEF GainedCids
      <3>2. l < k
        BY <1>3
      <3>3. QED
        BY <1>4, <2>1, <3>1, <3>2 DEF Taken, treeVars
    <2>2. CASE c # stored[k]
      <3>1. Taken(c)
        BY <1>1, <1>8, <1>9, <1>10, <2>2 DEF CidInv
      <3>2. QED
        BY <1>4, <3>1, TakenStays
    <2>3. QED
      BY <2>1, <2>2
  <1>11. CidInv'
    BY <1>1, <1>8, <1>9, <1>10 DEF CidInv
  <1>12. /\ diff'.adds = {NewLeaf(j)' : j \in Gained' \ DOMAIN stored'}
         /\ diff'.updates = {NewLeaf(j)' : j \in Gained' \cap DOMAIN stored'}
         /\ diff'.deletes = {OldLeaf(j)' : j \in Lost' \ DOMAIN leaves'}
    <2>1. \A j : NewLeaf(j)' = NewLeaf(j) /\ OldLeaf(j)' = OldLeaf(j)
      BY DEF NewLeaf, OldLeaf, treeVars
    <2>2. stored' = stored /\ leaves' = leaves
      BY DEF treeVars
    <2>3. Lost' \ DOMAIN leaves = (Lost \ DOMAIN leaves) \cup {k}
      BY <1>3, <1>4
    <2>4. diff'.adds = {NewLeaf(j) : j \in Gained' \ DOMAIN stored}
      BY <1>1, <1>4, <1>6 DEF NotedInv
    <2>5. diff'.updates = {NewLeaf(j) : j \in Gained' \cap DOMAIN stored}
      BY <1>1, <1>4, <1>6 DEF NotedInv
    <2>6. diff'.deletes = {OldLeaf(j) : j \in Lost' \ DOMAIN leaves}
      BY <1>1, <1>6, <2>3 DEF NotedInv
    <2>7. QED
      BY <2>1, <2>2, <2>4, <2>5, <2>6
  <1>13. diff'.removedCids \ Val = diff.removedCids \ Val
    BY <1>5, <1>7
  <1>14. QED
    BY <1>3, <1>6, <1>7, <1>11, <1>12, <1>13, NodesStay DEF NotedInv

\* A key that came: its record is new, unless an earlier key lost it
LEMMA KeyCameKeeps ==
  ASSUME IInv, phase = "comparing", UNCHANGED <<treeVars, walkNodes>>,
         NEW k \in prevKeys \cup currKeys, IsNext(k), KeyCame(k)
  PROVE  DiffInv'
  <1> USE DEF DiffInv
  <1>1. DiffInv /\ IsDiff(diff)
    BY DEF IInv, NotedInv
  <1>2. prevKeys' = prevKeys \ {k} /\ currKeys' = currKeys \ {k} /\ k \in currKeys \ prevKeys
    BY DEF KeyCame
  <1>3. /\ WalkInv'
        /\ ~Loses(k) => Lost' = Lost
        /\ Gains(k) => Gained' = Gained \cup {k}
        /\ k \notin DOMAIN stored /\ k \in DOMAIN leaves
    BY <1>2, KeyMet
  <1>4. Lost' = Lost /\ Gained' = Gained \cup {k}
    BY <1>3 DEF Loses, Gains
  <1>5. leaves[k] \in Val
    BY <1>3, RecordsOnly
  <1>6. diff' = LeafAdd(diff, NewLeaf(k))
    BY DEF KeyCame
  <1>7. /\ IsDiff(diff') /\ diff'.adds = diff.adds \cup {NewLeaf(k)}
        /\ diff'.updates = diff.updates /\ diff'.deletes = diff.deletes
    BY <1>1, <1>6, LeafAddKeys
  <1>8. /\ diff'.newMstBlocks = diff.newMstBlocks
        /\ diff'.newLeafCids = IF leaves[k] \in diff.removedCids THEN diff.newLeafCids
                               ELSE diff.newLeafCids \cup {leaves[k]}
        /\ diff'.removedCids = diff.removedCids \ {leaves[k]}
    <2>1. /\ diff'.newMstBlocks = diff.newMstBlocks
          /\ diff'.newLeafCids = IF NewLeaf(k).val \in diff.removedCids THEN diff.newLeafCids
                                 ELSE diff.newLeafCids \cup {NewLeaf(k).val}
          /\ diff'.removedCids = diff.removedCids \ {NewLeaf(k).val}
      BY <1>1, <1>6, LeafAddCids
    <2>2. NewLeaf(k).val = leaves[k]
      BY LeafFields
    <2>3. QED
      BY <2>1, <2>2
  <1>9. LostCids' = LostCids /\ GainedCids' = GainedCids \cup {leaves[k]}
    <2>1. LostCids' = LostCids
      BY <1>4 DEF LostCids, treeVars
    <2>2. QED
      BY <1>4, <2>1, GainedCidsGrow
  <1>10. /\ RemovedRecords' = RemovedRecords \ {leaves[k]}
         /\ diff'.newLeafCids \subseteq diff.newLeafCids \cup {leaves[k]}
         /\ diff.newLeafCids \subseteq diff'.newLeafCids
         /\ leaves[k] \in diff'.newLeafCids \/ leaves[k] \in RemovedRecords
    BY <1>5, <1>8 DEF RemovedRecords
  <1>11. ASSUME NEW c \in GainedCids' \cap RemovedRecords' PROVE Taken(c)'
    <2>1. Taken(c)
      BY <1>1, <1>9, <1>10, <1>11 DEF CidInv
    <2>2. QED
      BY <1>4, <2>1, TakenStays
  <1>12. CidInv'
    BY <1>1, <1>9, <1>10, <1>11 DEF CidInv
  <1>13. /\ diff'.adds = {NewLeaf(j)' : j \in Gained' \ DOMAIN stored'}
         /\ diff'.updates = {NewLeaf(j)' : j \in Gained' \cap DOMAIN stored'}
         /\ diff'.deletes = {OldLeaf(j)' : j \in Lost' \ DOMAIN leaves'}
    <2>1. \A j : NewLeaf(j)' = NewLeaf(j) /\ OldLeaf(j)' = OldLeaf(j)
      BY DEF NewLeaf, OldLeaf, treeVars
    <2>2. stored' = stored /\ leaves' = leaves
      BY DEF treeVars
    <2>3. /\ Gained' \ DOMAIN stored = (Gained \ DOMAIN stored) \cup {k}
          /\ Gained' \cap DOMAIN stored = Gained \cap DOMAIN stored
      BY <1>3, <1>4
    <2>4. diff'.adds = {NewLeaf(j) : j \in Gained' \ DOMAIN stored}
      BY <1>1, <1>7, <2>3 DEF NotedInv
    <2>5. diff'.updates = {NewLeaf(j) : j \in Gained' \cap DOMAIN stored}
      BY <1>1, <1>7, <2>3 DEF NotedInv
    <2>6. diff'.deletes = {OldLeaf(j) : j \in Lost' \ DOMAIN leaves}
      BY <1>1, <1>4, <1>7 DEF NotedInv
    <2>7. QED
      BY <2>1, <2>2, <2>4, <2>5, <2>6
  <1>14. diff'.removedCids \ Val = diff.removedCids \ Val
    BY <1>5, <1>8
  <1>15. QED
    BY <1>3, <1>7, <1>8, <1>12, <1>13, <1>14, NodesStay DEF NotedInv

LEMMA CompareKeeps == IInv /\ Compare => IInv'
  <1> SUFFICES ASSUME IInv, Compare PROVE IInv'
    OBVIOUS
  <1>1. phase = "comparing" /\ UNCHANGED <<phase, storeVars, writes, treeVars, indexed>>
    BY DEF Compare
  <1>2. ASSUME NEW k \in prevKeys \cup currKeys, MeetKey(k) PROVE DiffInv'
    <2>1. UNCHANGED <<treeVars, walkNodes>> /\ IsNext(k)
      BY <1>1, <1>2 DEF MeetKey
    <2>2. CASE SameKey(k)
      <3>1. k \in prevKeys \cap currKeys
        BY <2>2 DEF SameKey
      <3>2. QED
        BY <1>1, <2>1, <2>2, <3>1, SameKeyKeeps
    <2>3. CASE KeyGone(k)
      BY <1>1, <2>1, <2>3, KeyGoneKeeps
    <2>4. CASE KeyCame(k)
      BY <1>1, <2>1, <2>4, KeyCameKeeps
    <2>5. QED
      BY <1>2, <2>2, <2>3, <2>4 DEF MeetKey
  <1>3. ASSUME NEW n \in prevNodes, LeaveNode(n) PROVE DiffInv'
    BY <1>1, <1>3, LeaveNodeKeeps
  <1>4. ASSUME NEW n \in currNodes, EnterNode(n) PROVE DiffInv'
    BY <1>1, <1>4, EnterNodeKeeps
  <1>5. ASSUME NEW n \in prevNodes, NEW m \in currNodes, ReplaceNode(n, m) PROVE DiffInv'
    BY <1>1, <1>5, ReplaceNodeKeeps
  <1>6. ASSUME NEW ns \in SUBSET (prevNodes \cap currNodes),
               NEW ks \in SUBSET (prevKeys \cap currKeys), PassShared(ns, ks)
        PROVE  DiffInv'
    BY <1>1, <1>6, PassSharedKeeps
  <1>7. DiffInv'
    BY <1>2, <1>3, <1>4, <1>5, <1>6 DEF Compare
  <1>8. QED
    BY <1>1, <1>7, CompareFrame

-----------------------------------------------------------------------------
(* The end of a commit *)

\* What a comparison that is over has noted
LEMMA AllNoted ==
  ASSUME IInv, Compared
  PROVE  /\ diff.newMstBlocks = newNodes \ nodes
         /\ diff.removedCids \ Val = nodes \ newNodes
         /\ \A k : k \in Lost <=> Loses(k)
         /\ \A k : k \in Gained <=> Gains(k)
         /\ CidInv
  BY DEF IInv, DiffInv, NotedInv, Compared, Lost, Gained, Loses, Gains

\* A removed record that was taken is one that moved among the written keys
LEMMA TakenMoved ==
  ASSUME IInv, Compared, NEW c, Taken(c)
  PROVE  Moved(stored, leaves)
  <1>1. PICK l \in Gained, j \in Lost :
            leaves[l] = c /\ stored[j] = c /\ (l \in DOMAIN stored \/ l < j)
    BY DEF Taken
  <1>2. Loses(j) /\ Gains(l)
    BY <1>1, AllNoted
  <1>3. DOMAIN leaves \subseteq Key
    BY TableFacts DEF IInv, TypeOK
  <1>4. l \in DOMAIN leaves \cap Written
    BY <1>2, <1>3 DEF IInv, WritesInv, Compared, Gains
  <1>5. QED
    BY <1>1, <1>2, <1>4 DEF Moved, Loses

\* The records that are removed and no others; no record that stays is one of them
LEMMA CommitRecords ==
  ASSUME IInv, Compared, ~Moved(stored, leaves), NEW c \in Val,
         NEW dups, dups = GetDuplicateRecordCids(diff.removedCids, DelAndUpdate)
  PROVE  c \in Range(leaves) <=>
            /\ c \in diff.newLeafCids \/ c \in Range(stored)
            /\ ~(c \in diff.removedCids /\ c \notin dups)
  <1>1. /\ CidInv
        /\ \A k : k \in Lost <=> Loses(k)
        /\ \A k : k \in Gained <=> Gains(k)
    BY AllNoted
  <1>2. WritesInv /\ records = stored
    BY DEF IInv, Compared, RecordsMatchTree
  <1>3. DOMAIN stored \subseteq Key /\ DOMAIN leaves \subseteq Key
    BY TableFacts DEF IInv, TypeOK
  <1>4. DelAndUpdate \subseteq Written
    BY DEF DelAndUpdate, Written
  <1>5. ~Taken(c)
    BY TakenMoved
  <1>6. c \in RemovedRecords <=> c \in diff.removedCids
    BY DEF RemovedRecords
  <1>7. ASSUME c \in Range(leaves), NEW l \in DOMAIN leaves, leaves[l] = c
        PROVE  /\ c \in diff.newLeafCids \/ c \in Range(stored)
               /\ c \in diff.removedCids => c \in dups
    <2>1. CASE Gains(l)
      <3>1. c \in GainedCids
        BY <1>1, <1>7, <2>1 DEF GainedCids
      <3>2. LostCids \subseteq Range(stored)
        BY DEF LostCids, Lost, Range
      <3>3. QED
        BY <1>1, <1>5, <1>6, <3>1, <3>2 DEF CidInv
    <2>2. CASE ~Gains(l)
      <3>1. l \in DOMAIN stored /\ stored[l] = c
        BY <1>7, <2>2 DEF Gains
      <3>2. c \in Range(stored)
        BY <3>1 DEF Range
      <3>3. ASSUME c \in diff.removedCids PROVE c \in dups
        <4>1. c \in LostCids
          BY <1>1, <1>6, <3>3 DEF CidInv
        <4>2. PICK j \in Lost : stored[j] = c
          BY <4>1 DEF LostCids
        <4>3. Loses(j) /\ j \in DOMAIN stored
          BY <1>1, <4>2 DEF Lost
        <4>4. DelAndUpdate # {}
          BY <1>2, <1>3, <4>3 DEF WritesInv
        <4>5. l \notin DelAndUpdate
          <5>1. SUFFICES ASSUME l \in DelAndUpdate PROVE FALSE
            OBVIOUS
          <5>2. l \in DOMAIN leaves \cap Written
            BY <1>4, <1>7, <5>1
          <5>3. j \notin DOMAIN leaves \/ leaves[j] # stored[j]
            BY <4>3 DEF Loses
          <5>4. Moved(stored, leaves)
            BY <1>7, <3>1, <4>2, <4>3, <5>2, <5>3 DEF Moved
          <5>5. QED
            BY <5>4
        <4>6. l \in DOMAIN records \ DelAndUpdate /\ records[l] = c
          BY <1>2, <3>1, <4>5
        <4>7. QED
          BY <3>3, <4>4, <4>6 DEF GetDuplicateRecordCids
      <3>4. QED
        BY <3>2, <3>3
    <2>3. QED
      BY <2>1, <2>2
  <1>8. ASSUME c \in diff.newLeafCids \/ c \in Range(stored),
               c \in diff.removedCids => c \in dups
        PROVE  c \in Range(leaves)
    <2>1. GainedCids \subseteq Range(leaves)
      BY DEF GainedCids, Gained, Range
    <2>2. CASE c \in diff.newLeafCids
      BY <1>1, <2>1, <2>2 DEF CidInv
    <2>3. CASE c \in Range(stored)
      <3>1. PICK k \in DOMAIN stored : stored[k] = c
        BY <2>3 DEF Range
      <3>2. CASE ~Loses(k)
        <4>1. k \in DOMAIN leaves /\ leaves[k] = c
          BY <3>1, <3>2 DEF Loses
        <4>2. QED
          BY <4>1 DEF Range
      <3>3. CASE Loses(k)
        <4>1. c \in LostCids
          BY <1>1, <3>1, <3>3 DEF LostCids
        <4>2. CASE c \in GainedCids
          BY <2>1, <4>2
        <4>3. CASE c \in RemovedRecords
          <5>1. c \in dups
            BY <1>6, <1>8, <4>3
          <5>2. PICK l \in DOMAIN records \ DelAndUpdate : records[l] = c
            BY <5>1 DEF GetDuplicateRecordCids
          <5>3. ~Loses(l)
            BY <1>2, <1>3, <5>2 DEF WritesInv
          <5>4. l \in DOMAIN leaves /\ leaves[l] = c
            BY <1>2, <5>2, <5>3 DEF Loses
          <5>5. QED
            BY <5>4 DEF Range
        <4>4. QED
          BY <1>1, <4>1, <4>2, <4>3 DEF CidInv
      <3>4. QED
        BY <3>2, <3>3
    <2>4. QED
      BY <1>8, <2>2, <2>3
  <1>9. c \in Range(leaves) => \E l \in DOMAIN leaves : leaves[l] = c
    BY DEF Range
  <1>10. QED
    BY <1>7, <1>8, <1>9

\* What a commit leaves stored
LEMMA CommitBlocks ==
  ASSUME IInv, Commit, ~moved'
  PROVE  /\ DOMAIN blocks' = newNodes \cup Range(leaves)
         /\ DOMAIN blocks = nodes \cup Range(stored)
         /\ ~moved
  <1> DEFINE dups == GetDuplicateRecordCids(diff.removedCids, DelAndUpdate)
             put == diff.newMstBlocks \cup diff.newLeafCids
             removed == diff.removedCids \ dups
  <1>1. Compared /\ indexed = leaves /\ records = stored
    BY DEF Commit, Compared, IInv, WritesInv, RecordsMatchTree
  <1>2. ~moved /\ ~Moved(stored, leaves)
    BY <1>1 DEF Commit, StoreCommit
  <1>3. DOMAIN blocks = nodes \cup Range(stored)
    BY <1>2 DEF IInv, StoreInv
  <1>4. blocks' = ApplyCommit(put, removed)
    BY DEF Commit, StoreCommit
  <1> HIDE DEF put, removed
  <1>5. DOMAIN blocks' = (put \cup DOMAIN blocks) \ removed
    BY <1>4 DEF ApplyCommit
  <1>6. /\ diff.newMstBlocks = newNodes \ nodes
        /\ diff.removedCids \ Val = nodes \ newNodes
        /\ CidInv
    BY <1>1, AllNoted
  <1>7. nodes \cap Val = {} /\ newNodes \cap Val = {}
    BY DEF IInv, TypeOK, AreNodes
  <1>8. Range(stored) \subseteq Val /\ Range(leaves) \subseteq Val
    BY TableFacts DEF IInv, TypeOK
  <1>9. diff.newLeafCids \subseteq Val
    <2>1. GainedCids \subseteq Range(leaves)
      BY DEF GainedCids, Gained, Range
    <2>2. QED
      BY <1>6, <1>8, <2>1 DEF CidInv
  <1>10. dups \subseteq Val
    BY <1>1, <1>8 DEF GetDuplicateRecordCids, Range
  <1>11. ASSUME NEW c, c \notin Val
         PROVE  c \in DOMAIN blocks' <=> c \in newNodes \cup Range(leaves)
    <2>1. c \in put <=> c \in newNodes \ nodes
      BY <1>6, <1>9, <1>11 DEF put
    <2>2. c \in removed <=> c \in nodes \ newNodes
      BY <1>6, <1>10, <1>11 DEF removed
    <2>3. QED
      BY <1>3, <1>5, <1>8, <1>11, <2>1, <2>2
  <1>12. ASSUME NEW c \in Val
         PROVE  c \in DOMAIN blocks' <=> c \in newNodes \cup Range(leaves)
    <2>1. c \in put <=> c \in diff.newLeafCids
      BY <1>6, <1>7 DEF put
    <2>2. c \in removed <=> c \in diff.removedCids /\ c \notin dups
      BY DEF removed
    <2>3. c \in Range(leaves) <=>
             /\ c \in diff.newLeafCids \/ c \in Range(stored)
             /\ ~(c \in diff.removedCids /\ c \notin dups)
      BY <1>1, <1>2, CommitRecords
    <2>4. QED
      BY <1>3, <1>5, <1>7, <2>1, <2>2, <2>3
  <1>13. DOMAIN blocks' = newNodes \cup Range(leaves)
    BY <1>11, <1>12
  <1>14. QED
    BY <1>2, <1>3, <1>13

LEMMA CommitTypes == IInv /\ Commit => TypeOK'
  <1> SUFFICES ASSUME IInv, Commit PROVE TypeOK'
    OBVIOUS
  <1>1. /\ phase' = "idle" /\ records' = indexed /\ stored' = leaves /\ leaves' = leaves
        /\ indexed' = indexed /\ nodes' = newNodes /\ newNodes' = newNodes
        /\ rev' = rev + 1 /\ writes' = <<>> /\ moved' = (moved \/ Moved(records, indexed))
    BY DEF Commit, StoreCommit
  <1>2. blocks' \in [DOMAIN blocks' -> 0 .. rev']
    <2>1. PICK put, removed : blocks' = ApplyCommit(put, removed)
      BY DEF Commit, StoreCommit
    <2>2. /\ DOMAIN blocks' = (put \cup DOMAIN blocks) \ removed
          /\ blocks' = [c \in DOMAIN blocks' |->
                            IF c \in DOMAIN blocks THEN blocks[c] ELSE rev + 1]
      BY <2>1 DEF ApplyCommit
    <2>3. rev \in Nat /\ \A c \in DOMAIN blocks : blocks[c] \in 0 .. rev
      BY DEF IInv, TypeOK
    <2>4. \A c \in DOMAIN blocks' :
             (IF c \in DOMAIN blocks THEN blocks[c] ELSE rev + 1) \in 0 .. rev'
      BY <1>1, <2>3
    <2>5. QED
      BY <2>2, <2>4
  <1>3. DOMAIN history' = 0 .. rev'
    BY <1>1 DEF Commit, StoreCommit
  <1>4. moved' \in BOOLEAN
    BY <1>1, Zenon DEF Moved, IInv, TypeOK
  <1>5. QED
    BY <1>1, <1>2, <1>3, <1>4 DEF IInv, TypeOK

LEMMA CommitKeeps == IInv /\ Commit => IInv'
  <1> SUFFICES ASSUME IInv, Commit PROVE IInv'
    OBVIOUS
  <1>1. TypeOK'
    BY CommitTypes
  <1>2. Compared /\ indexed = leaves /\ WritesInv /\ CidInv /\ rev \in Nat
    BY AllNoted DEF Commit, Compared, IInv, WritesInv, TypeOK
  <1>3. /\ phase' = "idle" /\ records' = indexed /\ stored' = leaves /\ nodes' = newNodes
        /\ rev' = rev + 1
        /\ history' = [n \in 0 .. rev + 1 |->
                          IF n <= rev THEN history[n] ELSE newNodes \cup Range(leaves)]
        /\ event' = [set |-> {indexed[k] : k \in Written \cap DOMAIN indexed},
                     records |-> RelevantRecords(NewRecordCids)]
    BY DEF Commit, StoreCommit
  <1>4. RecordsMatchTree'
    BY <1>2, <1>3 DEF RecordsMatchTree
  <1>5. /\ history'[rev'] = nodes' \cup Range(stored')
        /\ \A n \in 0 .. rev : history'[n] = history[n]
    BY <1>2, <1>3
  <1>6. ASSUME ~moved' PROVE DOMAIN blocks' = history'[rev']
    BY <1>3, <1>5, <1>6, CommitBlocks
  <1>7. ASSUME ~moved' PROVE AgeInv'
    <2>1. AgeInv
      BY <1>7, CommitBlocks DEF IInv, StoreInv
    <2>2. PICK put, removed : blocks' = ApplyCommit(put, removed)
      BY DEF Commit, StoreCommit
    <2>3. \A c \in DOMAIN blocks' :
             blocks'[c] = IF c \in DOMAIN blocks THEN blocks[c] ELSE rev + 1
      BY <2>2 DEF ApplyCommit
    <2>4. SUFFICES ASSUME NEW c \in DOMAIN blocks', NEW n \in 0 .. rev', blocks'[c] <= n
                   PROVE  c \in history'[n]
      BY DEF AgeInv
    <2>5. CASE n = rev'
      BY <1>6, <1>7, <2>5
    <2>6. CASE n # rev'
      <3>1. n \in 0 .. rev
        BY <1>2, <1>3, <2>6
      <3>2. c \in DOMAIN blocks /\ blocks[c] <= n
        BY <1>2, <2>3, <2>4, <3>1
      <3>3. QED
        BY <1>5, <2>1, <3>1, <3>2 DEF AgeInv
    <2>7. QED
      BY <2>5, <2>6
  <1>8. EventHasRecords'
    <2> SUFFICES ASSUME ~moved', NEW c \in event'.set PROVE c \in event'.records
      BY DEF EventHasRecords
    <2>1. PICK k \in Written \cap DOMAIN leaves : leaves[k] = c
      BY <1>2, <1>3
    <2>2. c \in NewRecordCids
      BY <1>2, <2>1 DEF WritesInv
    <2>3. DOMAIN blocks = nodes \cup Range(stored)
      BY CommitBlocks
    <2>4. c \in diff.newLeafCids \cup Range(stored)
      <3>1. CASE Gains(k)
        <4>1. c \in GainedCids
          BY <1>2, <2>1, <3>1, AllNoted DEF GainedCids
        <4>2. LostCids \subseteq Range(stored)
          BY DEF LostCids, Lost, Range
        <4>3. QED
          BY <1>2, <4>1, <4>2 DEF CidInv
      <3>2. CASE ~Gains(k)
        <4>1. k \in DOMAIN stored /\ stored[k] = c
          BY <2>1, <3>2 DEF Gains
        <4>2. QED
          BY <4>1 DEF Range
      <3>3. QED
        BY <3>1, <3>2
    <2>5. QED
      BY <1>3, <2>2, <2>3, <2>4 DEF RelevantRecords
  <1>9. StoreInv'
    BY <1>5, <1>6, <1>7, <1>8 DEF StoreInv
  <1>10. QED
    BY <1>1, <1>3, <1>4, <1>9 DEF IInv

LEMMA StutterKeeps == IInv /\ UNCHANGED vars => IInv'
  <1> SUFFICES ASSUME IInv, UNCHANGED vars PROVE IInv'
    OBVIOUS
  <1> USE DEF vars, storeVars, treeVars, walkVars, walkNodes, walkKeys
  <1>1. TypeOK' /\ RecordsMatchTree' /\ StoreInv'
    BY StoreFrame DEF IInv, TypeOK, RecordsMatchTree
  <1>2. phase' # "idle" => WritesInv'
    BY DEF IInv, WritesInv, Loses, Gains, DelAndUpdate, Written, NewRecordCids, WriteSet
  <1>3. ASSUME phase' = "comparing" PROVE DiffInv'
    <2>1. DiffInv
      BY <1>3 DEF IInv
    <2>2. Lost' = Lost /\ Gained' = Gained
      BY DEF Lost, Gained, Loses, Gains
    <2>3. WalkInv'
      BY <2>1, <2>2 DEF DiffInv, WalkInv
    <2>4. RemovedRecords' = RemovedRecords
      BY DEF RemovedRecords
    <2>5. QED
      BY <2>1, <2>2, <2>3, <2>4, SameKeysNoted DEF DiffInv, NotedInv
  <1>4. QED
    BY <1>1, <1>2, <1>3 DEF IInv

LEMMA NextKeeps == IInv /\ [Next]_vars => IInv'
  <1> SUFFICES ASSUME IInv, [Next]_vars PROVE IInv'
    OBVIOUS
  <1>1. CASE Start
    BY <1>1, StartKeeps
  <1>2. CASE /\ phase = "writing"
             /\ \E k \in Key : \/ \E v \in Val : Create(k, v) \/ UpdateRecord(k, v)
                               \/ DeleteRecord(k)
    BY <1>2, WriteKeeps
  <1>3. CASE StartDiff
    BY <1>3, StartDiffKeeps
  <1>4. CASE Compare
    BY <1>4, CompareKeeps
  <1>5. CASE Commit
    BY <1>5, CommitKeeps
  <1>6. CASE UNCHANGED vars
    BY <1>6, StutterKeeps
  <1>7. QED
    BY <1>1, <1>2, <1>3, <1>4, <1>5, <1>6 DEF Next

-----------------------------------------------------------------------------
(* Theorems *)

\* What a comparison has noted and what is stored stand as IInv says in every state,
\* whatever writes, trees and orders of comparing.
THEOREM Invariance == Spec => []IInv
  BY Initially, NextKeeps, PTL DEF Spec

\* Every variable has its type: above all the three tables of records, whatever
\* was created, updated and deleted in however many writes of a commit.
THEOREM TypeCorrect == Spec => []TypeOK
  <1>1. IInv => TypeOK
    BY DEF IInv
  <1>2. QED
    BY <1>1, Invariance, PTL

LEMMA LeafIsItself ==
  ASSUME NEW k, NEW v, NEW j, NEW w
  PROVE  Leaf(k, v).key = k /\ (Leaf(k, v) = Leaf(j, w) <=> k = j /\ v = w)
  BY DEF Leaf

LEMMA KeysOfLeaves ==
  ASSUME NEW table
  PROVE  {l.key : l \in LeavesOf(table)} = DOMAIN table
  <1>1. \A k \in DOMAIN table : Leaf(k, table[k]) \in LeavesOf(table)
    BY DEF LeavesOf
  <1>2. \A l \in LeavesOf(table) : \E k \in DOMAIN table : l = Leaf(k, table[k])
    BY DEF LeavesOf
  <1>3. QED
    BY <1>1, <1>2, LeafIsItself

LEMMA DiffTells == IInv => DiffIsExact
  <1> SUFFICES ASSUME IInv, Compared
               PROVE  IsExact(diff, LeavesOf(stored), LeavesOf(leaves), nodes, newNodes)
    BY DEF DiffIsExact
  <1>1. /\ diff.newMstBlocks = newNodes \ nodes
        /\ diff.removedCids \ Val = nodes \ newNodes
        /\ \A k : k \in Lost <=> Loses(k)
        /\ \A k : k \in Gained <=> Gains(k)
    BY AllNoted
  <1>2. NotedInv
    BY DEF Compared, IInv, DiffInv
  <1>3. diff.adds = {l \in LeavesOf(leaves) : l.key \notin DOMAIN stored}
    <2>1. diff.adds = {Leaf(k, leaves[k]) : k \in DOMAIN leaves \ DOMAIN stored}
      BY <1>1, <1>2 DEF NotedInv, NewLeaf, Gains
    <2>2. QED
      BY <2>1, LeafIsItself DEF LeavesOf
  <1>4. diff.deletes = {l \in LeavesOf(stored) : l.key \notin DOMAIN leaves}
    <2>1. diff.deletes = {Leaf(k, stored[k]) : k \in DOMAIN stored \ DOMAIN leaves}
      BY <1>1, <1>2 DEF NotedInv, OldLeaf, Loses
    <2>2. QED
      BY <2>1, LeafIsItself DEF LeavesOf
  <1>5. diff.updates = {l \in LeavesOf(leaves) \ LeavesOf(stored) : l.key \in DOMAIN stored}
    <2>1. ASSUME NEW l
          PROVE  l \in diff.updates <=>
                    \E k \in DOMAIN leaves \cap DOMAIN stored :
                        l = Leaf(k, leaves[k]) /\ leaves[k] # stored[k]
      BY <1>1, <1>2 DEF NotedInv, NewLeaf, Gains
    <2>2. ASSUME NEW k \in DOMAIN leaves \cap DOMAIN stored
          PROVE  Leaf(k, leaves[k]) \in LeavesOf(stored) <=> leaves[k] = stored[k]
      BY LeafIsItself DEF LeavesOf
    <2>3. QED
      BY <2>1, <2>2, LeafIsItself DEF LeavesOf
  <1>6. QED
    BY <1>1, <1>3, <1>4, <1>5, KeysOfLeaves DEF IsExact

\* However a comparison comes upon the nodes and keys of two trees and cancels
\* out what came and went, it tells in the end exactly the keys added, updated
\* and deleted and the nodes that are new and that are gone.
THEOREM DiffExact == Spec => []DiffIsExact
  BY DiffTells, Invariance, PTL

\* No commit leaves a block of the repository unstored or a block stored that the
\* repository does not refer to, as long as no commit has moved a record among the
\* keys that it writes.
THEOREM StoreExact == Spec => []StoreIsExact
  <1>1. IInv => StoreIsExact
    BY DEF IInv, StoreInv, StoreIsExact
  <1>2. QED
    BY <1>1, Invariance, PTL

\* The blocks stored after a revision complete the repository for a consumer that
\* has that revision, for every revision of the past.
THEOREM SinceComplete == Spec => []SinceSuffices
  <1>1. IInv => SinceSuffices
    <2> SUFFICES ASSUME IInv, ~moved, NEW n \in DOMAIN history, NEW c \in history[rev],
                        c \notin history[n]
                 PROVE  c \in DOMAIN blocks /\ blocks[c] > n
      BY DEF SinceSuffices
    <2>1. DOMAIN blocks = history[rev] /\ AgeInv
      BY DEF IInv, StoreInv
    <2>2. n \in 0 .. rev /\ rev \in Nat /\ \A b \in DOMAIN blocks : blocks[b] \in 0 .. rev
      BY DEF IInv, TypeOK
    <2>3. ~(blocks[c] <= n)
      BY <2>1, <2>2 DEF AgeInv
    <2>4. QED
      BY <2>1, <2>2, <2>3
  <1>2. QED
    BY <1>1, Invariance, PTL

\* The event of a commit carries every record that the commit set, also one that
\* is not new to the repository.
THEOREM EventComplete == Spec => []EventHasRecords
  <1>1. IInv => EventHasRecords
    BY DEF IInv, StoreInv
  <1>2. QED
    BY <1>1, Invariance, PTL

=============================================================================
