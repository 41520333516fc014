---------------------------- MODULE OutboxProofs ----------------------------
(***************************************************************************)
(* Proofs about the sequencer and the outbox, for every value of the       *)
(* constants: the inductive invariant IInv, and from it TypeOK, InOrder,   *)
(* NoGap, NothingStale, PollNeverSkips and the refinement of EventStream.  *)
(***************************************************************************)
EXTENDS Outbox, FiniteSetTheorems, TLAPS

-----------------------------------------------------------------------------
(* The inductive invariant *)

\* The log: keys are unique and below nextSeq
LogInv ==
    /\ IsFiniteSet(repoSeq)
    /\ repoSeq \subseteq sequenced
    /\ \A r \in sequenced : r.seq < nextSeq
    /\ \A r, q \in sequenced : r.seq = q.seq => r = q
    /\ seqLastSeen < nextSeq

\* A page is a part of the log that misses no row between pos and its rows
NoHole(rows, pos) ==
    \A x \in rows, r \in repoSeq : pos < r.seq /\ r.seq < x.seq => r \in rows

After(rows, pos) == \A x \in rows : pos < x.seq

\* What the poll loop is about to emit continues where it stopped
PollInv ==
    /\ pollPage \subseteq sequenced
    /\ After(pollPage, seqLastSeen)
    /\ NoHole(pollPage, seqLastSeen)

\* The position up to which the consumer has everything it is owed
Reached == IF lastSeen > floor THEN lastSeen ELSE floor

\* Which parts of the subscription are in use in which phase
PhaseInv ==
    /\ phase # "backfill" => page = {}
    /\ cutover # "answered" => cutoverPage = {}
    /\ cutover \notin {"asked", "answered"} => cutoverBuffer = <<>>
    /\ cutover # "done" => outBuffer = <<>>
    /\ (phase = "live") <=> (cutover # "off")
    /\ cutover # "done" => lastSeen = -1 \/ floor < lastSeen
    /\ phase \in {"idle", "outdated"} => lastSeen = -1
    /\ phase \in {"outdated", "query", "backfill"} => hasCursor
    /\ phase = "switch" /\ ~hasCursor => lastSeen = -1
    /\ phase # "live" => listenedAt = -1
    /\ phase = "live" => listenedAt \in Nat /\ listenedAt <= seqLastSeen

BackfillInv ==
    /\ page \subseteq sequenced
    /\ After(page, Reached)
    /\ NoHole(page, Reached)

InLog(buffer) == \A i \in DOMAIN buffer : buffer[i] \subseteq sequenced

\* Reading first and then buffer, no row is reached before an owed row that
\* precedes it in the log was read ...
Covers(first, buffer) ==
    \A i \in DOMAIN buffer : \A x \in buffer[i], r \in repoSeq :
        Reached < r.seq /\ r.seq < x.seq =>
            r \in first \/ \E j \in 1 .. i : r \in buffer[j]

\* ... and every owed row the poll loop has passed is there
Holds(first, buffer) ==
    \A r \in repoSeq :
        Reached < r.seq /\ r.seq <= seqLastSeen =>
            r \in first \/ \E j \in DOMAIN buffer : r \in buffer[j]

Fresh(rows) == \A x \in rows : x.seq > floor \/ x.seq > listenedAt

BufferInv ==
    /\ cutoverPage \subseteq sequenced /\ InLog(cutoverBuffer) /\ InLog(outBuffer)
    /\ Fresh(cutoverPage)
    /\ \A i \in DOMAIN cutoverBuffer : Fresh(cutoverBuffer[i])
    /\ \A i \in DOMAIN outBuffer : Fresh(outBuffer[i])
    /\ cutover = "answered" =>
          /\ NoHole(cutoverPage, Reached)
          /\ Covers(cutoverPage, cutoverBuffer)
          /\ Holds(cutoverPage, cutoverBuffer)
    /\ cutover = "done" => Covers({}, outBuffer) /\ Holds({}, outBuffer)

\* What was yielded
ReceivedInv ==
    /\ \A i \in DOMAIN received : received[i] \in sequenced
    /\ phase # "idle" =>
          /\ lastSeen = -1 => received = <<>>
          /\ lastSeen > -1 => /\ received # <<>>
                              /\ received[Len(received)].seq = lastSeen
    /\ phase # "idle" => \A i \in DOMAIN received : received[i].seq <= lastSeen

\* What the consumer has
OrderInv == ReceivedInv /\ InOrder /\ NoGap /\ NothingStale

IInv == /\ TypeOK /\ LogInv /\ PollInv /\ PhaseInv /\ BackfillInv /\ BufferInv
        /\ OrderInv

-----------------------------------------------------------------------------
(* Lemmas about the operators *)

\* The rows of one insert are rows of the table, with keys from nextSeq on.
LEMMA NewRowsType ==
    ASSUME NEW d \in Did, NEW batch \in Seq(Kind), NEW t \in Nat,
           nextSeq \in Nat \ {0}
    PROVE  /\ NewRows(d, batch, t) \subseteq Row
           /\ IsFiniteSet(NewRows(d, batch, t))
           /\ \A r \in NewRows(d, batch, t) :
                 nextSeq <= r.seq /\ r.seq < nextSeq + Len(batch)
           /\ \A r, q \in NewRows(d, batch, t) : r.seq = q.seq => r = q
<1>1. ASSUME NEW i \in 1 .. Len(batch)
      PROVE  /\ nextSeq + i - 1 \in Nat \ {0}
             /\ batch[i] \in Kind
  OBVIOUS
<1>2. NewRows(d, batch, t) \subseteq Row
  BY <1>1 DEF NewRows, Row
<1>3. IsFiniteSet(NewRows(d, batch, t))
  <2>1. IsFiniteSet(1 .. Len(batch))
    BY FS_Interval
  <2> DEFINE F[i \in 1 .. Len(batch)] ==
        [seq |-> nextSeq + i - 1, did |-> d, kind |-> batch[i], at |-> t]
  <2>2. NewRows(d, batch, t) = {F[i] : i \in 1 .. Len(batch)}
    BY DEF NewRows
  <2> HIDE DEF F
  <2>3. F \in Surjection(1 .. Len(batch), NewRows(d, batch, t))
    BY <2>2 DEF Surjection, F
  <2> QED
    BY <2>1, <2>3, FS_Surjection
<1>4. /\ \A r \in NewRows(d, batch, t) :
            nextSeq <= r.seq /\ r.seq < nextSeq + Len(batch)
      /\ \A r, q \in NewRows(d, batch, t) : r.seq = q.seq => r = q
  BY DEF NewRows
<1> QED
  BY <1>2, <1>3, <1>4

\* A page read from the table is a part of it that starts after pos and has no
\* hole, with a limit or without.
LEMMA PageAfterIsPrefix ==
    ASSUME NEW pos \in Int, NEW limit \in Nat, IsFiniteSet(repoSeq),
           repoSeq \subseteq Row
    PROVE  /\ PageAfter(pos, limit) \subseteq repoSeq
           /\ After(PageAfter(pos, limit), pos)
           /\ NoHole(PageAfter(pos, limit), pos)
<1> DEFINE Upto(r) == {q \in RowsAfter(pos) : q.seq <= r.seq}
<1>1. PageAfter(pos, limit) \subseteq repoSeq /\ After(PageAfter(pos, limit), pos)
  BY DEF PageAfter, RowsAfter, After
<1>2. ASSUME NEW x \in PageAfter(pos, limit), NEW r \in repoSeq,
             pos < r.seq, r.seq < x.seq
      PROVE  r \in PageAfter(pos, limit)
  <2>1. r \in RowsAfter(pos) /\ x \in RowsAfter(pos)
    BY <1>2 DEF PageAfter, RowsAfter
  <2>2. Upto(r) \subseteq Upto(x)
    BY <1>2, <2>1 DEF RowsAfter, Row
  <2>3. IsFiniteSet(Upto(x))
    BY FS_Subset DEF RowsAfter
  <2>4. /\ Cardinality(Upto(r)) <= Cardinality(Upto(x))
        /\ Cardinality(Upto(r)) \in Nat /\ Cardinality(Upto(x)) \in Nat
    BY <2>2, <2>3, FS_Subset, FS_CardinalityType
  <2>5. Cardinality(Upto(x)) <= limit
    BY DEF PageAfter
  <2> QED
    BY <2>1, <2>4, <2>5 DEF PageAfter
<1> QED
  BY <1>1, <1>2 DEF NoHole

\* Popping the first row of a buffer keeps every other row, in the same order.
LEMMA PopRows ==
    ASSUME NEW buffer \in Seq(SUBSET Row), buffer # <<>>,
           NEW r \in buffer[1]
    PROVE  /\ Pop(buffer, r) \in Seq(SUBSET Row)
           /\ buffer[1] = {r} =>
                 /\ Len(buffer) = Len(Pop(buffer, r)) + 1
                 /\ \A i \in 1 .. Len(Pop(buffer, r)) :
                       Pop(buffer, r)[i] = buffer[i + 1]
           /\ buffer[1] # {r} =>
                 /\ Len(buffer) = Len(Pop(buffer, r))
                 /\ Pop(buffer, r)[1] = buffer[1] \ {r}
                 /\ \A i \in 2 .. Len(buffer) : Pop(buffer, r)[i] = buffer[i]
<1>0. Head(buffer) = buffer[1]
  OBVIOUS
<1>1. CASE buffer[1] = {r}
  BY <1>0, <1>1 DEF Pop
<1>2. CASE buffer[1] # {r}
  <2>1. 1 \in 1 .. Len(buffer)
    OBVIOUS
  <2>2. Pop(buffer, r) = [buffer EXCEPT ![1] = @ \ {r}]
    BY <1>0, <1>2 DEF Pop
  <2>3. buffer[1] \ {r} \in SUBSET Row
    BY <2>1
  <2> QED
    BY <1>2, <2>1, <2>2, <2>3
<1> QED
  BY <1>1, <1>2

-----------------------------------------------------------------------------
(* The log *)

\* What a writer may do: rows are added at the end, or disappear.
LEMMA WriteEffect ==
    ASSUME SequencerTypeOK, LogInv, Write
    PROVE  /\ SequencerTypeOK' /\ LogInv'
           /\ sequenced \subseteq sequenced'
           /\ \A r \in sequenced' : r \in sequenced \/ nextSeq <= r.seq
           /\ \A r \in repoSeq' : r \in repoSeq \/ nextSeq <= r.seq
           /\ UNCHANGED pollVars
<1> USE SequencerConstants DEF SequencerTypeOK, LogInv
<1>1. ASSUME NEW d \in Did, NEW batch \in Seq(Kind), NEW t \in 0 .. clock,
             Insert(d, batch, t), UNCHANGED <<clock, pollVars>>,
             deletions' \subseteq [did : Did, keep : Nat \ {0}]
      PROVE  /\ SequencerTypeOK' /\ LogInv'
             /\ sequenced \subseteq sequenced'
             /\ \A r \in sequenced' : r \in sequenced \/ nextSeq <= r.seq
             /\ \A r \in repoSeq' : r \in repoSeq \/ nextSeq <= r.seq
  <2>1. /\ NewRows(d, batch, t) \subseteq Row
        /\ IsFiniteSet(NewRows(d, batch, t))
        /\ \A r \in NewRows(d, batch, t) :
              nextSeq <= r.seq /\ r.seq < nextSeq + Len(batch)
        /\ \A r, q \in NewRows(d, batch, t) : r.seq = q.seq => r = q
    BY <1>1, NewRowsType
  <2>2. /\ repoSeq' = repoSeq \cup NewRows(d, batch, t)
        /\ sequenced' = sequenced \cup NewRows(d, batch, t)
        /\ nextSeq' = nextSeq + Len(batch)
        /\ Len(batch) \in Nat
    BY <1>1 DEF Insert
  <2>3. IsFiniteSet(repoSeq')
    BY <2>1, <2>2, FS_Union
  <2>4. SequencerTypeOK'
    BY <1>1, <2>1, <2>2 DEF pollVars
  <2>5. \A r, q \in sequenced' : r.seq = q.seq => r = q
    BY <2>1, <2>2 DEF Row
  <2>6. (\A r \in sequenced' : r.seq < nextSeq') /\ seqLastSeen' < nextSeq'
    BY <1>1, <2>1, <2>2 DEF Row, pollVars
  <2> QED
    BY <2>1, <2>2, <2>3, <2>4, <2>5, <2>6
<1>2. ASSUME NEW d \in Did, SequenceEvts(d)
      PROVE  /\ SequencerTypeOK' /\ LogInv'
             /\ sequenced \subseteq sequenced'
             /\ \A r \in sequenced' : r \in sequenced \/ nextSeq <= r.seq
             /\ \A r \in repoSeq' : r \in repoSeq \/ nextSeq <= r.seq
  <2>1. PICK batch \in Batches, t \in 0 .. clock : Insert(d, batch, t)
    BY <1>2 DEF SequenceEvts
  <2>2. batch \in Seq(Kind)
    OBVIOUS
  <2>3. UNCHANGED <<clock, pollVars>> /\ deletions' = deletions
    BY <1>2 DEF SequenceEvts
  <2> QED
    BY <1>1, <2>1, <2>2, <2>3
<1>3. ASSUME NEW d \in Did, SequenceDeletion(d)
      PROVE  /\ SequencerTypeOK' /\ LogInv'
             /\ sequenced \subseteq sequenced'
             /\ \A r \in sequenced' : r \in sequenced \/ nextSeq <= r.seq
             /\ \A r \in repoSeq' : r \in repoSeq \/ nextSeq <= r.seq
  <2>1. PICK t \in 0 .. clock : Insert(d, <<"deleted">>, t)
    BY <1>3 DEF SequenceDeletion
  <2>2. <<"deleted">> \in Seq(Kind)
    BY DEF Kind
  <2>3. /\ UNCHANGED <<clock, pollVars>>
        /\ deletions' \subseteq [did : Did, keep : Nat \ {0}]
    BY <1>3 DEF SequenceDeletion
  <2> QED
    BY <1>1, <2>1, <2>2, <2>3
<1>4. ASSUME NEW x \in deletions, PurgeRows(x)
      PROVE  /\ SequencerTypeOK' /\ LogInv'
             /\ sequenced' = sequenced /\ repoSeq' \subseteq repoSeq
  <2>1. /\ repoSeq' \subseteq repoSeq /\ deletions' \subseteq deletions
        /\ UNCHANGED <<nextSeq, clock, sequenced, pollVars>>
    BY <1>4 DEF PurgeRows
  <2>2. IsFiniteSet(repoSeq')
    BY <2>1, FS_Subset
  <2> QED
    BY <2>1, <2>2 DEF pollVars
<1>5. CASE Tick
  BY <1>5 DEF Tick, pollVars
<1>6. UNCHANGED pollVars
  BY DEF Write, SequenceEvts, SequenceDeletion, PurgeRows, Tick
<1> QED
  BY <1>2, <1>3, <1>4, <1>5, <1>6 DEF Write

\* The actions that leave the log and the poll loop alone.
Connection ==
    \/ ConnectLive \/ FindWindow \/ Backfill \/ Stream \/ Disconnect
    \/ \E cursor \in Cursors : ConnectFuture(cursor) \/ ConnectFrom(cursor)

LEMMA ConnectionEffect == Connection => UNCHANGED sequencerVars
BY DEF Connection, ConnectLive, NewConnection, FindWindow, Backfill, Stream,
       Disconnect, ConnectFuture, ConnectFrom, BackfillQuery, YieldBackfill,
       EndPage, Listen, CutoverQuery, CutoverDone, YieldLive, TooSlow

\* The log keeps its shape and the poll loop stays behind nextSeq.
LEMMA LogStep ==
    ASSUME SequencerTypeOK, LogInv, PollInv, [Next]_vars
    PROVE  SequencerTypeOK' /\ LogInv'
<1>1. CASE Write /\ UNCHANGED streamVars
  BY <1>1, WriteEffect
<1>2. CASE PollQuery /\ UNCHANGED streamVars
  <2>1. PageAfter(seqLastSeen, PollLimit) \subseteq repoSeq
    BY DEF PageAfter, RowsAfter
  <2> QED
    BY <1>2, <2>1 DEF PollQuery, dbVars, SequencerTypeOK, LogInv
<1>3. CASE Emit
  BY <1>3 DEF Emit, PollEmit, IsLast, dbVars, SequencerTypeOK, LogInv, PollInv, Row
<1>4. CASE RestartAll
  BY <1>4 DEF RestartAll, Restart, IsLast, SequencerTypeOK, LogInv, Row
<1>5. CASE Connection
  BY <1>5, ConnectionEffect
     DEF sequencerVars, dbVars, pollVars, SequencerTypeOK, LogInv
<1>6. CASE UNCHANGED vars
  BY <1>6 DEF vars, sequencerVars, dbVars, pollVars, SequencerTypeOK, LogInv
<1> QED
  BY <1>1, <1>2, <1>3, <1>4, <1>5, <1>6 DEF Next, Connection

\* The page in flight of the poll loop continues where it stopped.
LEMMA PollStep ==
    ASSUME SequencerTypeOK, LogInv, PollInv, [Next]_vars
    PROVE  PollInv'
<1> USE DEF PollInv, After, NoHole
<1>1. CASE Write /\ UNCHANGED streamVars
  BY <1>1, WriteEffect DEF LogInv, SequencerTypeOK, Row, pollVars
<1>2. CASE PollQuery /\ UNCHANGED streamVars
  BY <1>2, PageAfterIsPrefix, SequencerConstants
     DEF PollQuery, dbVars, LogInv, SequencerTypeOK
<1>3. CASE Emit
  BY <1>3 DEF Emit, PollEmit
<1>4. CASE RestartAll
  BY <1>4 DEF RestartAll, Restart
<1>5. CASE Connection
  BY <1>5, ConnectionEffect DEF sequencerVars, dbVars, pollVars
<1>6. CASE UNCHANGED vars
  BY <1>6 DEF vars, sequencerVars, dbVars, pollVars
<1> QED
  BY <1>1, <1>2, <1>3, <1>4, <1>5, <1>6 DEF Next, Connection

-----------------------------------------------------------------------------
(* The subscription *)

LEMMA TypeStep ==
    ASSUME TypeOK, LogInv, PollInv, [Next]_vars
    PROVE  TypeOK'
<1>0. /\ SequencerTypeOK'
      /\ pollPage \subseteq Row /\ repoSeq \subseteq Row
      /\ seqLastSeen \in Nat /\ clock \in Nat
  BY LogStep DEF TypeOK, SequencerTypeOK
<1> SUFFICES StreamTypeOK'
  BY <1>0 DEF TypeOK
<1> USE DEF StreamTypeOK
<1> StreamTypeOK
  BY DEF TypeOK
<1>e. <<>> \in Seq(SUBSET Row) /\ <<>> \in Seq(Row)
  OBVIOUS
<1>1. CASE UNCHANGED streamVars
  BY <1>1 DEF streamVars
<1>2. CASE Emit
  <2>1. /\ Append(outBuffer, pollPage) \in Seq(SUBSET Row)
        /\ Append(cutoverBuffer, pollPage) \in Seq(SUBSET Row)
    BY <1>0
  <2>2. outBuffer' \in Seq(SUBSET Row) /\ cutoverBuffer' \in Seq(SUBSET Row)
    BY <1>2, <2>1 DEF Emit, AddToBuffer
  <2> QED
    BY <1>2, <2>2 DEF Emit, AddToBuffer
<1>3. CASE RestartAll \/ Disconnect \/ TooSlow
  BY <1>3, <1>e DEF RestartAll, Disconnect, TooSlow, Cleared, Phases
<1>4. ASSUME NEW cursor \in Cursors,
             ConnectFuture(cursor) \/ ConnectFrom(cursor)
      PROVE  StreamTypeOK'
  <2>1. cursor \in Int /\ clock - BackfillLimit \in Int
    BY <1>0, OutboxConstants
  <2>2. /\ lastSeen' = -1 /\ page' = {} /\ cutoverPage' = {} /\ connects' \in Nat
        /\ cutoverBuffer' = <<>> /\ outBuffer' = <<>>
    BY <1>4 DEF ConnectFuture, ConnectFrom, NewConnection
  <2>3. /\ received' \in Seq(Row)
        /\ outBuffer' \in Seq(SUBSET Row) /\ cutoverBuffer' \in Seq(SUBSET Row)
    BY <1>4, <1>e, <2>2 DEF ConnectFuture, ConnectFrom
  <2>4. /\ floor' = cursor /\ hasCursor' = TRUE /\ cutover' = "off"
        /\ listenedAt' = -1
    BY <1>4 DEF ConnectFuture, ConnectFrom
  <2>5. since' \in Int
    BY <1>4, <2>1 DEF ConnectFuture, ConnectFrom
  <2>6. /\ phase' \in Phases
        /\ ended' \in {"none", "FutureCursor", "ConsumerTooSlow", "closed"}
    BY <1>4 DEF ConnectFuture, ConnectFrom, Phases
  <2> QED
    BY <2>1, <2>2, <2>3, <2>4, <2>5, <2>6
<1>5. CASE ConnectLive
  <2>1. /\ lastSeen' = -1 /\ page' = {} /\ cutoverPage' = {} /\ connects' \in Nat
        /\ cutoverBuffer' = <<>> /\ outBuffer' = <<>>
    BY <1>5 DEF ConnectLive, NewConnection
  <2>2. /\ phase' = "live" /\ listenedAt' = seqLastSeen /\ cutover' = "done"
        /\ floor' = seqLastSeen /\ hasCursor' = FALSE /\ since' = 0
        /\ ended' = "none" /\ received' = <<>>
    BY <1>5 DEF ConnectLive, AddListener
  <2>3. /\ received' \in Seq(Row)
        /\ outBuffer' \in Seq(SUBSET Row) /\ cutoverBuffer' \in Seq(SUBSET Row)
    BY <1>e, <2>1, <2>2
  <2>4. /\ listenedAt' \in Nat \cup {-1} /\ lastSeen' \in Nat \cup {-1}
        /\ floor' \in Int /\ since' \in Int
    BY <1>0, <2>1, <2>2
  <2>5. /\ phase' \in Phases
        /\ hasCursor' \in BOOLEAN
        /\ cutover' \in {"off", "asked", "answered", "done"}
        /\ ended' \in {"none", "FutureCursor", "ConsumerTooSlow", "closed"}
    BY <2>2 DEF Phases
  <2> QED
    BY <2>1, <2>3, <2>4, <2>5
<1>6. CASE Listen
  BY <1>0, <1>6 DEF Listen, AddListener, Phases
<1>7. CASE FindWindow
  <2>1. floor' \in Int
    BY <1>0, <1>7 DEF FindWindow, IsEarliest, Row
  <2> QED
    BY <1>7, <2>1 DEF FindWindow, Phases
<1>8. CASE EndPage
  BY <1>8 DEF EndPage, Phases
<1>9. CASE BackfillQuery
  BY <1>0, <1>9 DEF BackfillQuery, PageAfter, RowsAfter, Phases
<1>10. CASE CutoverQuery
  BY <1>0, <1>10 DEF CutoverQuery, RowsAfter
<1>11. CASE YieldBackfill
  <2>1. PICK r \in page : /\ page' = page \ {r}
                          /\ lastSeen' = r.seq
                          /\ received' = Append(received, r)
    BY <1>11 DEF YieldBackfill
  <2>2. r \in Row /\ r.seq \in Nat
    BY DEF Row
  <2> QED
    BY <1>11, <2>1, <2>2 DEF YieldBackfill
<1>12. CASE CutoverDone
  <2>1. Push(outBuffer, cutoverPage) \in Seq(SUBSET Row)
    BY DEF Push
  <2> QED
    BY <1>12, <2>1 DEF CutoverDone
<1>13. CASE YieldLive
  <2>1. PICK r \in Head(outBuffer) :
          /\ outBuffer' = Pop(outBuffer, r)
          /\ IF r.seq > lastSeen
             THEN lastSeen' = r.seq /\ received' = Append(received, r)
             ELSE UNCHANGED <<lastSeen, received>>
    BY <1>13 DEF YieldLive
  <2>2. outBuffer # <<>> /\ outBuffer \in Seq(SUBSET Row)
    BY <1>13 DEF YieldLive
  <2>3. r \in Row /\ r.seq \in Nat /\ r \in outBuffer[1]
    BY <2>2 DEF Row
  <2>4. outBuffer' \in Seq(SUBSET Row)
    BY <2>1, <2>2, <2>3, PopRows
  <2>5. Append(received, r) \in Seq(Row)
    BY <2>3
  <2>6. lastSeen' \in Nat \cup {-1} /\ received' \in Seq(Row)
    BY <2>1, <2>3, <2>5
  <2> QED
    BY <1>13, <2>4, <2>6 DEF YieldLive
<1> QED
  BY <1>1, <1>2, <1>3, <1>4, <1>5, <1>6, <1>7, <1>8, <1>9, <1>10, <1>11, <1>12,
     <1>13 DEF Next, Backfill, Stream, vars

\* Which parts of the subscription are in use in which phase.
LEMMA PhaseStep ==
    ASSUME TypeOK, LogInv, PollInv, PhaseInv, BackfillInv, [Next]_vars
    PROVE  PhaseInv'
<1> USE DEF PhaseInv
<1>0. /\ seqLastSeen \in Nat /\ lastSeen \in Nat \cup {-1} /\ floor \in Int
      /\ pollPage \subseteq Row /\ page \subseteq Row
      /\ cutover \in {"off", "asked", "answered", "done"}
      /\ phase \in Phases
  BY DEF TypeOK, SequencerTypeOK, StreamTypeOK
<1>1. CASE UNCHANGED streamVars /\ UNCHANGED seqLastSeen
  BY <1>1 DEF streamVars
<1>2. CASE Emit
  <2>1. seqLastSeen <= seqLastSeen'
    BY <1>0, <1>2 DEF Emit, PollEmit, IsLast, PollInv, After, Row
  <2>2. seqLastSeen' \in Nat
    BY <1>0, <1>2 DEF Emit, PollEmit, IsLast, Row
  <2> QED
    BY <1>0, <1>2, <2>1, <2>2 DEF Emit, AddToBuffer, CaughtUp
<1>3. CASE RestartAll \/ Disconnect \/ TooSlow
  BY <1>3 DEF RestartAll, Disconnect, TooSlow, Cleared
<1>4. ASSUME NEW cursor \in Cursors,
             ConnectFuture(cursor) \/ ConnectFrom(cursor)
      PROVE  PhaseInv'
  BY <1>4 DEF ConnectFuture, ConnectFrom, NewConnection
<1>5. CASE ConnectLive
  BY <1>0, <1>5 DEF ConnectLive, NewConnection, AddListener, sequencerVars,
                    pollVars
<1>6. CASE Listen
  BY <1>0, <1>6 DEF Listen, AddListener, sequencerVars, pollVars
<1>7. CASE FindWindow
  BY <1>7 DEF FindWindow
<1>8. CASE EndPage
  BY <1>8 DEF EndPage
<1>9. CASE BackfillQuery
  BY <1>9 DEF BackfillQuery
<1>10. CASE CutoverQuery \/ CutoverDone
  BY <1>0, <1>10 DEF CutoverQuery, CutoverDone, sequencerVars, pollVars
<1>11. CASE YieldBackfill
  <2>1. PICK r \in page : page' = page \ {r} /\ lastSeen' = r.seq
    BY <1>11 DEF YieldBackfill
  <2>2. r.seq \in Nat /\ floor < r.seq
    BY <1>0, <2>1 DEF Row, BackfillInv, After, Reached
  <2> QED
    BY <1>11, <2>1, <2>2 DEF YieldBackfill
<1>12. CASE YieldLive
  <2>1. cutover = "done"
    BY <1>12 DEF YieldLive
  <2> QED
    BY <1>0, <1>12, <2>1 DEF YieldLive, sequencerVars, pollVars
<1> QED
  <2>1. Write \/ PollQuery => UNCHANGED seqLastSeen
    BY DEF Write, SequenceEvts, SequenceDeletion, PurgeRows, Tick, PollQuery,
           pollVars
  <2> QED
    BY <1>1, <1>2, <1>3, <1>4, <1>5, <1>6, <1>7, <1>8, <1>9, <1>10, <1>11,
       <1>12, <2>1
       DEF Next, Backfill, Stream, vars, sequencerVars, pollVars

\* A position from which rows are queried is, for rows, where the consumer is.
LEMMA PositionIsReached ==
    ASSUME TypeOK, PhaseInv, cutover # "done", NEW r \in Row
    PROVE  Position < r.seq <=> Reached < r.seq
BY DEF TypeOK, StreamTypeOK, PhaseInv, Position, Reached, Row

\* What is left of the backfill page continues where the consumer is.
LEMMA BackfillStep ==
    ASSUME TypeOK, LogInv, PollInv, PhaseInv, BackfillInv, [Next]_vars
    PROVE  BackfillInv'
<1> USE DEF BackfillInv, After, NoHole
<1>0. /\ lastSeen \in Nat \cup {-1} /\ floor \in Int /\ nextSeq \in Nat
      /\ page \subseteq Row /\ repoSeq \subseteq Row /\ sequenced \subseteq Row
      /\ repoSeq \subseteq sequenced
  BY DEF TypeOK, SequencerTypeOK, StreamTypeOK, LogInv
<1>1. CASE page' = {}
  BY <1>1
<1>2. ASSUME page' = page, UNCHANGED <<lastSeen, floor, repoSeq, sequenced>>
      PROVE  BackfillInv'
  BY <1>2 DEF Reached
<1>3. CASE Write /\ UNCHANGED streamVars
  <2>1. /\ sequenced \subseteq sequenced'
        /\ \A r \in repoSeq' : r \in repoSeq \/ nextSeq <= r.seq
        /\ repoSeq' \subseteq Row
    BY <1>3, WriteEffect DEF TypeOK, SequencerTypeOK
  <2>2. \A x \in page : x.seq < nextSeq
    BY DEF LogInv
  <2>3. page' = page /\ Reached' = Reached
    BY <1>3 DEF streamVars, Reached
  <2> QED
    BY <1>0, <2>1, <2>2, <2>3 DEF Row
<1>4. CASE PollQuery /\ UNCHANGED streamVars
  BY <1>2, <1>4 DEF PollQuery, dbVars, streamVars
<1>5. CASE Emit
  BY <1>2, <1>5 DEF Emit, PollEmit, AddToBuffer, dbVars
<1>6. CASE BackfillQuery
  <2>1. /\ Position \in Int /\ IsFiniteSet(repoSeq) /\ PageSize \in Nat
    BY <1>0, OutboxConstants DEF Position, LogInv
  <2>2. /\ PageAfter(Position, PageSize) \subseteq repoSeq
        /\ After(PageAfter(Position, PageSize), Position)
        /\ NoHole(PageAfter(Position, PageSize), Position)
    BY <1>0, <2>1, PageAfterIsPrefix
  <2>3. \A r \in repoSeq : Position < r.seq <=> Reached < r.seq
    BY <1>0, <1>6, PositionIsReached DEF BackfillQuery, PhaseInv
  <2>4. /\ page' = PageAfter(Position, PageSize) /\ Reached' = Reached
        /\ UNCHANGED <<repoSeq, sequenced>>
    BY <1>6 DEF BackfillQuery, Reached, sequencerVars, dbVars
  <2> QED
    BY <1>0, <2>2, <2>3, <2>4
<1>7. CASE YieldBackfill
  <2>1. PICK r \in page : /\ IsFirst(r, page)
                          /\ page' = page \ {r}
                          /\ lastSeen' = r.seq
    BY <1>7 DEF YieldBackfill
  <2>2. /\ UNCHANGED <<repoSeq, sequenced, floor>>
        /\ r \in Row /\ r \in sequenced
    BY <1>0, <1>7 DEF YieldBackfill, sequencerVars, dbVars
  <2>3. Reached' = r.seq /\ Reached < r.seq
    BY <1>0, <2>1, <2>2 DEF Reached, Row
  <2>4. \A x \in page' : r.seq < x.seq
    BY <1>0, <2>1, <2>2 DEF IsFirst, LogInv, Row
  <2> QED
    BY <1>0, <2>1, <2>2, <2>3, <2>4 DEF Row, Reached
<1>8. CASE phase = "live" \/ phase = "idle" \/ phase = "outdated" \/ phase = "switch"
  <2>1. page = {}
    BY <1>8 DEF PhaseInv
  <2> QED
    BY <1>1, <1>2, <1>3, <1>4, <1>5, <1>6, <1>7, <1>8, <2>1
       DEF Next, Backfill, Stream, RestartAll, Disconnect, TooSlow, Cleared,
           ConnectLive, ConnectFuture, ConnectFrom, NewConnection, FindWindow,
           EndPage, Listen, CutoverQuery, CutoverDone, YieldLive, vars,
           streamVars
<1>9. CASE EndPage \/ RestartAll \/ Disconnect
  BY <1>1, <1>9 DEF EndPage, RestartAll, Disconnect, Cleared
<1>10. CASE UNCHANGED vars
  BY <1>2, <1>10 DEF vars, sequencerVars, dbVars, streamVars
<1> QED
  <2>1. Stream => phase \in {"switch", "live"}
    BY DEF Stream, Listen, CutoverQuery, CutoverDone, YieldLive, TooSlow, PhaseInv
  <2>2. /\ ConnectLive => phase = "idle"
        /\ FindWindow => phase = "outdated"
        /\ \A cursor \in Cursors :
              ConnectFuture(cursor) \/ ConnectFrom(cursor) => phase = "idle"
    BY DEF ConnectLive, FindWindow, ConnectFuture, ConnectFrom, NewConnection
  <2> QED
    BY <1>3, <1>4, <1>5, <1>6, <1>7, <1>8, <1>9, <1>10, <2>1, <2>2
       DEF Next, Backfill

\* Buffers that are empty and off satisfy BufferInv.
LEMMA BufferOff ==
    ASSUME cutoverPage = {}, cutoverBuffer = <<>>, outBuffer = <<>>,
           cutover \in {"off", "asked"}
    PROVE  BufferInv
BY DEF BufferInv, InLog, Fresh

\* Rows that are appended to the log, or purged, disturb no buffer.
LEMMA BufferWrite ==
    ASSUME TypeOK, LogInv, BufferInv, Write, UNCHANGED streamVars
    PROVE  BufferInv'
<1>1. /\ sequenced \subseteq sequenced'
      /\ \A r \in repoSeq' : r \in repoSeq \/ nextSeq <= r.seq
      /\ repoSeq' \subseteq Row /\ seqLastSeen' = seqLastSeen
  BY WriteEffect DEF TypeOK, SequencerTypeOK, pollVars
<1>2. /\ sequenced \subseteq Row /\ nextSeq \in Nat /\ seqLastSeen \in Nat
      /\ \A x \in sequenced : x.seq < nextSeq
      /\ seqLastSeen < nextSeq
  BY DEF TypeOK, SequencerTypeOK, LogInv
<1>3. /\ UNCHANGED <<lastSeen, floor, listenedAt, cutover, cutoverPage,
                     cutoverBuffer, outBuffer>>
      /\ Reached' = Reached
  BY DEF streamVars, Reached
<1>4. /\ cutoverPage' \subseteq sequenced'
      /\ InLog(cutoverBuffer)' /\ InLog(outBuffer)'
  BY <1>1, <1>3 DEF BufferInv, InLog
<1>5. /\ Fresh(cutoverPage)'
      /\ \A i \in DOMAIN cutoverBuffer' : Fresh(cutoverBuffer[i])'
      /\ \A i \in DOMAIN outBuffer' : Fresh(outBuffer[i])'
  BY <1>3 DEF BufferInv, Fresh
<1>6. ASSUME NEW rows \in SUBSET sequenced, NoHole(rows, Reached)
      PROVE  \A x \in rows, r \in repoSeq' :
                Reached < r.seq /\ r.seq < x.seq => r \in rows
  BY <1>1, <1>2, <1>6 DEF NoHole, Row
<1>7. ASSUME NEW first, NEW buffer, InLog(buffer), Covers(first, buffer)
      PROVE  \A i \in DOMAIN buffer : \A x \in buffer[i], r \in repoSeq' :
                Reached < r.seq /\ r.seq < x.seq =>
                    r \in first \/ \E j \in 1 .. i : r \in buffer[j]
  <2> SUFFICES ASSUME NEW i \in DOMAIN buffer, NEW x \in buffer[i],
                      NEW r \in repoSeq', Reached < r.seq, r.seq < x.seq
               PROVE  r \in first \/ \E j \in 1 .. i : r \in buffer[j]
    OBVIOUS
  <2>1. x \in sequenced
    BY <1>7 DEF InLog
  <2>2. r \in repoSeq
    BY <1>1, <1>2, <2>1 DEF Row
  <2> QED
    BY <1>7, <2>2 DEF Covers
<1>8. ASSUME NEW first, NEW buffer, Holds(first, buffer)
      PROVE  \A r \in repoSeq' :
                Reached < r.seq /\ r.seq <= seqLastSeen =>
                    r \in first \/ \E j \in DOMAIN buffer : r \in buffer[j]
  BY <1>1, <1>2, <1>8 DEF Holds, Row
<1>9. cutover = "answered" =>
         /\ NoHole(cutoverPage, Reached)'
         /\ Covers(cutoverPage, cutoverBuffer)'
         /\ Holds(cutoverPage, cutoverBuffer)'
  <2> SUFFICES ASSUME cutover = "answered"
               PROVE  /\ NoHole(cutoverPage, Reached)'
                      /\ Covers(cutoverPage, cutoverBuffer)'
                      /\ Holds(cutoverPage, cutoverBuffer)'
    OBVIOUS
  <2>1. NoHole(cutoverPage, Reached)'
    BY <1>3, <1>6 DEF BufferInv, NoHole
  <2>2. Covers(cutoverPage, cutoverBuffer)'
    BY <1>3, <1>7 DEF BufferInv, Covers
  <2>3. Holds(cutoverPage, cutoverBuffer)'
    BY <1>1, <1>3, <1>8 DEF BufferInv, Holds
  <2> QED
    BY <2>1, <2>2, <2>3
<1>10. cutover = "done" => Covers({}, outBuffer)' /\ Holds({}, outBuffer)'
  <2> SUFFICES ASSUME cutover = "done"
               PROVE  Covers({}, outBuffer)' /\ Holds({}, outBuffer)'
    OBVIOUS
  <2>1. Covers({}, outBuffer)'
    BY <1>3, <1>7 DEF BufferInv, Covers
  <2>2. Holds({}, outBuffer)'
    BY <1>1, <1>3, <1>8 DEF BufferInv, Holds
  <2> QED
    BY <2>1, <2>2
<1> QED
  BY <1>3, <1>4, <1>5, <1>9, <1>10 DEF BufferInv

\* The page the poll loop emits fits at the end of a buffer that holds what the
\* loop has passed.
LEMMA BufferAppend ==
    ASSUME TypeOK, LogInv, PollInv, NEW last \in pollPage, IsLast(last, pollPage),
           NEW first, NEW buffer \in Seq(SUBSET Row),
           Covers(first, buffer), Holds(first, buffer)
    PROVE  /\ \A i \in DOMAIN Append(buffer, pollPage) :
                \A x \in Append(buffer, pollPage)[i], r \in repoSeq :
                   Reached < r.seq /\ r.seq < x.seq =>
                      r \in first
                      \/ \E j \in 1 .. i : r \in Append(buffer, pollPage)[j]
           /\ \A r \in repoSeq :
                Reached < r.seq /\ r.seq <= last.seq =>
                   r \in first
                   \/ \E j \in DOMAIN Append(buffer, pollPage) :
                         r \in Append(buffer, pollPage)[j]
<1> DEFINE more == Append(buffer, pollPage)
           n == Len(buffer)
<1>1. /\ n \in Nat /\ Len(more) = n + 1 /\ more[n + 1] = pollPage
      /\ \A i \in 1 .. n : more[i] = buffer[i]
      /\ DOMAIN more = 1 .. n + 1 /\ DOMAIN buffer = 1 .. n
  BY DEF TypeOK, SequencerTypeOK
<1>2. /\ repoSeq \subseteq Row /\ pollPage \subseteq Row /\ seqLastSeen \in Nat
      /\ lastSeen \in Nat \cup {-1} /\ floor \in Int
  BY DEF TypeOK, SequencerTypeOK, StreamTypeOK
<1> HIDE DEF more, n
<1>3. ASSUME NEW r \in repoSeq, Reached < r.seq, r.seq <= seqLastSeen
      PROVE  r \in first \/ \E j \in 1 .. n : r \in more[j]
  BY <1>1, <1>2, <1>3 DEF Holds
<1>4. ASSUME NEW i \in 1 .. n + 1, NEW x \in more[i], NEW r \in repoSeq,
             Reached < r.seq, r.seq < x.seq
      PROVE  r \in first \/ \E j \in 1 .. i : r \in more[j]
  <2>1. CASE i \in 1 .. n
    <3>1. x \in buffer[i]
      BY <1>1, <2>1
    <3>2. r \in first \/ \E j \in 1 .. i : r \in buffer[j]
      BY <1>1, <1>4, <2>1, <3>1 DEF Covers
    <3> QED
      BY <1>1, <2>1, <3>2
  <2>2. CASE i = n + 1
    <3>1. x \in pollPage
      BY <1>1, <1>4, <2>2
    <3>2. CASE r.seq <= seqLastSeen
      BY <1>1, <1>3, <1>4, <2>2, <3>2
    <3>3. CASE seqLastSeen < r.seq
      BY <1>1, <1>4, <2>2, <3>1, <3>3 DEF PollInv, NoHole
    <3> QED
      BY <1>2, <3>2, <3>3 DEF Row
  <2> QED
    BY <1>1, <2>1, <2>2
<1>5. ASSUME NEW r \in repoSeq, Reached < r.seq, r.seq <= last.seq
      PROVE  r \in first \/ \E j \in 1 .. n + 1 : r \in more[j]
  <2>1. CASE r.seq <= seqLastSeen
    BY <1>1, <1>3, <1>5, <2>1
  <2>2. CASE seqLastSeen < r.seq
    <3>1. r \in pollPage
      BY <1>2, <1>5, <2>2 DEF PollInv, NoHole, LogInv, Row
    <3> QED
      BY <1>1, <3>1
  <2> QED
    BY <1>2, <2>1, <2>2 DEF Row
<1> QED
  BY <1>1, <1>4, <1>5 DEF more

LEMMA BufferEmit ==
    ASSUME TypeOK, LogInv, PollInv, PhaseInv, BufferInv, Emit
    PROVE  BufferInv'
<1>1. PICK last \in pollPage : IsLast(last, pollPage) /\ seqLastSeen' = last.seq
  BY DEF Emit, PollEmit
<1>2. /\ UNCHANGED <<lastSeen, floor, listenedAt, cutover, cutoverPage, phase,
                     repoSeq, sequenced>>
      /\ Reached' = Reached
  BY DEF Emit, PollEmit, AddToBuffer, dbVars, Reached
<1>3. /\ pollPage \subseteq sequenced /\ pollPage \subseteq Row
      /\ sequenced \subseteq Row /\ seqLastSeen \in Nat
      /\ outBuffer \in Seq(SUBSET Row) /\ cutoverBuffer \in Seq(SUBSET Row)
      /\ cutover \in {"off", "asked", "answered", "done"}
  BY DEF PollInv, TypeOK, SequencerTypeOK, StreamTypeOK
<1>4. phase = "live" => Fresh(pollPage)
  BY <1>3 DEF PhaseInv, PollInv, After, Fresh, Row
<1>5. CASE phase # "live"
  BY <1>2, <1>5, BufferOff DEF Emit, AddToBuffer, PhaseInv, BufferInv, InLog,
                               Fresh
<1>6. CASE phase = "live" /\ cutover # "done"
  <2>1. cutoverBuffer' = Append(cutoverBuffer, pollPage) /\ outBuffer' = outBuffer
    BY <1>6 DEF Emit, AddToBuffer, CaughtUp
  <2>2. outBuffer = <<>>
    BY <1>6 DEF PhaseInv
  <2>3. InLog(cutoverBuffer)' /\ \A i \in DOMAIN cutoverBuffer' : Fresh(cutoverBuffer[i])'
    BY <1>2, <1>3, <1>4, <1>6, <2>1 DEF BufferInv, InLog, Fresh
  <2>4. ASSUME cutover = "answered"
        PROVE  /\ Covers(cutoverPage, cutoverBuffer)'
               /\ Holds(cutoverPage, cutoverBuffer)'
    <3>1. Covers(cutoverPage, cutoverBuffer) /\ Holds(cutoverPage, cutoverBuffer)
      BY <2>4 DEF BufferInv
    <3> DEFINE more == Append(cutoverBuffer, pollPage)
    <3>2. /\ \A i \in DOMAIN more : \A x \in more[i], r \in repoSeq :
                Reached < r.seq /\ r.seq < x.seq =>
                   r \in cutoverPage \/ \E j \in 1 .. i : r \in more[j]
          /\ \A r \in repoSeq :
                Reached < r.seq /\ r.seq <= last.seq =>
                   r \in cutoverPage \/ \E j \in DOMAIN more : r \in more[j]
      BY <1>1, <1>3, <3>1, BufferAppend
    <3> HIDE DEF more
    <3>3. cutoverBuffer' = more
      BY <2>1 DEF more
    <3> QED
      BY <1>1, <1>2, <3>2, <3>3 DEF Covers, Holds
  <2>5. cutover = "answered" => NoHole(cutoverPage, Reached)'
    BY <1>2 DEF BufferInv, NoHole
  <2>6. /\ cutoverPage' \subseteq sequenced' /\ InLog(outBuffer)'
        /\ Fresh(cutoverPage)'
        /\ \A i \in DOMAIN outBuffer' : Fresh(outBuffer[i])'
    BY <1>2, <2>1, <2>2 DEF BufferInv, InLog, Fresh
  <2> QED
    BY <1>2, <1>6, <2>3, <2>4, <2>5, <2>6 DEF BufferInv
<1>7. CASE phase = "live" /\ cutover = "done"
  <2>1. outBuffer' = Append(outBuffer, pollPage) /\ cutoverBuffer' = cutoverBuffer
    BY <1>7 DEF Emit, AddToBuffer, CaughtUp
  <2>2. cutoverPage = {} /\ cutoverBuffer = <<>>
    BY <1>7 DEF PhaseInv
  <2>3. InLog(outBuffer)' /\ \A i \in DOMAIN outBuffer' : Fresh(outBuffer[i])'
    BY <1>2, <1>3, <1>4, <1>7, <2>1 DEF BufferInv, InLog, Fresh
  <2>4. Covers({}, outBuffer)' /\ Holds({}, outBuffer)'
    <3>1. Covers({}, outBuffer) /\ Holds({}, outBuffer)
      BY <1>7 DEF BufferInv
    <3> DEFINE more == Append(outBuffer, pollPage)
    <3>2. /\ \A i \in DOMAIN more : \A x \in more[i], r \in repoSeq :
                Reached < r.seq /\ r.seq < x.seq =>
                   r \in {} \/ \E j \in 1 .. i : r \in more[j]
          /\ \A r \in repoSeq :
                Reached < r.seq /\ r.seq <= last.seq =>
                   r \in {} \/ \E j \in DOMAIN more : r \in more[j]
      BY <1>1, <1>3, <3>1, BufferAppend
    <3> HIDE DEF more
    <3>3. outBuffer' = more
      BY <2>1 DEF more
    <3> QED
      BY <1>1, <1>2, <3>2, <3>3 DEF Covers, Holds
  <2>5. /\ cutoverPage' \subseteq sequenced' /\ InLog(cutoverBuffer)'
        /\ Fresh(cutoverPage)'
        /\ \A i \in DOMAIN cutoverBuffer' : Fresh(cutoverBuffer[i])'
    BY <1>2, <2>1, <2>2 DEF InLog, Fresh
  <2> QED
    BY <1>2, <1>7, <2>3, <2>4, <2>5 DEF BufferInv
<1> QED
  BY <1>5, <1>6, <1>7

\* The cutover query returns everything that is owed.
LEMMA BufferQuery ==
    ASSUME TypeOK, LogInv, PhaseInv, BufferInv, CutoverQuery
    PROVE  BufferInv'
<1>1. /\ cutover = "asked" /\ cutover' = "answered"
      /\ cutoverPage' = RowsAfter(Position)
      /\ UNCHANGED <<repoSeq, sequenced, seqLastSeen, lastSeen, floor,
                     listenedAt, cutoverBuffer, outBuffer>>
      /\ Reached' = Reached
  BY DEF CutoverQuery, sequencerVars, dbVars, pollVars, Reached
<1>2. /\ repoSeq \subseteq Row /\ repoSeq \subseteq sequenced
      /\ lastSeen \in Nat \cup {-1} /\ floor \in Int
  BY DEF TypeOK, SequencerTypeOK, StreamTypeOK, LogInv
<1>3. \A r \in repoSeq : Position < r.seq <=> Reached < r.seq
  BY <1>1, <1>2, PositionIsReached
<1>4. cutoverPage' = {r \in repoSeq : Reached < r.seq}
  BY <1>1, <1>3 DEF RowsAfter
<1>5. /\ NoHole(cutoverPage, Reached)'
      /\ Covers(cutoverPage, cutoverBuffer)'
      /\ Holds(cutoverPage, cutoverBuffer)'
  BY <1>1, <1>4 DEF NoHole, Covers, Holds
<1>6. \A x \in cutoverPage' : floor < x.seq
  BY <1>2, <1>4 DEF Reached, Row
<1> QED
  BY <1>1, <1>2, <1>4, <1>5, <1>6 DEF BufferInv, InLog, Fresh

\* The cutover page and buffer become the out buffer, one after the other.
LEMMA BufferCutover ==
    ASSUME TypeOK, LogInv, PhaseInv, BufferInv, CutoverDone
    PROVE  BufferInv'
<1>1. /\ cutover = "answered" /\ cutover' = "done"
      /\ outBuffer' = Push(outBuffer, cutoverPage) \o cutoverBuffer
      /\ cutoverBuffer' = <<>> /\ cutoverPage' = {}
      /\ UNCHANGED <<repoSeq, sequenced, seqLastSeen, lastSeen, floor,
                     listenedAt>>
      /\ Reached' = Reached
  BY DEF CutoverDone, sequencerVars, dbVars, pollVars, Reached
<1>2. outBuffer = <<>>
  BY <1>1 DEF PhaseInv
<1>3. cutoverBuffer \in Seq(SUBSET Row) /\ repoSeq \subseteq Row
  BY DEF TypeOK, StreamTypeOK, SequencerTypeOK
<1>4. CASE cutoverPage = {}
  <2>1. outBuffer' = cutoverBuffer
    BY <1>1, <1>2, <1>3, <1>4 DEF Push
  <2> QED
    BY <1>1, <1>4, <2>1 DEF BufferInv, InLog, Fresh, Covers, Holds
<1>5. CASE cutoverPage # {}
  <2> DEFINE n == Len(cutoverBuffer)
  <2>1. /\ n \in Nat /\ DOMAIN cutoverBuffer = 1 .. n
        /\ DOMAIN outBuffer' = 1 .. n + 1
        /\ outBuffer'[1] = cutoverPage
        /\ \A i \in 2 .. n + 1 : outBuffer'[i] = cutoverBuffer[i - 1]
    <3>1. outBuffer' = <<cutoverPage>> \o cutoverBuffer
      BY <1>1, <1>2, <1>5 DEF Push
    <3> QED
      BY <1>3, <3>1
  <2> HIDE DEF n
  <2>2. \A i \in 1 .. n : outBuffer'[i + 1] = cutoverBuffer[i]
    BY <2>1
  <2>3. InLog(outBuffer)' /\ \A i \in DOMAIN outBuffer' : Fresh(outBuffer[i])'
    <3> SUFFICES ASSUME NEW i \in 1 .. n + 1
                 PROVE  outBuffer'[i] \subseteq sequenced' /\ Fresh(outBuffer[i])'
      BY <2>1 DEF InLog
    <3>1. CASE i = 1
      BY <1>1, <2>1, <3>1 DEF BufferInv, Fresh
    <3>2. CASE i \in 2 .. n + 1
      <4>1. outBuffer'[i] = cutoverBuffer[i - 1] /\ i - 1 \in 1 .. n
        BY <2>1, <3>2
      <4> QED
        BY <1>1, <2>1, <4>1 DEF BufferInv, InLog, Fresh
    <3> QED
      BY <2>1, <3>1, <3>2
  <2>4. Covers({}, outBuffer)'
    <3> SUFFICES ASSUME NEW i \in 1 .. n + 1, NEW x \in outBuffer'[i],
                        NEW r \in repoSeq, Reached < r.seq, r.seq < x.seq
                 PROVE  \E j \in 1 .. i : r \in outBuffer'[j]
      BY <1>1, <2>1 DEF Covers
    <3>1. CASE i = 1
      <4>1. r \in cutoverPage
        BY <1>1, <2>1, <3>1 DEF BufferInv, NoHole
      <4> QED
        BY <2>1, <3>1, <4>1
    <3>2. CASE i \in 2 .. n + 1
      <4>1. x \in cutoverBuffer[i - 1] /\ i - 1 \in 1 .. n
        BY <2>1, <3>2
      <4>2. r \in cutoverPage \/ \E j \in 1 .. i - 1 : r \in cutoverBuffer[j]
        BY <1>1, <2>1, <4>1 DEF BufferInv, Covers
      <4>3. CASE r \in cutoverPage
        BY <2>1, <3>2, <4>3
      <4>4. ASSUME NEW j \in 1 .. i - 1, r \in cutoverBuffer[j]
            PROVE  \E k \in 1 .. i : r \in outBuffer'[k]
        <5>1. j \in 1 .. n /\ j + 1 \in 1 .. i
          BY <2>1, <3>2
        <5> QED
          BY <2>2, <4>4, <5>1
      <4> QED
        BY <4>2, <4>3, <4>4
    <3> QED
      BY <2>1, <3>1, <3>2
  <2>5. Holds({}, outBuffer)'
    <3> SUFFICES ASSUME NEW r \in repoSeq, Reached < r.seq, r.seq <= seqLastSeen
                 PROVE  \E j \in 1 .. n + 1 : r \in outBuffer'[j]
      BY <1>1, <2>1 DEF Holds
    <3>1. r \in cutoverPage \/ \E j \in 1 .. n : r \in cutoverBuffer[j]
      BY <1>1, <2>1 DEF BufferInv, Holds
    <3>2. CASE r \in cutoverPage
      BY <2>1, <3>2
    <3>3. ASSUME NEW j \in 1 .. n, r \in cutoverBuffer[j]
          PROVE  \E k \in 1 .. n + 1 : r \in outBuffer'[k]
      <4>1. j + 1 \in 1 .. n + 1
        BY <2>1
      <4> QED
        BY <2>2, <3>3, <4>1
    <3> QED
      BY <3>1, <3>2, <3>3
  <2> QED
    BY <1>1, <2>3, <2>4, <2>5 DEF BufferInv, InLog, Fresh
<1> QED
  BY <1>4, <1>5

\* What taking the first row of the out buffer does to the position.
LEMMA YieldEffect ==
    ASSUME TypeOK, PhaseInv, BufferInv, YieldLive
    PROVE  /\ phase = "live" /\ cutover = "done" /\ outBuffer # <<>>
           /\ outBuffer \in Seq(SUBSET Row)
           /\ UNCHANGED <<repoSeq, sequenced, nextSeq, seqLastSeen, phase, floor,
                          listenedAt, cutover, cutoverPage, cutoverBuffer>>
           /\ \E x \in outBuffer[1] :
                /\ x \in sequenced /\ x \in Row
                /\ \A y \in outBuffer[1] : x.seq <= y.seq
                /\ outBuffer' = Pop(outBuffer, x)
                /\ Reached <= Reached' /\ x.seq <= Reached'
                /\ lastSeen < x.seq =>
                      lastSeen' = x.seq /\ received' = Append(received, x)
                /\ x.seq <= lastSeen =>
                      lastSeen' = lastSeen /\ received' = received
<1>1. /\ phase = "live" /\ outBuffer # <<>>
      /\ UNCHANGED <<repoSeq, sequenced, nextSeq, seqLastSeen, phase, floor,
                     listenedAt, cutover, cutoverPage, cutoverBuffer>>
  BY DEF YieldLive, sequencerVars, dbVars, pollVars
<1>2. /\ outBuffer \in Seq(SUBSET Row) /\ lastSeen \in Nat \cup {-1}
      /\ floor \in Int /\ sequenced \subseteq Row
  BY DEF TypeOK, StreamTypeOK, SequencerTypeOK
<1>3. Head(outBuffer) = outBuffer[1] /\ 1 \in DOMAIN outBuffer
  BY <1>1, <1>2
<1>4. PICK x \in outBuffer[1] :
        /\ IsFirst(x, outBuffer[1])
        /\ outBuffer' = Pop(outBuffer, x)
        /\ IF x.seq > lastSeen
           THEN lastSeen' = x.seq /\ received' = Append(received, x)
           ELSE UNCHANGED <<lastSeen, received>>
  BY <1>3 DEF YieldLive
<1>5. x \in sequenced /\ x \in Row /\ x.seq \in Nat
  BY <1>2, <1>3 DEF BufferInv, InLog, Row
<1>6. Reached <= Reached' /\ x.seq <= Reached'
  BY <1>1, <1>2, <1>4, <1>5 DEF Reached
<1>7. cutover = "done"
  BY <1>1 DEF PhaseInv
<1> QED
  BY <1>1, <1>2, <1>4, <1>5, <1>6, <1>7 DEF IsFirst

\* Taking the first row keeps every other row in its place.
LEMMA BufferYield ==
    ASSUME TypeOK, LogInv, PhaseInv, BufferInv, YieldLive
    PROVE  BufferInv'
<1>1. /\ cutover = "done" /\ outBuffer # <<>> /\ outBuffer \in Seq(SUBSET Row)
      /\ UNCHANGED <<repoSeq, sequenced, seqLastSeen, floor, listenedAt, cutover,
                     cutoverPage, cutoverBuffer>>
  BY YieldEffect
<1>2. PICK x \in outBuffer[1] :
        /\ x \in sequenced /\ x \in Row
        /\ outBuffer' = Pop(outBuffer, x)
        /\ Reached <= Reached' /\ x.seq <= Reached'
  BY YieldEffect
<1>3. /\ repoSeq \subseteq Row /\ Reached \in Int /\ Reached' \in Int
      /\ seqLastSeen \in Nat
  <2>1. TypeOK /\ lastSeen' \in Int
    BY <1>2, YieldEffect DEF Row, TypeOK, StreamTypeOK
  <2> QED
    BY <1>1, <2>1 DEF TypeOK, StreamTypeOK, SequencerTypeOK, Reached
<1>4. /\ DOMAIN outBuffer = 1 .. Len(outBuffer) /\ Len(outBuffer) \in Nat \ {0}
      /\ Head(outBuffer) = outBuffer[1]
  BY <1>1
<1>5. ASSUME NEW r \in repoSeq, Reached' < r.seq
      PROVE  r # x /\ Reached < r.seq
  BY <1>2, <1>3, <1>5 DEF Row
<1> DEFINE m == Len(outBuffer')
<1>6. CASE outBuffer[1] = {x}
  <2>1. /\ m \in Nat /\ DOMAIN outBuffer' = 1 .. m /\ Len(outBuffer) = m + 1
        /\ \A i \in 1 .. m : outBuffer'[i] = outBuffer[i + 1]
    <3>1. x \in outBuffer[1]
      OBVIOUS
    <3>2. outBuffer' \in Seq(SUBSET Row)
      BY <1>1, <1>2, <3>1, PopRows
    <3>3. /\ Len(outBuffer) = Len(outBuffer') + 1
          /\ \A i \in 1 .. Len(outBuffer') : outBuffer'[i] = outBuffer[i + 1]
      <4> DEFINE p == Pop(outBuffer, x)
      <4>1. /\ Len(outBuffer) = Len(p) + 1
            /\ \A i \in 1 .. Len(p) : p[i] = outBuffer[i + 1]
        BY <1>1, <1>4, <1>6, <3>1, PopRows
      <4> QED
        BY <1>2, <4>1
    <3> QED
      BY <3>2, <3>3
  <2> HIDE DEF m
  <2>2. InLog(outBuffer)' /\ \A i \in DOMAIN outBuffer' : Fresh(outBuffer[i])'
    <3> SUFFICES ASSUME NEW i \in 1 .. m
                 PROVE  outBuffer'[i] \subseteq sequenced' /\ Fresh(outBuffer[i])'
      BY <2>1 DEF InLog
    <3>1. outBuffer'[i] = outBuffer[i + 1] /\ i + 1 \in DOMAIN outBuffer
      BY <1>4, <2>1
    <3> QED
      BY <1>1, <3>1 DEF BufferInv, InLog, Fresh
  <2>3. ASSUME NEW i \in 1 .. m + 1, NEW r \in repoSeq, Reached' < r.seq,
               \E j \in 1 .. i : r \in outBuffer[j]
        PROVE  \E j \in 1 .. i - 1 : r \in outBuffer'[j]
    <3>1. PICK j \in 1 .. i : r \in outBuffer[j]
      BY <2>3
    <3>2. j # 1
      BY <1>5, <1>6, <2>3, <3>1
    <3>3. j - 1 \in 1 .. i - 1 /\ j - 1 \in 1 .. m /\ (j - 1) + 1 = j
      BY <2>1, <3>2
    <3> QED
      BY <2>1, <3>1, <3>3
  <2>4. Covers({}, outBuffer)'
    <3> SUFFICES ASSUME NEW i \in 1 .. m, NEW y \in outBuffer'[i],
                        NEW r \in repoSeq, Reached' < r.seq, r.seq < y.seq
                 PROVE  \E j \in 1 .. i : r \in outBuffer'[j]
      BY <1>1, <2>1 DEF Covers
    <3>1. y \in outBuffer[i + 1] /\ i + 1 \in 1 .. m + 1 /\ (i + 1) - 1 = i
      BY <2>1
    <3>2. \E j \in 1 .. i + 1 : r \in outBuffer[j]
      BY <1>1, <1>4, <1>5, <2>1, <3>1 DEF BufferInv, Covers
    <3>3. \E j \in 1 .. (i + 1) - 1 : r \in outBuffer'[j]
      BY <2>3, <3>1, <3>2
    <3> QED
      BY <3>1, <3>3
  <2>5. Holds({}, outBuffer)'
    <3> SUFFICES ASSUME NEW r \in repoSeq, Reached' < r.seq, r.seq <= seqLastSeen
                 PROVE  \E j \in 1 .. m : r \in outBuffer'[j]
      BY <1>1, <2>1 DEF Holds
    <3>1. \E j \in 1 .. m + 1 : r \in outBuffer[j]
      BY <1>1, <1>4, <1>5, <2>1 DEF BufferInv, Holds
    <3> QED
      BY <2>1, <2>3, <3>1
  <2> QED
    BY <1>1, <2>2, <2>4, <2>5 DEF BufferInv, InLog, Fresh
<1>7. CASE outBuffer[1] # {x}
  <2>1. /\ m \in Nat /\ DOMAIN outBuffer' = 1 .. m /\ Len(outBuffer) = m
        /\ outBuffer'[1] = outBuffer[1] \ {x}
        /\ \A i \in 2 .. m : outBuffer'[i] = outBuffer[i]
    <3>1. x \in outBuffer[1]
      OBVIOUS
    <3>2. outBuffer' \in Seq(SUBSET Row)
      BY <1>1, <1>2, <3>1, PopRows
    <3>3. /\ Len(outBuffer) = Len(outBuffer')
          /\ outBuffer'[1] = outBuffer[1] \ {x}
          /\ \A i \in 2 .. Len(outBuffer) : outBuffer'[i] = outBuffer[i]
      <4> DEFINE p == Pop(outBuffer, x)
      <4>1. /\ Len(outBuffer) = Len(p)
            /\ p[1] = outBuffer[1] \ {x}
            /\ \A i \in 2 .. Len(outBuffer) : p[i] = outBuffer[i]
        BY <1>1, <1>4, <1>7, <3>1, PopRows
      <4> QED
        BY <1>2, <4>1
    <3> QED
      BY <3>2, <3>3
  <2> HIDE DEF m
  <2>2. \A i \in 1 .. m : outBuffer'[i] \subseteq outBuffer[i]
    BY <2>1
  <2>3. InLog(outBuffer)' /\ \A i \in DOMAIN outBuffer' : Fresh(outBuffer[i])'
    BY <1>1, <1>4, <2>1, <2>2 DEF BufferInv, InLog, Fresh
  <2>4. ASSUME NEW i \in 1 .. m, NEW r \in outBuffer[i], r # x
        PROVE  r \in outBuffer'[i]
    BY <2>1, <2>4
  <2>5. Covers({}, outBuffer)'
    <3> SUFFICES ASSUME NEW i \in 1 .. m, NEW y \in outBuffer'[i],
                        NEW r \in repoSeq, Reached' < r.seq, r.seq < y.seq
                 PROVE  \E j \in 1 .. i : r \in outBuffer'[j]
      BY <1>1, <2>1 DEF Covers
    <3>1. \E j \in 1 .. i : r \in outBuffer[j]
      BY <1>1, <1>4, <1>5, <2>1, <2>2 DEF BufferInv, Covers
    <3> QED
      BY <1>5, <2>1, <2>4, <3>1
  <2>6. Holds({}, outBuffer)'
    <3> SUFFICES ASSUME NEW r \in repoSeq, Reached' < r.seq, r.seq <= seqLastSeen
                 PROVE  \E j \in 1 .. m : r \in outBuffer'[j]
      BY <1>1, <2>1 DEF Holds
    <3>1. \E j \in 1 .. m : r \in outBuffer[j]
      BY <1>1, <1>4, <1>5, <2>1 DEF BufferInv, Holds
    <3> QED
      BY <1>5, <2>1, <2>4, <3>1
  <2> QED
    BY <1>1, <2>3, <2>5, <2>6 DEF BufferInv, InLog, Fresh
<1> QED
  BY <1>6, <1>7

\* The buffers keep what the consumer is owed, in an order without holes.
LEMMA BufferStep ==
    ASSUME TypeOK, LogInv, PollInv, PhaseInv, BufferInv, [Next]_vars
    PROVE  BufferInv'
<1>1. CASE UNCHANGED <<seqLastSeen, repoSeq, sequenced, lastSeen, floor, listenedAt,
                       cutover, cutoverPage, cutoverBuffer, outBuffer>>
  BY <1>1 DEF BufferInv, InLog, Fresh, Covers, Holds, NoHole, Reached
<1>2. CASE Write /\ UNCHANGED streamVars
  BY <1>2, BufferWrite
<1>3. CASE PollQuery /\ UNCHANGED streamVars
  BY <1>1, <1>3 DEF PollQuery, dbVars, streamVars
<1>4. CASE RestartAll \/ Disconnect \/ TooSlow
  BY <1>4, BufferOff DEF RestartAll, Disconnect, TooSlow, Cleared, BufferInv,
                         InLog, Fresh
<1>5. ASSUME NEW cursor \in Cursors,
             ConnectFuture(cursor) \/ ConnectFrom(cursor)
      PROVE  BufferInv'
  BY <1>5 DEF ConnectFuture, ConnectFrom, NewConnection, BufferInv, InLog, Fresh
<1>6. CASE FindWindow
  <2>1. /\ cutoverPage = {} /\ cutoverBuffer = <<>> /\ outBuffer = <<>>
        /\ cutover = "off"
    BY <1>6 DEF FindWindow, PhaseInv, TypeOK, StreamTypeOK
  <2> QED
    BY <1>6, <2>1 DEF FindWindow, BufferInv, InLog, Fresh
<1>7. CASE YieldBackfill
  <2>1. /\ cutoverPage = {} /\ cutoverBuffer = <<>> /\ outBuffer = <<>>
        /\ cutover = "off"
    BY <1>7 DEF YieldBackfill, PhaseInv, TypeOK, StreamTypeOK
  <2> QED
    BY <1>7, <2>1 DEF YieldBackfill, BufferInv, InLog, Fresh
<1>8. CASE ConnectLive \/ Listen
  <2>1. /\ cutoverPage' = {} /\ cutoverBuffer' = <<>> /\ outBuffer' = <<>>
        /\ cutover' \in {"asked", "done"}
        /\ cutover' = "done" =>
              floor' = seqLastSeen' /\ Holds({}, outBuffer)' /\ Covers({}, outBuffer)'
    <3>1. /\ cutoverPage' = {} /\ cutoverBuffer' = <<>> /\ outBuffer' = <<>>
          /\ cutover' \in {"asked", "done"}
          /\ cutover' = "done" => floor' = seqLastSeen'
      BY <1>8 DEF ConnectLive, Listen, NewConnection, AddListener, PhaseInv,
                  sequencerVars, pollVars
    <3>2. /\ seqLastSeen' \in Nat /\ lastSeen' \in Int /\ floor' \in Int
          /\ repoSeq' \subseteq Row
      BY TypeStep DEF TypeOK, StreamTypeOK, SequencerTypeOK
    <3> QED
      BY <3>1, <3>2 DEF Holds, Covers, Reached, Row
  <2> QED
    BY <2>1 DEF BufferInv, InLog, Fresh
<1>9. CASE EndPage \/ BackfillQuery
  BY <1>1, <1>9 DEF EndPage, BackfillQuery, sequencerVars, dbVars, pollVars
<1>10. CASE UNCHANGED vars
  BY <1>1, <1>10 DEF vars, sequencerVars, dbVars, pollVars, streamVars
<1> QED
  BY <1>2, <1>3, <1>4, <1>5, <1>6, <1>7, <1>8, <1>9, <1>10, BufferEmit,
     BufferQuery, BufferCutover, BufferYield DEF Next, Backfill, Stream

-----------------------------------------------------------------------------
(* What the consumer gets *)

\* A row that is yielded, after everything yielded before and with no owed row
\* in between, keeps the history in order and without a gap.
LEMMA OrderYield ==
    ASSUME TypeOK, LogInv, OrderInv, phase # "idle", NEW x \in sequenced, x \in Row,
           lastSeen < x.seq,
           \A r \in repoSeq : Reached < r.seq => x.seq <= r.seq,
           x.seq > floor \/ (listenedAt > -1 /\ x.seq > listenedAt),
           UNCHANGED <<phase, floor, listenedAt, repoSeq, sequenced>>,
           lastSeen' = x.seq, received' = Append(received, x)
    PROVE  OrderInv'
<1>1. /\ received \in Seq(Row) /\ lastSeen \in Nat \cup {-1} /\ floor \in Int
      /\ repoSeq \subseteq sequenced /\ sequenced \subseteq Row
      /\ x.seq \in Nat
  BY DEF TypeOK, StreamTypeOK, SequencerTypeOK, LogInv, Row
<1> DEFINE n == Len(received)
<1>2. /\ n \in Nat /\ DOMAIN received = 1 .. n /\ DOMAIN received' = 1 .. n + 1
      /\ received'[n + 1] = x /\ Len(received') = n + 1 /\ received' # <<>>
      /\ \A i \in 1 .. n : received'[i] = received[i]
  BY <1>1
<1> HIDE DEF n
<1>3. \A i \in 1 .. n : /\ received[i] \in Row /\ received[i] \in sequenced
                        /\ received[i].seq <= lastSeen
  BY <1>1, <1>2 DEF OrderInv, ReceivedInv
<1>4. Received' = Received \cup {x}
  BY <1>2 DEF Received
<1>5. ReceivedInv'
  <2>1. \A i \in 1 .. n + 1 : received'[i] \in sequenced' /\ received'[i].seq <= x.seq
    BY <1>1, <1>2, <1>3 DEF Row
  <2> QED
    BY <1>1, <1>2, <2>1 DEF ReceivedInv
<1>6. InOrder'
  <2> SUFFICES ASSUME NEW i \in 1 .. n + 1, NEW j \in 1 .. n + 1, i < j
               PROVE  received'[i].seq < received'[j].seq
    BY <1>2 DEF InOrder
  <2>1. CASE j = n + 1
    BY <1>1, <1>2, <1>3, <2>1 DEF Row
  <2>2. CASE j # n + 1
    BY <1>1, <1>2, <2>2 DEF OrderInv, InOrder
  <2> QED
    BY <2>1, <2>2
<1>7. NoGap'
  <2> SUFFICES ASSUME NEW r \in repoSeq, floor < r.seq, r.seq <= x.seq
               PROVE  r \in Received \cup {x}
    BY <1>4 DEF NoGap
  <2>1. r \in Row /\ r.seq \in Nat /\ r \in sequenced
    BY <1>1 DEF Row
  <2>2. CASE r.seq <= lastSeen
    BY <2>2 DEF OrderInv, NoGap
  <2>3. CASE lastSeen < r.seq
    <3>1. x.seq <= r.seq
      BY <1>1, <2>1, <2>3 DEF Reached
    <3> QED
      BY <1>1, <2>1, <3>1 DEF LogInv
  <2> QED
    BY <1>1, <2>1, <2>2, <2>3
<1>8. NothingStale'
  BY <1>4 DEF OrderInv, NothingStale
<1> QED
  BY <1>5, <1>6, <1>7, <1>8 DEF OrderInv

\* An empty history, and one that no row is added to, stay as they are.
LEMMA OrderEmpty ==
    ASSUME received' = <<>>, lastSeen' = -1, repoSeq' \subseteq Row
    PROVE  OrderInv'
BY DEF OrderInv, ReceivedInv, InOrder, NoGap, NothingStale, Received, Row

LEMMA OrderIdle ==
    ASSUME OrderInv, phase' = "idle", lastSeen' = -1, received' = received,
           sequenced \subseteq sequenced', repoSeq' \subseteq Row
    PROVE  OrderInv'
BY DEF OrderInv, ReceivedInv, InOrder, NoGap, NothingStale, Row

LEMMA OrderStep ==
    ASSUME TypeOK, LogInv, PollInv, PhaseInv, BackfillInv, BufferInv, OrderInv,
           [Next]_vars
    PROVE  OrderInv'
<1>0. /\ repoSeq' \subseteq Row /\ repoSeq \subseteq Row /\ sequenced \subseteq Row
      /\ lastSeen \in Nat \cup {-1} /\ floor \in Int /\ nextSeq \in Nat
      /\ repoSeq \subseteq sequenced
  BY TypeStep DEF TypeOK, SequencerTypeOK, StreamTypeOK, LogInv
<1>1. CASE UNCHANGED <<received, lastSeen, repoSeq, sequenced, floor, phase,
                       listenedAt>>
  BY <1>1 DEF OrderInv, ReceivedInv, InOrder, NoGap, NothingStale, Received
<1>2. CASE Write /\ UNCHANGED streamVars
  <2>1. /\ sequenced \subseteq sequenced'
        /\ \A r \in repoSeq' : r \in repoSeq \/ nextSeq <= r.seq
    BY <1>2, WriteEffect DEF TypeOK
  <2>2. UNCHANGED <<received, lastSeen, floor, phase, listenedAt>>
    BY <1>2 DEF streamVars
  <2>3. lastSeen < nextSeq
    <3>1. CASE phase # "idle" /\ lastSeen > -1
      <4>1. /\ received # <<>> /\ received \in Seq(Row)
            /\ received[Len(received)].seq = lastSeen
        BY <3>1 DEF OrderInv, ReceivedInv, TypeOK, StreamTypeOK
      <4>2. received[Len(received)] \in sequenced
        BY <4>1 DEF OrderInv, ReceivedInv
      <4> QED
        BY <4>1, <4>2 DEF LogInv
    <3>2. CASE lastSeen = -1
      BY <1>0, <3>2
    <3> QED
      BY <1>0, <3>1, <3>2 DEF PhaseInv
  <2>4. NoGap'
    BY <1>0, <2>1, <2>2, <2>3 DEF OrderInv, NoGap, Received, Row
  <2> QED
    BY <2>1, <2>2, <2>4 DEF OrderInv, ReceivedInv, InOrder, NothingStale, Received
<1>3. CASE PollQuery /\ UNCHANGED streamVars
  BY <1>1, <1>3 DEF PollQuery, dbVars, streamVars
<1>4. CASE Emit
  BY <1>1, <1>4 DEF Emit, PollEmit, AddToBuffer, dbVars
<1>5. CASE RestartAll \/ Disconnect \/ TooSlow
  <2>1. /\ phase' = "idle" /\ lastSeen' = -1 /\ received' = received
        /\ sequenced' = sequenced
    BY <1>5 DEF RestartAll, Restart, Disconnect, TooSlow, Cleared, sequencerVars,
                dbVars
  <2> QED
    BY <1>0, <2>1, OrderIdle
<1>6. ASSUME NEW cursor \in Cursors, ConnectFuture(cursor)
      PROVE  OrderInv'
  <2>1. /\ phase' = "idle" /\ lastSeen' = -1 /\ received' = received
        /\ sequenced' = sequenced
    BY <1>6 DEF ConnectFuture, NewConnection, sequencerVars, dbVars
  <2> QED
    BY <1>0, <2>1, OrderIdle
<1>7. ASSUME received' = <<>>, lastSeen' = -1
      PROVE  OrderInv'
  BY <1>0, <1>7, OrderEmpty
<1>8. CASE ConnectLive \/ \E cursor \in Cursors : ConnectFrom(cursor)
  BY <1>7, <1>8 DEF ConnectLive, ConnectFrom, NewConnection
<1>9. CASE FindWindow
  BY <1>7, <1>9 DEF FindWindow, PhaseInv, OrderInv, ReceivedInv
<1>10. CASE Listen
  <2>1. /\ phase = "switch" /\ phase' = "live" /\ listenedAt' = seqLastSeen
        /\ UNCHANGED <<received, lastSeen, repoSeq, sequenced>>
        /\ IF hasCursor THEN floor' = floor ELSE floor' = seqLastSeen
    BY <1>10 DEF Listen, AddListener, sequencerVars, dbVars
  <2>2. CASE ~hasCursor
    BY <1>7, <2>1, <2>2 DEF PhaseInv, OrderInv, ReceivedInv
  <2>3. CASE hasCursor
    <3>1. listenedAt = -1
      BY <2>1 DEF PhaseInv
    <3>2. /\ ReceivedInv' /\ InOrder' /\ NoGap' /\ Received' = Received
          /\ floor' = floor
      BY <2>1, <2>3 DEF OrderInv, ReceivedInv, InOrder, NoGap, Received
    <3>3. \A r \in Received : r.seq > floor
      BY <2>1, <3>1 DEF OrderInv, NothingStale
    <3> QED
      BY <3>2, <3>3 DEF OrderInv, NothingStale
  <2> QED
    BY <2>2, <2>3
<1>11. CASE BackfillQuery \/ EndPage
  <2>1. /\ phase # "idle" /\ phase' # "idle"
        /\ UNCHANGED <<received, lastSeen, repoSeq, sequenced, floor, listenedAt>>
    BY <1>11 DEF BackfillQuery, EndPage, sequencerVars, dbVars
  <2>2. ReceivedInv' /\ InOrder' /\ NoGap' /\ Received' = Received
    BY <2>1 DEF OrderInv, ReceivedInv, InOrder, NoGap, Received
  <2>3. NothingStale'
    BY <2>1, <2>2 DEF OrderInv, NothingStale
  <2> QED
    BY <2>2, <2>3 DEF OrderInv
<1>12. CASE CutoverQuery \/ CutoverDone
  BY <1>1, <1>12 DEF CutoverQuery, CutoverDone, sequencerVars, dbVars
<1>13. CASE YieldBackfill
  <2>1. PICK x \in page : /\ IsFirst(x, page)
                          /\ lastSeen' = x.seq
                          /\ received' = Append(received, x)
    BY <1>13 DEF YieldBackfill
  <2>2. /\ phase = "backfill"
        /\ UNCHANGED <<phase, floor, listenedAt, repoSeq, sequenced>>
    BY <1>13 DEF YieldBackfill, sequencerVars, dbVars
  <2>3. x \in sequenced /\ x \in Row /\ Reached < x.seq
    BY <1>0, <2>1 DEF BackfillInv, After
  <2>4. lastSeen < x.seq /\ x.seq > floor
    BY <1>0, <2>3 DEF Reached, Row
  <2>5. \A r \in repoSeq : Reached < r.seq => x.seq <= r.seq
    BY <1>0, <2>1, <2>3 DEF BackfillInv, NoHole, IsFirst, Row
  <2> QED
    BY <2>1, <2>2, <2>3, <2>4, <2>5, OrderYield
<1>14. CASE YieldLive
  <2>1. /\ phase = "live" /\ cutover = "done" /\ outBuffer # <<>>
        /\ outBuffer \in Seq(SUBSET Row)
        /\ UNCHANGED <<repoSeq, sequenced, phase, floor, listenedAt>>
    BY <1>14, YieldEffect
  <2>2. PICK x \in outBuffer[1] :
          /\ x \in sequenced /\ x \in Row
          /\ \A y \in outBuffer[1] : x.seq <= y.seq
          /\ lastSeen < x.seq => lastSeen' = x.seq /\ received' = Append(received, x)
          /\ x.seq <= lastSeen => lastSeen' = lastSeen /\ received' = received
    BY <1>14, YieldEffect
  <2>3. 1 \in DOMAIN outBuffer
    BY <2>1
  <2>4. \A r \in repoSeq : Reached < r.seq => x.seq <= r.seq
    <3> SUFFICES ASSUME NEW r \in repoSeq, Reached < r.seq, r.seq < x.seq
                 PROVE  FALSE
      BY <1>0, <2>2 DEF Row
    <3>1. \E j \in 1 .. 1 : r \in outBuffer[j]
      BY <2>1, <2>3 DEF BufferInv, Covers
    <3>2. r \in outBuffer[1]
      BY <3>1
    <3> QED
      BY <1>0, <2>2, <3>2 DEF Row
  <2>5. x.seq > floor \/ (listenedAt > -1 /\ x.seq > listenedAt)
    BY <2>1, <2>3 DEF BufferInv, Fresh, PhaseInv
  <2>6. CASE lastSeen < x.seq
    BY <2>1, <2>2, <2>4, <2>5, <2>6, OrderYield
  <2>7. CASE x.seq <= lastSeen
    BY <1>1, <2>1, <2>2, <2>7
  <2> QED
    BY <1>0, <2>2, <2>6, <2>7 DEF Row
<1>15. CASE UNCHANGED vars
  BY <1>1, <1>15 DEF vars, sequencerVars, dbVars, streamVars
<1> QED
  BY <1>2, <1>3, <1>4, <1>5, <1>6, <1>8, <1>9, <1>10, <1>11, <1>12, <1>13, <1>14,
     <1>15 DEF Next, Backfill, Stream

-----------------------------------------------------------------------------
(* Theorems *)

LEMMA IInvInit == Init => IInv
<1>0. SUFFICES ASSUME Init PROVE IInv
  OBVIOUS
<1>a. /\ repoSeq = {} /\ sequenced = {} /\ nextSeq = 1 /\ clock = 0
      /\ deletions = {} /\ seqLastSeen = 0 /\ pollPage = {} /\ restarts = 0
  BY <1>0 DEF Init, SequencerInit
<1>b. /\ phase = "idle" /\ hasCursor = FALSE /\ floor = 0 /\ since = 0
      /\ lastSeen = -1 /\ page = {} /\ cutover = "off" /\ cutoverPage = {}
      /\ ended = "none" /\ listenedAt = -1 /\ connects = 0
  BY <1>0 DEF Init, OutboxInit
<1>c. cutoverBuffer = <<>> /\ outBuffer = <<>> /\ received = <<>>
  BY <1>0 DEF Init, OutboxInit
<1>1. TypeOK
  <2>1. SequencerTypeOK
    BY <1>a DEF SequencerTypeOK
  <2>2. /\ cutoverBuffer \in Seq(SUBSET Row) /\ outBuffer \in Seq(SUBSET Row)
        /\ received \in Seq(Row)
    <3>1. <<>> \in Seq(SUBSET Row) /\ <<>> \in Seq(Row)
      OBVIOUS
    <3> QED
      BY <1>c, <3>1
  <2>3. /\ floor \in Int /\ since \in Int /\ lastSeen \in Nat \cup {-1}
        /\ listenedAt \in Nat \cup {-1} /\ connects \in Nat
        /\ page \subseteq Row /\ cutoverPage \subseteq Row
    BY <1>b, SMT
  <2>4. hasCursor \in BOOLEAN
    BY <1>b, Zenon
  <2>5. /\ phase \in Phases
        /\ cutover \in {"off", "asked", "answered", "done"}
        /\ ended \in {"none", "FutureCursor", "ConsumerTooSlow", "closed"}
    BY <1>b DEF Phases
  <2>6. StreamTypeOK
    BY <2>2, <2>3, <2>4, <2>5, Zenon DEF StreamTypeOK
  <2> QED
    BY <2>1, <2>6 DEF TypeOK
<1>2. LogInv /\ PollInv
  BY <1>a, FS_EmptySet DEF LogInv, PollInv, After, NoHole
<1>3. PhaseInv /\ BackfillInv
  BY <1>a, <1>b, <1>c DEF PhaseInv, BackfillInv, After, NoHole
<1>4. BufferInv
  BY <1>a, <1>b, <1>c DEF BufferInv, InLog, Fresh
<1>5. OrderInv
  BY <1>a, <1>b, <1>c DEF OrderInv, ReceivedInv, InOrder, NoGap, NothingStale
<1> QED
  BY <1>1, <1>2, <1>3, <1>4, <1>5 DEF IInv

LEMMA IInvNext == IInv /\ [Next]_vars => IInv'
<1> SUFFICES ASSUME IInv, [Next]_vars PROVE IInv'
  OBVIOUS
<1>1. TypeOK' /\ LogInv' /\ PollInv'
  BY TypeStep, LogStep, PollStep DEF IInv, TypeOK
<1>2. PhaseInv' /\ BackfillInv'
  BY PhaseStep, BackfillStep DEF IInv
<1>3. BufferInv' /\ OrderInv'
  BY BufferStep, OrderStep DEF IInv
<1> QED
  BY <1>1, <1>2, <1>3 DEF IInv

\* IInv holds in every reachable state of sequencer and outbox.
THEOREM Invariance == Spec => []IInv
<1>1. Init => IInv
  BY IInvInit
<1>2. IInv /\ [Next]_vars => IInv'
  BY IInvNext
<1> QED
  BY <1>1, <1>2, PTL DEF Spec

\* Every variable of the sequencer and of the outbox stays in its type.
THEOREM TypeCorrect == Spec => []TypeOK
<1>1. IInv => TypeOK
  BY DEF IInv
<1> QED
  BY <1>1, Invariance, PTL

\* A connection yields events in strictly ascending seq.
THEOREM OrderedDelivery == Spec => []InOrder
<1>1. IInv => InOrder
  BY DEF IInv, OrderInv
<1> QED
  BY <1>1, Invariance, PTL

\* A connection skips no event that is still in the table.
THEOREM GapFreeDelivery == Spec => []NoGap
<1>1. IInv => NoGap
  BY DEF IInv, OrderInv
<1> QED
  BY <1>1, Invariance, PTL

\* Only events the poll loop had yet to emit are yielded at or before a cursor.
THEOREM StaleOnlyWhenBehind == Spec => []NothingStale
<1>1. IInv => NothingStale
  BY DEF IInv, OrderInv
<1> QED
  BY <1>1, Invariance, PTL

\* Between restarts the poll loop moves forward and skips no row of the table.
THEOREM PollLoop == Spec => PollNeverSkips
<1> DEFINE Skips == /\ seqLastSeen' >= seqLastSeen
                    /\ \A r \in repoSeq :
                          seqLastSeen < r.seq /\ r.seq <= seqLastSeen' =>
                              r \in pollPage
<1>1. IInv /\ [Next]_vars => [restarts' = restarts => Skips]_vars
  <2> SUFFICES ASSUME IInv, Next, restarts' = restarts
               PROVE  Skips
    OBVIOUS
  <2>0. /\ seqLastSeen \in Nat /\ restarts \in Nat /\ repoSeq \subseteq Row
        /\ pollPage \subseteq Row
    BY DEF IInv, TypeOK, SequencerTypeOK
  <2>1. CASE UNCHANGED seqLastSeen
    BY <2>0, <2>1 DEF Row
  <2>2. CASE Emit
    BY <2>0, <2>2 DEF Emit, PollEmit, IsLast, IInv, PollInv, After, NoHole, LogInv,
                      Row
  <2>3. CASE RestartAll
    BY <2>0, <2>3 DEF RestartAll, Restart
  <2>4. Write \/ PollQuery \/ Connection => UNCHANGED seqLastSeen
    BY ConnectionEffect
       DEF Write, SequenceEvts, SequenceDeletion, PurgeRows, Tick, PollQuery,
           pollVars, sequencerVars
  <2> QED
    BY <2>1, <2>2, <2>3, <2>4 DEF Next, Connection
<1> QED
  BY <1>1, Invariance, PTL DEF Spec, PollNeverSkips

-----------------------------------------------------------------------------
(* The window of an outdated cursor *)

\* Rows are stamped in the order of their keys, but for the delay between the
\* stamp and the insert
TimeInv ==
    /\ \A r \in sequenced : r.at <= clock
    /\ \A r, q \in sequenced : r.seq < q.seq => r.at <= q.at + MaxDelay

\* What the cursor leaves behind was late: a row that was stamped in the window
\* is before the cursor only when its insert was overtaken
WindowNearlyKept ==
    FromWindow =>
        \A r \in repoSeq : r.at >= since =>
            \/ r.seq > floor
            \/ /\ MaxDelay > 0
               /\ \A q \in repoSeq : q.at >= since => r.at <= q.at + MaxDelay

WindowInv ==
    /\ TimeInv
    /\ FromWindow => floor < nextSeq
    /\ WindowKept /\ WindowNearlyKept

LEMMA TimeStep ==
    ASSUME IInv, TimeInv, [Next]_vars
    PROVE  /\ TimeInv' /\ nextSeq <= nextSeq' /\ sequenced \subseteq sequenced'
           /\ \A r \in repoSeq' \ repoSeq :
                 nextSeq <= r.seq /\ \A q \in sequenced : q.at <= r.at + MaxDelay
           /\ \A r, q \in repoSeq' \ repoSeq : r.at = q.at
<1>0. SequencerTypeOK /\ LogInv
  BY DEF IInv, TypeOK
<1>1. ASSUME NEW d \in Did, NEW batch \in Seq(Kind), NEW t \in 0 .. clock,
             Insert(d, batch, t), UNCHANGED clock
      PROVE  /\ TimeInv' /\ nextSeq <= nextSeq' /\ sequenced \subseteq sequenced'
             /\ \A r \in repoSeq' \ repoSeq :
                   nextSeq <= r.seq /\ \A q \in sequenced : q.at <= r.at + MaxDelay
             /\ \A r, q \in repoSeq' \ repoSeq : r.at = q.at
  <2>1. /\ NewRows(d, batch, t) \subseteq Row
        /\ \A r \in NewRows(d, batch, t) : nextSeq <= r.seq
    BY <1>0, <1>1, NewRowsType DEF SequencerTypeOK
  <2>2. \A r \in NewRows(d, batch, t) : r.at = t
    BY DEF NewRows
  <2>3. /\ repoSeq' = repoSeq \cup NewRows(d, batch, t)
        /\ sequenced' = sequenced \cup NewRows(d, batch, t)
        /\ nextSeq' = nextSeq + Len(batch)
        /\ clock - MaxDelay <= t
    BY <1>1 DEF Insert
  <2>4. /\ sequenced \subseteq Row /\ clock \in Nat /\ MaxDelay \in Nat /\ nextSeq \in Nat
        /\ clock' = clock /\ Len(batch) \in Nat
        /\ \A r \in sequenced : r.seq < nextSeq
    BY <1>0, <1>1, SequencerConstants DEF SequencerTypeOK, LogInv
  <2>5. \A q \in sequenced : q.at \in Nat /\ q.seq \in Nat /\ q.at <= t + MaxDelay
    BY <2>3, <2>4 DEF TimeInv, Row
  <2>6. \A r \in sequenced' : r.at <= clock'
    BY <2>2, <2>3, <2>4 DEF TimeInv
  <2>7. ASSUME NEW r \in sequenced', NEW q \in sequenced', r.seq < q.seq
        PROVE  r.at <= q.at + MaxDelay
    <3>1. CASE r \in sequenced /\ q \in sequenced
      BY <2>7, <3>1 DEF TimeInv
    <3>2. CASE r \in sequenced /\ q \in NewRows(d, batch, t)
      BY <2>2, <2>5, <3>2
    <3>3. CASE r \in NewRows(d, batch, t) /\ q \in sequenced
      BY <2>1, <2>4, <2>5, <2>7, <3>3 DEF Row
    <3>4. CASE r \in NewRows(d, batch, t) /\ q \in NewRows(d, batch, t)
      BY <2>2, <2>4, <3>4
    <3> QED
      BY <2>3, <3>1, <3>2, <3>3, <3>4
  <2> QED
    BY <2>1, <2>2, <2>3, <2>4, <2>5, <2>6, <2>7 DEF TimeInv
<1>2. ASSUME NEW d \in Did, SequenceEvts(d) \/ SequenceDeletion(d)
      PROVE  \E batch \in Seq(Kind), t \in 0 .. clock : Insert(d, batch, t) /\ UNCHANGED clock
  <2>1. CASE SequenceEvts(d)
    <3>1. PICK batch \in Batches, t \in 0 .. clock : Insert(d, batch, t)
      BY <2>1 DEF SequenceEvts
    <3>2. batch \in Seq(Kind)
      BY SequencerConstants
    <3> QED
      BY <2>1, <3>1, <3>2 DEF SequenceEvts
  <2>2. CASE SequenceDeletion(d)
    <3>1. <<"deleted">> \in Seq(Kind)
      BY DEF Kind
    <3> QED
      BY <2>2, <3>1 DEF SequenceDeletion
  <2> QED
    BY <1>2, <2>1, <2>2
<1>3. ASSUME repoSeq' \subseteq repoSeq, clock <= clock', UNCHANGED <<sequenced, nextSeq>>,
             clock' \in Nat
      PROVE  /\ TimeInv' /\ nextSeq <= nextSeq' /\ sequenced \subseteq sequenced'
             /\ \A r \in repoSeq' \ repoSeq :
                   nextSeq <= r.seq /\ \A q \in sequenced : q.at <= r.at + MaxDelay
             /\ \A r, q \in repoSeq' \ repoSeq : r.at = q.at
  BY <1>0, <1>3 DEF TimeInv, SequencerTypeOK, Row
<1>4. CASE Tick \/ \E x \in deletions : PurgeRows(x)
  BY <1>0, <1>3, <1>4 DEF Tick, PurgeRows, SequencerTypeOK
<1>5. CASE PollQuery \/ Emit \/ RestartAll
  BY <1>0, <1>3, <1>5 DEF PollQuery, Emit, PollEmit, RestartAll, Restart, dbVars, SequencerTypeOK
<1>6. CASE Connection \/ UNCHANGED vars
  BY <1>0, <1>3, <1>6, ConnectionEffect DEF sequencerVars, dbVars, vars, SequencerTypeOK
<1> QED
  BY <1>1, <1>2, <1>4, <1>5, <1>6 DEF Next, Write, Connection

\* A connection that reads from the window keeps its cursor once it found it.
LEMMA FromWindowStep ==
    ASSUME [Next]_vars, FromWindow', ~FindWindow
    PROVE  FromWindow /\ UNCHANGED <<since, floor>>
<1>1. CASE UNCHANGED streamVars
  BY <1>1 DEF FromWindow, streamVars
<1>2. CASE Emit
  BY <1>2 DEF Emit, AddToBuffer, FromWindow
<1>3. CASE RestartAll \/ TooSlow \/ Disconnect
  BY <1>3 DEF RestartAll, TooSlow, Disconnect, FromWindow
<1>4. CASE ConnectLive
  BY <1>4 DEF ConnectLive, FromWindow
<1>5. ASSUME NEW cursor \in Cursors, ConnectFuture(cursor) \/ ConnectFrom(cursor)
      PROVE  FALSE
  <2>1. CASE ConnectFuture(cursor)
    BY <2>1 DEF ConnectFuture, FromWindow
  <2>2. CASE ConnectFrom(cursor)
    BY <2>2 DEF ConnectFrom, FromWindow
  <2> QED
    BY <1>5, <2>1, <2>2
<1>6. CASE Backfill
  BY <1>6 DEF Backfill, BackfillQuery, YieldBackfill, EndPage, FromWindow
<1>7. CASE Listen
  BY <1>7 DEF Listen, AddListener, FromWindow
<1>8. CASE CutoverQuery \/ CutoverDone \/ YieldLive
  BY <1>8 DEF CutoverQuery, CutoverDone, YieldLive, FromWindow
<1> QED
  BY <1>1, <1>2, <1>3, <1>4, <1>5, <1>6, <1>7, <1>8 DEF Next, Stream, vars

\* The cursor that is found leaves behind only rows whose insert was overtaken.
LEMMA FindWindowStep ==
    ASSUME IInv, TimeInv, FindWindow, FromWindow'
    PROVE  (floor < nextSeq)' /\ WindowKept' /\ WindowNearlyKept'
<1>1. phase' # "switch" \/ ~hasCursor'
  BY DEF FindWindow
<1>2. PICK f \in repoSeq : IsEarliest(f, since) /\ floor' = f.seq - 1
  BY <1>1 DEF FindWindow, FromWindow
<1>3. UNCHANGED <<since, repoSeq, sequenced, nextSeq>>
  BY DEF FindWindow, sequencerVars, dbVars
<1>4. /\ repoSeq \subseteq sequenced /\ sequenced \subseteq Row /\ since \in Int
      /\ nextSeq \in Nat /\ MaxDelay \in Nat /\ \A r \in sequenced : r.seq < nextSeq
  BY SequencerConstants DEF IInv, TypeOK, SequencerTypeOK, StreamTypeOK, LogInv
<1>5. ASSUME NEW r \in repoSeq, r.at >= since, ~(r.seq > f.seq - 1)
      PROVE  /\ MaxDelay > 0
             /\ \A q \in repoSeq : q.at >= since => r.at <= q.at + MaxDelay
             /\ r.seq < f.seq /\ f.at < r.at
  <2>1. r.seq < f.seq /\ r.at <= f.at + MaxDelay
    BY <1>4, <1>5 DEF TimeInv, Row
  <2>2. f.at < r.at
    BY <1>4, <1>5, <1>2, <2>1 DEF IsEarliest, Row
  <2>3. \A q \in repoSeq : q.at >= since => f.at <= q.at
    BY <1>2, <1>4 DEF IsEarliest, Row
  <2> QED
    BY <1>4, <2>1, <2>2, <2>3 DEF Row
<1>6. WindowNearlyKept'
  BY <1>2, <1>3, <1>5 DEF WindowNearlyKept
<1>7. f.seq - 1 < nextSeq
  BY <1>4 DEF Row
<1>8. since <= f.at /\ f \in sequenced
  BY <1>2, <1>4 DEF IsEarliest, Row
<1>9. WindowKept'
  BY <1>2, <1>3, <1>5, <1>8 DEF WindowKept, Overtook
<1> QED
  BY <1>2, <1>3, <1>6, <1>7, <1>9

LEMMA WindowStep == IInv /\ WindowInv /\ [Next]_vars => WindowInv'
<1> SUFFICES ASSUME IInv, WindowInv, [Next]_vars PROVE WindowInv'
  OBVIOUS
<1>1. /\ TimeInv' /\ nextSeq <= nextSeq' /\ sequenced \subseteq sequenced'
      /\ \A r \in repoSeq' \ repoSeq :
            nextSeq <= r.seq /\ \A q \in sequenced : q.at <= r.at + MaxDelay
  BY TimeStep DEF WindowInv
<1>2. CASE FindWindow
  BY <1>1, <1>2, FindWindowStep DEF WindowInv, WindowKept, WindowNearlyKept
<1>3. CASE ~FindWindow /\ FromWindow'
  <2>1. FromWindow /\ UNCHANGED <<since, floor>>
    BY <1>3, FromWindowStep
  <2>2. /\ repoSeq \subseteq sequenced /\ sequenced \subseteq Row /\ floor \in Int
        /\ nextSeq \in Nat /\ nextSeq' \in Nat /\ repoSeq' \subseteq Row
    BY TypeStep DEF IInv, TypeOK, SequencerTypeOK, StreamTypeOK, LogInv
  <2>3. floor < nextSeq /\ floor' < nextSeq'
    BY <1>1, <2>1, <2>2 DEF WindowInv
  <2>4. ASSUME NEW r \in repoSeq', r.at >= since, ~(r.seq > floor)
        PROVE  /\ MaxDelay > 0
               /\ \A q \in repoSeq' : q.at >= since => r.at <= q.at + MaxDelay
               /\ Overtook(r)
    <3>1. r \in repoSeq
      BY <1>1, <2>2, <2>3, <2>4 DEF Row
    <3>2. /\ MaxDelay > 0
          /\ \A q \in repoSeq : q.at >= since => r.at <= q.at + MaxDelay
          /\ Overtook(r)
      BY <2>1, <2>4, <3>1 DEF WindowInv, WindowKept, WindowNearlyKept
    <3>3. \A q \in repoSeq' \ repoSeq : r.at <= q.at + MaxDelay
      BY <1>1, <2>2, <3>1
    <3> QED
      BY <3>2, <3>3
  <2>5. WindowNearlyKept'
    BY <2>1, <2>4 DEF WindowNearlyKept
  <2>6. WindowKept'
    BY <1>1, <2>1, <2>4 DEF WindowKept, Overtook
  <2> QED
    BY <1>1, <2>3, <2>5, <2>6 DEF WindowInv
<1>4. CASE ~FromWindow'
  BY <1>1, <1>4 DEF WindowInv, WindowKept, WindowNearlyKept
<1> QED
  BY <1>2, <1>3, <1>4

LEMMA WindowInvariance == Spec => []WindowInv
<1>1. Init => WindowInv
  BY DEF Init, SequencerInit, OutboxInit, WindowInv, TimeInv, FromWindow, WindowKept,
         WindowNearlyKept
<1>2. IInv /\ WindowInv /\ [Next]_vars => WindowInv'
  BY WindowStep
<1> QED
  BY <1>1, <1>2, Invariance, PTL DEF Spec

\* Whatever the delay of inserts: of the rows stamped in the window, the cursor
\* that a connection with an outdated cursor gets leaves behind at most some that
\* were inserted before an earlier stamp, and these are as old as the window's first
\* row, but for the delay between stamp and insert.
THEOREM OnlyLateRowsAreLeft == Spec => [](WindowKept /\ WindowNearlyKept)
<1>1. WindowInv => WindowKept /\ WindowNearlyKept
  BY DEF WindowInv
<1> QED
  BY <1>1, WindowInvariance, PTL

-----------------------------------------------------------------------------
(* The refinement: sequencer and outbox implement EventStream.  Each step   *)
(* is one of the abstract stream, or none.                                 *)

\* What a step yields, if anything: a row that comes next.
NextOwed(x) ==
    /\ x \in sequenced /\ x \in Row
    /\ lastSeen < x.seq
    /\ \A r \in repoSeq : Reached < r.seq => x.seq <= r.seq
    /\ received' = Append(received, x)
    /\ UNCHANGED <<phase, floor, repoSeq, sequenced>>

\* The abstract stream stands where the outbox does.
LEMMA SamePlace ==
    ASSUME IInv, phase # "idle"
    PROVE  ES!Last = lastSeen /\ ES!At = Reached
<1>1. /\ received \in Seq(Row) /\ lastSeen \in Nat \cup {-1} /\ floor \in Int
      /\ lastSeen = -1 => received = <<>>
      /\ lastSeen > -1 => received # <<>> /\ received[Len(received)].seq = lastSeen
  BY DEF IInv, TypeOK, StreamTypeOK, OrderInv, ReceivedInv
<1>2. ES!Last = lastSeen
  <2>1. CASE lastSeen = -1
    BY <1>1, <2>1 DEF ES!Last
  <2>2. CASE lastSeen > -1
    BY <1>1, <2>2 DEF ES!Last
  <2> QED
    BY <1>1, <2>1, <2>2
<1> QED
  BY <1>2 DEF ES!At, Reached

\* A row that comes next is yielded by the abstract stream.
LEMMA YieldImplements ==
    ASSUME IInv, phase # "idle", NEW x, NextOwed(x)
    PROVE  ES!StreamNext
<1>1. ES!Last = lastSeen /\ ES!At = Reached
  BY SamePlace
<1>2. \A f \in sequenced \ (sequenced \ repoSeq) : ~(ES!At < f.seq /\ f.seq < x.seq)
  BY <1>1 DEF NextOwed, IInv, TypeOK, SequencerTypeOK, Row
<1>3. ES!Yield(x)
  BY <1>1, <1>2 DEF ES!Yield, NextOwed
<1> QED
  BY <1>3 DEF ES!StreamNext, NextOwed

\* Inserted rows are published, purged ones are expunged.
LEMMA WriteImplements ==
    ASSUME IInv, Write, UNCHANGED streamVars
    PROVE  ES!StreamNext \/ UNCHANGED ES!streamSpecVars
<1> USE DEF streamVars
<1>0. /\ SequencerTypeOK /\ LogInv
      /\ repoSeq \subseteq sequenced /\ sequenced \subseteq Row
      /\ nextSeq \in Nat /\ \A r \in sequenced : r.seq < nextSeq
  BY DEF IInv, TypeOK, SequencerTypeOK, LogInv
<1>1. ASSUME NEW d \in Did, NEW batch \in Seq(Kind), NEW t \in Nat, Insert(d, batch, t)
      PROVE  ES!Publish
  <2>1. \A r \in NewRows(d, batch, t) : r \in Row /\ nextSeq <= r.seq
    BY <1>0, <1>1, NewRowsType DEF SequencerTypeOK
  <2>2. /\ repoSeq' = repoSeq \cup NewRows(d, batch, t)
        /\ sequenced' = sequenced \cup NewRows(d, batch, t)
    BY <1>1 DEF Insert
  <2>3. NewRows(d, batch, t) \cap sequenced = {}
    BY <1>0, <2>1 DEF Row
  <2>4. sequenced' \ repoSeq' = sequenced \ repoSeq
    BY <2>2, <2>3
  <2>5. \A e \in sequenced' \ sequenced, f \in sequenced : f.seq < e.seq
    BY <1>0, <2>1, <2>2 DEF Row
  <2> QED
    BY <2>2, <2>4, <2>5 DEF ES!Publish
<1>2. ASSUME NEW d \in Did, SequenceEvts(d)
      PROVE  ES!Publish
  <2>1. PICK batch \in Batches, t \in 0 .. clock : Insert(d, batch, t)
    BY <1>2 DEF SequenceEvts
  <2>2. batch \in Seq(Kind) /\ t \in Nat
    BY <1>0, <2>1, SequencerConstants DEF SequencerTypeOK
  <2> QED
    BY <1>1, <2>1, <2>2
<1>3. ASSUME NEW d \in Did, SequenceDeletion(d)
      PROVE  ES!Publish
  <2>1. <<"deleted">> \in Seq(Kind)
    BY DEF Kind
  <2>2. PICK t \in 0 .. clock : Insert(d, <<"deleted">>, t)
    BY <1>3 DEF SequenceDeletion
  <2>3. t \in Nat
    BY <1>0, <2>2 DEF SequencerTypeOK
  <2> QED
    BY <1>1, <2>1, <2>2, <2>3
<1>4. ASSUME NEW x \in deletions, PurgeRows(x)
      PROVE  ES!Expunge
  BY <1>0, <1>4 DEF PurgeRows, ES!Expunge
<1>5. CASE Tick
  BY <1>5 DEF Tick, ES!streamSpecVars
<1> QED
  BY <1>2, <1>3, <1>4, <1>5 DEF Write, ES!StreamNext

\* Every step of sequencer and outbox is a step of the abstract stream or none.
LEMMA StepImplements ==
    ASSUME IInv, [Next]_vars
    PROVE  ES!StreamNext \/ UNCHANGED ES!streamSpecVars
<1>0. /\ floor \in Int /\ seqLastSeen \in Nat /\ repoSeq \subseteq Row
      /\ Cursors \subseteq Int
  BY OutboxConstants DEF IInv, TypeOK, StreamTypeOK, SequencerTypeOK
<1>1. CASE Write /\ UNCHANGED streamVars
  BY <1>1, WriteImplements
<1>2. CASE PollQuery /\ UNCHANGED streamVars
  BY <1>2 DEF PollQuery, dbVars, streamVars, ES!streamSpecVars
<1>3. CASE Emit
  BY <1>3 DEF Emit, PollEmit, AddToBuffer, dbVars, ES!streamSpecVars
<1>4. CASE RestartAll
  BY <1>4 DEF RestartAll, Restart, ES!StreamNext, ES!Close
<1>5. CASE ConnectLive
  BY <1>0, <1>5 DEF ConnectLive, NewConnection, AddListener, sequencerVars, dbVars,
                    ES!StreamNext, ES!Open
<1>6. ASSUME NEW cursor \in Cursors, ConnectFuture(cursor)
      PROVE  ES!StreamNext
  BY <1>0, <1>6 DEF ConnectFuture, NewConnection, sequencerVars, dbVars,
                    ES!StreamNext, ES!Refuse
<1>7. ASSUME NEW cursor \in Cursors, ConnectFrom(cursor)
      PROVE  ES!StreamNext
  BY <1>0, <1>7 DEF ConnectFrom, NewConnection, sequencerVars, dbVars,
                    ES!StreamNext, ES!Open
<1>8. CASE FindWindow
  <2>1. received = <<>>
    BY <1>8 DEF FindWindow, IInv, PhaseInv, OrderInv, ReceivedInv
  <2>2. /\ phase # "idle" /\ phase' # "idle" /\ floor' \in Int
        /\ UNCHANGED <<repoSeq, sequenced, received>>
    BY <1>0, <1>8 DEF FindWindow, IsEarliest, Row, sequencerVars, dbVars
  <2> QED
    BY <2>1, <2>2 DEF ES!StreamNext, ES!Settle
<1>9. CASE YieldBackfill
  <2>1. PICK x \in page : IsFirst(x, page) /\ received' = Append(received, x)
    BY <1>9 DEF YieldBackfill
  <2>2. /\ phase = "backfill" /\ UNCHANGED <<phase, floor, repoSeq, sequenced>>
    BY <1>9 DEF YieldBackfill, sequencerVars, dbVars
  <2>3. x \in sequenced /\ x \in Row /\ Reached < x.seq
    BY <2>1 DEF IInv, TypeOK, StreamTypeOK, BackfillInv, After
  <2>4. lastSeen < x.seq
    BY <1>0, <2>3 DEF Reached, Row, IInv, TypeOK, StreamTypeOK
  <2>5. \A r \in repoSeq : Reached < r.seq => x.seq <= r.seq
    BY <1>0, <2>1, <2>3 DEF IInv, BackfillInv, NoHole, IsFirst, Row
  <2> QED
    BY <2>1, <2>2, <2>3, <2>4, <2>5, YieldImplements DEF NextOwed
<1>10. CASE BackfillQuery \/ EndPage \/ CutoverQuery \/ CutoverDone
  <2>1. UNCHANGED <<repoSeq, sequenced, received, floor>>
    BY <1>10 DEF BackfillQuery, EndPage, CutoverQuery, CutoverDone, sequencerVars,
                 dbVars
  <2>2. phase = phase' \/ (phase # "idle" /\ phase' # "idle")
    BY <1>10 DEF BackfillQuery, EndPage, CutoverQuery, CutoverDone
  <2> QED
    BY <2>1, <2>2 DEF ES!streamSpecVars
<1>11. CASE Listen
  <2>1. /\ phase = "switch" /\ phase' = "live"
        /\ UNCHANGED <<repoSeq, sequenced, received>>
        /\ hasCursor => floor' = floor
        /\ ~hasCursor => floor' = seqLastSeen
    BY <1>11 DEF Listen, AddListener, sequencerVars, dbVars
  <2>2. CASE hasCursor
    BY <2>1, <2>2 DEF ES!streamSpecVars
  <2>3. CASE ~hasCursor
    <3>1. received = <<>>
      BY <2>1, <2>3 DEF IInv, PhaseInv, OrderInv, ReceivedInv
    <3> QED
      BY <1>0, <2>1, <2>3, <3>1 DEF ES!StreamNext, ES!Settle
  <2> QED
    BY <2>2, <2>3
<1>12. CASE YieldLive
  <2>1. /\ phase = "live" /\ cutover = "done" /\ outBuffer # <<>>
        /\ outBuffer \in Seq(SUBSET Row)
        /\ UNCHANGED <<repoSeq, sequenced, phase, floor>>
    BY <1>12, YieldEffect DEF IInv
  <2>2. PICK x \in outBuffer[1] :
          /\ x \in sequenced /\ x \in Row
          /\ \A y \in outBuffer[1] : x.seq <= y.seq
          /\ lastSeen < x.seq => received' = Append(received, x)
          /\ x.seq <= lastSeen => received' = received
    BY <1>12, YieldEffect DEF IInv
  <2>3. \A r \in repoSeq : Reached < r.seq => x.seq <= r.seq
    <3> SUFFICES ASSUME NEW r \in repoSeq, Reached < r.seq, r.seq < x.seq
                 PROVE  FALSE
      BY <1>0, <2>2 DEF Row
    <3>1. 1 \in DOMAIN outBuffer
      BY <2>1
    <3>2. \E j \in 1 .. 1 : r \in outBuffer[j]
      BY <2>1, <2>2, <3>1 DEF IInv, BufferInv, Covers
    <3> QED
      BY <1>0, <2>2, <3>2 DEF Row
  <2>4. CASE lastSeen < x.seq
    BY <2>1, <2>2, <2>3, <2>4, YieldImplements DEF NextOwed
  <2>5. CASE x.seq <= lastSeen
    BY <2>1, <2>2, <2>5 DEF ES!streamSpecVars
  <2> QED
    BY <2>2, <2>4, <2>5 DEF Row, IInv, TypeOK, StreamTypeOK
<1>13. CASE TooSlow \/ Disconnect
  BY <1>13 DEF TooSlow, Disconnect, sequencerVars, dbVars, ES!StreamNext, ES!Close
<1>14. CASE UNCHANGED vars
  BY <1>14 DEF vars, sequencerVars, dbVars, streamVars, ES!streamSpecVars
<1> QED
  BY <1>1, <1>2, <1>3, <1>4, <1>5, <1>6, <1>7, <1>8, <1>9, <1>10, <1>11, <1>12,
     <1>13, <1>14 DEF Next, Backfill, Stream

\* What a consumer of subscribeRepos sees is a gap-free, ordered piece of an
\* append-only log: sequencer and outbox implement the abstract event stream.
THEOREM Refinement == Spec => ImplementsEventStream
<1>1. Init => ES!StreamInit
  BY DEF Init, SequencerInit, OutboxInit, ES!StreamInit
<1>2. IInv /\ [Next]_vars => [ES!StreamNext]_(ES!streamSpecVars)
  BY StepImplements
<1> QED
  BY <1>1, <1>2, Invariance, PTL DEF Spec, ImplementsEventStream, ES!StreamSpec

=============================================================================
