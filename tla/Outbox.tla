------------------------------- MODULE Outbox -------------------------------
(***************************************************************************)
(* One subscription to the firehose                                        *)
(* (packages/pds/src/sequencer/outbox.ts and                               *)
(* packages/pds/src/api/com/atproto/sync/subscribeRepos.ts) on top of the  *)
(* event log of module Sequencer.                                          *)
(*                                                                         *)
(* A consumer connects with a cursor or without one.  With a cursor the    *)
(* outbox pages through the table (backfill), registers as a listener,     *)
(* queries the table once more while it buffers what the poll loop emits   *)
(* (cutover), and then streams.  Without a cursor it registers at once.    *)
(* The consumer pulls one event at a time; it may disconnect at any point  *)
(* and connect again, with the last seq it received or any other cursor.   *)
(*                                                                         *)
(* Subscriptions share nothing but the sequencer, which they only read, so *)
(* one subscription stands for all.  The buffers are sequences of pages,   *)
(* in the order they were pushed; a page is read in ascending seq.         *)
(***************************************************************************)
EXTENDS Sequencer

CONSTANTS
    Cursors,         \* cursors a consumer may choose, integers
    PageSize,        \* PAGE_SIZE (500 in the code)
    MaxBuffer,       \* maxBufferSize (500 by default)
    BackfillLimit,   \* repoBackfillLimitMs, in instants of the clock
    MaxConnects      \* bound: number of connections

ASSUME OutboxConstants ==
    /\ Cursors \subseteq Int
    /\ PageSize \in Nat \ {0}
    /\ MaxBuffer \in Nat \ {0}
    /\ BackfillLimit \in Nat
    /\ MaxConnects \in Nat

VARIABLES
    phase,         \* where the generators of the subscription stand
    hasCursor,     \* is backfillCursor defined?
    floor,         \* backfillCursor, or the log position a live stream starts at
    since,         \* backfillTime of an outdated cursor
    lastSeen,      \* Outbox.lastSeen
    page,          \* rows of the backfill page not yet yielded
    cutover,       \* progress of cutover(): off, asked, answered, done
    cutoverPage,   \* the answer of the cutover query
    cutoverBuffer, \* Outbox.cutoverBuffer
    outBuffer,     \* Outbox.outBuffer
    ended,         \* why the last connection ended
    received,      \* history: the rows this connection has yielded
    listenedAt,    \* history: sequencer.lastSeen when the listener was added
    connects       \* history: connections so far

streamVars == <<phase, hasCursor, floor, since, lastSeen, page, cutover,
                cutoverPage, cutoverBuffer, outBuffer, ended, received,
                listenedAt, connects>>
vars == <<sequencerVars, streamVars>>

Phases == {"idle", "outdated", "query", "backfill", "switch", "live"}

StreamTypeOK ==
    /\ phase \in Phases
    /\ hasCursor \in BOOLEAN
    /\ floor \in Int
    /\ since \in Int
    /\ lastSeen \in Nat \cup {-1}
    /\ page \subseteq Row
    /\ cutover \in {"off", "asked", "answered", "done"}
    /\ cutoverPage \subseteq Row
    /\ cutoverBuffer \in Seq(SUBSET Row)
    /\ outBuffer \in Seq(SUBSET Row)
    /\ ended \in {"none", "FutureCursor", "ConsumerTooSlow", "closed"}
    /\ received \in Seq(Row)
    /\ listenedAt \in Nat \cup {-1}
    /\ connects \in Nat

TypeOK == SequencerTypeOK /\ StreamTypeOK

\* this.lastSeen > -1 ? this.lastSeen : backfillCursor
Position == IF lastSeen > -1 THEN lastSeen ELSE floor

\* caughtUp, which is set from the start when there is no cursor
CaughtUp == cutover = "done"

-----------------------------------------------------------------------------
(* What a connection that has ended, or has not begun, leaves behind *)
Cleared ==
    /\ lastSeen' = -1
    /\ page' = {}
    /\ cutover' = "off"
    /\ cutoverPage' = {}
    /\ cutoverBuffer' = <<>>
    /\ outBuffer' = <<>>
    /\ listenedAt' = -1

OutboxInit ==
    /\ phase = "idle" /\ hasCursor = FALSE /\ floor = 0 /\ since = 0
    /\ lastSeen = -1 /\ page = {} /\ cutover = "off" /\ cutoverPage = {}
    /\ cutoverBuffer = <<>> /\ outBuffer = <<>> /\ ended = "none"
    /\ received = <<>> /\ listenedAt = -1 /\ connects = 0

Init == SequencerInit /\ OutboxInit

NewConnection ==
    /\ phase = "idle" /\ connects < MaxConnects
    /\ connects' = connects + 1
    /\ lastSeen' = -1 /\ page' = {} /\ cutoverPage' = {}
    /\ cutoverBuffer' = <<>> /\ outBuffer' = <<>>
    /\ UNCHANGED sequencerVars

\* events() adds the listener: a stream without a cursor starts where the poll
\* loop is, one with a cursor starts cutover()
AddListener(withCursor) ==
    /\ phase' = "live"
    /\ listenedAt' = seqLastSeen
    /\ IF withCursor THEN cutover' = "asked" /\ UNCHANGED floor
                     ELSE cutover' = "done" /\ floor' = seqLastSeen

\* subscribeRepos without a cursor: no await before the listener is added
ConnectLive ==
    /\ NewConnection
    /\ AddListener(FALSE)
    /\ hasCursor' = FALSE /\ since' = 0
    /\ ended' = "none" /\ received' = <<>>

\* next(cursor) is older than the backfill window
Outdated(cursor) ==
    \E r \in RowsAfter(cursor) :
        IsFirst(r, RowsAfter(cursor)) /\ r.at < clock - BackfillLimit

\* subscribeRepos with a cursor after every event of the log: an error
ConnectFuture(cursor) ==
    /\ NewConnection
    /\ InFuture(cursor)
    /\ cutover' = "off" /\ listenedAt' = -1
    /\ phase' = "idle"
    /\ hasCursor' = TRUE /\ floor' = cursor /\ since' = 0
    /\ ended' = "FutureCursor" /\ UNCHANGED received

\* subscribeRepos with a cursor; when it is outdated, the info message is
\* yielded before the table is queried again
ConnectFrom(cursor) ==
    /\ NewConnection
    /\ ~InFuture(cursor)
    /\ cutover' = "off" /\ listenedAt' = -1
    /\ hasCursor' = TRUE /\ floor' = cursor
    /\ IF Outdated(cursor)
       THEN phase' = "outdated" /\ since' = clock - BackfillLimit
       ELSE phase' = "query" /\ since' = 0
    /\ ended' = "none" /\ received' = <<>>

\* earliestAfterTime(t): the first row in the order of sequencedAt
IsEarliest(r, t) ==
    /\ r \in repoSeq /\ r.at >= t
    /\ \A q \in repoSeq : q.at >= t =>
          r.at < q.at \/ (r.at = q.at /\ r.seq <= q.seq)

\* Mutant: the cursor is the first row of the window, which is then skipped
FindWindowExclusive ==
    /\ phase = "outdated"
    /\ \/ \E r \in repoSeq :
             /\ IsEarliest(r, since)
             /\ floor' = r.seq
             /\ phase' = "query" /\ UNCHANGED hasCursor
       \/ /\ \A r \in repoSeq : r.at < since
          /\ phase' = "switch" /\ hasCursor' = FALSE /\ floor' = 0
    /\ UNCHANGED <<sequencerVars, since, lastSeen, page, cutover, cutoverPage,
                   cutoverBuffer, outBuffer, ended, received, listenedAt,
                   connects>>

\* subscribeRepos after the info message: the cursor moves to the window
FindWindow ==
    /\ phase = "outdated"
    /\ \/ \E r \in repoSeq :
             /\ IsEarliest(r, since)
             /\ floor' = r.seq - 1
             /\ phase' = "query" /\ UNCHANGED hasCursor
       \/ /\ \A r \in repoSeq : r.at < since
          /\ phase' = "switch" /\ hasCursor' = FALSE /\ floor' = 0
    /\ UNCHANGED <<sequencerVars, since, lastSeen, page, cutover, cutoverPage,
                   cutoverBuffer, outBuffer, ended, received, listenedAt,
                   connects>>

-----------------------------------------------------------------------------
(* Phase 1: backfill *)

\* getBackfill: one query; a page without rows ends the backfill
BackfillQuery ==
    /\ phase = "query"
    /\ page' = PageAfter(Position, PageSize)
    /\ phase' = IF page' = {} THEN "switch" ELSE "backfill"
    /\ UNCHANGED <<sequencerVars, hasCursor, floor, since, lastSeen, cutover,
                   cutoverPage, cutoverBuffer, outBuffer, ended, received,
                   listenedAt, connects>>

\* events(), first loop: yield the next row of the page
YieldBackfill ==
    /\ phase = "backfill"
    /\ \E r \in page :
          /\ IsFirst(r, page)
          /\ page' = page \ {r}
          /\ lastSeen' = r.seq
          /\ received' = Append(received, r)
    /\ UNCHANGED <<sequencerVars, phase, hasCursor, floor, since, cutover,
                   cutoverPage, cutoverBuffer, outBuffer, ended, listenedAt,
                   connects>>

\* getBackfill after a page: within half a page of the sequencer is enough
EndPage ==
    /\ phase = "backfill" /\ page = {}
    /\ phase' = IF 2 * (seqLastSeen - lastSeen) < PageSize
                THEN "switch" ELSE "query"
    /\ UNCHANGED <<sequencerVars, hasCursor, floor, since, lastSeen, page,
                   cutover, cutoverPage, cutoverBuffer, outBuffer, ended,
                   received, listenedAt, connects>>

-----------------------------------------------------------------------------
(* Phase 2: cutover *)

\* Mutant: no cutover, the stream begins where the poll loop is
ListenOnly ==
    /\ phase = "switch"
    /\ phase' = "live" /\ listenedAt' = seqLastSeen
    /\ cutover' = "done"
    /\ floor' = IF hasCursor THEN floor ELSE seqLastSeen
    /\ UNCHANGED <<sequencerVars, hasCursor, since, lastSeen, page,
                   cutoverPage, cutoverBuffer, outBuffer, ended, received,
                   connects>>

\* events() after the backfill
Listen ==
    /\ phase = "switch"
    /\ AddListener(hasCursor)
    /\ UNCHANGED <<sequencerVars, hasCursor, since, lastSeen, page,
                   cutoverPage, cutoverBuffer, outBuffer, ended, received,
                   connects>>

\* Mutant: the query forgets the cursor when the backfill was empty
CutoverQueryLastSeen ==
    /\ cutover = "asked"
    /\ cutover' = "answered"
    /\ cutoverPage' = RowsAfter(lastSeen)
    /\ UNCHANGED <<sequencerVars, phase, hasCursor, floor, since, lastSeen,
                   page, cutoverBuffer, outBuffer, ended, received,
                   listenedAt, connects>>

\* cutover(): its query reads the table
CutoverQuery ==
    /\ cutover = "asked"
    /\ cutover' = "answered"
    /\ cutoverPage' = RowsAfter(Position)
    /\ UNCHANGED <<sequencerVars, phase, hasCursor, floor, since, lastSeen,
                   page, cutoverBuffer, outBuffer, ended, received,
                   listenedAt, connects>>

\* pushMany of one page
Push(buffer, rows) == IF rows = {} THEN buffer ELSE Append(buffer, rows)

\* Mutant: the buffered events go before the answer of the query
CutoverDoneSwapped ==
    /\ cutover = "answered"
    /\ cutover' = "done"
    /\ outBuffer' = Push(outBuffer \o cutoverBuffer, cutoverPage)
    /\ cutoverBuffer' = <<>>
    /\ cutoverPage' = {}
    /\ UNCHANGED <<sequencerVars, phase, hasCursor, floor, since, lastSeen,
                   page, ended, received, listenedAt, connects>>

\* Mutant: the buffered events are dropped
CutoverDoneForgetful ==
    /\ cutover = "answered"
    /\ cutover' = "done"
    /\ outBuffer' = Push(outBuffer, cutoverPage)
    /\ cutoverBuffer' = <<>>
    /\ cutoverPage' = {}
    /\ UNCHANGED <<sequencerVars, phase, hasCursor, floor, since, lastSeen,
                   page, ended, received, listenedAt, connects>>

\* cutover() after its await
CutoverDone ==
    /\ cutover = "answered"
    /\ cutover' = "done"
    /\ outBuffer' = Push(outBuffer, cutoverPage) \o cutoverBuffer
    /\ cutoverBuffer' = <<>>
    /\ cutoverPage' = {}
    /\ UNCHANGED <<sequencerVars, phase, hasCursor, floor, since, lastSeen,
                   page, ended, received, listenedAt, connects>>

\* addToBuffer: the listener takes the page the sequencer emits
AddToBuffer ==
    /\ IF phase = "live"
       THEN IF CaughtUp
            THEN /\ outBuffer' = Append(outBuffer, pollPage)
                 /\ UNCHANGED cutoverBuffer
            ELSE /\ cutoverBuffer' = Append(cutoverBuffer, pollPage)
                 /\ UNCHANGED outBuffer
       ELSE UNCHANGED <<outBuffer, cutoverBuffer>>
    /\ UNCHANGED <<phase, hasCursor, floor, since, lastSeen, page, cutover,
                   cutoverPage, ended, received, listenedAt, connects>>

Emit == PollEmit /\ AddToBuffer

-----------------------------------------------------------------------------
(* Phase 3: streaming *)

\* AsyncBuffer.size
Size(buffer) == Cardinality(UNION {{i} \X buffer[i] : i \in DOMAIN buffer})

\* What is left of the buffer when row r of its first page is taken
Pop(buffer, r) == IF Head(buffer) = {r} THEN Tail(buffer)
                  ELSE [buffer EXCEPT ![1] = @ \ {r}]

\* Mutant: every row of the buffer is yielded
YieldEveryRow ==
    /\ phase = "live" /\ outBuffer # <<>>
    /\ Size(outBuffer) <= MaxBuffer
    /\ \E r \in Head(outBuffer) :
          /\ IsFirst(r, Head(outBuffer))
          /\ outBuffer' = Pop(outBuffer, r)
          /\ lastSeen' = r.seq /\ received' = Append(received, r)
    /\ UNCHANGED <<sequencerVars, phase, hasCursor, floor, since, page,
                   cutover, cutoverPage, cutoverBuffer, ended, listenedAt,
                   connects>>

\* events(), second loop: take the next row, yield it when it is new
YieldLive ==
    /\ phase = "live" /\ outBuffer # <<>>
    /\ Size(outBuffer) <= MaxBuffer
    /\ \E r \in Head(outBuffer) :
          /\ IsFirst(r, Head(outBuffer))
          /\ outBuffer' = Pop(outBuffer, r)
          /\ IF r.seq > lastSeen
             THEN lastSeen' = r.seq /\ received' = Append(received, r)
             ELSE UNCHANGED <<lastSeen, received>>
    /\ UNCHANGED <<sequencerVars, phase, hasCursor, floor, since, page,
                   cutover, cutoverPage, cutoverBuffer, ended, listenedAt,
                   connects>>

\* AsyncBuffer.events() finds more than maxSize rows: ConsumerTooSlow
TooSlow ==
    /\ phase = "live"
    /\ Size(outBuffer) > MaxBuffer
    /\ phase' = "idle" /\ ended' = "ConsumerTooSlow"
    /\ Cleared
    /\ UNCHANGED <<sequencerVars, hasCursor, floor, since, received, connects>>

\* The signal is aborted, or a query of the outbox fails
Disconnect ==
    /\ phase # "idle"
    /\ phase' = "idle" /\ ended' = "closed"
    /\ Cleared
    /\ UNCHANGED <<sequencerVars, hasCursor, floor, since, received, connects>>

\* A restart of the process ends the connection
RestartAll ==
    /\ Restart
    /\ phase' = "idle"
    /\ ended' = IF phase = "idle" THEN ended ELSE "closed"
    /\ Cleared
    /\ UNCHANGED <<hasCursor, floor, since, received, connects>>

-----------------------------------------------------------------------------
Backfill == BackfillQuery \/ YieldBackfill \/ EndPage
Stream == Listen \/ CutoverQuery \/ CutoverDone \/ YieldLive \/ TooSlow

Next ==
    \/ Write /\ UNCHANGED streamVars
    \/ PollQuery /\ UNCHANGED streamVars
    \/ Emit
    \/ RestartAll
    \/ ConnectLive
    \/ \E cursor \in Cursors : ConnectFuture(cursor) \/ ConnectFrom(cursor)
    \/ FindWindow
    \/ Backfill
    \/ Stream
    \/ Disconnect

Spec == Init /\ [][Next]_vars

\* The poll loop re-arms itself after every round, failed ones included; every
\* query of a connection is answered; and the consumer keeps pulling.
Fairness ==
    /\ WF_vars(PollQuery /\ UNCHANGED streamVars)
    /\ WF_vars(Emit)
    /\ WF_vars(FindWindow)
    /\ WF_vars(Backfill)
    /\ WF_vars(Stream)

FairSpec == Spec /\ Fairness

-----------------------------------------------------------------------------
(* The outbox implements the abstract event stream *)

ES == INSTANCE EventStream WITH
          log <- sequenced,
          gone <- sequenced \ repoSeq,
          out <- received,
          open <- phase # "idle",
          origin <- floor

\* Every behaviour of sequencer and outbox is one of EventStream: what a
\* consumer sees is a gap-free, ordered piece of the log.
ImplementsEventStream == ES!StreamSpec

-----------------------------------------------------------------------------
(* Properties *)

Received == {received[i] : i \in DOMAIN received}

\* A connection yields events in strictly ascending seq: the overlap of the
\* cutover query and of the cutover buffer, pushed one after the other and
\* unsorted, is removed by the test on yield ("dont worry about dupes").
InOrder ==
    \A i, j \in DOMAIN received : i < j => received[i].seq < received[j].seq

\* A connection never skips an event: every row after its cursor, up to the
\* last one it yielded, that is still in the table was yielded, whichever
\* phase (backfill, cutover, stream) it fell into and however the two-step
\* poll overlapped the switch to streaming.
NoGap ==
    \A r \in repoSeq : floor < r.seq /\ r.seq <= lastSeen => r \in Received

\* Events at or before the cursor are yielded only when the poll loop was
\* behind the cursor at the time the listener was added (the test on yield
\* looks at lastSeen and not at the cursor).
NothingStale ==
    phase # "idle" =>
        \A r \in Received :
            r.seq > floor \/ (listenedAt > -1 /\ r.seq > listenedAt)

\* The connection reads from the first row of the window on
FromWindow ==
    since > 0 /\ hasCursor /\ phase \in {"query", "backfill", "switch", "live"}

\* Inserted before a row of the window that was stamped earlier
Overtook(r) == \E q \in sequenced : r.seq < q.seq /\ since <= q.at /\ q.at < r.at

\* "if cursor is before backfill time, find earliest cursor from backfill
\* window": rows are found by their stamp and read by their key, and inserts that
\* overlap do not take the two in one order.  Of the rows stamped in the window the
\* cursor leaves behind only those that were inserted before an earlier stamp.
WindowKept ==
    FromWindow => \A r \in repoSeq : r.at >= since => r.seq > floor \/ Overtook(r)

\* Between restarts the poll loop emits every row once: it only moves forward,
\* and no row of the table that it passes is missing from the page it emits.
PollNeverSkips ==
    [][restarts' = restarts =>
         /\ seqLastSeen' >= seqLastSeen
         /\ \A r \in repoSeq :
               seqLastSeen < r.seq /\ r.seq <= seqLastSeen' => r \in pollPage
      ]_vars

Connected ==
    phase \in {"query", "backfill", "live"} \/ (phase = "switch" /\ hasCursor)

\* Every row of the table after the position of a connected consumer is yielded
\* to it, unless the connection ends or the row is purged first.
Delivery ==
    \A n \in 1 .. MaxSeq :
        (Connected /\ n > Position /\ n > floor /\ \E r \in repoSeq : r.seq = n)
            ~> \/ \E r \in Received : r.seq = n
               \/ phase = "idle"
               \/ \A r \in repoSeq : r.seq # n

=============================================================================
