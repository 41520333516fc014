-------------------------- MODULE RepoWritesProofs --------------------------
(***************************************************************************)
(* Proofs about the write path: the properties of RepoWrites hold for any  *)
(* requests, records, calls and bounds, and the account's commits are one  *)
(* announced line.                                                         *)
(*                                                                         *)
(* The inductive invariant says what a request knows at each step: what it *)
(* has formatted follows the commit it has read, and once it holds the     *)
(* lock that commit is still the last one.                                 *)
(***************************************************************************)
EXTENDS RepoWrites, TLAPS

Formatted(r) == req[r].pc \in {"formatted", "written", "sequenced"}
Writing(r) == req[r].pc \in {"written", "sequenced"}

\* The swap conditions of c hold of p
Fits(c, p) ==
    /\ c.swapCommit \in {Unset, p.rev}
    /\ \A k \in DOMAIN c.call.writes :
           c.call.writes[k].swapRecord \in {Unset, p.table[k]}

\* A request that is under way has a call
CallInv ==
    \A r \in Req : req[r].pc \in {"called", "formatted", "written", "sequenced"} =>
        req[r].call \in Call

\* Revisions are taken from nextRev, one by one
RevInv ==
    /\ \A j \in DOMAIN log : log[j].rev < nextRev
    /\ \A r \in Req : Formatted(r) => req[r].commit.rev < nextRev
    /\ \A r, q \in Req :
           (Formatted(r) /\ Formatted(q) /\ req[r].commit.rev = req[q].commit.rev) => r = q
    /\ \A r \in Req : req[r].pc \in {"formatted", "written"} =>
           \A j \in DOMAIN log : log[j].rev # req[r].commit.rev

\* The lock is held by the one request that writes
LockInv == \A r \in Req : Writing(r) <=> lock = r

\* What a request has formatted follows what it has read
BaseInv ==
    /\ \A r \in Req : Formatted(r) =>
           /\ req[r].base \in DOMAIN history
           /\ Follows(req[r].commit, history[req[r].base])
           /\ Fits(req[r].commit, history[req[r].base])
    /\ \A r \in Req : Writing(r) => req[r].base = Len(history)

\* The event of the transaction in progress is the last of the log
EventInv ==
    /\ log # <<>>
    /\ \A r \in Req : req[r].pc = "sequenced" => log[Len(log)] = req[r].commit
    /\ \A r \in Req : req[r].pc = "landed" => Durable(req[r].commit)

\* The last commit is the youngest
TipInv == \A i \in DOMAIN history : history[i].rev <= Tip.rev

IInv ==
    /\ TypeOK /\ CallInv /\ RevInv /\ LockInv /\ BaseInv /\ EventInv /\ TipInv
    /\ HistoryIsLinear /\ SwapHeld
    /\ EveryCommitAnnounced /\ AnnouncedOnce /\ DurableInOrder /\ BuildsOnDurable
    /\ ListedIsDurable

-----------------------------------------------------------------------------
(* The commit that formatCommit makes *)

LEMMA FirstCommitType == FirstCommit \in Commit
  <1>1. [k \in Key |-> None] \in Table
    BY DEF Table, Maybe
  <1>2. <<>> \in [{} -> Op]
    OBVIOUS
  <1>3. <<>> \in UNION {[ks -> Op] : ks \in SUBSET Key}
    BY <1>2
  <1>4. QED
    BY <1>1, <1>3 DEF FirstCommit, Commit, Swap

LEMMA AtType ==
  ASSUME NEW step \in Step
  PROVE  At(step) \in Request
  BY FirstCommitType DEF At, Request, Swap

LEMMA Elements ==
  ASSUME TypeOK
  PROVE  /\ DOMAIN log = 1 .. Len(log) /\ Len(log) \in Nat
         /\ \A i \in DOMAIN log : log[i] \in Commit /\ log[i].rev \in Nat
         /\ DOMAIN history = 1 .. Len(history) /\ Len(history) \in Nat \ {0}
         /\ \A i \in DOMAIN history : history[i] \in Commit /\ history[i].rev \in Nat
         /\ Tip \in Commit /\ Tip.rev \in Nat /\ Len(history) \in DOMAIN history
  <1>1. log \in Seq(Commit) /\ history \in Seq(Commit) /\ history # <<>>
    BY DEF TypeOK
  <1>2. \A c \in Commit : c.rev \in Nat
    BY DEF Commit
  <1> HIDE DEF Commit
  <1>3. DOMAIN log = 1 .. Len(log) /\ Len(log) \in Nat /\ \A i \in DOMAIN log : log[i] \in Commit
    BY <1>1
  <1>4. DOMAIN history = 1 .. Len(history) /\ Len(history) \in Nat \ {0}
        /\ \A i \in DOMAIN history : history[i] \in Commit
    BY <1>1
  <1>5. Len(history) \in DOMAIN history
    BY <1>4
  <1>6. QED
    BY <1>2, <1>3, <1>4, <1>5 DEF Tip

LEMMA NewCommitType ==
  ASSUME NEW c \in Call, NEW s \in Swap, NEW tip \in Commit, nextRev \in Nat
  PROVE  /\ NewCommit(c, s, tip) \in Commit
         /\ Follows(NewCommit(c, s, tip), tip) <=> nextRev > tip.rev
         /\ Accepted(c, s, tip) => Fits(NewCommit(c, s, tip), tip)
  <1> DEFINE n == NewCommit(c, s, tip)
  <1>1. tip.table \in Table /\ tip.rev \in Nat
    BY DEF Commit
  <1>2. PICK ks \in SUBSET Key : c.writes \in [ks -> Write]
    BY DEF Call
  <1>3. Touched(c, tip.table) \subseteq Key
    BY <1>2 DEF Touched, Conflicts
  <1>4. \A k \in Key : NewValue(c, k) \in Maybe
    BY <1>2 DEF NewValue, Write, Maybe
  <1>5. Ops(c, tip.table) \in [Touched(c, tip.table) -> Op]
    BY <1>1, <1>3, <1>4 DEF Ops, Op, Table
  <1>6. Ops(c, tip.table) \in UNION {[k -> Op] : k \in SUBSET Key}
    BY <1>3, <1>5
  <1>7. Apply(Ops(c, tip.table), tip.table) \in Table
    BY <1>1, <1>3, <1>4 DEF Apply, Ops, Table
  <1>8. n \in Commit
    BY <1>1, <1>6, <1>7 DEF NewCommit, Commit
  <1>9. Follows(n, tip) <=> nextRev > tip.rev
    BY <1>1 DEF NewCommit, Follows, Ops
  <1>10. Accepted(c, s, tip) => Fits(n, tip)
    BY DEF Accepted, SwapsHold, Fits, NewCommit
  <1>11. QED
    BY <1>8, <1>9, <1>10

-----------------------------------------------------------------------------
LEMMA Initially == Init => IInv
  <1> SUFFICES ASSUME Init PROVE IInv
    OBVIOUS
  <1> USE DEF Init
  <1>1. TypeOK
    BY FirstCommitType, AtType DEF TypeOK, Step, Ended
  <1>2. \A r \in Req : req[r].pc = "idle"
    BY DEF At
  <1>3. CallInv /\ BaseInv /\ EventInv
    BY <1>2 DEF CallInv, BaseInv, EventInv, Formatted, Writing
  <1>4. RevInv /\ AnnouncedOnce
    BY <1>2 DEF RevInv, AnnouncedOnce, Formatted, FirstCommit
  <1>5. LockInv
    BY <1>2, RepoWritesConstants DEF LockInv, Writing
  <1>6. TipInv /\ HistoryIsLinear /\ SwapHeld /\ DurableInOrder /\ BuildsOnDurable
    BY DEF TipInv, Tip, HistoryIsLinear, SwapHeld, DurableInOrder, BuildsOnDurable, FirstCommit
  <1>7. EveryCommitAnnounced /\ ListedIsDurable
    BY DEF EveryCommitAnnounced, ListedIsDurable, FirstCommit
  <1>8. QED
    BY <1>1, <1>3, <1>4, <1>5, <1>6, <1>7 DEF IInv

-----------------------------------------------------------------------------
(* Steps that leave the files alone: a request begins, gives up or ends *)

\* A request that holds no commit
Light(q) ==
    /\ req[q].pc \notin {"formatted", "written", "sequenced", "landed"}
    /\ req[q].pc = "called" => req[q].call \in Call

LEMMA Quiet ==
  ASSUME IInv, UNCHANGED <<history, log, listed, nextRev>>, TypeOK', LockInv',
         \A q \in Req : req'[q] = req[q] \/ Light(q)'
  PROVE  IInv'
  <1> USE DEF IInv
  <1>1. \A q \in Req : Formatted(q)' => Formatted(q) /\ req'[q] = req[q]
    BY DEF Formatted, Light
  <1>2. \A q \in Req : Writing(q)' => Writing(q) /\ req'[q] = req[q]
    BY DEF Writing, Light
  <1>3. CallInv'
    BY DEF CallInv, Light
  <1>4. RevInv'
    <2>1. \A q \in Req : req'[q].pc \in {"formatted", "written"} => req'[q] = req[q]
      BY DEF Light
    <2>2. \A q \in Req : Formatted(q)' => req'[q].commit.rev < nextRev'
      BY <1>1 DEF RevInv
    <2>3. \A p, q \in Req :
            (Formatted(p)' /\ Formatted(q)' /\ req'[p].commit.rev = req'[q].commit.rev) => p = q
      BY <1>1 DEF RevInv
    <2>4. \A q \in Req : req'[q].pc \in {"formatted", "written"} =>
            \A j \in DOMAIN log' : log'[j].rev # req'[q].commit.rev
      BY <2>1 DEF RevInv
    <2>5. \A j \in DOMAIN log' : log'[j].rev < nextRev'
      BY DEF RevInv
    <2>6. QED
      BY <2>2, <2>3, <2>4, <2>5 DEF RevInv
  <1>5. BaseInv'
    <2>1. \A q \in Req : Formatted(q)' =>
            /\ req'[q].base \in DOMAIN history'
            /\ Follows(req'[q].commit, history'[req'[q].base])
            /\ Fits(req'[q].commit, history'[req'[q].base])
      BY <1>1 DEF BaseInv
    <2>2. \A q \in Req : Writing(q)' => req'[q].base = Len(history')
      BY <1>2 DEF BaseInv
    <2>3. QED
      BY <2>1, <2>2 DEF BaseInv
  <1>6. EventInv'
    BY DEF EventInv, Light, Durable
  <1>7. TipInv' /\ HistoryIsLinear' /\ SwapHeld'
    BY DEF TipInv, Tip, HistoryIsLinear, SwapHeld
  <1>8. EveryCommitAnnounced' /\ AnnouncedOnce' /\ DurableInOrder' /\ BuildsOnDurable'
    BY DEF EveryCommitAnnounced, AnnouncedOnce, DurableInOrder, BuildsOnDurable, Durable
  <1>9. ListedIsDurable'
    BY DEF ListedIsDurable
  <1>10. QED
    BY <1>3, <1>4, <1>5, <1>6, <1>7, <1>8, <1>9

\* A request that starts over or fails holds no commit any more
LEMMA Rests ==
  ASSUME TypeOK, NEW r \in Req, NEW step \in Ended, End(r, step)
  PROVE  /\ req' \in [Req -> Request]
         /\ Light(r)' /\ ~Writing(r)'
         /\ \A q \in Req : q # r => req'[q] = req[q]
  <1>1. At(step) \in Request
    BY AtType DEF Step
  <1>2. req' \in [Req -> Request]
    BY <1>1 DEF End, TypeOK
  <1>3. req'[r].pc = step
    BY DEF End, At, TypeOK
  <1>4. Light(r)' /\ ~Writing(r)'
    BY <1>3 DEF Light, Writing, Ended
  <1>5. QED
    BY <1>2, <1>4 DEF End, TypeOK

LEMMA Begins ==
  ASSUME TypeOK, NEW r \in Req, NEW c \in Call, NEW s \in Swap,
         req' = [req EXCEPT ![r] = [At("called") EXCEPT !.call = c, !.swap = s]]
  PROVE  /\ req' \in [Req -> Request]
         /\ Light(r)' /\ ~Writing(r)'
         /\ \A q \in Req : q # r => req'[q] = req[q]
  <1> DEFINE x == [At("called") EXCEPT !.call = c, !.swap = s]
  <1> DEFINE y == [At("called") EXCEPT !.call = c]
  <1>0. y = [pc |-> "called", call |-> c, swap |-> Unset, base |-> 0, commit |-> FirstCommit]
    BY DEF At
  <1>1. x = [pc |-> "called", call |-> c, swap |-> s, base |-> 0, commit |-> FirstCommit]
    <2>1. x = [y EXCEPT !.swap = s]
      BY Zenon DEF At
    <2> HIDE DEF y
    <2>2. QED
      BY <1>0, <2>1
  <1>2. x \in Request
    <2> HIDE DEF x
    <2>1. QED
      BY <1>1, FirstCommitType DEF Request, Step
  <1>3. req' \in [Req -> Request]
    BY <1>2 DEF TypeOK
  <1>4. req'[r] = x
    BY DEF TypeOK
  <1>5. Light(r)' /\ ~Writing(r)'
    BY <1>1, <1>4 DEF Light, Writing
  <1>6. QED
    BY <1>3, <1>5 DEF TypeOK

LEMMA Retries ==
  ASSUME TypeOK, CallInv, NEW r \in Req, Formatted(r), Retry(r)
  PROVE  /\ req' \in [Req -> Request]
         /\ Light(r)' /\ ~Writing(r)'
         /\ \A q \in Req : q # r => req'[q] = req[q]
  <1>1. req[r].call \in Call
    BY DEF CallInv, Formatted
  <1>2. req[r].swap \in Swap
    BY DEF TypeOK, Request
  <1>3. CASE End(r, "failed")
    BY <1>3, Rests DEF Ended
  <1>4. CASE ~End(r, "failed")
    BY <1>1, <1>2, <1>4, Begins DEF Retry
  <1>5. QED
    BY <1>3, <1>4

LEMMA StartKeeps ==
  ASSUME IInv, NEW r \in Req, Start(r)
  PROVE  IInv'
  <1>1. PICK c \in Calls, s \in {Unset} \cup {log[i].rev : i \in DOMAIN log} :
          req' = [req EXCEPT ![r] = [At("called") EXCEPT !.call = c, !.swap = s]]
    BY DEF Start
  <1>2. TypeOK
    BY DEF IInv
  <1>3. c \in Call
    BY RepoWritesConstants
  <1>4. s \in Swap
    <2>1. \A i \in DOMAIN log : log[i].rev \in Nat
      BY <1>2, Elements
    <2>2. QED
      BY <2>1 DEF Swap
  <1>5. /\ req' \in [Req -> Request] /\ Light(r)' /\ ~Writing(r)'
        /\ \A q \in Req : q # r => req'[q] = req[q]
    BY <1>1, <1>2, <1>3, <1>4, Begins
  <1>6. TypeOK'
    BY <1>2, <1>5 DEF TypeOK, Start
  <1>7. LockInv'
    <2>1. ~Writing(r)
      BY DEF Start, Writing
    <2>2. QED
      BY <1>5, <2>1 DEF IInv, LockInv, Writing, Start
  <1>8. QED
    BY <1>5, <1>6, <1>7, Quiet DEF Start

\* The transaction ends without a commit
LEMMA EndsKeep ==
  ASSUME IInv, NEW r \in Req, NoOp(r) \/ Refuse(r)
  PROVE  IInv'
  <1>1. TypeOK
    BY DEF IInv
  <1>2. /\ req' \in [Req -> Request] /\ Light(r)' /\ ~Writing(r)'
        /\ \A q \in Req : q # r => req'[q] = req[q]
    BY <1>1, Rests DEF NoOp, Refuse, Ended
  <1>3. UNCHANGED <<history, lock, log, listed, nextRev, faults>> /\ req[r].pc = "called"
    BY DEF NoOp, Refuse
  <1>4. TypeOK'
    BY <1>1, <1>2, <1>3 DEF TypeOK
  <1>5. LockInv'
    BY <1>2, <1>3 DEF IInv, LockInv, Writing
  <1>6. QED
    BY <1>2, <1>3, <1>4, <1>5, Quiet

LEMMA BusyKeeps ==
  ASSUME IInv, NEW r \in Req, Busy(r)
  PROVE  IInv'
  <1>1. TypeOK /\ CallInv
    BY DEF IInv
  <1>2. Formatted(r) /\ ~Writing(r)
    BY DEF Busy, Formatted, Writing
  <1>3. /\ req' \in [Req -> Request] /\ Light(r)' /\ ~Writing(r)'
        /\ \A q \in Req : q # r => req'[q] = req[q]
    BY <1>1, <1>2, Retries DEF Busy
  <1>4. TypeOK'
    BY <1>1, <1>3 DEF TypeOK, Busy
  <1>5. LockInv'
    BY <1>2, <1>3 DEF IInv, LockInv, Writing, Busy
  <1>6. QED
    BY <1>3, <1>4, <1>5, Quiet DEF Busy

\* A transaction that is rolled back gives the lock away
LEMMA RollbackKeeps ==
  ASSUME IInv, NEW r \in Req, Abort(r) \/ CommitFails(r)
  PROVE  IInv'
  <1>1. TypeOK /\ CallInv /\ LockInv
    BY DEF IInv
  <1>2. Formatted(r) /\ Writing(r)
    BY DEF Abort, CommitFails, Formatted, Writing
  <1>3. /\ req' \in [Req -> Request] /\ Light(r)' /\ ~Writing(r)'
        /\ \A q \in Req : q # r => req'[q] = req[q]
    BY <1>1, <1>2, Retries, Rests DEF Abort, CommitFails, Ended
  <1>4. lock' = None /\ UNCHANGED <<history, log, listed, nextRev>>
    BY DEF Abort, CommitFails
  <1>5. faults' \in Nat
    BY <1>1 DEF Abort, CommitFails, TypeOK
  <1>6. TypeOK'
    BY <1>1, <1>3, <1>4, <1>5 DEF TypeOK
  <1>7. LockInv'
    <2>1. \A q \in Req : ~Writing(q)'
      BY <1>1, <1>2, <1>3 DEF LockInv, Writing
    <2>2. QED
      BY <1>4, <2>1, RepoWritesConstants DEF LockInv
  <1>8. QED
    BY <1>3, <1>4, <1>6, <1>7, Quiet

LEMMA CrashKeeps ==
  ASSUME IInv, Crash
  PROVE  IInv'
  <1>1. TypeOK
    BY DEF IInv
  <1>2. At("lost") \in Request
    BY AtType DEF Step, Ended
  <1>3. req' \in [Req -> Request]
    BY <1>1, <1>2 DEF Crash, TypeOK
  <1>4. \A q \in Req : req'[q] = req[q] \/ req'[q].pc = "lost"
    BY DEF Crash, At
  <1>5. \A q \in Req : Light(q)' /\ ~Writing(q)'
    <2> TAKE q \in Req
    <2>1. req'[q].pc \in Ended \cup {"idle"}
      BY DEF Crash, At, Ended
    <2>2. QED
      BY <2>1 DEF Light, Writing, Ended
  <1>6. TypeOK'
    BY <1>1, <1>3 DEF TypeOK, Crash
  <1>7. LockInv'
    BY <1>5, RepoWritesConstants DEF LockInv, Crash
  <1>8. QED
    BY <1>5, <1>6, <1>7, Quiet DEF Crash

-----------------------------------------------------------------------------
(* Steps that make a commit *)

\* What the log says of revisions, it says of the commits that landed
LEMMA TipIsPast ==
  ASSUME IInv
  PROVE  Tip.rev < nextRev /\ \A i \in DOMAIN history : history[i].rev < nextRev
  <1>1. \A i \in DOMAIN history : history[i].rev < nextRev
    BY DEF IInv, EveryCommitAnnounced, RevInv
  <1>2. QED
    BY <1>1, Elements DEF IInv, Tip

\* Parts that speak of the files alone
FilesInv ==
    /\ TipInv /\ HistoryIsLinear /\ SwapHeld
    /\ EveryCommitAnnounced /\ AnnouncedOnce /\ DurableInOrder /\ BuildsOnDurable
    /\ ListedIsDurable

LEMMA FilesUnchanged ==
  ASSUME FilesInv, UNCHANGED <<history, log, listed>>
  PROVE  FilesInv'
  BY DEF FilesInv, TipInv, Tip, HistoryIsLinear, SwapHeld, EveryCommitAnnounced,
         AnnouncedOnce, DurableInOrder, BuildsOnDurable, Durable, ListedIsDurable

LEMMA FormatKeeps ==
  ASSUME IInv, NEW r \in Req, Format(r)
  PROVE  IInv'
  <1> DEFINE n == NewCommit(req[r].call, req[r].swap, Tip)
  <1> USE DEF IInv
  <1>1. UNCHANGED <<history, lock, log, listed, faults>> /\ nextRev' = nextRev + 1
    BY DEF Format
  <1>2. req[r].call \in Call /\ req[r].swap \in Swap /\ Tip \in Commit /\ nextRev \in Nat
    BY Elements DEF Format, CallInv, TypeOK, Request
  <1>3. n \in Commit /\ Follows(n, Tip) /\ Fits(n, Tip)
    BY <1>2, NewCommitType, TipIsPast DEF Format
  <1>4. n.rev = nextRev
    BY DEF NewCommit
  <1>5. req' = [req EXCEPT ![r] =
          [req[r] EXCEPT !.pc = "formatted", !.base = Len(history), !.commit = n]]
    BY DEF Format
  <1> HIDE DEF n
  <1>6. /\ req'[r] = [pc |-> "formatted", call |-> req[r].call, swap |-> req[r].swap,
                      base |-> Len(history), commit |-> n]
        /\ \A q \in Req : q # r => req'[q] = req[q]
    BY <1>5 DEF TypeOK, Request
  <1>7. TypeOK'
    <2>1. req'[r] \in Request
      BY <1>2, <1>3, <1>6, Elements DEF Request, Step
    <2>2. req' \in [Req -> Request]
      BY <1>5, <2>1 DEF TypeOK
    <2>3. QED
      BY <1>1, <2>2 DEF TypeOK
  <1>8. CallInv'
    BY <1>2, <1>6 DEF CallInv
  <1>9. RevInv'
    <2>1. \A j \in DOMAIN log : log[j].rev \in Nat /\ log[j].rev < nextRev
      BY Elements DEF RevInv
    <2>2. \A q \in Req : q # r /\ Formatted(q)' =>
            /\ Formatted(q) /\ req'[q].commit = req[q].commit
            /\ req'[q].commit.rev < nextRev /\ req'[q].commit.rev \in Nat
      BY <1>6 DEF Formatted, RevInv, TypeOK, Request, Commit
    <2>3. Formatted(r)' /\ req'[r].commit.rev = nextRev
      BY <1>4, <1>6 DEF Formatted
    <2>4. \A q \in Req : Formatted(q)' => req'[q].commit.rev < nextRev'
      BY <1>1, <1>2, <2>2, <2>3
    <2>5. \A p, q \in Req :
            (Formatted(p)' /\ Formatted(q)' /\ req'[p].commit.rev = req'[q].commit.rev) => p = q
      <3>1. \A p \in Req : p # r /\ Formatted(p)' => req'[p].commit.rev # nextRev
        BY <1>2, <2>2
      <3>2. \A p, q \in Req : p # r /\ q # r /\ Formatted(p)' /\ Formatted(q)'
              /\ req'[p].commit.rev = req'[q].commit.rev => p = q
        BY <2>2 DEF RevInv
      <3>3. QED
        BY <2>3, <3>1, <3>2
    <2>6. \A q \in Req : req'[q].pc \in {"formatted", "written"} =>
            \A j \in DOMAIN log' : log'[j].rev # req'[q].commit.rev
      BY <1>1, <1>2, <1>4, <1>6, <2>1 DEF RevInv
    <2>7. \A j \in DOMAIN log' : log'[j].rev < nextRev'
      BY <1>1, <1>2, <2>1
    <2>8. QED
      BY <2>4, <2>5, <2>6, <2>7 DEF RevInv
  <1>10. req[r].pc = "called"
    BY DEF Format
  <1>11. LockInv'
    BY <1>1, <1>6, <1>10 DEF LockInv, Writing
  <1>12. BaseInv'
    <2>1. \A q \in Req : Writing(q)' => Writing(q) /\ req'[q] = req[q]
      BY <1>6 DEF Writing
    <2>2. \A q \in Req : q # r /\ Formatted(q)' => Formatted(q) /\ req'[q] = req[q]
      BY <1>6 DEF Formatted
    <2>3. /\ req'[r].base \in DOMAIN history
          /\ Follows(req'[r].commit, history[req'[r].base])
          /\ Fits(req'[r].commit, history[req'[r].base])
      BY <1>3, <1>6, Elements DEF Tip
    <2>4. \A q \in Req : Formatted(q)' =>
            /\ req'[q].base \in DOMAIN history'
            /\ Follows(req'[q].commit, history'[req'[q].base])
            /\ Fits(req'[q].commit, history'[req'[q].base])
      BY <1>1, <2>2, <2>3 DEF BaseInv
    <2>5. \A q \in Req : Writing(q)' => req'[q].base = Len(history')
      BY <1>1, <2>1 DEF BaseInv
    <2>6. QED
      BY <2>4, <2>5 DEF BaseInv
  <1>13. EventInv'
    BY <1>1, <1>6 DEF EventInv, Durable
  <1>14. FilesInv'
    BY <1>1, FilesUnchanged DEF FilesInv
  <1>15. QED
    BY <1>7, <1>8, <1>9, <1>11, <1>12, <1>13, <1>14 DEF FilesInv

\* A step of one request to its next program counter
LEMMA Moves ==
  ASSUME TypeOK, NEW r \in Req, NEW step \in Step, Goto(r, step)
  PROVE  /\ req' \in [Req -> Request]
         /\ req'[r].pc = step /\ req'[r].call = req[r].call
         /\ req'[r].base = req[r].base /\ req'[r].commit = req[r].commit
         /\ \A q \in Req : q # r => req'[q] = req[q]
  BY DEF Goto, TypeOK, Request

LEMMA ApplyCommitKeeps ==
  ASSUME IInv, NEW r \in Req, ApplyCommit(r)
  PROVE  IInv'
  <1> USE DEF IInv
  <1>1. UNCHANGED <<history, log, listed, nextRev, faults>> /\ lock' = r /\ lock = None
        /\ req[r].base = Len(history) /\ req[r].pc = "formatted"
    BY DEF ApplyCommit, MayWrite
  <1>2. /\ req' \in [Req -> Request]
        /\ req'[r].pc = "written" /\ req'[r].call = req[r].call
        /\ req'[r].base = req[r].base /\ req'[r].commit = req[r].commit
        /\ \A q \in Req : q # r => req'[q] = req[q]
    BY Moves DEF ApplyCommit, Step
  <1>3. \A q \in Req : /\ Formatted(q)' <=> Formatted(q)
                       /\ req'[q].base = req[q].base /\ req'[q].commit = req[q].commit
    BY <1>1, <1>2 DEF Formatted
  <1>4. TypeOK'
    BY <1>1, <1>2 DEF TypeOK
  <1>5. CallInv'
    BY <1>1, <1>2 DEF CallInv
  <1>6. RevInv'
    <2>1. \A q \in Req : req'[q].pc \in {"formatted", "written"} =>
            req[q].pc \in {"formatted", "written"}
      BY <1>1, <1>2
    <2>2. QED
      BY <1>1, <1>3, <2>1 DEF RevInv
  <1>7. LockInv'
    <2>1. \A q \in Req : ~Writing(q)
      BY <1>1, RepoWritesConstants DEF LockInv
    <2>2. QED
      BY <1>1, <1>2, <2>1 DEF LockInv, Writing
  <1>8. BaseInv'
    <2>1. \A q \in Req : Formatted(q)' =>
            /\ req'[q].base \in DOMAIN history'
            /\ Follows(req'[q].commit, history'[req'[q].base])
            /\ Fits(req'[q].commit, history'[req'[q].base])
      BY <1>1, <1>3 DEF BaseInv
    <2>2. \A q \in Req : Writing(q)' => req'[q].base = Len(history')
      BY <1>1, <1>2 DEF BaseInv, Writing
    <2>3. QED
      BY <2>1, <2>2 DEF BaseInv
  <1>9. EventInv'
    BY <1>1, <1>2 DEF EventInv, Durable
  <1>10. FilesInv'
    BY <1>1, FilesUnchanged DEF FilesInv
  <1>11. QED
    BY <1>4, <1>5, <1>6, <1>7, <1>8, <1>9, <1>10 DEF FilesInv

\* The commit of the request that writes follows the last one, and is new
LEMMA WriterFollows ==
  ASSUME IInv, NEW r \in Req, Writing(r)
  PROVE  /\ lock = r /\ \A q \in Req : Writing(q) => q = r
         /\ req[r].commit \in Commit /\ req[r].commit.rev \in Nat
         /\ Follows(req[r].commit, Tip) /\ Fits(req[r].commit, Tip)
         /\ \A i \in DOMAIN history : history[i].rev < req[r].commit.rev
  <1>1. lock = r /\ \A q \in Req : Writing(q) => q = r
    BY DEF IInv, LockInv
  <1>2. req[r].commit \in Commit /\ req[r].commit.rev \in Nat
    BY DEF IInv, TypeOK, Request, Commit
  <1>3. Follows(req[r].commit, Tip) /\ Fits(req[r].commit, Tip)
    BY DEF IInv, BaseInv, Writing, Formatted, Tip
  <1>4. req[r].commit.rev > Tip.rev
    BY <1>3 DEF Follows
  <1>5. \A i \in DOMAIN history : history[i].rev < req[r].commit.rev
    BY <1>2, <1>4, Elements DEF IInv, TipInv
  <1>6. QED
    BY <1>1, <1>2, <1>3, <1>5

LEMMA SequenceCommitKeeps ==
  ASSUME IInv, NEW r \in Req, SequenceCommit(r)
  PROVE  IInv'
  <1> DEFINE c == req[r].commit
  <1> USE DEF IInv
  <1>1. /\ UNCHANGED <<history, lock, listed, nextRev, faults>> /\ log' = Append(log, c)
        /\ req[r].pc = "written"
    BY DEF SequenceCommit
  <1>2. /\ req' \in [Req -> Request]
        /\ req'[r].pc = "sequenced" /\ req'[r].call = req[r].call
        /\ req'[r].base = req[r].base /\ req'[r].commit = c
        /\ \A q \in Req : q # r => req'[q] = req[q]
    BY Moves DEF SequenceCommit, Step
  <1>3. \A q \in Req : /\ Formatted(q)' <=> Formatted(q)
                       /\ Writing(q)' <=> Writing(q)
                       /\ req'[q].base = req[q].base /\ req'[q].commit = req[q].commit
    BY <1>1, <1>2 DEF Formatted, Writing
  <1>4. Writing(r) /\ Formatted(r)
    BY <1>1 DEF Writing, Formatted
  <1>5. /\ c \in Commit /\ c.rev \in Nat /\ Follows(c, Tip)
        /\ \A i \in DOMAIN history : history[i].rev < c.rev
        /\ \A q \in Req : Writing(q) => q = r
    BY <1>4, WriterFollows
  <1>6. \A j \in DOMAIN log : log[j].rev # c.rev /\ log[j].rev \in Nat
    BY <1>1, Elements DEF RevInv
  <1>7. /\ log' \in Seq(Commit) /\ Len(log') = Len(log) + 1 /\ Len(log) \in Nat
        /\ DOMAIN log' = 1 .. Len(log) + 1 /\ DOMAIN log = 1 .. Len(log)
        /\ \A j \in DOMAIN log : log'[j] = log[j]
        /\ log'[Len(log) + 1] = c
    <2>1. log \in Seq(Commit)
      BY DEF TypeOK
    <2> HIDE DEF c, Commit, IInv
    <2>2. QED
      BY <1>1, <1>5, <2>1
  <1>8. \A j \in DOMAIN log' : j \in DOMAIN log \/ (j = Len(log) + 1 /\ log'[j] = c)
    BY <1>7
  <1> HIDE DEF c
  <1>9. TypeOK'
    BY <1>1, <1>2, <1>7 DEF TypeOK
  <1>10. CallInv'
    BY <1>1, <1>2 DEF CallInv
  <1>11. RevInv'
    <2>1. c.rev < nextRev
      BY <1>4 DEF RevInv, c
    <2>2. \A j \in DOMAIN log' : log'[j].rev < nextRev'
      BY <1>1, <1>7, <1>8, <2>1 DEF RevInv
    <2>3. \A q \in Req : req'[q].pc \in {"formatted", "written"} =>
            /\ req[q].pc \in {"formatted", "written"} /\ Formatted(q) /\ q # r
            /\ req'[q] = req[q]
      BY <1>2 DEF Formatted
    <2>4. \A q \in Req : req'[q].pc \in {"formatted", "written"} =>
            \A j \in DOMAIN log' : log'[j].rev # req'[q].commit.rev
      <3> TAKE q \in Req
      <3> HAVE req'[q].pc \in {"formatted", "written"}
      <3>1. c.rev # req[q].commit.rev
        BY <1>4, <2>3 DEF RevInv, c
      <3>2. QED
        BY <1>7, <1>8, <2>3, <3>1 DEF RevInv
    <2>5. QED
      BY <1>1, <1>3, <2>2, <2>4 DEF RevInv
  <1>12. LockInv'
    BY <1>1, <1>3 DEF LockInv
  <1>13. BaseInv'
    BY <1>1, <1>3 DEF BaseInv
  <1>14. EventInv'
    <2>1. log' # <<>> /\ log'[Len(log')] = c
      BY <1>7
    <2>2. \A q \in Req : req'[q].pc = "sequenced" => q = r
      BY <1>2, <1>5 DEF Writing
    <2>3. \A q \in Req : req'[q].pc = "landed" => req[q] = req'[q] /\ req[q].pc = "landed"
      BY <1>2
    <2>4. QED
      BY <1>1, <1>2, <2>1, <2>2, <2>3 DEF EventInv, Durable, c
  <1>15. ~Durable(c)
    BY <1>5, Elements DEF Durable
  <1>16. EveryCommitAnnounced'
    <2>1. \A i \in DOMAIN history : \E j \in DOMAIN log' : log'[j] = history[i]
      BY <1>7 DEF EveryCommitAnnounced
    <2>2. QED
      BY <1>1, <2>1 DEF EveryCommitAnnounced
  <1>17. AnnouncedOnce'
    <2> SUFFICES ASSUME NEW i \in DOMAIN log', NEW j \in DOMAIN log',
                        log'[i].rev = log'[j].rev
                 PROVE  i = j
      BY DEF AnnouncedOnce
    <2>1. CASE i \in DOMAIN log /\ j \in DOMAIN log
      BY <1>7, <2>1 DEF AnnouncedOnce
    <2>2. CASE ~(i \in DOMAIN log /\ j \in DOMAIN log)
      BY <1>6, <1>7, <1>8, <2>2
    <2>3. QED
      BY <2>1, <2>2
  <1>18. DurableInOrder'
    <2> SUFFICES ASSUME NEW i \in DOMAIN log', NEW j \in DOMAIN log', i < j,
                        Durable(log'[i]), Durable(log'[j])
                 PROVE  log'[i].rev < log'[j].rev
      BY <1>1 DEF DurableInOrder, Durable
    <2>1. i \in DOMAIN log /\ j \in DOMAIN log
      BY <1>8, <1>15
    <2>2. QED
      BY <1>7, <2>1 DEF DurableInOrder
  <1>19. BuildsOnDurable'
    <2> SUFFICES ASSUME NEW j \in DOMAIN log'
                 PROVE  j = 1 \/ \E i \in DOMAIN history : Follows(log'[j], history[i])
      BY <1>1 DEF BuildsOnDurable
    <2>1. CASE j \in DOMAIN log
      BY <1>7, <2>1 DEF BuildsOnDurable
    <2>2. CASE j \notin DOMAIN log
      <3>1. log'[j] = c
        BY <1>8, <2>2
      <3>2. QED
        BY <1>5, <3>1, Elements DEF Tip
    <2>3. QED
      BY <2>1, <2>2
  <1>20. TipInv' /\ HistoryIsLinear' /\ SwapHeld' /\ ListedIsDurable'
    BY <1>1 DEF TipInv, Tip, HistoryIsLinear, SwapHeld, ListedIsDurable
  <1>21. QED
    BY <1>9, <1>10, <1>11, <1>12, <1>13, <1>14, <1>16, <1>17, <1>18, <1>19, <1>20

LEMMA LandKeeps ==
  ASSUME IInv, NEW r \in Req, Land(r)
  PROVE  IInv'
  <1> DEFINE c == req[r].commit
  <1> USE DEF IInv
  <1>1. /\ UNCHANGED <<log, listed, nextRev, faults>> /\ history' = Append(history, c)
        /\ lock' = None /\ req[r].pc = "sequenced"
    BY DEF Land
  <1>2. /\ req' \in [Req -> Request]
        /\ req'[r].pc = "landed" /\ req'[r].call = req[r].call
        /\ req'[r].base = req[r].base /\ req'[r].commit = c
        /\ \A q \in Req : q # r => req'[q] = req[q]
    BY Moves DEF Land, Step
  <1>3. Writing(r) /\ Formatted(r)
    BY <1>1 DEF Writing, Formatted
  <1>4. /\ c \in Commit /\ c.rev \in Nat /\ Follows(c, Tip) /\ Fits(c, Tip)
        /\ \A i \in DOMAIN history : history[i].rev < c.rev
        /\ \A q \in Req : Writing(q) => q = r
    BY <1>3, WriterFollows
  <1>5. /\ history' \in Seq(Commit) /\ Len(history') = Len(history) + 1
        /\ Len(history) \in Nat \ {0} /\ history' # <<>>
        /\ DOMAIN history' = 1 .. Len(history) + 1 /\ DOMAIN history = 1 .. Len(history)
        /\ \A j \in DOMAIN history : history'[j] = history[j]
        /\ history'[Len(history) + 1] = c
    <2>1. history \in Seq(Commit) /\ history # <<>>
      BY DEF TypeOK
    <2> HIDE DEF c, Commit, IInv
    <2>2. QED
      BY <1>1, <1>4, <2>1
  <1>6. \A j \in DOMAIN history' : j \in DOMAIN history \/ (j = Len(history) + 1 /\ history'[j] = c)
    BY <1>5
  <1>7. \A q \in Req : Formatted(q)' =>
          /\ Formatted(q) /\ req'[q] = req[q] /\ ~Writing(q)' /\ ~Writing(q)
    BY <1>2, <1>4 DEF Formatted, Writing
  <1>8. \A x : (\E i \in DOMAIN history' : history'[i] = x) <=> Durable(x) \/ x = c
    BY <1>5, <1>6 DEF Durable
  <1>9. log[Len(log)] = c /\ log # <<>>
    BY <1>1 DEF EventInv, c
  <1> HIDE DEF c
  <1>10. TypeOK'
    BY <1>1, <1>2, <1>5, RepoWritesConstants DEF TypeOK
  <1>11. CallInv'
    BY <1>1, <1>2 DEF CallInv
  <1>12. RevInv'
    <2>1. \A q \in Req : req'[q].pc \in {"formatted", "written"} => req'[q] = req[q]
      BY <1>2
    <2>2. \A q \in Req : Formatted(q)' => req'[q].commit.rev < nextRev'
      BY <1>1, <1>7 DEF RevInv
    <2>3. \A p, q \in Req :
            (Formatted(p)' /\ Formatted(q)' /\ req'[p].commit.rev = req'[q].commit.rev) => p = q
      BY <1>7 DEF RevInv
    <2>4. QED
      BY <1>1, <2>1, <2>2, <2>3 DEF RevInv
  <1>13. LockInv'
    <2>1. \A q \in Req : ~Writing(q)'
      BY <1>2, <1>4 DEF Writing
    <2>2. QED
      BY <1>1, <2>1, RepoWritesConstants DEF LockInv
  <1>14. BaseInv'
    <2>1. \A q \in Req : ~Writing(q)'
      BY <1>2, <1>4 DEF Writing
    <2>2. \A q \in Req : Formatted(q)' =>
            /\ req'[q].base \in DOMAIN history'
            /\ Follows(req'[q].commit, history'[req'[q].base])
            /\ Fits(req'[q].commit, history'[req'[q].base])
      <3> TAKE q \in Req
      <3> HAVE Formatted(q)'
      <3>1. /\ req[q].base \in DOMAIN history /\ req'[q] = req[q]
            /\ Follows(req[q].commit, history[req[q].base])
            /\ Fits(req[q].commit, history[req[q].base])
        BY <1>7 DEF BaseInv
      <3>2. req[q].base \in DOMAIN history' /\ history'[req[q].base] = history[req[q].base]
        BY <1>5, <3>1
      <3>3. QED
        BY <3>1, <3>2
    <2>3. QED
      BY <2>1, <2>2 DEF BaseInv
  <1>15. EventInv'
    <2>1. \A q \in Req : req'[q].pc # "sequenced"
      BY <1>2, <1>4 DEF Writing
    <2>2. \A q \in Req : req'[q].pc = "landed" =>
            \E i \in DOMAIN history' : history'[i] = req'[q].commit
      BY <1>2, <1>8 DEF EventInv
    <2>3. QED
      BY <1>1, <1>9, <2>1, <2>2 DEF EventInv, Durable
  <1>16. Tip' = c
    BY <1>5 DEF Tip
  <1>17. TipInv'
    <2>1. \A i \in DOMAIN history' : history'[i].rev <= c.rev
      BY <1>4, <1>5, <1>6, Elements
    <2>2. QED
      BY <1>16, <2>1 DEF TipInv
  <1>18. HistoryIsLinear' /\ SwapHeld'
    <2>1. \A i \in 2 .. Len(history') :
            \/ i \in 2 .. Len(history) /\ history'[i] = history[i] /\ history'[i - 1] = history[i - 1]
            \/ history'[i] = c /\ history'[i - 1] = Tip
      <3> TAKE i \in 2 .. Len(history')
      <3>1. CASE i \in 2 .. Len(history)
        BY <1>5, <3>1
      <3>2. CASE i = Len(history) + 1
        BY <1>5, <3>2 DEF Tip
      <3>3. QED
        BY <1>5, <3>1, <3>2
    <2>2. HistoryIsLinear'
      BY <1>4, <2>1 DEF HistoryIsLinear
    <2>3. SwapHeld'
      BY <1>4, <2>1 DEF SwapHeld, Fits
    <2>4. QED
      BY <2>2, <2>3
  <1>19. EveryCommitAnnounced'
    <2>1. \A i \in DOMAIN history' : \E j \in DOMAIN log : log[j] = history'[i]
      BY <1>5, <1>6, <1>9, Elements DEF EveryCommitAnnounced
    <2>2. QED
      BY <1>1, <2>1 DEF EveryCommitAnnounced
  <1>20. AnnouncedOnce'
    BY <1>1 DEF AnnouncedOnce
  <1>21. DurableInOrder'
    <2> SUFFICES ASSUME NEW i \in DOMAIN log, NEW j \in DOMAIN log, i < j,
                        \E k \in DOMAIN history' : history'[k] = log[i],
                        \E k \in DOMAIN history' : history'[k] = log[j]
                 PROVE  log[i].rev < log[j].rev
      BY <1>1 DEF DurableInOrder, Durable
    <2>1. DOMAIN log = 1 .. Len(log) /\ Len(log) \in Nat
      BY Elements
    <2>2. log[i] # c
      BY <1>9, <2>1 DEF AnnouncedOnce
    <2>3. Durable(log[i])
      BY <1>8, <2>2
    <2>4. CASE Durable(log[j])
      BY <2>3, <2>4 DEF DurableInOrder
    <2>5. CASE log[j] = c
      BY <1>4, <2>3, <2>5 DEF Durable
    <2>6. QED
      BY <1>8, <2>4, <2>5
  <1>22. BuildsOnDurable'
    <2> SUFFICES ASSUME NEW j \in DOMAIN log, j # 1
                 PROVE  \E i \in DOMAIN history' : Follows(log[j], history'[i])
      BY <1>1 DEF BuildsOnDurable
    <2>1. PICK i \in DOMAIN history : Follows(log[j], history[i])
      BY DEF BuildsOnDurable
    <2>2. i \in DOMAIN history' /\ history'[i] = history[i]
      BY <1>5
    <2>3. QED
      BY <2>1, <2>2
  <1>23. ListedIsDurable'
    <2>1. PICK i \in DOMAIN history : history[i].rev = listed
      BY DEF ListedIsDurable
    <2>2. i \in DOMAIN history' /\ history'[i].rev = listed'
      BY <1>1, <1>5, <2>1
    <2>3. QED
      BY <2>2 DEF ListedIsDurable
  <1>24. QED
    BY <1>10, <1>11, <1>12, <1>13, <1>14, <1>15, <1>17, <1>18, <1>19, <1>20, <1>21, <1>22, <1>23

\* The one step that is late: the root of a commit that has landed is noted
LEMMA UpdateRepoRootKeeps ==
  ASSUME IInv, NEW r \in Req, UpdateRepoRoot(r)
  PROVE  IInv'
  <1> USE DEF IInv
  <1>1. /\ UNCHANGED <<history, lock, log, nextRev, faults>> /\ req[r].pc = "landed"
        /\ listed' \in {listed, req[r].commit.rev}
    BY DEF UpdateRepoRoot
  <1>2. /\ req' \in [Req -> Request] /\ Light(r)' /\ ~Writing(r)'
        /\ \A q \in Req : q # r => req'[q] = req[q]
    BY Rests DEF UpdateRepoRoot, Ended
  <1>3. Durable(req[r].commit) /\ req[r].commit.rev \in Nat
    BY <1>1 DEF EventInv, TypeOK, Request, Commit
  <1>4. ListedIsDurable'
    <2>1. \E i \in DOMAIN history : history[i].rev = listed'
      BY <1>1, <1>3 DEF Durable, ListedIsDurable
    <2>2. QED
      BY <1>1, <2>1 DEF ListedIsDurable
  <1>5. TypeOK'
    BY <1>1, <1>2, <1>3 DEF TypeOK
  <1>6. \A q \in Req : Formatted(q)' => Formatted(q) /\ req'[q] = req[q]
    BY <1>2 DEF Formatted, Light
  <1>7. \A q \in Req : /\ Writing(q)' <=> Writing(q)
                       /\ Writing(q)' => req'[q] = req[q]
    BY <1>1, <1>2 DEF Writing, Light
  <1>8. CallInv'
    BY <1>2 DEF CallInv, Light
  <1>9. RevInv'
    <2>1. \A q \in Req : req'[q].pc \in {"formatted", "written"} => req'[q] = req[q]
      BY <1>2 DEF Light
    <2>2. QED
      BY <1>1, <1>6, <2>1 DEF RevInv
  <1>10. LockInv'
    BY <1>1, <1>7 DEF LockInv
  <1>11. BaseInv'
    BY <1>1, <1>6, <1>7 DEF BaseInv
  <1>12. EventInv'
    BY <1>1, <1>2 DEF EventInv, Light, Durable
  <1>13. /\ TipInv' /\ HistoryIsLinear' /\ SwapHeld' /\ EveryCommitAnnounced'
         /\ AnnouncedOnce' /\ DurableInOrder' /\ BuildsOnDurable'
    BY <1>1 DEF TipInv, Tip, HistoryIsLinear, SwapHeld, EveryCommitAnnounced,
                AnnouncedOnce, DurableInOrder, BuildsOnDurable, Durable
  <1>14. QED
    BY <1>4, <1>5, <1>8, <1>9, <1>10, <1>11, <1>12, <1>13

-----------------------------------------------------------------------------
(* The theorems *)

LEMMA Keeps == IInv /\ [Next]_vars => IInv'
  <1> SUFFICES ASSUME IInv, [Next]_vars PROVE IInv'
    OBVIOUS
  <1>1. CASE UNCHANGED vars
    <2>1. TypeOK' /\ LockInv'
      BY <1>1 DEF IInv, TypeOK, LockInv, Writing, vars
    <2>2. QED
      BY <1>1, <2>1, Quiet DEF vars
  <1>2. CASE Crash
    BY <1>2, CrashKeeps
  <1>3. ASSUME NEW r \in Req, Start(r) PROVE IInv'
    BY <1>3, StartKeeps
  <1>4. ASSUME NEW r \in Req, Proceed(r) PROVE IInv'
    BY <1>4, EndsKeep, FormatKeeps, ApplyCommitKeeps, BusyKeeps, SequenceCommitKeeps,
       RollbackKeeps, LandKeeps, UpdateRepoRootKeeps
    DEF Proceed
  <1>5. QED
    BY <1>1, <1>2, <1>3, <1>4 DEF Next

\* In every behaviour of the write path the inductive invariant holds.
THEOREM Invariance == Spec => []IInv
  BY Initially, Keeps, PTL DEF Spec

\* The state of the three files and of the requests keeps its types.
THEOREM TypeCorrect == Spec => []TypeOK
  <1>1. IInv => TypeOK
    BY DEF IInv
  <1>2. QED
    BY <1>1, Invariance, PTL

\* No update is lost: however the transactions of createRecord, putRecord,
\* deleteRecord and applyWrites interleave, fail and run again, each commit is
\* made from the one before it and the swaps that it names held there.
THEOREM WritesAreSerial == Spec => [](HistoryIsLinear /\ SwapHeld)
  <1>1. IInv => HistoryIsLinear /\ SwapHeld
    BY DEF IInv
  <1>2. QED
    BY <1>1, Invariance, PTL

\* The firehose misses no commit, repeats none, keeps their order and tells
\* of nothing that was built on a commit that is not there.
THEOREM FirehoseTellsAll ==
  Spec => [](EveryCommitAnnounced /\ AnnouncedOnce /\ DurableInOrder /\ BuildsOnDurable)
  <1>1. IInv => EveryCommitAnnounced /\ AnnouncedOnce /\ DurableInOrder /\ BuildsOnDurable
    BY DEF IInv
  <1>2. QED
    BY <1>1, Invariance, PTL

\* What listRepos shows is a revision of the repository.
THEOREM ListingIsTrue == Spec => []ListedIsDurable
  <1>1. IInv => ListedIsDurable
    BY DEF IInv
  <1>2. QED
    BY <1>1, Invariance, PTL

LEMMA StepsOfTheLine == IInv /\ [Next]_vars => [Linear!Next]_<<history, log>>
  <1> SUFFICES ASSUME IInv, [Next]_vars,
                      ~ UNCHANGED <<history, log>>
               PROVE  Linear!Next
    OBVIOUS
  <1>1. PICK r \in Req : SequenceCommit(r) \/ Land(r)
    <2>1. Next
      BY DEF vars
    <2>2. ~Crash
      BY DEF Crash
    <2>3. PICK r \in Req : Start(r) \/ Proceed(r)
      BY <2>1, <2>2 DEF Next
    <2>4. ~Start(r) /\ ~NoOp(r) /\ ~Refuse(r) /\ ~Format(r) /\ ~ApplyCommit(r) /\ ~Busy(r)
          /\ ~Abort(r) /\ ~CommitFails(r) /\ ~UpdateRepoRoot(r)
      BY DEF Start, NoOp, Refuse, Format, ApplyCommit, Busy, Abort, CommitFails, UpdateRepoRoot
    <2>5. QED
      BY <2>3, <2>4 DEF Proceed
  <1> DEFINE c == req[r].commit
  <1>2. Writing(r)
    BY <1>1 DEF SequenceCommit, Land, Writing
  <1>3. c \in Commit /\ Follows(c, Tip)
    BY <1>2, WriterFollows
  <1>4. log \in Seq(Commit)
    BY DEF IInv, TypeOK
  <1>5. CASE SequenceCommit(r)
    <2>1. log' = Append(log, c) /\ history' = history
      BY <1>5 DEF SequenceCommit
    <2>2. Linear!Last(log') = c
      <3> HIDE DEF c, Commit
      <3>1. log'[Len(log')] = c
        BY <1>3, <1>4, <2>1
      <3>2. QED
        BY <3>1 DEF Linear!Last
    <2>3. Linear!Last(history) = Tip
      BY DEF Linear!Last, Tip
    <2>4. Linear!Announce
      BY <1>3, <2>1, <2>2, <2>3 DEF Linear!Announce
    <2>5. QED
      BY <2>4 DEF Linear!Next
  <1>6. CASE Land(r)
    <2>1. history' = Append(history, c) /\ log' = log /\ req[r].pc = "sequenced"
      BY <1>6 DEF Land
    <2>2. Linear!Last(log) = c
      BY <2>1 DEF Linear!Last, IInv, EventInv
    <2>3. Linear!Last(history) = Tip
      BY DEF Linear!Last, Tip
    <2>4. Linear!Land
      BY <1>3, <2>1, <2>2, <2>3 DEF Linear!Land
    <2>5. QED
      BY <2>4 DEF Linear!Next
  <1>7. QED
    BY <1>1, <1>5, <1>6

\* The write path implements the announced line of commits that LinearRepo
\* describes: sequenceCommit announces, COMMIT lands, all else stutters.
THEOREM WritesImplementLinearRepo == Spec => ImplementsLinearRepo
  <1>1. Init => Linear!Init
    BY DEF Init, Linear!Init
  <1>2. IInv /\ [Next]_vars => [Linear!Next]_(Linear!vars)
    BY StepsOfTheLine DEF Linear!vars
  <1>3. QED
    BY <1>1, <1>2, Invariance, PTL DEF Spec, ImplementsLinearRepo, Linear!Spec

=============================================================================
