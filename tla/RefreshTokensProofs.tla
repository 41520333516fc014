------------------------ MODULE RefreshTokensProofs ------------------------
(***************************************************************************)
(* Proofs about the refresh tokens of an account: whatever requests, app   *)
(* passwords, lifetimes and grace periods, no revoked session comes back,  *)
(* a token has one successor, and it is granted within one grace period.   *)
(*                                                                         *)
(* The inductive invariant says what a rotation that has read its row may  *)
(* still find when its transaction begins.  The crucial fact is that a     *)
(* token which has a live predecessor is live itself, unless its session   *)
(* was logged out: successors expire later than their predecessors, and a  *)
(* revocation takes both.  So no rotation stores a token a second time.    *)
(***************************************************************************)
EXTENDS RefreshTokens, FiniteSetTheorems, TLAPS

Busy == {p \in Proc : proc[p] # Idle}

\* Every request under way has room for the token that it may store
RoomInv == minted + Cardinality(Busy) <= MaxTok

OnToken(p) == proc[p].pc \in {"rotate", "tidy", "grant"}
HasRead(p) == proc[p].pc \in {"tidy", "grant"}

\* n was stored as the successor of t
Successor(t, n) == t < n /\ n <= minted /\ session[n] = session[t]

\* A row belongs to the session of its token.  Once it has a successor it ends
\* within the grace period, and not after its successor.
RowInv ==
    \A t \in Live :
        /\ t <= minted
        /\ rows[t].cred = session[t].cred
        /\ rows[t].next # None =>
              /\ Successor(t, rows[t].next)
              /\ rows[t].expiresAt <= now + Grace
              /\ ~LoggedOut(t) => /\ rows[t].next \in Live
                                  /\ rows[t].expiresAt <= rows[rows[t].next].expiresAt

\* A login under way was checked before what has revoked its credential since
LoginInv(p) ==
    proc[p].pc = "login" =>
        /\ proc[p].opened <= era[proc[p].cred]
        /\ taken => proc[p].opened < era[proc[p].cred]

\* What a rotation has read is a row of the session, at a time that is past
ReadInv(p) ==
    /\ OnToken(p) => proc[p].tok <= minted
    /\ HasRead(p) =>
           /\ proc[p].at <= now
           /\ proc[p].row.cred = session[proc[p].tok].cred
           /\ proc[p].row.next # None =>
                 /\ Successor(proc[p].tok, proc[p].row.next)
                 /\ proc[p].row.expiresAt <= proc[p].at + Grace
    /\ proc[p].pc = "grant" => proc[p].at < proc[p].row.expiresAt

\* A row that was read and is still there was not replaced: its successor stays,
\* and it has changed only if it was given one since
SameRow(t, row) ==
    t \in Live =>
        /\ row.next # None => rows[t].next = row.next
        /\ rows[t].next = row.next => rows[t].expiresAt = row.expiresAt

\* ... and its predecessor, if there still is one, ends within a grace period
\* from the reading
StaleInv(p) ==
    (HasRead(p) /\ ~LoggedOut(proc[p].tok)) =>
        /\ SameRow(proc[p].tok, proc[p].row)
        /\ \A u \in Live :
              rows[u].next = proc[p].tok => rows[u].expiresAt <= proc[p].at + Grace

RequestInv == \A p \in Proc : LoginInv(p) /\ ReadInv(p) /\ StaleInv(p)

\* A token that was granted keeps its successor and its end
GrantInv ==
    \A g \in grants :
        /\ g.tok <= minted
        /\ (g.tok \in Live /\ ~LoggedOut(g.tok)) =>
              /\ rows[g.tok].next = g.next
              /\ g.at < rows[g.tok].expiresAt
              /\ rows[g.tok].expiresAt <= g.at + Grace

\* Only tokens that were stored are logged out
LeaversInv == \A l \in leavers : l <= minted

IInv ==
    /\ TypeOK /\ RoomInv /\ RowInv /\ RequestInv /\ GrantInv /\ LeaversInv
    /\ NothingSurvives /\ OneSuccessor /\ ReuseWithinGrace

-----------------------------------------------------------------------------
(* Types *)

LEMMA RowTypes ==
  ASSUME TypeOK
  PROVE  \A t \in Live : /\ t \in Token /\ rows[t] \in Row
                         /\ rows[t].cred \in Cred /\ rows[t].expiresAt \in Nat
                         /\ rows[t].next \in Token \cup {None}
  <1>1. \A t \in Live : t \in Token /\ rows[t] \in Row
    BY DEF TypeOK, Live
  <1>2. QED
    BY <1>1 DEF Row

LEMMA RequestTypes ==
  ASSUME TypeOK, NEW p \in Proc
  PROVE  /\ proc[p] # Idle <=> proc[p].pc \in {"login", "rotate", "tidy", "grant"}
         /\ proc[p].pc = "login" => proc[p].cred \in Cred /\ proc[p].opened \in Nat
         /\ OnToken(p) => proc[p].tok \in Token
         /\ HasRead(p) =>
               /\ proc[p] = [pc |-> proc[p].pc, tok |-> proc[p].tok, row |-> proc[p].row,
                             at |-> proc[p].at]
               /\ proc[p].at \in Nat /\ proc[p].row \in Row
               /\ proc[p].row.cred \in Cred /\ proc[p].row.expiresAt \in Nat
               /\ proc[p].row.next \in Token \cup {None}
  <1>1. proc[p] \in Request
    BY DEF TypeOK
  <1>2. CASE proc[p] = Idle
    BY <1>2 DEF Idle, OnToken, HasRead
  <1>3. CASE proc[p] \in [pc : {"login"}, cred : Cred, opened : Nat]
    BY <1>3 DEF Idle, OnToken, HasRead
  <1>4. CASE proc[p] \in [pc : {"rotate"}, tok : Token]
    BY <1>4 DEF Idle, OnToken, HasRead
  <1>5. CASE proc[p] \in [pc : {"tidy", "grant"}, tok : Token, row : Row, at : Nat]
    <2>1. proc[p].row \in Row
      BY <1>5
    <2>2. /\ proc[p].row.cred \in Cred /\ proc[p].row.expiresAt \in Nat
          /\ proc[p].row.next \in Token \cup {None}
      BY <2>1 DEF Row
    <2>3. QED
      BY <1>5, <2>2 DEF Idle, OnToken, HasRead
  <1>6. QED
    BY <1>1, <1>2, <1>3, <1>4, <1>5 DEF Request

LEMMA BusyIsFinite ==
  IsFiniteSet(Busy) /\ Cardinality(Busy) \in Nat
  <1>1. Busy \in SUBSET Proc
    BY DEF Busy
  <1>2. QED
    BY <1>1, FS_Subset, FS_CardinalityType, RefreshTokensConstants

\* A request that begins needs room, one that ends gives it back
LEMMA BusyChanges ==
  ASSUME NEW p \in Proc, \A q \in Proc : q # p => proc'[q] = proc[q]
  PROVE  /\ Cardinality(Busy') <= Cardinality(Busy) + 1
         /\ proc[p] # Idle => Cardinality(Busy') <= Cardinality(Busy)
         /\ (proc[p] # Idle /\ proc'[p] = Idle) => Cardinality(Busy') = Cardinality(Busy) - 1
         /\ Cardinality(Busy') \in Nat
  <1>1. Busy' \subseteq Busy \cup {p} /\ Busy' \subseteq Proc
    BY DEF Busy
  <1>2. /\ IsFiniteSet(Busy \cup {p}) /\ Cardinality(Busy \cup {p}) <= Cardinality(Busy) + 1
        /\ Cardinality(Busy \cup {p}) \in Nat
    BY BusyIsFinite, FS_AddElement, FS_CardinalityType
  <1>3. Cardinality(Busy') <= Cardinality(Busy \cup {p}) /\ Cardinality(Busy') \in Nat
    BY <1>1, <1>2, FS_Subset, FS_CardinalityType
  <1>4. ASSUME proc[p] # Idle PROVE Cardinality(Busy') <= Cardinality(Busy)
    <2>1. Busy \cup {p} = Busy
      BY <1>4 DEF Busy
    <2>2. QED
      BY <1>3, <2>1
  <1>5. ASSUME proc[p] # Idle, proc'[p] = Idle PROVE Cardinality(Busy') = Cardinality(Busy) - 1
    <2>1. Busy' = Busy \ {p} /\ p \in Busy
      BY <1>5 DEF Busy
    <2>2. QED
      BY <2>1, BusyIsFinite, FS_RemoveElement
  <1>6. QED
    BY <1>2, <1>3, <1>4, <1>5, BusyIsFinite

\* Whether a session was logged out does not change back
LEMMA LoggedOutStays ==
  ASSUME LeaversInv, leavers \subseteq leavers',
         \A x \in Token : x <= minted => session'[x] = session[x],
         NEW t \in Token, t <= minted, LoggedOut(t), leavers \subseteq Token
  PROVE  LoggedOut(t)'
  BY DEF LoggedOut, LeaversInv

-----------------------------------------------------------------------------
(* Steps of one request that write nothing *)

LEMMA OnlyRequest ==
  ASSUME IInv, NEW p \in Proc, proc' \in [Proc -> Request],
         \A q \in Proc : q # p => proc'[q] = proc[q],
         UNCHANGED <<rows, taken, now, minted, session, era, grants, leavers>>,
         LoginInv(p)', ReadInv(p)', StaleInv(p)', RoomInv'
  PROVE  IInv'
  <1>1. TypeOK'
    BY DEF IInv, TypeOK
  <1>2. Live' = Live /\ \A t \in Token : LoggedOut(t)' <=> LoggedOut(t)
    BY DEF Live, LoggedOut
  <1>3. RowInv'
    BY <1>2 DEF IInv, RowInv, Successor, Live, LoggedOut
  <1>4. ASSUME NEW q \in Proc, q # p PROVE LoginInv(q)' /\ ReadInv(q)' /\ StaleInv(q)'
    <2>1. LoginInv(q) /\ ReadInv(q) /\ StaleInv(q)
      BY DEF IInv, RequestInv
    <2>2. LoginInv(q)' /\ ReadInv(q)'
      BY <1>4, <2>1 DEF LoginInv, ReadInv, OnToken, HasRead, Successor
    <2>3. StaleInv(q)'
      BY <1>2, <1>4, <2>1 DEF StaleInv, SameRow, HasRead, LoggedOut, Live
    <2>4. QED
      BY <2>2, <2>3
  <1>5. GrantInv' /\ LeaversInv'
    BY <1>2 DEF IInv, GrantInv, LeaversInv, Live, LoggedOut
  <1>6. NothingSurvives' /\ OneSuccessor' /\ ReuseWithinGrace'
    BY <1>2 DEF IInv, NothingSurvives, OneSuccessor, ReuseWithinGrace, Live, LoggedOut
  <1>7. QED
    BY <1>1, <1>3, <1>4, <1>5, <1>6 DEF IInv, RequestInv

LEMMA BeginningKeeps ==
  ASSUME IInv, NEW p \in Proc, proc[p] = Idle, Room, proc' \in [Proc -> Request],
         \A q \in Proc : q # p => proc'[q] = proc[q], minted' = minted
  PROVE  RoomInv'
  <1>1. minted \in Nat /\ MaxTok \in Nat /\ minted + Cardinality(Busy) < MaxTok
    BY RefreshTokensConstants DEF IInv, TypeOK, Room, Busy
  <1>2. Cardinality(Busy') <= Cardinality(Busy) + 1 /\ Cardinality(Busy') \in Nat
    BY BusyChanges
  <1>3. QED
    BY <1>1, <1>2, BusyIsFinite DEF RoomInv

LEMMA GoingOnKeeps ==
  ASSUME IInv, NEW p \in Proc, proc[p] # Idle, proc' \in [Proc -> Request],
         \A q \in Proc : q # p => proc'[q] = proc[q], minted' = minted
  PROVE  RoomInv'
  <1>1. minted \in Nat /\ MaxTok \in Nat /\ minted + Cardinality(Busy) <= MaxTok
    BY RefreshTokensConstants DEF IInv, TypeOK, RoomInv
  <1>2. Cardinality(Busy') <= Cardinality(Busy) /\ Cardinality(Busy') \in Nat
    BY BusyChanges
  <1>3. QED
    BY <1>1, <1>2, BusyIsFinite DEF RoomInv

LEMMA LoginKeeps ==
  ASSUME IInv, NEW p \in Proc, NEW c \in Cred, Login(p, c)
  PROVE  IInv'
  <1>1. proc'[p] = [pc |-> "login", cred |-> c, opened |-> era[c]] /\ era[c] \in Nat
    BY DEF Login, IInv, TypeOK
  <1>2. proc' \in [Proc -> Request] /\ \A q \in Proc : q # p => proc'[q] = proc[q]
    BY <1>1 DEF Login, IInv, TypeOK, Request
  <1>3. RoomInv'
    BY <1>2, BeginningKeeps DEF Login
  <1>4. LoginInv(p)' /\ ReadInv(p)' /\ StaleInv(p)'
    BY <1>1 DEF Login, LoginInv, ReadInv, StaleInv, OnToken, HasRead
  <1>5. QED
    BY <1>2, <1>3, <1>4, OnlyRequest DEF Login

LEMMA RefreshKeeps ==
  ASSUME IInv, NEW p \in Proc, NEW t \in Token, Refresh(p, t)
  PROVE  IInv'
  <1>1. proc'[p] = [pc |-> "rotate", tok |-> t] /\ t <= minted
    BY DEF Refresh, IInv, TypeOK
  <1>2. proc' \in [Proc -> Request] /\ \A q \in Proc : q # p => proc'[q] = proc[q]
    BY <1>1 DEF Refresh, IInv, TypeOK, Request
  <1>3. RoomInv'
    BY <1>2, BeginningKeeps DEF Refresh
  <1>4. LoginInv(p)' /\ ReadInv(p)' /\ StaleInv(p)'
    BY <1>1 DEF Refresh, LoginInv, ReadInv, StaleInv, OnToken, HasRead
  <1>5. QED
    BY <1>2, <1>3, <1>4, OnlyRequest DEF Refresh

\* A request that ends, or starts over, knows nothing
LEMMA NothingKnown ==
  ASSUME IInv, NEW p \in Proc, proc'[p] = Idle
  PROVE  LoginInv(p)' /\ ReadInv(p)' /\ StaleInv(p)'
  BY DEF LoginInv, ReadInv, StaleInv, OnToken, HasRead, Idle

LEMMA ReadKeeps ==
  ASSUME IInv, NEW p \in Proc, Read(p)
  PROVE  IInv'
  <1> DEFINE t == proc[p].tok
  <1>1. TypeOK /\ proc[p].pc = "rotate" /\ t \in Token /\ t <= minted
    BY RequestTypes DEF Read, IInv, RequestInv, ReadInv, OnToken
  <1>2. UNCHANGED <<rows, taken, now, minted, session, era, grants, leavers>>
    BY DEF Read
  <1>3. /\ proc' \in [Proc -> Request] /\ \A q \in Proc : q # p => proc'[q] = proc[q]
        /\ t \notin Live => proc'[p] = Idle
        /\ t \in Live => proc'[p] = [pc |-> "tidy", tok |-> t, row |-> rows[t], at |-> now]
    <2>1. t \in Live => rows[t] \in Row
      BY <1>1, RowTypes
    <2>2. t \in Live =>
            [pc |-> "tidy", tok |-> t, row |-> rows[t], at |-> now] \in Request
      BY <1>1, <2>1 DEF Request, TypeOK
    <2>3. Idle \in Request
      BY DEF Request
    <2>4. QED
      BY <1>1, <2>2, <2>3 DEF Read, TypeOK
  <1>4. RoomInv'
    BY <1>1, <1>2, <1>3, GoingOnKeeps, RequestTypes
  <1>5. CASE t \notin Live
    BY <1>2, <1>3, <1>4, <1>5, NothingKnown, OnlyRequest
  <1>6. CASE t \in Live
    <2>1. /\ HasRead(p)' /\ OnToken(p)' /\ proc'[p].tok = t /\ proc'[p].row = rows[t]
          /\ proc'[p].at = now /\ proc'[p].pc = "tidy"
      BY <1>3, <1>6 DEF HasRead, OnToken
    <2> HIDE DEF t
    <2>2. LoginInv(p)'
      BY <2>1 DEF LoginInv
    <2>3. now \in Nat /\ rows' = rows /\ session' = session /\ now' = now /\ minted' = minted
      BY <1>1, <1>2 DEF TypeOK
    <2>4. ReadInv(p)'
      BY <1>1, <1>6, <2>1, <2>3 DEF ReadInv, IInv, RowInv, Successor
    <2>5. SameRow(t, rows[t])'
      BY <2>3 DEF SameRow
    <2>6. \A u \in Live' : rows'[u].next = t => rows'[u].expiresAt <= now' + Grace
      BY <1>1, <2>3 DEF IInv, RowInv, Live, Token, None
    <2>7. StaleInv(p)'
      BY <2>1, <2>3, <2>5, <2>6 DEF StaleInv, SameRow, Live
    <2>8. QED
      BY <1>2, <1>3, <1>4, <2>2, <2>4, <2>7, OnlyRequest
  <1>7. QED
    BY <1>5, <1>6

LEMMA ConflictKeeps ==
  ASSUME IInv, NEW p \in Proc, Conflict(p)
  PROVE  IInv'
  <1> DEFINE t == proc[p].tok
  <1>1. TypeOK /\ proc[p].pc = "grant" /\ t \in Token /\ t <= minted
    BY RequestTypes DEF Conflict, IInv, RequestInv, ReadInv, OnToken
  <1>2. proc'[p] = [pc |-> "rotate", tok |-> t]
    BY <1>1 DEF Conflict, TypeOK
  <1>3. proc' \in [Proc -> Request] /\ \A q \in Proc : q # p => proc'[q] = proc[q]
    BY <1>1, <1>2 DEF Conflict, TypeOK, Request
  <1>4. RoomInv'
    BY <1>1, <1>3, GoingOnKeeps, RequestTypes DEF Conflict
  <1>5. LoginInv(p)' /\ ReadInv(p)' /\ StaleInv(p)'
    BY <1>1, <1>2 DEF Conflict, LoginInv, ReadInv, StaleInv, OnToken, HasRead
  <1>6. QED
    BY <1>3, <1>4, <1>5, OnlyRequest DEF Conflict

-----------------------------------------------------------------------------
(* Steps that remove rows *)

\* Rows disappear, none of them while its predecessor stays, but for a logout
Removal ==
    /\ UNCHANGED <<now, minted, session, grants>>
    /\ leavers \subseteq leavers' /\ leavers' \subseteq Token
    /\ \A l \in leavers' : l <= minted
    /\ rows' \in [Token -> Row \cup {NoRow}]
    /\ \A t \in Token : rows'[t] \in {rows[t], NoRow}
    /\ \A u \in Live' : (rows[u].next \in Live /\ ~LoggedOut(u)') => rows[u].next \in Live'

LEMMA RemovalKeepsRows ==
  ASSUME IInv, Removal
  PROVE  /\ Live' \subseteq Live /\ \A t \in Live' : rows'[t] = rows[t]
         /\ \A t \in Token : LoggedOut(t) => LoggedOut(t)'
         /\ RowInv' /\ GrantInv' /\ LeaversInv' /\ OneSuccessor' /\ ReuseWithinGrace'
  <1>1. Live' \subseteq Live /\ \A t \in Live' : rows'[t] = rows[t]
    BY DEF Removal, Live
  <1>2. \A t \in Token : LoggedOut(t) => LoggedOut(t)'
    BY DEF Removal, LoggedOut
  <1>3. RowInv'
    <2> SUFFICES ASSUME NEW t \in Live'
                 PROVE  /\ t <= minted
                        /\ rows[t].cred = session[t].cred
                        /\ rows[t].next # None =>
                              /\ Successor(t, rows[t].next)
                              /\ rows[t].expiresAt <= now + Grace
                              /\ ~LoggedOut(t)' =>
                                    /\ rows[t].next \in Live'
                                    /\ rows[t].expiresAt <= rows'[rows[t].next].expiresAt
      BY <1>1 DEF RowInv, Successor, Removal
    <2>1. t \in Live /\ t \in Token
      BY <1>1 DEF Live
    <2>2. QED
      BY <1>1, <1>2, <2>1 DEF IInv, RowInv, Removal
  <1>4. GrantInv'
    <2> SUFFICES ASSUME NEW g \in grants, g.tok \in Live', ~LoggedOut(g.tok)'
                 PROVE  /\ rows[g.tok].next = g.next
                        /\ g.at < rows[g.tok].expiresAt
                        /\ rows[g.tok].expiresAt <= g.at + Grace
      BY <1>1 DEF GrantInv, IInv, Removal
    <2>1. g.tok \in Live /\ g.tok \in Token
      BY <1>1 DEF Live
    <2>2. QED
      BY <1>2, <2>1 DEF IInv, GrantInv
  <1>5. LeaversInv'
    BY DEF Removal, LeaversInv
  <1>6. \A g \in grants : g.tok \in Token
    BY DEF IInv, TypeOK, Grant
  <1>7. OneSuccessor' /\ ReuseWithinGrace'
    BY <1>2, <1>6 DEF IInv, OneSuccessor, ReuseWithinGrace, Removal
  <1>8. QED
    BY <1>1, <1>2, <1>3, <1>4, <1>5, <1>7

\* A request that has read a row goes on with what it has read, or has ended
Goes(p) ==
    HasRead(p)' => /\ HasRead(p) /\ proc'[p].tok = proc[p].tok
                   /\ proc'[p].row = proc[p].row /\ proc'[p].at = proc[p].at

LEMMA RemovalKeepsReadings ==
  ASSUME IInv, Removal, NEW p \in Proc, Goes(p)
  PROVE  StaleInv(p)'
  <1>1. CASE ~HasRead(p)'
    BY <1>1 DEF StaleInv
  <1>2. CASE HasRead(p)'
    <2>1. HasRead(p) /\ OnToken(p) /\ UNCHANGED <<proc[p].tok, proc[p].row, proc[p].at>>
      BY <1>2 DEF Goes, HasRead, OnToken
    <2>2. PICK t \in Token : t = proc[p].tok
      BY <2>1, RequestTypes DEF IInv
    <2>3. PICK row : row = proc[p].row
      OBVIOUS
    <2>4. PICK at : at = proc[p].at
      OBVIOUS
    <2>5. SUFFICES ASSUME ~LoggedOut(t)'
                   PROVE  /\ SameRow(t, row)'
                          /\ \A u \in Live' : rows'[u].next = t => rows'[u].expiresAt <= at + Grace
      BY <2>1, <2>2, <2>3, <2>4 DEF StaleInv, SameRow, LoggedOut
    <2>6. /\ SameRow(t, row)
          /\ \A u \in Live : rows[u].next = t => rows[u].expiresAt <= at + Grace
      BY <2>1, <2>2, <2>3, <2>4, <2>5, RemovalKeepsRows DEF IInv, RequestInv, StaleInv
    <2>7. QED
      BY <2>6, RemovalKeepsRows DEF SameRow
  <1>3. QED
    BY <1>1, <1>2

\* No request moves while a session ends
LEMMA RemovalKeepsRequests ==
  ASSUME IInv, Removal, proc' = proc, NEW p \in Proc
  PROVE  ReadInv(p)' /\ StaleInv(p)' /\ RoomInv'
  <1>1. Goes(p)
    BY DEF Goes, HasRead
  <1>2. ReadInv(p)
    BY DEF IInv, RequestInv
  <1>3. ReadInv(p)'
    BY <1>2 DEF ReadInv, Removal, OnToken, HasRead, Successor
  <1>4. RoomInv'
    BY DEF IInv, RoomInv, Removal, Busy
  <1>5. QED
    BY <1>1, <1>3, <1>4, RemovalKeepsReadings

LEMMA LogoutKeeps ==
  ASSUME IInv, NEW t \in Token, Logout(t)
  PROVE  IInv'
  <1>1. /\ t \in Live /\ rows' = [rows EXCEPT ![t] = NoRow] /\ leavers' = leavers \cup {t}
        /\ UNCHANGED <<taken, now, minted, proc, session, era, grants>>
    BY DEF Logout
  <1>2. TypeOK'
    BY <1>1 DEF IInv, TypeOK
  <1>3. t <= minted
    BY <1>1 DEF IInv, RowInv
  <1>4. /\ Live' = Live \ {t} /\ \A u \in Token \ {t} : rows'[u] = rows[u]
    BY <1>1 DEF Live, IInv, TypeOK
  <1>5. ASSUME NEW u \in Live', rows[u].next \in Live, ~LoggedOut(u)'
        PROVE  rows[u].next \in Live'
    <2>1. rows[u].next # None /\ u \in Live
      BY <1>4, <1>5 DEF Live, Token, None
    <2>2. session[rows[u].next] = session[u]
      BY <2>1 DEF IInv, RowInv, Successor
    <2>3. rows[u].next # t
      BY <1>1, <1>5, <2>2 DEF LoggedOut
    <2>4. QED
      BY <1>4, <1>5, <2>3
  <1>6. Removal
    <2>1. leavers' \subseteq Token /\ \A l \in leavers' : l <= minted
      BY <1>1, <1>3 DEF IInv, LeaversInv, TypeOK
    <2>2. rows' \in [Token -> Row \cup {NoRow}] /\ \A u \in Token : rows'[u] \in {rows[u], NoRow}
      BY <1>1, <1>2, <1>4 DEF TypeOK, IInv
    <2>3. QED
      BY <1>1, <1>5, <2>1, <2>2 DEF Removal
  <1>7. ASSUME NEW p \in Proc PROVE LoginInv(p)'
    BY <1>1 DEF IInv, RequestInv, LoginInv
  <1>8. NothingSurvives'
    BY <1>1, <1>4 DEF IInv, NothingSurvives, Live
  <1>9. QED
    BY <1>1, <1>2, <1>6, <1>7, <1>8, RemovalKeepsRows, RemovalKeepsRequests
    DEF IInv, RequestInv, RoomInv, Busy

LEMMA RevokeAppPasswordKeeps ==
  ASSUME IInv, NEW c \in Cred, RevokeAppPassword(c)
  PROVE  IInv'
  <1>1. /\ rows' = [t \in Token |->
                      IF rows[t] # NoRow /\ rows[t].cred = c THEN NoRow ELSE rows[t]]
        /\ era' = [era EXCEPT ![c] = @ + 1]
        /\ UNCHANGED <<taken, now, minted, proc, session, grants, leavers>>
    BY DEF RevokeAppPassword
  <1>2. era \in [Cred -> Nat] /\ era' \in [Cred -> Nat]
    BY <1>1 DEF IInv, TypeOK
  <1>3. rows' \in [Token -> Row \cup {NoRow}]
    BY <1>1 DEF IInv, TypeOK
  <1>4. TypeOK'
    BY <1>1, <1>2, <1>3 DEF IInv, TypeOK
  <1>5. /\ \A t \in Live : rows[t].cred # c => t \in Live' /\ rows'[t] = rows[t]
        /\ \A t \in Live' : t \in Live /\ rows[t].cred # c /\ rows'[t] = rows[t]
    BY <1>1 DEF Live
  <1>6. ASSUME NEW u \in Live', rows[u].next \in Live
        PROVE  rows[u].next \in Live'
    <2>1. rows[u].next # None /\ u \in Live /\ rows[u].cred # c
      BY <1>5, <1>6 DEF Live, Token, None
    <2>2. session[rows[u].next] = session[u]
      BY <2>1 DEF IInv, RowInv, Successor
    <2>3. rows[rows[u].next].cred # c
      BY <1>6, <2>1, <2>2 DEF IInv, RowInv
    <2>4. QED
      BY <1>5, <1>6, <2>3
  <1>7. Removal
    <2>1. leavers' \subseteq Token /\ \A l \in leavers' : l <= minted
      BY <1>1 DEF IInv, LeaversInv, TypeOK
    <2>2. \A t \in Token : rows'[t] \in {rows[t], NoRow}
      BY <1>1
    <2>3. QED
      BY <1>1, <1>3, <1>6, <2>1, <2>2 DEF Removal
  <1>8. ASSUME NEW p \in Proc PROVE LoginInv(p)'
    <2>1. LoginInv(p) /\ (proc[p].pc = "login" => proc[p].cred \in Cred /\ proc[p].opened \in Nat)
      BY RequestTypes DEF IInv, RequestInv
    <2>2. \A k \in Cred : era[k] \in Nat /\ era'[k] >= era[k]
      BY <1>1, <1>2
    <2>3. QED
      BY <1>1, <1>2, <2>1, <2>2 DEF LoginInv
  <1>9. NothingSurvives'
    <2>1. \A t \in Live' : rows'[t].cred \in Cred /\ era'[rows'[t].cred] = era[rows[t].cred]
      BY <1>1, <1>2, <1>5, RowTypes DEF IInv
    <2>2. QED
      BY <1>1, <1>5, <2>1 DEF IInv, NothingSurvives
  <1>10. QED
    BY <1>1, <1>4, <1>7, <1>8, <1>9, RemovalKeepsRows, RemovalKeepsRequests
    DEF IInv, RequestInv, RoomInv, Busy

LEMMA RevokeAllKeeps ==
  ASSUME IInv, RevokeAll, taken' \in BOOLEAN
  PROVE  IInv'
  <1>1. /\ rows' = [t \in Token |-> NoRow]
        /\ era' = [c \in Cred |-> era[c] + 1]
        /\ UNCHANGED <<now, minted, proc, session, grants, leavers>>
    BY DEF RevokeAll
  <1>2. era \in [Cred -> Nat] /\ era' \in [Cred -> Nat]
    BY <1>1 DEF IInv, TypeOK
  <1>3. rows' \in [Token -> Row \cup {NoRow}]
    BY <1>1
  <1>4. TypeOK'
    BY <1>1, <1>2, <1>3 DEF IInv, TypeOK
  <1>5. Live' = {}
    BY <1>1 DEF Live
  <1>6. Removal
    <2>1. leavers' \subseteq Token /\ \A l \in leavers' : l <= minted
      BY <1>1 DEF IInv, LeaversInv, TypeOK
    <2>2. \A t \in Token : rows'[t] \in {rows[t], NoRow}
      BY <1>1
    <2>3. QED
      BY <1>1, <1>3, <1>5, <2>1, <2>2 DEF Removal
  <1>7. ASSUME NEW p \in Proc PROVE LoginInv(p)'
    <2>1. LoginInv(p) /\ (proc[p].pc = "login" => proc[p].cred \in Cred /\ proc[p].opened \in Nat)
      BY RequestTypes DEF IInv, RequestInv
    <2>2. \A k \in Cred : era[k] \in Nat /\ era'[k] = era[k] + 1
      BY <1>1, <1>2
    <2>3. QED
      BY <1>1, <1>2, <2>1, <2>2 DEF LoginInv
  <1>8. NothingSurvives'
    BY <1>5 DEF NothingSurvives
  <1>9. QED
    BY <1>1, <1>4, <1>6, <1>7, <1>8, RemovalKeepsRows, RemovalKeepsRequests
    DEF IInv, RequestInv, RoomInv, Busy

\* deleteExpiredRefreshTokens removes a token with its predecessor, which does
\* not expire later
LEMMA TidyKeeps ==
  ASSUME IInv, NEW p \in Proc, Tidy(p)
  PROVE  IInv'
  <1>1. PICK at \in Nat : at = proc[p].at
    BY RequestTypes DEF Tidy, IInv, HasRead
  <1>2. /\ HasRead(p) /\ OnToken(p) /\ proc[p].pc = "tidy" /\ proc[p].row.expiresAt \in Nat
        /\ proc[p] = [pc |-> proc[p].pc, tok |-> proc[p].tok, row |-> proc[p].row, at |-> at]
    BY <1>1, RequestTypes DEF Tidy, IInv, HasRead, OnToken
  <1>3. /\ rows' = [t \in Token |-> IF rows[t].expiresAt <= at THEN NoRow ELSE rows[t]]
        /\ UNCHANGED <<taken, now, minted, session, era, grants, leavers>>
    BY <1>1 DEF Tidy
  <1>4. /\ rows' \in [Token -> Row \cup {NoRow}]
        /\ \A t \in Token : rows'[t] \in {rows[t], NoRow}
    BY <1>3 DEF IInv, TypeOK
  <1>5. \A t \in Live' : t \in Live /\ rows'[t] = rows[t] /\ ~(rows[t].expiresAt <= at)
    BY <1>3 DEF Live
  <1>6. \A t \in Live : ~(rows[t].expiresAt <= at) => t \in Live'
    BY <1>3 DEF Live
  <1>7. ASSUME NEW u \in Live', rows[u].next \in Live, ~LoggedOut(u)'
        PROVE  rows[u].next \in Live'
    <2>1. rows[u].next # None /\ u \in Live /\ ~LoggedOut(u)
      BY <1>3, <1>5, <1>7 DEF Live, Token, None, LoggedOut
    <2>2. rows[u].expiresAt <= rows[rows[u].next].expiresAt
      BY <2>1 DEF IInv, RowInv
    <2>3. rows[u].expiresAt \in Nat /\ rows[rows[u].next].expiresAt \in Nat
      BY <1>7, <2>1, RowTypes DEF IInv
    <2>4. QED
      BY <1>1, <1>5, <1>6, <1>7, <2>2, <2>3
  <1>8. Removal
    <2>1. leavers' \subseteq Token /\ \A l \in leavers' : l <= minted
      BY <1>3 DEF IInv, LeaversInv, TypeOK
    <2>2. QED
      BY <1>3, <1>4, <1>7, <2>1 DEF Removal
  <1>9. /\ \A q \in Proc : q # p => proc'[q] = proc[q]
        /\ \/ proc'[p] = Idle
           \/ /\ proc'[p] = [pc |-> "grant", tok |-> proc[p].tok, row |-> proc[p].row, at |-> at]
              /\ at < proc[p].row.expiresAt
    <2>1. ASSUME ~(Ends(proc[p].row, at) <= at) PROVE at < proc[p].row.expiresAt
      BY <1>1, <1>2, <2>1, RefreshTokensConstants DEF Ends
    <2>2. [proc[p] EXCEPT !.pc = "grant"] =
            [pc |-> "grant", tok |-> proc[p].tok, row |-> proc[p].row, at |-> at]
      BY <1>2
    <2>3. QED
      BY <1>1, <2>1, <2>2 DEF Tidy, IInv, TypeOK
  <1>10. proc' \in [Proc -> Request]
    <2>1. Idle \in Request
      BY DEF Request
    <2>2. proc[p].tok \in Token /\ proc[p].row \in Row
      BY <1>2, RequestTypes DEF IInv
    <2>3. [pc |-> "grant", tok |-> proc[p].tok, row |-> proc[p].row, at |-> at] \in Request
      BY <1>1, <2>2 DEF Request
    <2>4. QED
      BY <1>9, <2>1, <2>3 DEF Tidy, IInv, TypeOK
  <1>11. TypeOK'
    BY <1>3, <1>4, <1>10 DEF IInv, TypeOK
  <1>12. RoomInv'
    BY <1>2, <1>3, <1>9, <1>10, GoingOnKeeps DEF Idle
  <1>13. ASSUME NEW q \in Proc PROVE LoginInv(q)' /\ ReadInv(q)' /\ StaleInv(q)'
    <2>1. CASE q # p
      <3>1. LoginInv(q) /\ ReadInv(q)
        BY DEF IInv, RequestInv
      <3>2. LoginInv(q)' /\ ReadInv(q)' /\ Goes(q)
        BY <1>3, <1>9, <2>1, <3>1 DEF LoginInv, ReadInv, OnToken, HasRead, Successor, Goes
      <3>3. QED
        BY <1>8, <3>2, RemovalKeepsReadings
    <2>2. CASE q = p /\ proc'[p] = Idle
      BY <2>2, NothingKnown
    <2>3. CASE q = p /\ proc'[p] # Idle
      <3>1. /\ proc'[p].pc = "grant" /\ proc'[p].tok = proc[p].tok /\ proc'[p].row = proc[p].row
            /\ proc'[p].at = proc[p].at /\ at < proc[p].row.expiresAt
        BY <1>1, <1>9, <2>3
      <3>2. Goes(p)
        BY <1>2, <3>1 DEF Goes
      <3>3. LoginInv(p)'
        BY <3>1 DEF LoginInv
      <3>4. ReadInv(p)
        BY DEF IInv, RequestInv
      <3>5. ReadInv(p)'
        BY <1>1, <1>2, <1>3, <3>1, <3>4 DEF ReadInv, OnToken, HasRead, Successor
      <3>6. QED
        BY <1>8, <2>3, <3>2, <3>3, <3>5, RemovalKeepsReadings
    <2>4. QED
      BY <2>1, <2>2, <2>3
  <1>14. NothingSurvives'
    BY <1>3, <1>5 DEF IInv, NothingSurvives
  <1>15. QED
    BY <1>8, <1>11, <1>12, <1>13, <1>14, RemovalKeepsRows DEF IInv, RequestInv

-----------------------------------------------------------------------------
(* Steps that store tokens *)

\* A request under way has room for one token
LEMMA Fits ==
  ASSUME IInv, NEW p \in Proc, proc[p] # Idle
  PROVE  minted + 1 \in Token /\ minted + 1 \notin Live /\ rows[minted + 1] = NoRow
  <1>1. Cardinality(Busy) # 0
    BY BusyIsFinite, FS_EmptySet DEF Busy
  <1>2. minted + 1 \in Token
    BY <1>1, BusyIsFinite, RefreshTokensConstants DEF IInv, TypeOK, RoomInv, Token
  <1>3. minted + 1 \notin Live
    BY DEF IInv, RowInv, TypeOK
  <1>4. QED
    BY <1>2, <1>3 DEF Live

LEMMA CreateSessionKeeps ==
  ASSUME IInv, NEW p \in Proc, CreateSession(p)
  PROVE  IInv'
  <1> DEFINE n == minted + 1
             c == proc[p].cred
             s == [first |-> n, cred |-> c, opened |-> proc[p].opened, since |-> era[c]]
  <1>1. /\ proc[p].pc = "login" /\ proc[p] # Idle /\ c \in Cred /\ proc[p].opened \in Nat
        /\ n \in Token /\ n \notin Live /\ rows[n] = NoRow /\ minted \in Nat /\ n > minted
    BY Fits, RequestTypes DEF CreateSession, Idle, IInv, TypeOK
  <1>2. /\ minted' = n /\ rows' = [rows EXCEPT ![n] = NewRow(c)]
        /\ session' = [session EXCEPT ![n] = s]
        /\ proc' = [proc EXCEPT ![p] = Idle]
        /\ UNCHANGED <<taken, now, era, grants, leavers>>
    BY DEF CreateSession
  <1>3. /\ NewRow(c) \in Row /\ NewRow(c) # NoRow /\ NewRow(c).next = None
        /\ NewRow(c).cred = c
    BY <1>1, RefreshTokensConstants DEF NewRow, Row, NoRow, IInv, TypeOK
  <1>4. s \in Session
    BY <1>1 DEF Session, IInv, TypeOK
  <1> HIDE DEF n, s
  <1>5. TypeOK'
    <2>1. rows' \in [Token -> Row \cup {NoRow}] /\ session' \in [Token -> Session]
      BY <1>2, <1>3, <1>4 DEF IInv, TypeOK
    <2>2. proc' \in [Proc -> Request] /\ minted' \in 0 .. MaxTok
      BY <1>1, <1>2 DEF IInv, TypeOK, Request, Token
    <2>3. QED
      BY <1>2, <2>1, <2>2 DEF IInv, TypeOK
  <1>6. /\ Live' = Live \cup {n} /\ rows'[n] = NewRow(c) /\ session'[n] = s
        /\ \A t \in Token \ {n} : rows'[t] = rows[t] /\ session'[t] = session[t]
    BY <1>1, <1>2, <1>3 DEF Live, IInv, TypeOK
  <1>7. \A t \in Token : t <= minted => t # n /\ session'[t] = session[t]
    BY <1>1, <1>6 DEF Token
  <1>8. ASSUME NEW t \in Token, t <= minted PROVE LoggedOut(t)' <=> LoggedOut(t)
    BY <1>2, <1>7, <1>8 DEF LoggedOut, IInv, LeaversInv, TypeOK
  <1>9. \A t \in Live : t \in Token /\ t <= minted /\ (rows[t].next # None => rows[t].next \in Token)
    BY RowTypes DEF IInv, RowInv
  <1>10. RoomInv'
    <2>1. Cardinality(Busy') = Cardinality(Busy) - 1
      BY <1>1, <1>2, BusyChanges DEF IInv, TypeOK
    <2>2. QED
      BY <1>1, <1>2, <2>1, BusyIsFinite, RefreshTokensConstants DEF IInv, RoomInv, n
  <1>11. RowInv'
    <2>1. ASSUME NEW t \in Live, NEW v, v = rows[t].next
          PROVE  /\ t <= minted' /\ rows'[t] = rows[t] /\ rows[t].cred = session'[t].cred
                 /\ v # None =>
                       /\ Successor(t, v)'
                       /\ rows[t].expiresAt <= now + Grace
                       /\ ~LoggedOut(t)' => /\ v \in Live'
                                            /\ rows[t].expiresAt <= rows'[v].expiresAt
      <3>1. rows'[t] = rows[t] /\ session'[t] = session[t] /\ t <= minted /\ t \in Token
        BY <1>6, <1>7, <1>9
      <3>2. t <= minted' /\ rows[t].cred = session'[t].cred
        BY <1>1, <1>2, <3>1 DEF IInv, RowInv, Token, n
      <3>3. ASSUME v # None
            PROVE  /\ Successor(t, v)' /\ rows[t].expiresAt <= now + Grace
                   /\ ~LoggedOut(t) => v \in Live /\ rows[t].expiresAt <= rows[v].expiresAt
        <4>1. Successor(t, v) /\ v \in Token
          BY <1>9, <2>1, <3>3 DEF IInv, RowInv
        <4>2. v <= minted /\ session'[v] = session[v]
          BY <1>7, <4>1 DEF Successor
        <4>3. Successor(t, v)'
          BY <1>1, <1>2, <3>1, <4>1, <4>2 DEF Successor, Token, n
        <4>4. QED
          BY <2>1, <3>3, <4>3 DEF IInv, RowInv
      <3>4. v # None => v \in Token /\ (v \in Live => rows'[v] = rows[v])
        BY <1>6, <1>1, <1>9, <2>1
      <3>5. QED
        BY <1>6, <1>8, <3>1, <3>2, <3>3, <3>4
    <2>2. rows'[n].next = None /\ rows'[n].cred = session'[n].cred /\ n <= minted'
      BY <1>1, <1>2, <1>3, <1>6 DEF s, Token
    <2>3. SUFFICES ASSUME NEW t \in Live'
                   PROVE  /\ t <= minted'
                          /\ rows'[t].cred = session'[t].cred
                          /\ rows'[t].next # None =>
                                /\ Successor(t, rows[t].next)'
                                /\ rows'[t].expiresAt <= now' + Grace
                                /\ ~LoggedOut(t)' =>
                                      /\ rows'[t].next \in Live'
                                      /\ rows'[t].expiresAt <= rows'[rows'[t].next].expiresAt
      BY DEF RowInv, Successor
    <2>4. CASE t = n
      BY <2>2, <2>4
    <2>5. CASE t \in Live
      <3>1. rows'[t] = rows[t] /\ now' = now
        BY <1>2, <2>5, <2>1
      <3>2. PICK v : v = rows[t].next
        OBVIOUS
      <3>3. rows'[t].next = v
        BY <3>1, <3>2
      <3>4. QED
        BY <2>1, <2>5, <3>1, <3>2, <3>3 DEF Successor
    <2>6. QED
      BY <1>6, <2>4, <2>5
  <1>12. ASSUME NEW q \in Proc PROVE LoginInv(q)' /\ ReadInv(q)' /\ StaleInv(q)'
    <2>1. CASE q = p
      BY <1>2, <2>1, NothingKnown DEF IInv, TypeOK
    <2>2. CASE q # p
      <3>1. proc'[q] = proc[q] /\ LoginInv(q) /\ ReadInv(q) /\ StaleInv(q)
        BY <1>2, <2>2 DEF IInv, TypeOK, RequestInv
      <3>2. LoginInv(q)'
        BY <1>2, <3>1 DEF LoginInv
      <3>3. /\ OnToken(q) => proc[q].tok \in Token /\ proc[q].tok <= minted
            /\ HasRead(q) => OnToken(q) /\ proc[q].row.next \in Token \cup {None}
        BY <3>1, RequestTypes DEF ReadInv, IInv, OnToken, HasRead
      <3>4. ReadInv(q)'
        BY <1>1, <1>2, <1>7, <3>1, <3>3 DEF ReadInv, OnToken, HasRead, Successor, Token, n
      <3>5. StaleInv(q)'
        <4>1. CASE ~HasRead(q)
          BY <3>1, <4>1 DEF StaleInv, HasRead
        <4>2. CASE HasRead(q)
          <5>1. PICK t \in Token : t = proc[q].tok /\ t <= minted
            BY <3>3, <4>2
          <5>2. PICK row, at : row = proc[q].row /\ at = proc[q].at
            OBVIOUS
          <5>3. SUFFICES ASSUME ~LoggedOut(t)'
                         PROVE  /\ SameRow(t, row)'
                                /\ \A u \in Live' : rows'[u].next = t => rows'[u].expiresAt <= at + Grace
            BY <3>1, <5>1, <5>2 DEF StaleInv, SameRow, LoggedOut
          <5>4. /\ SameRow(t, row)
                /\ \A u \in Live : rows[u].next = t => rows[u].expiresAt <= at + Grace
            BY <1>8, <3>1, <4>2, <5>1, <5>2, <5>3 DEF StaleInv
          <5>5. SameRow(t, row)'
            BY <1>6, <1>7, <5>1, <5>4 DEF SameRow
          <5>6. t # None
            BY DEF Token, None
          <5>7. QED
            BY <1>1, <1>3, <1>6, <1>9, <5>4, <5>5, <5>6
        <4>3. QED
          BY <4>1, <4>2
      <3>6. QED
        BY <3>2, <3>4, <3>5
    <2>3. QED
      BY <2>1, <2>2
  <1>13. \A g \in grants : g.tok \in Token /\ g.tok <= minted /\ g.tok # n
    BY <1>7 DEF IInv, TypeOK, Grant, GrantInv
  <1>14. GrantInv'
    BY <1>1, <1>2, <1>6, <1>8, <1>13 DEF IInv, GrantInv, Token, n
  <1>15. LeaversInv'
    BY <1>1, <1>2 DEF IInv, LeaversInv, TypeOK, Token, n
  <1>16. OneSuccessor' /\ ReuseWithinGrace'
    BY <1>2, <1>8, <1>13 DEF IInv, OneSuccessor, ReuseWithinGrace
  <1>17. NothingSurvives'
    <2>1. taken => proc[p].opened < era[c]
      BY <1>1 DEF IInv, RequestInv, LoginInv
    <2>2. session'[n].since = era[c] /\ session'[n].opened = proc[p].opened /\ rows'[n].cred = c
      BY <1>3, <1>6 DEF s
    <2>3. QED
      BY <1>2, <1>6, <1>7, <1>9, <2>1, <2>2 DEF IInv, NothingSurvives
  <1>18. QED
    BY <1>5, <1>10, <1>11, <1>12, <1>14, <1>15, <1>16, <1>17 DEF IInv, RequestInv

LEMMA TickKeeps ==
  ASSUME IInv, Tick
  PROVE  IInv'
  <1>1. /\ now' = now + 1 /\ now \in Nat
        /\ UNCHANGED <<rows, taken, minted, proc, session, era, grants, leavers>>
    BY DEF Tick, IInv, TypeOK
  <1>2. TypeOK'
    BY <1>1 DEF IInv, TypeOK
  <1>3. Live' = Live /\ \A t \in Token : LoggedOut(t)' <=> LoggedOut(t)
    BY <1>1 DEF Live, LoggedOut
  <1>4. RowInv'
    BY <1>1, <1>3, RowTypes, RefreshTokensConstants DEF IInv, RowInv, Successor, LoggedOut
  <1>5. ASSUME NEW p \in Proc PROVE LoginInv(p)' /\ ReadInv(p)' /\ StaleInv(p)'
    <2>1. LoginInv(p) /\ ReadInv(p) /\ StaleInv(p)
      BY DEF IInv, RequestInv
    <2>2. LoginInv(p)' /\ StaleInv(p)'
      BY <1>1, <1>3, <2>1 DEF LoginInv, StaleInv, SameRow, HasRead, LoggedOut
    <2>3. HasRead(p) => proc[p].at \in Nat
      BY RequestTypes DEF IInv
    <2>4. HasRead(p) => proc[p].at <= now'
      BY <1>1, <2>1, <2>3 DEF ReadInv
    <2>5. ReadInv(p)'
      BY <1>1, <2>1, <2>4 DEF ReadInv, OnToken, HasRead, Successor
    <2>6. QED
      BY <2>2, <2>5
  <1>6. RoomInv' /\ GrantInv' /\ LeaversInv'
    BY <1>1, <1>3 DEF IInv, RoomInv, Busy, GrantInv, LeaversInv, LoggedOut
  <1>7. NothingSurvives' /\ OneSuccessor' /\ ReuseWithinGrace'
    BY <1>1, <1>3 DEF IInv, NothingSurvives, OneSuccessor, ReuseWithinGrace, LoggedOut
  <1>8. QED
    BY <1>2, <1>4, <1>5, <1>6, <1>7 DEF IInv, RequestInv

\* A rotation stores its successor for the first time, or leaves it alone: it
\* could store it again only if the session had been logged out
LEMMA RotateKeeps ==
  ASSUME IInv, NEW p \in Proc, Rotate(p)
  PROVE  IInv'
  <1>1. PICK t \in Token, row \in Row, at \in Nat :
          t = proc[p].tok /\ row = proc[p].row /\ at = proc[p].at
    BY RequestTypes DEF Rotate, IInv, HasRead, OnToken
  <1> DEFINE e == Ends(row, at)
             next == IF row.next = None THEN minted + 1 ELSE row.next
             g0 == [tok |-> t, next |-> next, at |-> at]
  <1>2. /\ proc[p].pc = "grant" /\ HasRead(p) /\ OnToken(p) /\ proc[p] # Idle
        /\ LoginInv(p) /\ ReadInv(p) /\ StaleInv(p)
    BY DEF Rotate, HasRead, OnToken, Idle, IInv, RequestInv
  <1>3. /\ t <= minted /\ at <= now /\ at < row.expiresAt /\ row.cred = session[t].cred
        /\ row.next # None => Successor(t, row.next) /\ row.expiresAt <= at + Grace
    BY <1>1, <1>2 DEF ReadInv
  <1>4. /\ row.cred \in Cred /\ row.expiresAt \in Nat /\ row.next \in Token \cup {None}
        /\ minted \in Nat /\ now \in Nat /\ Grace \in Nat /\ 0 < Grace /\ Grace < Lifetime
        /\ Lifetime \in Nat /\ MaxTok \in Nat
    BY <1>1, RefreshTokensConstants DEF Row, IInv, TypeOK
  <1>5. /\ t \in Live /\ rows[t].next \in {None, row.next}
        /\ rows' = [x \in Token |->
              CASE x = t -> [rows[t] EXCEPT !.expiresAt = e, !.next = next]
                [] x = next /\ x # t /\ rows[x] = NoRow -> NewRow(row.cred)
                [] OTHER -> rows[x]]
        /\ minted' = IF row.next = None THEN minted + 1 ELSE minted
        /\ session' = [session EXCEPT ![next] = session[t]]
        /\ grants' = grants \cup {g0}
        /\ proc' = [proc EXCEPT ![p] = Idle]
        /\ UNCHANGED <<taken, now, era, leavers>>
    BY <1>1 DEF Rotate, Fresh, Live
  <1>6. /\ e \in Nat /\ at < e /\ e <= at + Grace /\ e <= row.expiresAt
        /\ e = at + Grace \/ e = row.expiresAt
        /\ row.next # None => e = row.expiresAt
    BY <1>3, <1>4 DEF Ends
  <1>7. minted + 1 \in Token /\ minted + 1 \notin Live /\ rows[minted + 1] = NoRow
    BY <1>2, Fits
  <1>8. /\ next \in Token /\ t < next /\ next <= minted' /\ next # t /\ next # None
        /\ minted <= minted' /\ minted' <= minted + 1
        /\ next <= minted => row.next = next
        /\ next \in Live => row.next = next
    BY <1>3, <1>4, <1>5, <1>7 DEF Successor, Token, None
  <1>9. /\ rows[t] \in Row
        /\ [rows[t] EXCEPT !.expiresAt = e, !.next = next] \in Row
        /\ NewRow(row.cred) \in Row /\ NewRow(row.cred) # NoRow /\ NewRow(row.cred).next = None
        /\ NewRow(row.cred).cred = row.cred /\ NewRow(row.cred).expiresAt = now + Lifetime
    <2>1. rows[t] \in Row
      BY <1>5, RowTypes DEF IInv
    <2>2. [rows[t] EXCEPT !.expiresAt = e, !.next = next] \in Row
      BY <1>6, <1>8, <2>1 DEF Row
    <2>3. NewRow(row.cred) \in Row
      BY <1>4 DEF NewRow, Row
    <2>4. QED
      BY <2>1, <2>2, <2>3 DEF NewRow, NoRow
  <1> HIDE DEF e, next, g0
  <1>10. /\ rows'[t] \in Row /\ rows'[t].cred = rows[t].cred /\ rows'[t].expiresAt = e
         /\ rows'[t].next = next
         /\ next \notin Live => rows'[next] = NewRow(row.cred)
         /\ \A x \in Live \ {t} : rows'[x] = rows[x]
         /\ Live' = Live \cup {next}
    <2>1. \A x \in Token : rows[x] = NoRow <=> x \notin Live
      BY DEF Live
    <2>2. NoRow \notin Row
      BY DEF NoRow, Row
    <2>3. /\ rows'[t] = [rows[t] EXCEPT !.expiresAt = e, !.next = next]
          /\ \A x \in Token \ {t} : rows'[x] = IF x = next /\ rows[x] = NoRow
                                               THEN NewRow(row.cred) ELSE rows[x]
      BY <1>5
    <2>4. /\ rows'[t] \in Row /\ rows'[t].cred = rows[t].cred /\ rows'[t].expiresAt = e
          /\ rows'[t].next = next
      BY <1>9, <2>3 DEF Row
    <2>5. \A x \in Live \ {t} : rows'[x] = rows[x]
      BY <2>1, <2>3 DEF Live
    <2>6. next \notin Live => rows'[next] = NewRow(row.cred)
      BY <1>8, <2>1, <2>3
    <2>7. \A x \in Token : x \in Live' <=> x \in Live \cup {next}
      BY <1>5, <1>8, <1>9, <2>1, <2>2, <2>3, <2>4 DEF Live
    <2>8. QED
      BY <1>8, <2>4, <2>5, <2>6, <2>7 DEF Live
  <1>11. /\ \A x \in Token : x <= minted => session'[x] = session[x]
         /\ session'[next] = session[t] /\ session'[t] = session[t]
    BY <1>3, <1>4, <1>5, <1>8 DEF Successor, IInv, TypeOK, Token
  <1>12. ASSUME NEW x \in Token, x <= minted PROVE LoggedOut(x)' <=> LoggedOut(x)
    BY <1>5, <1>11, <1>12 DEF LoggedOut, IInv, LeaversInv, TypeOK
  <1>13. ASSUME ~LoggedOut(t)
         PROVE  /\ rows[t].next = row.next /\ rows[t].expiresAt = row.expiresAt
                /\ rows[t].next # None => next = rows[t].next /\ e = rows[t].expiresAt
    <2>1. SameRow(t, row)
      BY <1>1, <1>2, <1>13 DEF StaleInv
    <2>2. rows[t].next = row.next /\ rows[t].expiresAt = row.expiresAt
      BY <1>5, <2>1 DEF SameRow
    <2>3. QED
      BY <1>6, <2>2 DEF next
  <1>14. ASSUME NEW x \in Token, x <= minted, x \in Live', ~LoggedOut(x)
         PROVE  x \in Live
    <2>1. SUFFICES ASSUME x = next, next \notin Live PROVE FALSE
      BY <1>10, <1>14
    <2>2. row.next = next /\ session[next] = session[t]
      BY <1>3, <1>8, <1>14, <2>1 DEF Successor
    <2>3. ~LoggedOut(t)
      BY <1>14, <2>1, <2>2 DEF LoggedOut
    <2>4. rows[t].next = next
      BY <1>13, <2>2, <2>3
    <2>5. QED
      BY <1>5, <1>8, <2>1, <2>3, <2>4 DEF IInv, RowInv
  <1>15. ASSUME NEW x \in Token, NEW v \in Token, Successor(x, v)
         PROVE  Successor(x, v)'
    <2>1. x < v /\ v <= minted /\ x <= minted /\ session[v] = session[x]
      BY <1>4, <1>15 DEF Successor, Token
    <2>2. v <= minted'
      BY <1>4, <1>5, <2>1 DEF Token
    <2>3. session'[v] = session'[x]
      BY <1>11, <2>1
    <2>4. QED
      BY <2>1, <2>2, <2>3 DEF Successor
  <1>16. \A x \in Live : x \in Token /\ x <= minted /\ rows[x].next \in Token \cup {None}
                         /\ rows[x].expiresAt \in Nat
    BY RowTypes DEF IInv, RowInv
  <1>17. TypeOK'
    <2>1. rows' \in [Token -> Row \cup {NoRow}]
      BY <1>5, <1>9, <1>10, <1>8 DEF IInv, TypeOK
    <2>2. session' \in [Token -> Session] /\ proc' \in [Proc -> Request]
      BY <1>5, <1>8 DEF IInv, TypeOK, Request
    <2>3. grants' \subseteq Grant
      BY <1>5, <1>8 DEF IInv, TypeOK, Grant, g0
    <2>4. minted' \in 0 .. MaxTok
      BY <1>4, <1>5, <1>7 DEF IInv, TypeOK, Token
    <2>5. QED
      BY <1>5, <2>1, <2>2, <2>3, <2>4 DEF IInv, TypeOK
  <1>18. RoomInv'
    <2>1. Cardinality(Busy') = Cardinality(Busy) - 1
      BY <1>2, <1>5, BusyChanges DEF IInv, TypeOK
    <2>2. minted' \in Nat
      BY <1>4, <1>5
    <2>3. QED
      BY <1>4, <1>8, <2>1, <2>2, BusyIsFinite DEF IInv, RoomInv
  <1>19. RowInv'
    <2>1. ASSUME NEW x \in Live', NEW v, v = rows'[x].next
          PROVE  /\ x <= minted' /\ rows'[x].cred = session'[x].cred
                 /\ v # None => /\ Successor(x, v)'
                                /\ rows'[x].expiresAt <= now + Grace
                                /\ ~LoggedOut(x)' =>
                                      /\ v \in Live'
                                      /\ rows'[x].expiresAt <= rows'[v].expiresAt
      <3>1. CASE x = t
        <4>1. v = next /\ rows'[x].expiresAt = e /\ v \in Live'
          BY <1>10, <2>1, <3>1
        <4>2. x <= minted' /\ rows'[x].cred = session'[x].cred
          BY <1>3, <1>4, <1>5, <1>8, <1>10, <1>11, <3>1 DEF IInv, RowInv, Token
        <4>3. Successor(x, v)'
          BY <1>8, <1>11, <3>1, <4>1 DEF Successor
        <4>4. e <= now + Grace
          BY <1>3, <1>4, <1>6
        <4>5. ASSUME ~LoggedOut(t) PROVE e <= rows'[next].expiresAt
          <5>1. CASE next \notin Live
            BY <1>3, <1>4, <1>6, <1>9, <1>10, <5>1
          <5>2. CASE next \in Live
            <6>1. row.next = next /\ rows[t].next = next /\ rows[t].expiresAt = e
              BY <1>8, <1>13, <4>5, <5>2
            <6>2. rows[t].expiresAt <= rows[next].expiresAt
              BY <1>5, <1>8, <4>5, <6>1 DEF IInv, RowInv
            <6>3. QED
              BY <1>8, <1>10, <5>2, <6>1, <6>2
          <5>3. QED
            BY <5>1, <5>2
        <4>6. QED
          BY <1>3, <1>12, <3>1, <4>1, <4>2, <4>3, <4>4, <4>5
      <3>2. CASE x = next /\ next \notin Live
        BY <1>3, <1>8, <1>9, <1>10, <1>11, <2>1, <3>2
      <3>3. CASE x \in Live \ {t}
        <4>1. /\ rows'[x] = rows[x] /\ x \in Token /\ x <= minted /\ v \in Token \cup {None}
              /\ rows[x].expiresAt \in Nat /\ v = rows[x].next
          BY <1>10, <1>16, <2>1, <3>3
        <4>2. x <= minted' /\ rows'[x].cred = session'[x].cred
          BY <1>4, <1>5, <1>8, <1>11, <3>3, <4>1 DEF IInv, RowInv, Token
        <4>3. ASSUME v # None
              PROVE  Successor(x, v) /\ Successor(x, v)' /\ rows[x].expiresAt <= now + Grace
          BY <1>15, <3>3, <4>1, <4>3 DEF IInv, RowInv
        <4>4. ASSUME v # None, ~LoggedOut(x)
              PROVE  v \in Live' /\ rows[x].expiresAt <= rows'[v].expiresAt
          <5>1. v \in Live /\ rows[x].expiresAt <= rows[v].expiresAt
            BY <3>3, <4>1, <4>4 DEF IInv, RowInv
          <5>2. CASE v # t
            BY <1>10, <5>1, <5>2
          <5>3. CASE v = t
            <6>1. ~LoggedOut(t)
              BY <4>3, <4>4, <5>3 DEF Successor, LoggedOut
            <6>2. rows[x].expiresAt <= at + Grace
              BY <1>1, <1>2, <3>3, <4>1, <5>3, <6>1 DEF StaleInv
            <6>3. rows[x].expiresAt <= row.expiresAt
              BY <1>13, <5>1, <5>3, <6>1
            <6>4. QED
              BY <1>6, <1>10, <5>1, <5>3, <6>2, <6>3
          <5>4. QED
            BY <5>2, <5>3
        <4>5. QED
          BY <1>12, <4>1, <4>2, <4>3, <4>4
      <3>4. QED
        BY <1>10, <2>1, <3>1, <3>2, <3>3
    <2>2. SUFFICES ASSUME NEW x \in Live'
                   PROVE  /\ x <= minted'
                          /\ rows'[x].cred = session'[x].cred
                          /\ rows'[x].next # None =>
                                /\ Successor(x, rows[x].next)'
                                /\ rows'[x].expiresAt <= now' + Grace
                                /\ ~LoggedOut(x)' =>
                                      /\ rows'[x].next \in Live'
                                      /\ rows'[x].expiresAt <= rows'[rows'[x].next].expiresAt
      BY DEF RowInv, Successor
    <2>3. PICK v : v = rows'[x].next
      OBVIOUS
    <2>4. now' = now
      BY <1>5
    <2>5. QED
      BY <2>1, <2>3, <2>4 DEF Successor
  <1>20. ASSUME NEW q \in Proc PROVE LoginInv(q)' /\ ReadInv(q)' /\ StaleInv(q)'
    <2>1. CASE q = p
      BY <1>5, <2>1, NothingKnown DEF IInv, TypeOK
    <2>2. CASE q # p
      <3>1. proc'[q] = proc[q] /\ LoginInv(q) /\ ReadInv(q) /\ StaleInv(q)
        BY <1>5, <2>2 DEF IInv, TypeOK, RequestInv
      <3>2. LoginInv(q)'
        BY <1>5, <3>1 DEF LoginInv
      <3>3. /\ OnToken(q) => proc[q].tok \in Token /\ proc[q].tok <= minted
            /\ HasRead(q) => OnToken(q) /\ proc[q].row.next \in Token \cup {None}
                             /\ proc[q].at \in Nat /\ proc[q].row.expiresAt \in Nat
        BY <3>1, RequestTypes DEF ReadInv, IInv, OnToken, HasRead
      <3>4. ReadInv(q)'
        <4>1. OnToken(q) => proc[q].tok <= minted'
          BY <1>4, <1>5, <1>8, <3>3 DEF Token
        <4>2. ASSUME HasRead(q), NEW x, x = proc[q].tok, NEW v, v = proc[q].row.next
              PROVE  session'[x] = session[x] /\ (v # None => Successor(x, v)')
          BY <1>11, <1>15, <3>1, <3>3, <4>2 DEF ReadInv
        <4>3. PICK x, v : x = proc[q].tok /\ v = proc[q].row.next
          OBVIOUS
        <4>4. HasRead(q) => session'[x] = session[x] /\ (v # None => Successor(x, v)')
          BY <4>2, <4>3
        <4>5. QED
          BY <1>5, <3>1, <4>1, <4>3, <4>4 DEF ReadInv, OnToken, HasRead, Successor
      <3>5. StaleInv(q)'
        <4>1. CASE ~HasRead(q)
          BY <3>1, <4>1 DEF StaleInv, HasRead
        <4>2. CASE HasRead(q)
          <5>1. PICK t2 \in Token : t2 = proc[q].tok /\ t2 <= minted
            BY <3>3, <4>2
          <5>2. PICK row2 \in Row, at2 \in Nat : row2 = proc[q].row /\ at2 = proc[q].at
            BY <4>2, RequestTypes DEF IInv
          <5>3. SUFFICES ASSUME ~LoggedOut(t2)'
                         PROVE  /\ SameRow(t2, row2)'
                                /\ \A u \in Live' :
                                      rows'[u].next = t2 => rows'[u].expiresAt <= at2 + Grace
            BY <3>1, <5>1, <5>2 DEF StaleInv, SameRow, LoggedOut
          <5>4. /\ SameRow(t2, row2) /\ ~LoggedOut(t2)
                /\ \A u \in Live : rows[u].next = t2 => rows[u].expiresAt <= at2 + Grace
            BY <1>12, <3>1, <4>2, <5>1, <5>2, <5>3 DEF StaleInv
          <5>5. SameRow(t2, row2)'
            <6>1. CASE t2 # t
              BY <1>10, <1>14, <5>1, <5>4, <6>1 DEF SameRow
            <6>2. CASE t2 = t
              <7>1. row2.next # None => rows[t].next = row2.next /\ rows[t].expiresAt = row2.expiresAt
                BY <1>5, <5>4, <6>2 DEF SameRow
              <7>2. row2.next # None => next = row2.next /\ e = row2.expiresAt
                BY <1>13, <5>4, <6>2, <7>1
              <7>3. QED
                BY <1>8, <1>10, <6>2, <7>2 DEF SameRow
            <6>3. QED
              BY <6>1, <6>2
          <5>6. ASSUME NEW u \in Live', rows'[u].next = t2
                PROVE  rows'[u].expiresAt <= at2 + Grace
            <6>1. CASE u = t
              <7>1. next = t2 /\ row.next = t2 /\ session[t2] = session[t]
                BY <1>3, <1>8, <1>10, <5>1, <5>6, <6>1 DEF Successor
              <7>2. rows[t].next = t2 /\ rows[t].expiresAt = e
                BY <1>8, <1>13, <5>4, <7>1 DEF LoggedOut
              <7>3. QED
                BY <1>5, <1>10, <5>4, <6>1, <7>2
            <6>2. CASE u \in Live \ {t}
              BY <1>10, <5>4, <5>6, <6>2
            <6>3. CASE u = next /\ next \notin Live
              BY <1>9, <1>10, <5>6, <6>3 DEF Token, None
            <6>4. QED
              BY <1>10, <6>1, <6>2, <6>3
          <5>7. QED
            BY <5>5, <5>6
        <4>3. QED
          BY <4>1, <4>2
      <3>6. QED
        BY <3>2, <3>4, <3>5
    <2>3. QED
      BY <2>1, <2>2
  <1>21. \A g \in grants : /\ g.tok \in Token /\ g.tok <= minted
                           /\ g.next \in Token /\ g.next # None /\ g.at \in Nat
    BY DEF IInv, TypeOK, Grant, GrantInv, Token, None
  <1>22. ASSUME NEW g \in grants, g.tok = t, ~LoggedOut(t)
         PROVE  /\ g.next = next /\ e = rows[t].expiresAt
                /\ g.at < e /\ e <= g.at + Grace
    <2>1. rows[t].next = g.next /\ g.at < rows[t].expiresAt /\ rows[t].expiresAt <= g.at + Grace
      BY <1>5, <1>22 DEF IInv, GrantInv
    <2>2. QED
      BY <1>13, <1>21, <1>22, <2>1
  <1>23. GrantInv'
    <2>1. ASSUME NEW g \in grants'
          PROVE  /\ g.tok <= minted'
                 /\ (g.tok \in Live' /\ ~LoggedOut(g.tok)') =>
                       /\ rows'[g.tok].next = g.next
                       /\ g.at < rows'[g.tok].expiresAt
                       /\ rows'[g.tok].expiresAt <= g.at + Grace
      <3>1. CASE g = g0
        <4>1. g.tok = t /\ g.next = next /\ g.at = at
          BY <3>1 DEF g0
        <4>2. t <= minted'
          BY <1>3, <1>4, <1>5, <1>8 DEF Token
        <4>3. QED
          BY <1>6, <1>10, <4>1, <4>2
      <3>2. CASE g \in grants
        <4>1. PICK x \in Token : x = g.tok /\ x <= minted
          BY <1>21, <3>2
        <4>2. x <= minted'
          BY <1>4, <1>5, <1>8, <4>1 DEF Token
        <4>3. SUFFICES ASSUME x \in Live', ~LoggedOut(x)
                       PROVE  /\ rows'[x].next = g.next
                              /\ g.at < rows'[x].expiresAt
                              /\ rows'[x].expiresAt <= g.at + Grace
          BY <1>12, <4>1, <4>2
        <4>4. CASE x = t
          BY <1>10, <1>22, <3>2, <4>1, <4>3, <4>4
        <4>5. CASE x # t
          BY <1>10, <1>14, <3>2, <4>1, <4>3, <4>5 DEF IInv, GrantInv
        <4>6. QED
          BY <4>4, <4>5
      <3>3. QED
        BY <1>5, <3>1, <3>2
    <2>2. QED
      BY <2>1 DEF GrantInv
  <1>24. ASSUME NEW g \in grants', NEW h \in grants', g.tok = h.tok, ~LoggedOut(g.tok)'
         PROVE  g.next = h.next /\ h.at < g.at + Grace
    <2>1. PICK x \in Token : x = g.tok /\ x <= minted
      BY <1>3, <1>5, <1>21 DEF g0
    <2>2. ~LoggedOut(x)
      BY <1>12, <1>24, <2>1
    <2>3. CASE g \in grants /\ h \in grants
      BY <1>24, <2>1, <2>2, <2>3 DEF IInv, OneSuccessor, ReuseWithinGrace
    <2>4. CASE g \in grants /\ h = g0
      <3>1. g.tok = t /\ h.next = next /\ h.at = at
        BY <1>24, <2>4 DEF g0
      <3>2. QED
        BY <1>4, <1>6, <1>21, <1>22, <2>1, <2>2, <2>4, <3>1
    <2>5. CASE g = g0 /\ h \in grants
      <3>1. h.tok = t /\ g.next = next /\ g.at = at
        BY <1>24, <2>5 DEF g0
      <3>2. h.next = next /\ h.at < e
        BY <1>22, <1>24, <2>1, <2>2, <2>5, <3>1
      <3>3. QED
        BY <1>4, <1>6, <1>21, <2>5, <3>1, <3>2
    <2>6. CASE g = g0 /\ h = g0
      BY <1>4, <2>6 DEF g0
    <2>7. QED
      BY <1>5, <2>3, <2>4, <2>5, <2>6
  <1>25. OneSuccessor' /\ ReuseWithinGrace'
    BY <1>24 DEF OneSuccessor, ReuseWithinGrace
  <1>26. LeaversInv'
    BY <1>4, <1>5, <1>8 DEF IInv, LeaversInv, TypeOK, Token
  <1>27. NothingSurvives'
    <2>1. ASSUME NEW x \in Live'
          PROVE  /\ session'[x].since = era[rows'[x].cred]
                 /\ taken => session'[x].opened < era[rows'[x].cred]
      <3>1. CASE x \in Live
        <4>1. rows'[x].cred = rows[x].cred /\ session'[x] = session[x]
          BY <1>10, <1>11, <1>16, <3>1
        <4>2. QED
          BY <3>1, <4>1 DEF IInv, NothingSurvives
      <3>2. CASE x = next /\ next \notin Live
        <4>1. session'[x] = session[t] /\ rows'[x].cred = rows[t].cred
          BY <1>3, <1>5, <1>9, <1>10, <1>11, <3>2 DEF IInv, RowInv
        <4>2. QED
          BY <1>5, <4>1 DEF IInv, NothingSurvives
      <3>3. QED
        BY <1>10, <3>1, <3>2
    <2>2. QED
      BY <1>5, <2>1 DEF NothingSurvives
  <1>28. QED
    BY <1>17, <1>18, <1>19, <1>20, <1>23, <1>25, <1>26, <1>27 DEF IInv, RequestInv

-----------------------------------------------------------------------------

LEMMA Initially ==
  Init => IInv
  <1> SUFFICES ASSUME Init PROVE IInv
    OBVIOUS
  <1>1. Live = {} /\ Busy = {} /\ Cardinality(Busy) = 0
    BY FS_EmptySet DEF Init, Live, Busy
  <1>2. TypeOK
    <2>1. session \in [Token -> Session]
      BY RefreshTokensConstants DEF Init, NoSession, Session
    <2>2. proc \in [Proc -> Request]
      BY DEF Init, Request
    <2>3. minted \in 0 .. MaxTok
      BY RefreshTokensConstants DEF Init
    <2>4. QED
      BY <2>1, <2>2, <2>3 DEF Init, TypeOK
  <1>3. RoomInv
    BY <1>1, RefreshTokensConstants DEF RoomInv, Init
  <1>4. RowInv /\ NothingSurvives
    BY <1>1 DEF RowInv, NothingSurvives
  <1>5. RequestInv
    BY DEF Init, RequestInv, LoginInv, ReadInv, StaleInv, OnToken, HasRead, Idle
  <1>6. GrantInv /\ LeaversInv /\ OneSuccessor /\ ReuseWithinGrace
    BY DEF Init, GrantInv, LeaversInv, OneSuccessor, ReuseWithinGrace
  <1>7. QED
    BY <1>2, <1>3, <1>4, <1>5, <1>6 DEF IInv

LEMMA Keeps ==
  IInv /\ [Next]_vars => IInv'
  <1> SUFFICES ASSUME IInv, [Next]_vars PROVE IInv'
    OBVIOUS
  <1>1. ASSUME NEW p \in Proc, Proceed(p) PROVE IInv'
    BY <1>1, CreateSessionKeeps, ReadKeeps, TidyKeeps, RotateKeeps, ConflictKeeps DEF Proceed
  <1>2. ASSUME NEW p \in Proc, NEW c \in Cred, Login(p, c) PROVE IInv'
    BY <1>2, LoginKeeps
  <1>3. ASSUME NEW p \in Proc, NEW t \in Token, Refresh(p, t) PROVE IInv'
    BY <1>3, RefreshKeeps
  <1>4. ASSUME NEW t \in Token, Logout(t) PROVE IInv'
    BY <1>4, LogoutKeeps
  <1>5. ASSUME NEW c \in Cred, RevokeAppPassword(c) PROVE IInv'
    BY <1>5, RevokeAppPasswordKeeps
  <1>6. ASSUME Takedown \/ NewPassword PROVE IInv'
    <2>1. RevokeAll /\ taken' \in BOOLEAN
      BY <1>6 DEF Takedown, NewPassword, IInv, TypeOK
    <2>2. QED
      BY <2>1, RevokeAllKeeps
  <1>7. ASSUME Tick PROVE IInv'
    BY <1>7, TickKeeps
  <1>8. ASSUME UNCHANGED vars PROVE IInv'
    <2>1. UNCHANGED <<rows, taken, now, minted, proc, session, era, grants, leavers>>
      BY <1>8 DEF vars
    <2>2. /\ TypeOK' /\ RoomInv' /\ RowInv' /\ GrantInv' /\ LeaversInv'
          /\ NothingSurvives' /\ OneSuccessor' /\ ReuseWithinGrace'
      BY <2>1 DEF IInv, TypeOK, RoomInv, Busy, RowInv, Live, Successor, LoggedOut, GrantInv,
                  LeaversInv, NothingSurvives, OneSuccessor, ReuseWithinGrace
    <2>3. RequestInv'
      BY <2>1 DEF IInv, RequestInv, LoginInv, ReadInv, StaleInv, SameRow, OnToken, HasRead,
                  Live, Successor, LoggedOut
    <2>4. QED
      BY <2>2, <2>3 DEF IInv
  <1>9. QED
    BY <1>1, <1>2, <1>3, <1>4, <1>5, <1>6, <1>7, <1>8 DEF Next

\* The strengthened invariant holds in every state.
THEOREM Invariance ==
  Spec => []IInv
  <1>1. QED
    BY Initially, Keeps, PTL DEF Spec

\* The state of the account's sessions has its type.
THEOREM TypeCorrect ==
  Spec => []TypeOK
  <1>1. IInv => TypeOK
    BY DEF IInv
  <1>2. QED
    BY <1>1, Invariance, PTL

\* What a takedown, a new password or a revoked app password has ended stays
\* ended, whatever rotations were under way.
THEOREM RevokedStaysEnded ==
  Spec => []NothingSurvives
  <1>1. IInv => NothingSurvives
    BY DEF IInv
  <1>2. QED
    BY <1>1, Invariance, PTL

\* However rotations of one token interleave, all get the same successor, unless
\* the session is logged out meanwhile.
THEOREM SuccessorIsUnique ==
  Spec => []OneSuccessor
  <1>1. IInv => OneSuccessor
    BY DEF IInv
  <1>2. QED
    BY <1>1, Invariance, PTL

\* No rotation of a token prolongs the grace period that another has begun.
THEOREM GraceEnds ==
  Spec => []ReuseWithinGrace
  <1>1. IInv => ReuseWithinGrace
    BY DEF IInv
  <1>2. QED
    BY <1>1, Invariance, PTL

=============================================================================
