--------------------------- MODULE RefreshTokens ---------------------------
(***************************************************************************)
(* The refresh tokens of one account of a PDS (AccountManager.createSession,*)
(* rotateRefreshToken, revokeRefreshToken; packages/pds/src/account-manager *)
(* /helpers/auth.ts).                                                      *)
(*                                                                         *)
(* A client that presents a token gets its successor, and for a grace      *)
(* period may present the old one again and gets the same successor.  The  *)
(* rotation reads the row in one query and writes it in a transaction later,*)
(* so rotations of one token, logins, logouts, takedowns and password      *)
(* changes interleave; what the transaction finds changed makes it start   *)
(* over.                                                                   *)
(*                                                                         *)
(* Abstraction.  A token's random id is its number, given when its row is  *)
(* first stored.  The signed token never expires before its row does, so   *)
(* the check of its signature refuses nothing more and is left out.        *)
(***************************************************************************)
EXTENDS Integers, FiniteSets

CONSTANTS
    Proc,      \* requests under way at once
    Cred,      \* the account's password and its app passwords
    Password,  \* which of them is the password
    Lifetime,  \* the life of a token, in ticks
    Grace,     \* REFRESH_GRACE_MS
    MaxTok,    \* bound: tokens ever stored
    MaxTime,   \* bound: ticks of the clock
    MaxRevocations \* bound: takedowns, lifts, new and revoked passwords

ASSUME RefreshTokensConstants ==
    /\ IsFiniteSet(Proc)
    /\ Password \in Cred
    /\ Lifetime \in Nat /\ Grace \in Nat /\ 0 < Grace /\ Grace < Lifetime
    /\ MaxTok \in Nat /\ MaxTime \in Nat /\ MaxRevocations \in Nat

Token == 1 .. MaxTok
None == 0  \* no token

Row == [cred : Cred, expiresAt : Nat, next : Token \cup {None}]
NoRow == [expiresAt |-> -1]

\* The session of a token: its first token, and how often its credential had
\* been revoked when its login was checked, and when it was stored
Session == [first : Token \cup {None}, cred : Cred, opened : Nat, since : Nat]
NoSession == [first |-> None, cred |-> Password, opened |-> 0, since |-> 0]

\* A request: refreshSession of tok, or a login with cred
Idle == [pc |-> "idle"]
Request ==
    {Idle} \cup
    [pc : {"login"}, cred : Cred, opened : Nat] \cup
    [pc : {"rotate"}, tok : Token] \cup
    [pc : {"tidy", "grant"}, tok : Token, row : Row, at : Nat]

VARIABLES
    rows,    \* the table refresh_token, by id
    taken,   \* the account is taken down
    now,     \* the clock
    minted,  \* how many tokens have been stored
    proc,    \* the requests
    session, \* history: the session of each token
    era,     \* history: how often each credential was revoked
    grants,  \* history: the successors that were handed out
    leavers  \* history: the tokens that were logged out

vars == <<rows, taken, now, minted, proc, session, era, grants, leavers>>

Grant == [tok : Token, next : Token, at : Nat]

TypeOK ==
    /\ rows \in [Token -> Row \cup {NoRow}]
    /\ taken \in BOOLEAN
    /\ now \in Nat
    /\ minted \in 0 .. MaxTok
    /\ proc \in [Proc -> Request]
    /\ session \in [Token -> Session]
    /\ era \in [Cred -> Nat]
    /\ grants \subseteq Grant
    /\ leavers \subseteq Token

Init ==
    /\ rows = [t \in Token |-> NoRow]
    /\ taken = FALSE
    /\ now = 0
    /\ minted = 0
    /\ proc = [p \in Proc |-> Idle]
    /\ session = [t \in Token |-> NoSession]
    /\ era = [c \in Cred |-> 0]
    /\ grants = {}
    /\ leavers = {}

Live == {t \in Token : rows[t] # NoRow}

\* Bound: every request under way may store a token
Room == minted + Cardinality({p \in Proc : proc[p] # Idle}) < MaxTok

-----------------------------------------------------------------------------
(* createSession *)

\* login: the password is right; the answer waits until 350 ms are over.
\* A login to an account that is taken down stores nothing
Login(p, c) ==
    /\ proc[p] = Idle /\ ~taken /\ Room
    /\ proc' = [proc EXCEPT ![p] = [pc |-> "login", cred |-> c, opened |-> era[c]]]
    /\ UNCHANGED <<rows, taken, now, minted, session, era, grants, leavers>>

NewRow(c) == [cred |-> c, expiresAt |-> now + Lifetime, next |-> None]

\* storeRefreshToken
CreateSession(p) ==
    /\ proc[p].pc = "login"
    /\ minted' = minted + 1
    /\ rows' = [rows EXCEPT ![minted + 1] = NewRow(proc[p].cred)]
    /\ session' = [session EXCEPT ![minted + 1] =
          [first |-> minted + 1, cred |-> proc[p].cred, opened |-> proc[p].opened,
           since |-> era[proc[p].cred]]]
    /\ proc' = [proc EXCEPT ![p] = Idle]
    /\ UNCHANGED <<taken, now, era, grants, leavers>>

-----------------------------------------------------------------------------
(* refreshSession *)

\* getAccount: an account that is taken down gets no further
Refresh(p, t) ==
    /\ proc[p] = Idle /\ ~taken /\ Room
    /\ t <= minted
    /\ proc' = [proc EXCEPT ![p] = [pc |-> "rotate", tok |-> t]]
    /\ UNCHANGED <<rows, taken, now, minted, session, era, grants, leavers>>

\* Mutant: a row that is gone is not noticed
ReadAnything(p) ==
    /\ proc[p].pc = "rotate"
    /\ proc' = [proc EXCEPT ![p] =
          [pc |-> "tidy", tok |-> proc[p].tok, row |-> rows[proc[p].tok], at |-> now]]
    /\ UNCHANGED <<rows, taken, now, minted, session, era, grants, leavers>>

\* getRefreshToken, and the time
Read(p) ==
    /\ proc[p].pc = "rotate"
    /\ proc' = [proc EXCEPT ![p] =
          IF proc[p].tok \in Live
          THEN [pc |-> "tidy", tok |-> proc[p].tok, row |-> rows[proc[p].tok], at |-> now]
          ELSE Idle]
    /\ UNCHANGED <<rows, taken, now, minted, session, era, grants, leavers>>

\* Mutant: the grace period starts anew
GraceAnew(row, at) == at + Grace

\* The end of the grace period, or of the token
Ends(row, at) == IF at + Grace < row.expiresAt THEN at + Grace ELSE row.expiresAt

\* deleteExpiredRefreshTokens; a token past its end is refused
Tidy(p) ==
    /\ proc[p].pc = "tidy"
    /\ rows' = [t \in Token |-> IF rows[t].expiresAt <= proc[p].at THEN NoRow ELSE rows[t]]
    /\ proc' = [proc EXCEPT ![p] =
          IF Ends(proc[p].row, proc[p].at) <= proc[p].at
          THEN Idle
          ELSE [proc[p] EXCEPT !.pc = "grant"]]
    /\ UNCHANGED <<taken, now, minted, session, era, grants, leavers>>

\* Mutant: the successor is written over
FreshOver(t, row) == rows[t] # NoRow

\* The row is still there, and its successor is the one that was read or none
Fresh(t, row) == rows[t] # NoRow /\ rows[t].next \in {None, row.next}

\* The transaction: addRefreshGracePeriod, storeRefreshToken (which leaves the
\* successor alone that is stored already)
Rotate(p) ==
    LET t == proc[p].tok
        row == proc[p].row
        next == IF row.next = None THEN minted + 1 ELSE row.next
    IN  /\ proc[p].pc = "grant"
        /\ Fresh(t, row)
        /\ rows' = [x \in Token |->
              CASE x = t -> [rows[t] EXCEPT !.expiresAt = Ends(row, proc[p].at), !.next = next]
                [] x = next /\ x # t /\ rows[x] = NoRow -> NewRow(row.cred)
                [] OTHER -> rows[x]]
        /\ minted' = IF row.next = None THEN minted + 1 ELSE minted
        /\ session' = [session EXCEPT ![next] = session[t]]
        /\ grants' = grants \cup {[tok |-> t, next |-> next, at |-> proc[p].at]}
        /\ proc' = [proc EXCEPT ![p] = Idle]
        /\ UNCHANGED <<taken, now, era, leavers>>

\* Mutant: a rotation that finds its row changed stores the successor all the same
StoreAnyway(p) ==
    LET row == proc[p].row
    IN  /\ proc[p].pc = "grant"
        /\ ~Fresh(proc[p].tok, row)
        /\ minted' = minted + 1
        /\ rows' = [rows EXCEPT ![minted + 1] = NewRow(row.cred)]
        /\ session' = [session EXCEPT ![minted + 1] = session[proc[p].tok]]
        /\ proc' = [proc EXCEPT ![p] = Idle]
        /\ UNCHANGED <<taken, now, era, grants, leavers>>

\* Mutant: started over with the row that was read
ConflictAgain(p) ==
    /\ proc[p].pc = "grant"
    /\ ~Fresh(proc[p].tok, proc[p].row)
    /\ proc' = [proc EXCEPT ![p].pc = "tidy"]
    /\ UNCHANGED <<rows, taken, now, minted, session, era, grants, leavers>>

\* ConcurrentRefreshError: rolled back, and started over
Conflict(p) ==
    /\ proc[p].pc = "grant"
    /\ ~Fresh(proc[p].tok, proc[p].row)
    /\ proc' = [proc EXCEPT ![p] = [pc |-> "rotate", tok |-> proc[p].tok]]
    /\ UNCHANGED <<rows, taken, now, minted, session, era, grants, leavers>>

-----------------------------------------------------------------------------
(* The end of sessions *)

\* deleteSession: revokeRefreshToken.  Bound: once for every token
Logout(t) ==
    /\ t \in Live /\ t \notin leavers
    /\ rows' = [rows EXCEPT ![t] = NoRow]
    /\ leavers' = leavers \cup {t}
    /\ UNCHANGED <<taken, now, minted, proc, session, era, grants>>

\* Bound: revocations of the password stand for all
Revocable(c) == era[c] < MaxRevocations

\* revokeAppPassword
RevokeAppPassword(c) ==
    /\ c # Password /\ Revocable(c)
    /\ rows' = [t \in Token |-> IF rows[t] # NoRow /\ rows[t].cred = c THEN NoRow ELSE rows[t]]
    /\ era' = [era EXCEPT ![c] = @ + 1]
    /\ UNCHANGED <<taken, now, minted, proc, session, grants, leavers>>

\* revokeRefreshTokensByDid
RevokeAll ==
    /\ \A c \in Cred : Revocable(c)
    /\ rows' = [t \in Token |-> NoRow]
    /\ era' = [c \in Cred |-> era[c] + 1]
    /\ UNCHANGED <<now, minted, proc, session, grants, leavers>>

\* takedownAccount puts a takedown on and takes it off
Takedown == RevokeAll /\ taken' = ~taken

\* updateAccountPassword
NewPassword == RevokeAll /\ UNCHANGED taken

Tick ==
    /\ now < MaxTime
    /\ now' = now + 1
    /\ UNCHANGED <<rows, taken, minted, proc, session, era, grants, leavers>>

Proceed(p) == CreateSession(p) \/ Read(p) \/ Tidy(p) \/ Rotate(p) \/ Conflict(p)

Next ==
    \/ \E p \in Proc : Proceed(p)
    \/ \E p \in Proc, c \in Cred : Login(p, c)
    \/ \E p \in Proc, t \in Token : Refresh(p, t)
    \/ \E t \in Token : Logout(t)
    \/ \E c \in Cred : RevokeAppPassword(c)
    \/ Takedown \/ NewPassword
    \/ Tick

Spec == Init /\ [][Next]_vars

\* The database answers
FairSpec == Spec /\ \A p \in Proc : WF_vars(Proceed(p))

-----------------------------------------------------------------------------
(* Properties *)

\* A takedown, a new password and a revoked app password end the sessions of
\* their credentials for good: no rotation that had read its row before stores
\* a successor afterwards.  While an account is taken down it has no session but
\* one whose login was checked before.
NothingSurvives ==
    \A t \in Live :
        /\ session[t].since = era[rows[t].cred]
        /\ taken => session[t].opened < era[rows[t].cred]

\* A token of the session of t was logged out.  (The predecessor of that token
\* brings it back in the grace period, without the successor that it had.)
LoggedOut(t) == \E l \in leavers : session[l].first = session[t].first

\* "upon refresh token reuse you always receive a refresh token with the same
\* id": however the rotations of a token interleave.
OneSuccessor ==
    \A g, h \in grants : (g.tok = h.tok /\ ~LoggedOut(g.tok)) => g.next = h.next

\* A token is not granted again later than its grace period after it was first
\* rotated, whichever rotation was first.
ReuseWithinGrace ==
    \A g, h \in grants : (g.tok = h.tok /\ ~LoggedOut(g.tok)) => h.at < g.at + Grace

\* Conflicting rotations do not starve each other.
RequestsEnd == \A p \in Proc : proc[p] # Idle ~> proc[p] = Idle

=============================================================================
