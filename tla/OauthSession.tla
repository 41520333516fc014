---------------------------- MODULE OauthSession ----------------------------
(***************************************************************************)
(* The OAuth session of one account, shared by instances of a client (tabs,*)
(* processes) through a session store, and the token endpoint that they    *)
(* all call (packages/oauth/oauth-client: SessionGetter, CachedGetter,     *)
(* OAuthSession.signOut, OAuthClient.callback; packages/oauth/oauth-provider*)
(* refreshTokenGrant and revoke; pds/src/account-manager/oauth-store.ts).  *)
(*                                                                         *)
(* A refresh token is good for one rotation.  A used one that is presented *)
(* again ends the session on the server.  The instances avoid that with a  *)
(* lock around the read of the store, the refresh and the write of the     *)
(* store; a runtime without a common lock has one lock for every instance. *)
(* Sign-out and login write the store outside of the lock.                 *)
(*                                                                         *)
(* Abstraction.  A token set, with its access token, refresh token and     *)
(* token id, is one number.  An expired access token is a choice.          *)
(***************************************************************************)
EXTENDS Integers, FiniteSets

CONSTANTS
    Flow,      \* calls of the client that are under way at once
    Inst,      \* instances of the client
    InstOf,    \* the instance that makes a call
    Login,     \* sessions on the server, one for each login
    MaxTok,    \* bound: token sets ever issued
    MaxFaults  \* bound: lost calls, store errors, sessions that expire or cannot be refreshed

ASSUME OauthSessionConstants ==
    /\ IsFiniteSet(Flow) /\ 0 \notin Flow
    /\ InstOf \in [Flow -> Inst]
    /\ MaxTok \in Nat \ {0} /\ MaxFaults \in Nat

None == 0
Tok == 1 .. MaxTok
Maybe == Tok \cup {None}

Job == {"get", "signOut", "callback"}
Kind == {"auto", "fresh", "stale"}
Step == {"idle",
         "lock", "getStored", "send", "used", "found", "rotate", "replayed", "failed",
         "reply", "recover", "setStored", "delStored",
         "revoke", "revoked", "forget", "put"}

\* A call: its step, what it was called for, the token set it read from the
\* store, the one it wants to write, what the server found, what it answers,
\* the token set that it wants revoked, and that of its login
Call == [pc : Step, job : Job, kind : Kind, old : Maybe, new : Maybe, info : Maybe,
         answer : {"ok", "invalid_grant", "error", "none"}, target : Maybe, mine : Maybe]
Idle == [pc |-> "idle", job |-> "get", kind |-> "auto", old |-> None, new |-> None,
         info |-> None, answer |-> "none", target |-> None, mine |-> None]

VARIABLES
    shared,  \* the runtime has a lock common to the instances
    lock,    \* who holds the lock (of each instance, or the common one)
    store,   \* the token set in the session store
    server,  \* table token: the current token set of each login, or None
    minted,  \* how many token sets were issued
    loginOf, \* the login of each token set
    call,    \* the calls
    faults,  \* history: faults so far
    killed   \* history: the logins whose session ended by a replay

vars == <<shared, lock, store, server, minted, loginOf, call, faults, killed>>

TypeOK ==
    /\ shared \in BOOLEAN
    /\ lock \in [Inst -> Flow \cup {None}]
    /\ store \in Maybe
    /\ server \in [Login -> Maybe]
    /\ minted \in 0 .. MaxTok
    /\ loginOf \in [Tok -> Login]
    /\ call \in [Flow -> Call]
    /\ faults \in Nat
    /\ killed \subseteq Login

\* One login has stored its token set
Init ==
    \E l \in Login :
        /\ shared \in BOOLEAN
        /\ lock = [i \in Inst |-> None]
        /\ store = 1
        /\ server = [m \in Login |-> IF m = l THEN 1 ELSE None]
        /\ minted = 1
        /\ loginOf = [t \in Tok |-> l]
        /\ call = [f \in Flow |-> Idle]
        /\ faults = 0
        /\ killed = {}

\* Mutant: an instance has the lock of its own
OwnLock(f) == InstOf[f]

\* The common lock is that of one instance that all use
LockOf(f) == IF shared THEN CHOOSE i \in Inst : TRUE ELSE InstOf[f]

Goto(f, step) == call' = [call EXCEPT ![f].pc = step]
At(f, step) == call[f].pc = step

Fault == faults < MaxFaults /\ faults' = faults + 1

\* Bound: every call under way may be issued a token set
Room == minted + Cardinality({f \in Flow : call[f] # Idle}) < MaxTok

-----------------------------------------------------------------------------
(* Calls begin *)

Begin(f, job, kind) ==
    /\ call[f] = Idle /\ Room
    /\ call' = [call EXCEPT ![f] = [Idle EXCEPT !.pc = "lock", !.job = job, !.kind = kind]]
    /\ UNCHANGED <<shared, lock, store, server, minted, loginOf, faults, killed>>

\* getSession, by restore and fetchHandler
GetSession(f) == \E kind \in Kind : Begin(f, "get", kind)

\* signOut begins with getTokenSet(false)
SignOut(f) == Begin(f, "signOut", "stale")

\* The callback of a login: the code is exchanged, then the session that is
\* stored is revoked
Callback(f) ==
    /\ call[f] = Idle /\ Room
    /\ \E l \in Login :
           /\ server[l] = None /\ \A t \in 1 .. minted : loginOf[t] # l
           /\ server' = [server EXCEPT ![l] = minted + 1]
           /\ loginOf' = [loginOf EXCEPT ![minted + 1] = l]
    /\ minted' = minted + 1
    /\ call' = [call EXCEPT ![f] =
          [Idle EXCEPT !.pc = "lock", !.job = "callback", !.kind = "stale", !.mine = minted + 1]]
    /\ UNCHANGED <<shared, lock, store, faults, killed>>

-----------------------------------------------------------------------------
(* The end of get: the lock is released, the caller goes on *)

\* Mutant: the lock is kept when the refresh fails
ReturnKeeping(f, t) ==
    /\ lock' = IF t = None THEN lock ELSE [lock EXCEPT ![LockOf(f)] = None]
    /\ call' = [call EXCEPT ![f] =
          CASE call[f].job = "get" -> Idle
            [] call[f].job # "get" /\ t # None -> [call[f] EXCEPT !.pc = "revoke", !.target = t]
            [] call[f].job = "signOut" /\ t = None -> [call[f] EXCEPT !.pc = "forget"]
            [] OTHER -> [call[f] EXCEPT !.pc = "put"]]

\* t is the token set that is returned, or None for an error: signOut deletes
\* in any case, the revoke of a callback ends without a session
Return(f, t) ==
    /\ lock' = [lock EXCEPT ![LockOf(f)] = None]
    /\ call' = [call EXCEPT ![f] =
          CASE call[f].job = "get" -> Idle
            [] call[f].job # "get" /\ t # None -> [call[f] EXCEPT !.pc = "revoke", !.target = t]
            [] call[f].job = "signOut" /\ t = None -> [call[f] EXCEPT !.pc = "forget"]
            [] OTHER -> [call[f] EXCEPT !.pc = "put"]]

-----------------------------------------------------------------------------
(* SessionGetter.get *)

\* usingLock
Acquire(f) ==
    /\ At(f, "lock") /\ lock[LockOf(f)] = None
    /\ lock' = [lock EXCEPT ![LockOf(f)] = f]
    /\ Goto(f, "getStored")
    /\ UNCHANGED <<shared, store, server, minted, loginOf, faults, killed>>

\* The stored session is returned when it may be stale, or is not; nothing
\* stored is an error
UseStored(f) ==
    /\ At(f, "getStored")
    /\ store = None \/ call[f].kind # "fresh"
    /\ Return(f, store)
    /\ UNCHANGED <<shared, store, server, minted, loginOf, faults, killed>>

\* It has to be refreshed
NeedsRefresh(f) ==
    /\ At(f, "getStored")
    /\ store # None /\ call[f].kind # "stale"
    /\ call' = [call EXCEPT ![f].pc = "send", ![f].old = store]
    /\ UNCHANGED <<shared, lock, store, server, minted, loginOf, faults, killed>>

\* The answer: a new token set
TakeAnswer(f) ==
    /\ At(f, "reply") /\ call[f].answer = "ok"
    /\ Goto(f, "setStored")
    /\ UNCHANGED <<shared, lock, store, server, minted, loginOf, faults, killed>>

\* Before a refresh is sent: the account has moved to another server, or this one
\* does not take the client's way to authenticate any more
Unsatisfiable(f) ==
    /\ At(f, "send") /\ Fault
    /\ Goto(f, "delStored")
    /\ UNCHANGED <<shared, lock, store, server, minted, loginOf, killed>>

\* An answer that is an error, but invalid_grant, leaves the session stored
Fail(f) ==
    /\ At(f, "reply") /\ call[f].answer = "error"
    /\ Return(f, None)
    /\ UNCHANGED <<shared, store, server, minted, loginOf, faults, killed>>

\* invalid_grant: the session is deleted, after a second look at the store
\* where instances have no common lock
Refused(f) ==
    /\ At(f, "reply") /\ call[f].answer = "invalid_grant"
    /\ Goto(f, IF shared THEN "delStored" ELSE "recover")
    /\ UNCHANGED <<shared, lock, store, server, minted, loginOf, faults, killed>>

\* Another instance has refreshed: its token set is taken for this one's
Recover(f) ==
    /\ At(f, "recover")
    /\ call' = [call EXCEPT ![f] =
          IF store \notin {None, call[f].old}
          THEN [call[f] EXCEPT !.pc = "setStored", !.new = store]
          ELSE [call[f] EXCEPT !.pc = "delStored"]]
    /\ UNCHANGED <<shared, lock, store, server, minted, loginOf, faults, killed>>

\* Mutant: the refreshed token set is returned and not stored
ForgetToStore(f) ==
    /\ At(f, "setStored")
    /\ Return(f, call[f].new)
    /\ UNCHANGED <<shared, store, server, minted, loginOf, faults, killed>>

SetStored(f) ==
    /\ At(f, "setStored")
    /\ store' = call[f].new
    /\ Return(f, call[f].new)
    /\ UNCHANGED <<shared, server, minted, loginOf, faults, killed>>

\* A session that cannot be stored is revoked and deleted
SetStoredFails(f) ==
    /\ At(f, "setStored") /\ Fault
    /\ call' = [call EXCEPT ![f].pc = "revoke", ![f].target = call[f].new]
    /\ UNCHANGED <<shared, lock, store, server, minted, loginOf, killed>>

\* deleteOnError
DelStored(f) ==
    /\ At(f, "delStored")
    /\ store' = None
    /\ Return(f, None)
    /\ UNCHANGED <<shared, server, minted, loginOf, faults, killed>>

-----------------------------------------------------------------------------
(* The token endpoint: refreshTokenGrant *)

Current(t) == server[loginOf[t]]

\* used_refresh_token holds what a session that is still there had before
IsUsed(t) == Current(t) \notin {None, t}

\* findTokenByRefreshToken: the first query
FindUsed(f) ==
    /\ At(f, "send")
    /\ Goto(f, IF IsUsed(call[f].old) THEN "used" ELSE "found")
    /\ UNCHANGED <<shared, lock, store, server, minted, loginOf, faults, killed>>

\* The second, by the session of a used token or for a current one; a token
\* that is not the current one of its session is a replay
FindToken(f) ==
    LET t == call[f].old
        row == IF At(f, "used") \/ Current(t) = t THEN Current(t) ELSE None
    IN  /\ At(f, "used") \/ At(f, "found")
        /\ call' = [call EXCEPT ![f] =
              CASE row = None -> [call[f] EXCEPT !.pc = "reply", !.answer = "invalid_grant"]
                [] row = t -> [call[f] EXCEPT !.pc = "rotate", !.info = row]
                [] OTHER -> [call[f] EXCEPT !.pc = "replayed", !.info = row]]
        /\ UNCHANGED <<shared, lock, store, server, minted, loginOf, faults, killed>>

\* deleteToken, by the token id that was found
Delete(t) == server' = [server EXCEPT ![loginOf[t]] = IF @ = t THEN None ELSE @]

\* "Refresh token replayed"
Replayed(f) ==
    /\ At(f, "replayed")
    /\ Delete(call[f].info)
    /\ killed' = IF Current(call[f].info) = call[f].info
                 THEN killed \cup {loginOf[call[f].info]} ELSE killed
    /\ call' = [call EXCEPT ![f].pc = "reply", ![f].answer = "invalid_grant"]
    /\ UNCHANGED <<shared, lock, store, minted, loginOf, faults>>

\* Mutant: the row is not looked up again, and the new row has no token id
RotateTwice(f) ==
    LET t == call[f].info
    IN  /\ At(f, "rotate")
        /\ server' = [server EXCEPT ![loginOf[t]] = minted + 1]
        /\ minted' = minted + 1
        /\ call' = [call EXCEPT ![f].pc = "reply", ![f].answer = "ok", ![f].new = minted + 2]
        /\ UNCHANGED <<shared, lock, store, loginOf, faults, killed>>

\* store.rotateToken, a transaction that looks the token id up again
Rotate(f) ==
    LET t == call[f].info
    IN  /\ At(f, "rotate")
        /\ Current(t) = t
        /\ server' = [server EXCEPT ![loginOf[t]] = minted + 1]
        /\ loginOf' = [loginOf EXCEPT ![minted + 1] = loginOf[t]]
        /\ minted' = minted + 1
        /\ call' = [call EXCEPT ![f].pc = "reply", ![f].answer = "ok", ![f].new = minted + 1]
        /\ UNCHANGED <<shared, lock, store, faults, killed>>

\* The row has another token id, or is gone: an error that is not invalid_grant
RotateThrows(f) ==
    /\ At(f, "rotate") /\ Current(call[f].info) # call[f].info
    /\ call' = [call EXCEPT ![f].pc = "failed", ![f].answer = "error"]
    /\ UNCHANGED <<shared, lock, store, server, minted, loginOf, faults, killed>>

\* validateRefreshGrant: the session has expired
Expired(f) ==
    /\ At(f, "rotate") /\ Fault
    /\ call' = [call EXCEPT ![f].pc = "failed", ![f].answer = "invalid_grant"]
    /\ UNCHANGED <<shared, lock, store, server, minted, loginOf, killed>>

\* What fails after the token was found deletes what was found
GrantFails(f) ==
    /\ At(f, "failed")
    /\ Delete(call[f].info)
    /\ Goto(f, "reply")
    /\ UNCHANGED <<shared, lock, store, minted, loginOf, faults, killed>>

\* The call or its answer is lost
Lose(f) ==
    /\ At(f, "send") \/ At(f, "reply")
    /\ Fault
    /\ call' = [call EXCEPT ![f].pc = "reply", ![f].answer = "error"]
    /\ UNCHANGED <<shared, lock, store, server, minted, loginOf, killed>>

-----------------------------------------------------------------------------
(* The revocation endpoint, and what is done after it *)

\* revoke: findToken finds the session whose current token set it is.  A failed
\* setStored, which has the lock, presents the refresh token, and a used one finds
\* its session too; the two queries of FindUsed and FindToken are one step here.
FindRevoked(f) ==
    LET t == call[f].target
        found == Current(t) = t \/ lock[LockOf(f)] = f
    IN  /\ At(f, "revoke")
        /\ call' = [call EXCEPT ![f].pc = "revoked", ![f].info = IF found THEN Current(t) ELSE None]
        /\ UNCHANGED <<shared, lock, store, server, minted, loginOf, faults, killed>>

\* deleteToken.  signOut and callback go on to delete the session, a failed
\* setStored does so with the lock that it has
Revoke(f) ==
    /\ At(f, "revoked")
    /\ IF call[f].info = None THEN UNCHANGED server ELSE Delete(call[f].info)
    /\ Goto(f, IF lock[LockOf(f)] = f THEN "delStored" ELSE "forget")
    /\ UNCHANGED <<shared, lock, store, minted, loginOf, faults, killed>>

\* delStored, outside of the lock
Forget(f) ==
    /\ At(f, "forget")
    /\ store' = None
    /\ call' = [call EXCEPT ![f] =
          IF call[f].job = "callback" THEN [call[f] EXCEPT !.pc = "put"] ELSE Idle]
    /\ UNCHANGED <<shared, lock, server, minted, loginOf, faults, killed>>

\* setStored of a login, outside of the lock
Put(f) ==
    /\ At(f, "put")
    /\ store' = call[f].mine
    /\ call' = [call EXCEPT ![f] = Idle]
    /\ UNCHANGED <<shared, lock, server, minted, loginOf, faults, killed>>

Proceed(f) ==
    \/ Acquire(f) \/ UseStored(f) \/ NeedsRefresh(f) \/ TakeAnswer(f)
    \/ Unsatisfiable(f) \/ Fail(f) \/ Refused(f) \/ Recover(f)
    \/ SetStored(f) \/ SetStoredFails(f) \/ DelStored(f)
    \/ FindUsed(f) \/ FindToken(f) \/ Replayed(f) \/ Rotate(f) \/ RotateThrows(f) \/ Expired(f)
    \/ GrantFails(f) \/ Lose(f)
    \/ FindRevoked(f) \/ Revoke(f) \/ Forget(f) \/ Put(f)

Next == \E f \in Flow : GetSession(f) \/ SignOut(f) \/ Callback(f) \/ Proceed(f)

Spec == Init /\ [][Next]_vars

\* The server and the store answer, and a lock is granted in turn
FairSpec == Spec /\ \A f \in Flow : WF_vars(Proceed(f)) /\ SF_vars(Acquire(f))

-----------------------------------------------------------------------------
(* Properties *)

\* "Because refresh tokens can only be used once": with a common lock, and
\* nothing lost, no session ends because two instances present the same one,
\* whatever logins and sign-outs do to the store meanwhile.
NoReplay == (shared /\ faults = 0) => killed = {}

\* No refresh is wasted: a token set that the server has issued, by a refresh or
\* to a login, reaches the store, with or without a common lock.
Issued(f, t) == (At(f, "reply") /\ call[f].answer = "ok" /\ call[f].new = t) \/ call[f].mine = t

IssuedIsStored ==
    \A f \in Flow, t \in Tok : Issued(f, t) ~> (store = t \/ faults > 0)

\* Every call ends: the locks are given back on every path.
CallsEnd == \A f \in Flow : call[f] # Idle ~> call[f] = Idle

\* "the authorization server invalidates the token. The invalidation takes
\* place immediately": a session that the revocation endpoint has found is gone
\* when it answers.
RevokedIsDead ==
    [][\A f \in Flow :
         (At(f, "revoked") /\ call[f].info # None /\ call'[f].pc # "revoked") =>
             server'[loginOf[call[f].info]] = None]_vars

=============================================================================
