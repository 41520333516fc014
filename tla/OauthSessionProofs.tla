------------------------- MODULE OauthSessionProofs -------------------------
(***************************************************************************)
(* Proofs about the OAuth session of an account: whatever calls, instances *)
(* and logins, no session ends by a replay where the instances have a      *)
(* common lock and nothing is lost.                                        *)
(*                                                                         *)
(* A token set is good while no later one of its session has been issued.  *)
(* The inductive invariant says that every token set that may yet be       *)
(* presented is good: what the holder of the lock has read, what it is     *)
(* about to store, what a login has yet to store, and what is stored,      *)
(* unless the holder of the lock has just replaced it.                     *)
(***************************************************************************)
EXTENDS OauthSession, FiniteSetTheorems, TLAPS

Critical == {"getStored", "send", "used", "found", "rotate", "replayed", "failed", "reply",
             "recover", "setStored", "delStored"}
Asking == {"lock", "getStored", "send", "used", "found", "rotate"}

\* The calls that may yet be issued a token set
Askers == {f \in Flow : call[f].pc \in Asking /\ call[f].job # "callback"}

RoomInv == minted + Cardinality(Askers) <= MaxTok

\* The call has a new token set to store
Refreshed(f) == (At(f, "reply") /\ call[f].answer = "ok") \/ At(f, "setStored")

\* What a call knows at each of its steps
CallInv(f) ==
    /\ call[f].kind # "stale" => call[f].job = "get"
    /\ call[f].pc \in {"send", "used", "found", "rotate"} =>
          call[f].kind # "stale" /\ call[f].old # None
    /\ call[f].pc \in {"rotate", "replayed", "failed"} => call[f].info # None
    /\ call[f].pc = "failed" => call[f].answer # "ok"
    /\ call[f].pc = "revoke" => call[f].target # None
    /\ Refreshed(f) => call[f].new # None
    /\ call[f].old <= minted /\ call[f].new <= minted /\ call[f].mine <= minted

Base == TypeOK /\ RoomInv /\ store <= minted /\ \A f \in Flow : CallInv(f)

\* One lock for all, and nothing was lost
Alone == shared /\ faults = 0
TheLock == CHOOSE i \in Inst : TRUE

\* No later token set of its session was issued
Good(t) == Current(t) \in {None, t}

\* The token set of a login is nobody else's before it is stored
MineInv(f) ==
    call[f].mine # None =>
        /\ Good(call[f].mine)
        /\ call[f].mine # store
        /\ \A g \in Flow : /\ call[f].mine \notin {call[g].old, call[g].new}
                           /\ g # f => call[g].mine # call[f].mine

Safe(f) ==
    /\ call[f].pc \in Critical <=> lock[TheLock] = f
    /\ call[f].pc \notin {"used", "replayed", "recover"}
    /\ call[f].pc \in {"send", "found", "rotate"} => Good(call[f].old)
    /\ call[f].pc = "rotate" => call[f].info = call[f].old
    /\ Refreshed(f) => Good(call[f].new)
    /\ MineInv(f)

StoreInv == store = None \/ Good(store) \/ \E f \in Flow : Refreshed(f)

SafeInv == Alone => (\A f \in Flow : Safe(f)) /\ StoreInv /\ killed = {}

IInv == Base /\ SafeInv

-----------------------------------------------------------------------------
(* Types, and what a call's step leaves alone *)

LEMMA Locks ==
  ASSUME NEW f \in Flow
  PROVE  /\ TheLock \in Inst /\ LockOf(f) \in Inst /\ (shared => LockOf(f) = TheLock)
         /\ f # None
  BY OauthSessionConstants DEF TheLock, LockOf, None

LEMMA CallTypes ==
  ASSUME TypeOK, NEW f \in Flow
  PROVE  /\ call[f] \in Call
         /\ call[f].pc \in Step /\ call[f].job \in Job /\ call[f].kind \in Kind
         /\ call[f].old \in Maybe /\ call[f].new \in Maybe /\ call[f].info \in Maybe
         /\ call[f].target \in Maybe /\ call[f].mine \in Maybe
         /\ call[f].answer \in {"ok", "invalid_grant", "error", "none"}
  <1>1. call[f] \in Call
    BY DEF TypeOK
  <1>2. QED
    BY <1>1 DEF Call

LEMMA MaybeTypes ==
  /\ Maybe \subseteq Nat /\ Tok \subseteq Maybe /\ None \in Maybe /\ None = 0
  /\ \A t \in Maybe : t # None => t \in Tok
  /\ MaxTok \in Nat /\ 1 \in Tok
  BY OauthSessionConstants DEF Maybe, Tok, None

LEMMA CurrentTypes ==
  ASSUME TypeOK
  PROVE  \A t \in Tok : loginOf[t] \in Login /\ Current(t) \in Maybe
  BY DEF TypeOK, Current

LEMMA AskersAreFinite ==
  IsFiniteSet(Askers) /\ Cardinality(Askers) \in Nat
  <1>1. Askers \in SUBSET Flow
    BY DEF Askers
  <1>2. QED
    BY <1>1, FS_Subset, FS_CardinalityType, OauthSessionConstants

LEMMA AskersChange ==
  ASSUME NEW f \in Flow, \A g \in Flow : g # f => call'[g] = call[g]
  PROVE  /\ Cardinality(Askers') <= Cardinality(Askers) + 1
         /\ f \notin Askers' \/ f \in Askers => Cardinality(Askers') <= Cardinality(Askers)
         /\ f \in Askers /\ f \notin Askers' => Cardinality(Askers') = Cardinality(Askers) - 1
         /\ Cardinality(Askers') \in Nat
  <1>1. Askers' \subseteq Askers \cup {f} /\ (f \notin Askers' \/ f \in Askers => Askers' \subseteq Askers)
    BY DEF Askers
  <1>2. /\ IsFiniteSet(Askers \cup {f}) /\ Cardinality(Askers \cup {f}) <= Cardinality(Askers) + 1
        /\ Cardinality(Askers \cup {f}) \in Nat
    BY AskersAreFinite, FS_AddElement, FS_CardinalityType
  <1>3. Cardinality(Askers') <= Cardinality(Askers \cup {f}) /\ Cardinality(Askers') \in Nat
    BY <1>1, <1>2, FS_Subset, FS_CardinalityType
  <1>4. f \notin Askers' \/ f \in Askers => Cardinality(Askers') <= Cardinality(Askers)
    BY <1>1, AskersAreFinite, FS_Subset
  <1>5. ASSUME f \in Askers, f \notin Askers' PROVE Cardinality(Askers') = Cardinality(Askers) - 1
    <2>1. Askers' = Askers \ {f}
      BY <1>5 DEF Askers
    <2>2. QED
      BY <1>5, <2>1, AskersAreFinite, FS_RemoveElement
  <1>6. QED
    BY <1>2, <1>3, <1>4, <1>5, AskersAreFinite

LEMMA NewToken ==
  ASSUME Base, NEW f \in Flow, f \in Askers \/ (call[f] = Idle /\ Room)
  PROVE  minted + 1 \in Tok /\ minted + 1 \in Maybe /\ minted + 1 # None
  <1>1. minted \in Nat /\ minted + Cardinality(Askers) <= MaxTok
    BY DEF Base, TypeOK, RoomInv
  <1>2. minted + 1 <= MaxTok
    <2>1. CASE f \in Askers
      <3>1. Cardinality(Askers) # 0
        BY <2>1, AskersAreFinite, FS_EmptySet
      <3>2. QED
        BY <1>1, <3>1, AskersAreFinite, MaybeTypes
    <2>2. CASE Room
      <3>1. Cardinality({g \in Flow : call[g] # Idle}) \in Nat
        <4>1. {g \in Flow : call[g] # Idle} \in SUBSET Flow
          OBVIOUS
        <4>2. QED
          BY <4>1, FS_Subset, FS_CardinalityType, OauthSessionConstants
      <3>2. QED
        BY <1>1, <2>2, <3>1, MaybeTypes DEF Room
    <2>3. QED
      BY <2>1, <2>2
  <1>3. QED
    BY <1>1, <1>2, MaybeTypes DEF Tok, Maybe, None

\* A step of one call that is issued nothing
LEMMA BaseKeeps ==
  ASSUME Base, NEW f \in Flow, call' \in [Flow -> Call],
         \A g \in Flow : g # f => call'[g] = call[g],
         UNCHANGED <<shared, minted, loginOf>>,
         lock' \in [Inst -> Flow \cup {None}], server' \in [Login -> Maybe],
         store' \in Maybe, store' <= minted, faults' \in Nat, killed' \subseteq Login,
         f \notin Askers' \/ f \in Askers,
         CallInv(f)'
  PROVE  Base'
  <1>1. TypeOK'
    BY DEF Base, TypeOK
  <1>2. RoomInv'
    <2>1. Cardinality(Askers') <= Cardinality(Askers) /\ Cardinality(Askers') \in Nat
      BY AskersChange
    <2>2. QED
      BY <2>1, AskersAreFinite, MaybeTypes DEF Base, TypeOK, RoomInv
  <1>3. \A g \in Flow : g # f => CallInv(g)'
    BY DEF Base, CallInv, Refreshed, At
  <1>4. QED
    BY <1>1, <1>2, <1>3 DEF Base

\* What is deleted on the server makes nothing bad
LEMMA GoodStays ==
  ASSUME TypeOK, loginOf' = loginOf, \A m \in Login : server'[m] \in {server[m], None}
  PROVE  \A t \in Tok : Good(t) => Good(t)'
  BY DEF Good, Current, TypeOK

\* A step of one call that is issued nothing presents and stores what is good
LEMMA SafeKeeps ==
  ASSUME IInv, Alone, NEW f \in Flow,
         \A g \in Flow : g # f => call'[g] = call[g],
         call' \in [Flow -> Call],
         UNCHANGED <<shared, minted, loginOf>>,
         \A m \in Login : server'[m] \in {server[m], None},
         killed' = killed,
         call'[f].pc \in Critical <=> lock'[TheLock] = f,
         \A g \in Flow \ {f} : lock'[TheLock] = g <=> lock[TheLock] = g,
         call'[f].pc \notin {"used", "replayed", "recover"},
         call'[f].old \in {call[f].old, None, store},
         call'[f].new \in {call[f].new, None},
         call'[f].mine \in {call[f].mine, None},
         call'[f].pc \in {"send", "found", "rotate"} => Good(call'[f].old) /\ call'[f].old # None,
         call'[f].pc = "rotate" => call'[f].info = call'[f].old,
         Refreshed(f)' => Refreshed(f) /\ call'[f].new = call[f].new,
         \/ store' = store /\ (Refreshed(f) => Refreshed(f)')
         \/ store' = None
         \/ store' = call[f].new /\ Good(store') /\ store' # None
         \/ store' = call[f].mine /\ call'[f].mine = None /\ Good(store') /\ store' # None
  PROVE  SafeInv'
  <1>1. TypeOK /\ (\A g \in Flow : Safe(g) /\ CallInv(g)) /\ StoreInv /\ killed = {}
    BY DEF IInv, Base, SafeInv
  <1>2. \A t \in Tok : Good(t) => Good(t)'
    BY <1>1, GoodStays
  <1>3. \A g \in Flow : /\ call[g].old \in Maybe /\ call[g].new \in Maybe
                        /\ call[g].mine \in Maybe /\ store \in Maybe
    BY <1>1, CallTypes DEF TypeOK
  <1>4. ASSUME NEW t \in Maybe, t # None, Good(t) PROVE Good(t)'
    BY <1>2, <1>4, MaybeTypes
  <1>5. ASSUME NEW g \in Flow, NEW m, m = call'[g].mine, m # None
        PROVE  /\ Good(m)' /\ m # store'
               /\ \A h \in Flow : /\ m \notin {call'[h].old, call'[h].new}
                                  /\ h # g => call'[h].mine # m
    <2>1. call[g].mine = m /\ m \in Maybe
      BY <1>3, <1>5
    <2>2. MineInv(g)
      BY <1>1 DEF Safe
    <2>3. /\ Good(m) /\ m # store
          /\ \A h \in Flow : /\ m \notin {call[h].old, call[h].new}
                             /\ h # g => call[h].mine # m
      BY <1>5, <2>1, <2>2 DEF MineInv
    <2>4. m # store'
      BY <1>5, <2>1, <2>3
    <2>5. \A h \in Flow : /\ m \notin {call'[h].old, call'[h].new}
                          /\ h # g => call'[h].mine # m
      BY <1>5, <2>1, <2>3
    <2>6. QED
      BY <1>4, <1>5, <2>1, <2>3, <2>4, <2>5
  <1>6. ASSUME NEW g \in Flow PROVE MineInv(g)'
    <2>1. PICK m : m = call'[g].mine
      OBVIOUS
    <2>2. QED
      BY <1>5, <2>1 DEF MineInv, Good, Current
  <1>7. ASSUME NEW g \in Flow, g # f PROVE Safe(g)'
    <2>1. Safe(g) /\ CallInv(g) /\ call'[g] = call[g]
      BY <1>1, <1>7
    <2>2. PICK o, n : o = call[g].old /\ n = call[g].new /\ o \in Maybe /\ n \in Maybe
      BY <1>3
    <2>3. call[g].pc \in {"send", "found", "rotate"} => Good(o)'
      BY <1>4, <2>1, <2>2 DEF Safe, CallInv
    <2>4. Refreshed(g) => Good(n)'
      BY <1>4, <2>1, <2>2 DEF Safe, CallInv
    <2>5. QED
      BY <1>6, <1>7, <2>1, <2>2, <2>3, <2>4 DEF Safe, Refreshed, At, Good, Current
  <1>8. Safe(f)'
    <2>1. PICK o, n : o = call'[f].old /\ n = call'[f].new
      OBVIOUS
    <2>2. call'[f].pc \in {"send", "found", "rotate"} => Good(o)'
      BY <1>3, <1>4, <2>1, MaybeTypes
    <2>3. Refreshed(f)' => Good(n)'
      <3>1. SUFFICES ASSUME Refreshed(f)' PROVE Good(n)'
        OBVIOUS
      <3>2. Refreshed(f) /\ n = call[f].new
        BY <2>1, <3>1
      <3>3. Good(n) /\ n # None /\ n \in Maybe
        BY <1>1, <1>3, <3>2 DEF Safe, CallInv
      <3>4. QED
        BY <1>4, <3>3
    <2>4. QED
      BY <1>6, <2>1, <2>2, <2>3 DEF Safe, Good, Current
  <1>9. StoreInv'
    <2>1. PICK s : s = store'
      OBVIOUS
    <2>2. SUFFICES ASSUME s # None PROVE Good(s)' \/ \E g \in Flow : Refreshed(g)'
      BY <2>1 DEF StoreInv, Good, Current
    <2>3. CASE s = store /\ (Refreshed(f) => Refreshed(f)')
      <3>1. Good(s) \/ \E g \in Flow : Refreshed(g)
        BY <1>1, <2>2, <2>3 DEF StoreInv
      <3>2. \A g \in Flow : Refreshed(g) => Refreshed(g)'
        BY <2>3 DEF Refreshed, At
      <3>3. QED
        BY <1>3, <1>4, <2>2, <2>3, <3>1, <3>2
    <2>4. CASE s = call[f].new /\ Good(s)
      BY <1>3, <1>4, <2>2, <2>4
    <2>5. CASE s = call[f].mine /\ Good(s)
      BY <1>3, <1>4, <2>2, <2>5
    <2>6. QED
      BY <2>1, <2>2, <2>3, <2>4, <2>5
  <1>10. QED
    BY <1>1, <1>7, <1>8, <1>9 DEF SafeInv

\* The two together, as actions
Plain(f) ==
    /\ call' \in [Flow -> Call]
    /\ \A g \in Flow : g # f => call'[g] = call[g]
    /\ UNCHANGED <<shared, minted, loginOf>>
    /\ lock' \in [Inst -> Flow \cup {None}]
    /\ \A m \in Login : server'[m] \in {server[m], None}
    /\ server' \in [Login -> Maybe]
    /\ store' \in Maybe /\ store' <= minted
    /\ faults' \in {faults, faults + 1}
    /\ killed' \subseteq Login
    /\ f \notin Askers' \/ f \in Askers
    /\ CallInv(f)'

SafeStep(f) ==
    /\ killed' = killed
    /\ call'[f].pc \in Critical <=> lock'[TheLock] = f
    /\ \A g \in Flow \ {f} : lock'[TheLock] = g <=> lock[TheLock] = g
    /\ call'[f].pc \notin {"used", "replayed", "recover"}
    /\ call'[f].old \in {call[f].old, None, store}
    /\ call'[f].new \in {call[f].new, None}
    /\ call'[f].mine \in {call[f].mine, None}
    /\ call'[f].pc \in {"send", "found", "rotate"} => Good(call'[f].old) /\ call'[f].old # None
    /\ call'[f].pc = "rotate" => call'[f].info = call'[f].old
    /\ Refreshed(f)' => Refreshed(f) /\ call'[f].new = call[f].new
    /\ \/ store' = store /\ (Refreshed(f) => Refreshed(f)')
       \/ store' = None
       \/ store' = call[f].new /\ Good(store') /\ store' # None
       \/ store' = call[f].mine /\ call'[f].mine = None /\ Good(store') /\ store' # None

LEMMA StepKeeps ==
  ASSUME IInv, NEW f \in Flow, Plain(f), Alone /\ faults' = 0 => SafeStep(f)
  PROVE  IInv'
  <1>1. Base'
    <2>1. faults' \in Nat
      BY DEF Plain, IInv, Base, TypeOK
    <2>2. QED
      BY <2>1, BaseKeeps DEF Plain, IInv
  <1>2. CASE Alone /\ faults' = 0
    <2>1. SafeInv'
      BY <1>2, SafeKeeps DEF Plain, SafeStep
    <2>2. QED
      BY <1>1, <2>1 DEF IInv
  <1>3. CASE ~(Alone /\ faults' = 0)
    <2>1. ~Alone'
      BY <1>3 DEF Plain, Alone, IInv, Base, TypeOK
    <2>2. QED
      BY <1>1, <2>1 DEF IInv, SafeInv
  <1>4. QED
    BY <1>2, <1>3

\* What is known of a call in every state
LEMMA Known ==
  ASSUME IInv, NEW f \in Flow
  PROVE  /\ TypeOK /\ CallInv(f) /\ store \in Maybe /\ store <= minted
         /\ Alone => Safe(f)
         /\ f \in Askers <=> call[f].pc \in Asking /\ call[f].job # "callback"
         /\ server \in [Login -> Maybe] /\ lock \in [Inst -> Flow \cup {None}]
         /\ killed \subseteq Login /\ shared \in BOOLEAN
  BY DEF IInv, Base, SafeInv, Askers, TypeOK

\* A step to another program counter
LEMMA Goes ==
  ASSUME TypeOK, NEW f \in Flow, NEW c \in Call, call' = [call EXCEPT ![f] = c]
  PROVE  /\ call' \in [Flow -> Call] /\ call'[f] = c
         /\ \A g \in Flow : g # f => call'[g] = call[g]
  BY DEF TypeOK

LEMMA Fields ==
  ASSUME NEW c \in Call, NEW s \in Step
  PROVE  LET d == [c EXCEPT !.pc = s]
         IN  /\ d \in Call /\ d.pc = s /\ d.job = c.job /\ d.kind = c.kind /\ d.old = c.old
             /\ d.new = c.new /\ d.info = c.info /\ d.answer = c.answer /\ d.target = c.target
             /\ d.mine = c.mine
  BY DEF Call

LEMMA IdleCall ==
  /\ Idle \in Call /\ Idle.pc = "idle" /\ Idle.job = "get" /\ Idle.kind = "auto"
  /\ Idle.old = None /\ Idle.new = None /\ Idle.mine = None /\ Idle.info = None
  /\ Idle.target = None /\ Idle.answer = "none"
  BY MaybeTypes DEF Idle, Call, Step, Job, Kind

-----------------------------------------------------------------------------
(* The session store *)

LEMMA AcquireKeeps ==
  ASSUME IInv, NEW f \in Flow, Acquire(f)
  PROVE  IInv'
  <1> DEFINE c == [call[f] EXCEPT !.pc = "getStored"]
  <1>1. /\ call[f].pc = "lock" /\ lock[LockOf(f)] = None
        /\ lock' = [lock EXCEPT ![LockOf(f)] = f] /\ call' = [call EXCEPT ![f] = c]
        /\ UNCHANGED <<shared, store, server, minted, loginOf, faults, killed>>
    BY DEF Acquire, At, Goto
  <1>2. /\ c \in Call /\ c.pc = "getStored" /\ c.job = call[f].job /\ c.kind = call[f].kind
        /\ c.old = call[f].old /\ c.new = call[f].new /\ c.mine = call[f].mine
    <2>1. "getStored" \in Step
      BY DEF Step
    <2>2. QED
      BY <2>1, CallTypes, Fields, Known
  <1> HIDE DEF c
  <1>3. /\ call' \in [Flow -> Call] /\ call'[f] = c
        /\ \A g \in Flow : g # f => call'[g] = call[g]
    BY <1>1, <1>2, Goes, Known
  <1>4. Plain(f)
    <2>1. lock' \in [Inst -> Flow \cup {None}]
      BY <1>1, Locks, Known
    <2>2. CallInv(f)'
      BY <1>1, <1>2, <1>3, Known DEF CallInv, Refreshed, At
    <2>3. f \notin Askers' \/ f \in Askers
      BY <1>1, <1>2, <1>3 DEF Askers, Asking
    <2>4. QED
      BY <1>1, <1>3, <2>1, <2>2, <2>3, Known DEF Plain
  <1>5. ASSUME Alone PROVE SafeStep(f)
    <2>1. LockOf(f) = TheLock /\ TheLock \in Inst
      BY <1>5, Locks DEF Alone
    <2>2. lock[TheLock] = None /\ lock'[TheLock] = f
      BY <1>1, <2>1, Known
    <2>3. \A g \in Flow : g # None
      BY Locks
    <2>4. QED
      BY <1>1, <1>2, <1>3, <2>2, <2>3 DEF SafeStep, Refreshed, At, Critical
  <1>6. QED
    BY <1>4, <1>5, StepKeeps

\* The end of get
LEMMA Returns ==
  ASSUME IInv, NEW f \in Flow, NEW t \in Maybe, Return(f, t),
         UNCHANGED <<shared, server, minted, loginOf, faults, killed>>,
         store' \in Maybe, store' <= minted, call[f].pc \in Critical,
         Alone => \/ store' = store /\ ~Refreshed(f)
                  \/ store' = None
                  \/ store' = call[f].new /\ Good(store') /\ store' # None
  PROVE  IInv'
  <1>1. PICK c : /\ call' = [call EXCEPT ![f] = c]
                 /\ c = CASE call[f].job = "get" -> Idle
                          [] call[f].job # "get" /\ t # None ->
                               [call[f] EXCEPT !.pc = "revoke", !.target = t]
                          [] call[f].job = "signOut" /\ t = None ->
                               [call[f] EXCEPT !.pc = "forget"]
                          [] OTHER -> [call[f] EXCEPT !.pc = "put"]
    BY DEF Return
  <1>2. lock' = [lock EXCEPT ![LockOf(f)] = None]
    BY DEF Return
  <1>3. /\ c \in Call /\ c.pc \in {"idle", "revoke", "forget", "put"}
        /\ c.kind # "stale" => c.job = "get"
        /\ c.pc = "revoke" => c.target # None
        /\ c.old \in {call[f].old, None} /\ c.new \in {call[f].new, None}
        /\ c.mine \in {call[f].mine, None}
    <2>1. call[f] \in Call /\ (call[f].kind # "stale" => call[f].job = "get")
      BY CallTypes, Known DEF CallInv
    <2>2. CASE c = Idle
      BY <2>2, IdleCall
    <2>3. CASE c = [call[f] EXCEPT !.pc = "revoke", !.target = t] /\ t # None
      BY <2>1, <2>3 DEF Call, Step
    <2>4. CASE c = [call[f] EXCEPT !.pc = "forget"]
      BY <2>1, <2>4 DEF Call, Step
    <2>5. CASE c = [call[f] EXCEPT !.pc = "put"]
      BY <2>1, <2>5 DEF Call, Step
    <2>6. QED
      BY <1>1, <2>2, <2>3, <2>4, <2>5
  <1>4. /\ call' \in [Flow -> Call] /\ call'[f] = c
        /\ \A g \in Flow : g # f => call'[g] = call[g]
    BY <1>1, <1>3, Goes, Known
  <1>5. Plain(f)
    <2>1. lock' \in [Inst -> Flow \cup {None}]
      BY <1>2, Locks, Known
    <2>2. c.old <= minted /\ c.new <= minted /\ c.mine <= minted
      BY <1>3, Known, MaybeTypes DEF CallInv, TypeOK
    <2>3. CallInv(f)'
      BY <1>3, <1>4, <2>2 DEF CallInv, Refreshed, At
    <2>4. f \notin Askers'
      BY <1>3, <1>4 DEF Askers, Asking
    <2>5. QED
      BY <1>4, <2>1, <2>3, <2>4, Known DEF Plain
  <1>6. ASSUME Alone PROVE SafeStep(f)
    <2>1. LockOf(f) = TheLock /\ TheLock \in Inst /\ f # None
      BY <1>6, Locks DEF Alone
    <2>2. lock[TheLock] = f /\ lock'[TheLock] = None
      BY <1>2, <1>6, <2>1, Known DEF Safe
    <2>3. \A g \in Flow : g # None
      BY Locks
    <2>4. ~Refreshed(f)'
      BY <1>3, <1>4 DEF Refreshed, At
    <2>5. QED
      BY <1>3, <1>4, <1>6, <2>2, <2>3, <2>4 DEF SafeStep, Critical
  <1>7. QED
    BY <1>5, <1>6, StepKeeps

LEMMA UseStoredKeeps ==
  ASSUME IInv, NEW f \in Flow, UseStored(f)
  PROVE  IInv'
  BY Returns, Known DEF UseStored, At, Critical, Refreshed

LEMMA FailKeeps ==
  ASSUME IInv, NEW f \in Flow, Fail(f)
  PROVE  IInv'
  BY Returns, Known, MaybeTypes DEF Fail, At, Critical, Refreshed

LEMMA SetStoredKeeps ==
  ASSUME IInv, NEW f \in Flow, SetStored(f)
  PROVE  IInv'
  <1>1. Refreshed(f) /\ call[f].new # None /\ call[f].new \in Maybe /\ call[f].new <= minted
    BY CallTypes, Known DEF SetStored, CallInv, Refreshed
  <1>2. Alone => Good(call[f].new)
    BY <1>1, Known DEF Safe
  <1>3. PICK t \in Maybe : t = call[f].new
    BY <1>1
  <1>4. Alone => Good(t)
    BY <1>2, <1>3
  <1>5. store' = t /\ Good(store') <=> Good(t) /\ store' = t
    BY <1>3 DEF Good, SetStored
  <1>6. QED
    BY <1>1, <1>3, <1>4, <1>5, Returns DEF SetStored, At, Critical

LEMMA DelStoredKeeps ==
  ASSUME IInv, NEW f \in Flow, DelStored(f)
  PROVE  IInv'
  BY Returns, Known, MaybeTypes DEF DelStored, At, Critical, TypeOK


-----------------------------------------------------------------------------
(* Steps that leave the store and the lock alone *)

LEMMA MoveKeeps ==
  ASSUME IInv, NEW f \in Flow, NEW c \in Call, call' = [call EXCEPT ![f] = c],
         UNCHANGED <<shared, lock, store, minted, loginOf>>,
         server' \in [Login -> Maybe], \A m \in Login : server'[m] \in {server[m], None},
         faults' \in {faults, faults + 1}, killed' \subseteq Login,
         c.job = call[f].job, c.kind = call[f].kind, c.mine = call[f].mine,
         c.old \in {call[f].old, store}, c.new \in {call[f].new, store},
         c.pc \in Asking => call[f].pc \in Asking,
         c.pc \in {"send", "used", "found", "rotate"} => c.kind # "stale" /\ c.old # None,
         c.pc \in {"rotate", "replayed", "failed"} => c.info # None,
         c.pc = "failed" => c.answer # "ok",
         c.pc = "revoke" => c.target # None,
         (c.pc = "reply" /\ c.answer = "ok") \/ c.pc = "setStored" => c.new # None,
         Alone /\ faults' = 0 =>
            /\ killed' = killed
            /\ c.pc \in Critical <=> call[f].pc \in Critical
            /\ c.pc \notin {"used", "replayed", "recover"}
            /\ c.pc \in {"send", "found", "rotate"} => Good(c.old)
            /\ c.pc = "rotate" => c.info = c.old
            /\ (c.pc = "reply" /\ c.answer = "ok") \/ c.pc = "setStored" <=> Refreshed(f)
            /\ c.new = call[f].new
  PROVE  IInv'
  <1>1. /\ call' \in [Flow -> Call] /\ call'[f] = c
        /\ \A g \in Flow : g # f => call'[g] = call[g]
    BY Goes, Known
  <1>2. Refreshed(f)' <=> (c.pc = "reply" /\ c.answer = "ok") \/ c.pc = "setStored"
    BY <1>1 DEF Refreshed, At
  <1>3. Plain(f)
    <2>1. CallInv(f)'
      <3>1. c.old <= minted /\ c.new <= minted /\ c.mine <= minted
        BY Known DEF CallInv
      <3>2. QED
        BY <1>1, <1>2, <3>1, Known DEF CallInv
    <2>2. f \notin Askers' \/ f \in Askers
      BY <1>1 DEF Askers
    <2>3. QED
      BY <1>1, <2>1, <2>2, Known DEF Plain
  <1>4. ASSUME Alone /\ faults' = 0 PROVE SafeStep(f)
    <2>1. c.pc \in Critical <=> lock[TheLock] = f
      BY <1>4, Known DEF Safe
    <2>2. QED
      BY <1>1, <1>2, <1>4, <2>1 DEF SafeStep
  <1>5. QED
    BY <1>3, <1>4, StepKeeps

\* A step to another program counter and nothing else
LEMMA GotoKeeps ==
  ASSUME IInv, NEW f \in Flow, NEW s \in Step, Goto(f, s),
         UNCHANGED <<shared, lock, store, minted, loginOf, faults, killed>>,
         server' \in [Login -> Maybe], \A m \in Login : server'[m] \in {server[m], None},
         s \in Asking => call[f].pc \in Asking,
         s \in {"send", "used", "found", "rotate"} =>
            call[f].kind # "stale" /\ call[f].old # None,
         s \notin {"rotate", "replayed", "failed", "revoke"},
         (s = "reply" /\ call[f].answer = "ok") \/ s = "setStored" => call[f].new # None,
         Alone =>
            /\ s \in Critical <=> call[f].pc \in Critical
            /\ s \notin {"used", "replayed", "recover"}
            /\ s \in {"send", "found", "rotate"} => Good(call[f].old)
            /\ (s = "reply" /\ call[f].answer = "ok") \/ s = "setStored" <=> Refreshed(f)
  PROVE  IInv'
  <1> DEFINE c == [call[f] EXCEPT !.pc = s]
  <1>1. call' = [call EXCEPT ![f] = c]
    BY DEF Goto
  <1>2. /\ c \in Call /\ c.pc = s /\ c.job = call[f].job /\ c.kind = call[f].kind
        /\ c.old = call[f].old /\ c.new = call[f].new /\ c.answer = call[f].answer
        /\ c.mine = call[f].mine
    BY CallTypes, Fields, Known
  <1> HIDE DEF c
  <1>3. faults' \in {faults, faults + 1} /\ killed' \subseteq Login
    BY Known
  <1>4. QED
    BY <1>1, <1>2, <1>3, MoveKeeps

LEMMA TakeAnswerKeeps ==
  ASSUME IInv, NEW f \in Flow, TakeAnswer(f)
  PROVE  IInv'
  <1>1. Refreshed(f) /\ call[f].new # None
    BY Known DEF TakeAnswer, Refreshed, CallInv
  <1>2. "setStored" \in Step
    BY DEF Step
  <1>3. QED
    BY <1>1, <1>2, GotoKeeps, Known DEF TakeAnswer, At, Critical, Asking

LEMMA RefusedKeeps ==
  ASSUME IInv, NEW f \in Flow, Refused(f)
  PROVE  IInv'
  <1>1. PICK s \in {"delStored", "recover"} : s = IF shared THEN "delStored" ELSE "recover"
    OBVIOUS
  <1>2. s \in Step
    BY DEF Step
  <1>3. ~Refreshed(f) /\ (Alone => s = "delStored")
    BY <1>1 DEF Refused, Refreshed, At, Alone
  <1>4. QED
    BY <1>1, <1>2, <1>3, GotoKeeps, Known DEF Refused, At, Critical, Asking

LEMMA FindUsedKeeps ==
  ASSUME IInv, NEW f \in Flow, FindUsed(f)
  PROVE  IInv'
  <1>1. PICK s \in {"used", "found"} : s = IF IsUsed(call[f].old) THEN "used" ELSE "found"
    OBVIOUS
  <1>2. s \in Step
    BY DEF Step
  <1>3. call[f].kind # "stale" /\ call[f].old # None
    BY Known DEF FindUsed, At, CallInv
  <1>4. Alone => s = "found" /\ Good(call[f].old)
    BY <1>1, Known DEF FindUsed, At, Safe, Good, IsUsed
  <1>5. ~Refreshed(f)
    BY DEF FindUsed, At, Refreshed
  <1>6. QED
    BY <1>1, <1>2, <1>3, <1>4, <1>5, GotoKeeps, Known DEF FindUsed, At, Critical, Asking

\* What is deleted on the server
LEMMA Deletes ==
  ASSUME TypeOK, NEW t \in Tok, Delete(t)
  PROVE  /\ server' \in [Login -> Maybe]
         /\ \A m \in Login : server'[m] \in {server[m], None}
  BY MaybeTypes DEF TypeOK, Delete

LEMMA GrantFailsKeeps ==
  ASSUME IInv, NEW f \in Flow, GrantFails(f)
  PROVE  IInv'
  <1>1. PICK t \in Tok : t = call[f].info
    BY Known, CallTypes, MaybeTypes DEF GrantFails, At, CallInv
  <1>2. /\ server' \in [Login -> Maybe]
        /\ \A m \in Login : server'[m] \in {server[m], None}
    BY <1>1, Known, Deletes DEF GrantFails
  <1>3. "reply" \in Step /\ call[f].answer # "ok" /\ ~Refreshed(f)
    BY Known DEF Step, GrantFails, At, CallInv, Refreshed
  <1>4. QED
    BY <1>2, <1>3, GotoKeeps, Known DEF GrantFails, At, Critical, Asking

LEMMA RevokeKeeps ==
  ASSUME IInv, NEW f \in Flow, Revoke(f)
  PROVE  IInv'
  <1>1. PICK s \in {"delStored", "forget"} :
            s = IF lock[LockOf(f)] = f THEN "delStored" ELSE "forget"
    OBVIOUS
  <1>2. s \in Step
    BY DEF Step
  <1>3. /\ server' \in [Login -> Maybe]
        /\ \A m \in Login : server'[m] \in {server[m], None}
    <2>1. CASE call[f].info = None
      BY <2>1, Known DEF Revoke
    <2>2. CASE call[f].info # None
      <3>1. call[f].info \in Tok
        BY <2>2, Known, CallTypes, MaybeTypes
      <3>2. QED
        BY <2>2, <3>1, Known, Deletes DEF Revoke
    <2>3. QED
      BY <2>1, <2>2
  <1>4. Alone => s = "forget"
    BY <1>1, Locks, Known DEF Revoke, At, Safe, Alone, Critical
  <1>5. ~Refreshed(f)
    BY DEF Revoke, At, Refreshed
  <1>6. QED
    BY <1>1, <1>2, <1>3, <1>4, <1>5, GotoKeeps, Known DEF Revoke, At, Critical, Asking

\* Nobody has a refreshed token set to store while another is at the store
LEMMA OneAtTheStore ==
  ASSUME IInv, Alone, NEW f \in Flow, call[f].pc \in Critical, ~Refreshed(f), store # None
  PROVE  Good(store)
  <1>1. \A g \in Flow : Safe(g)
    BY DEF IInv, SafeInv
  <1>2. \A g \in Flow : Refreshed(g) => call[g].pc \in Critical
    BY DEF Refreshed, At, Critical
  <1>3. \A g \in Flow : ~Refreshed(g)
    BY <1>1, <1>2 DEF Safe
  <1>4. QED
    BY <1>3 DEF IInv, SafeInv, StoreInv

LEMMA NeedsRefreshKeeps ==
  ASSUME IInv, NEW f \in Flow, NeedsRefresh(f)
  PROVE  IInv'
  <1>1. PICK c : c = [call[f] EXCEPT !.pc = "send", !.old = store]
    OBVIOUS
  <1>2. /\ c \in Call /\ c.pc = "send" /\ c.job = call[f].job /\ c.kind = call[f].kind
        /\ c.old = store /\ c.new = call[f].new /\ c.mine = call[f].mine
    BY <1>1, CallTypes, Known DEF Call, Step
  <1>3. call' = [call EXCEPT ![f] = c]
    BY <1>1 DEF NeedsRefresh
  <1>4. Alone => Good(c.old)
    BY <1>2, OneAtTheStore DEF NeedsRefresh, At, Critical, Refreshed
  <1>5. ~Refreshed(f)
    BY DEF NeedsRefresh, At, Refreshed
  <1>6. QED
    BY <1>2, <1>3, <1>4, <1>5, MoveKeeps, Known DEF NeedsRefresh, At, Critical, Asking

LEMMA RecoverKeeps ==
  ASSUME IInv, NEW f \in Flow, Recover(f)
  PROVE  IInv'
  <1>1. PICK c : c = IF store \notin {None, call[f].old}
                     THEN [call[f] EXCEPT !.pc = "setStored", !.new = store]
                     ELSE [call[f] EXCEPT !.pc = "delStored"]
    OBVIOUS
  <1>2. /\ c \in Call /\ c.pc \in {"setStored", "delStored"} /\ c.job = call[f].job
        /\ c.kind = call[f].kind /\ c.old = call[f].old /\ c.new \in {call[f].new, store}
        /\ c.mine = call[f].mine
        /\ c.pc = "setStored" => c.new # None
    BY <1>1, CallTypes, Known DEF Call, Step
  <1>3. call' = [call EXCEPT ![f] = c]
    BY <1>1 DEF Recover
  <1>4. ~Alone
    BY Known DEF Recover, At, Safe
  <1>5. QED
    BY <1>2, <1>3, <1>4, MoveKeeps, Known DEF Recover, Asking

\* What may be lost or fail, each time counted
LEMMA FaultKeeps ==
  ASSUME IInv, NEW f \in Flow, NEW c \in Call, call' = [call EXCEPT ![f] = c], Fault,
         UNCHANGED <<shared, lock, store, minted, loginOf, server, killed>>,
         c.job = call[f].job, c.kind = call[f].kind, c.mine = call[f].mine,
         c.old = call[f].old, c.new = call[f].new,
         c.pc \in {"failed", "reply", "revoke", "delStored"},
         c.pc = "failed" => c.info # None,
         c.pc \in {"failed", "reply"} => c.answer # "ok",
         c.pc = "revoke" => c.target # None
  PROVE  IInv'
  <1>1. faults' = faults + 1 /\ faults' # 0
    BY Known DEF Fault, TypeOK
  <1>2. QED
    BY <1>1, MoveKeeps, Known DEF Asking

LEMMA SetStoredFailsKeeps ==
  ASSUME IInv, NEW f \in Flow, SetStoredFails(f)
  PROVE  IInv'
  <1>1. call[f].new # None /\ call[f].new \in Maybe
    BY Known, CallTypes DEF SetStoredFails, CallInv, Refreshed
  <1>2. PICK c : c = [call[f] EXCEPT !.pc = "revoke", !.target = call[f].new]
    OBVIOUS
  <1>3. /\ c \in Call /\ c.pc = "revoke" /\ c.job = call[f].job /\ c.kind = call[f].kind
        /\ c.old = call[f].old /\ c.new = call[f].new /\ c.mine = call[f].mine
        /\ c.target # None
    BY <1>1, <1>2, CallTypes, Known DEF Call, Step
  <1>4. call' = [call EXCEPT ![f] = c]
    BY <1>2 DEF SetStoredFails
  <1>5. QED
    BY <1>3, <1>4, FaultKeeps DEF SetStoredFails

LEMMA ExpiredKeeps ==
  ASSUME IInv, NEW f \in Flow, Expired(f)
  PROVE  IInv'
  <1>1. call[f].info # None
    BY Known DEF Expired, At, CallInv
  <1>2. PICK c : c = [call[f] EXCEPT !.pc = "failed", !.answer = "invalid_grant"]
    OBVIOUS
  <1>3. /\ c \in Call /\ c.pc = "failed" /\ c.job = call[f].job /\ c.kind = call[f].kind
        /\ c.old = call[f].old /\ c.new = call[f].new /\ c.mine = call[f].mine
        /\ c.info = call[f].info /\ c.answer = "invalid_grant"
    BY <1>2, CallTypes, Known DEF Call, Step
  <1>4. call' = [call EXCEPT ![f] = c]
    BY <1>2 DEF Expired
  <1>5. QED
    BY <1>1, <1>3, <1>4, FaultKeeps DEF Expired

LEMMA LoseKeeps ==
  ASSUME IInv, NEW f \in Flow, Lose(f)
  PROVE  IInv'
  <1>1. PICK c : c = [call[f] EXCEPT !.pc = "reply", !.answer = "error"]
    OBVIOUS
  <1>2. /\ c \in Call /\ c.pc = "reply" /\ c.job = call[f].job /\ c.kind = call[f].kind
        /\ c.old = call[f].old /\ c.new = call[f].new /\ c.mine = call[f].mine
        /\ c.answer = "error"
    BY <1>1, CallTypes, Known DEF Call, Step
  <1>3. call' = [call EXCEPT ![f] = c]
    BY <1>1 DEF Lose
  <1>4. QED
    BY <1>2, <1>3, FaultKeeps DEF Lose

LEMMA UnsatisfiableKeeps ==
  ASSUME IInv, NEW f \in Flow, Unsatisfiable(f)
  PROVE  IInv'
  <1>1. PICK c : c = [call[f] EXCEPT !.pc = "delStored"]
    OBVIOUS
  <1>2. /\ c \in Call /\ c.pc = "delStored" /\ c.job = call[f].job /\ c.kind = call[f].kind
        /\ c.old = call[f].old /\ c.new = call[f].new /\ c.mine = call[f].mine
    BY <1>1, CallTypes, Known DEF Call, Step
  <1>3. call' = [call EXCEPT ![f] = c]
    BY <1>1 DEF Unsatisfiable, Goto
  <1>4. QED
    BY <1>2, <1>3, FaultKeeps DEF Unsatisfiable

-----------------------------------------------------------------------------
(* The token endpoint and the revocation endpoint *)

LEMMA FindTokenKeeps ==
  ASSUME IInv, NEW f \in Flow, FindToken(f)
  PROVE  IInv'
  <1>1. PICK t, row : /\ t = call[f].old
                      /\ row = IF At(f, "used") \/ Current(t) = t THEN Current(t) ELSE None
    OBVIOUS
  <1>2. PICK c : c = CASE row = None -> [call[f] EXCEPT !.pc = "reply", !.answer = "invalid_grant"]
                       [] row = t -> [call[f] EXCEPT !.pc = "rotate", !.info = row]
                       [] OTHER -> [call[f] EXCEPT !.pc = "replayed", !.info = row]
    OBVIOUS
  <1>3. call[f].pc \in {"used", "found"} /\ call[f].kind # "stale" /\ t \in Tok /\ t # None
    BY <1>1, Known, CallTypes, MaybeTypes DEF FindToken, At, CallInv
  <1>4. row \in Maybe
    BY <1>1, <1>3, Known, CurrentTypes, MaybeTypes
  <1>5. /\ c \in Call /\ c.pc \in {"reply", "rotate", "replayed"} /\ c.job = call[f].job
        /\ c.kind = call[f].kind /\ c.old = t /\ c.new = call[f].new /\ c.mine = call[f].mine
        /\ c.pc \in {"rotate", "replayed"} => c.info # None
        /\ c.pc = "reply" => c.answer # "ok"
        /\ c.pc = "rotate" => c.info = t
        /\ c.pc = "replayed" => row \notin {None, t}
    <2>1. CASE row = None
      <3>1. c = [call[f] EXCEPT !.pc = "reply", !.answer = "invalid_grant"]
        BY <1>2, <1>3, <2>1
      <3>2. QED
        BY <1>1, <3>1, CallTypes, Known DEF Call, Step
    <2>2. CASE row # None /\ row = t
      <3>1. c = [call[f] EXCEPT !.pc = "rotate", !.info = row]
        BY <1>2, <2>2
      <3>2. QED
        BY <1>1, <1>4, <2>2, <3>1, CallTypes, Known DEF Call, Step
    <2>3. CASE row # None /\ row # t
      <3>1. c = [call[f] EXCEPT !.pc = "replayed", !.info = row]
        BY <1>2, <2>3
      <3>2. QED
        BY <1>1, <1>4, <2>3, <3>1, CallTypes, Known DEF Call, Step
    <2>4. QED
      BY <2>1, <2>2, <2>3
  <1>6. call' = [call EXCEPT ![f] = c]
    BY <1>1, <1>2 DEF FindToken
  <1>7. Alone => Good(t) /\ At(f, "found")
    BY <1>1, <1>3, Known DEF At, Safe
  <1>8. Alone => c.pc # "replayed"
    BY <1>1, <1>5, <1>7 DEF Good
  <1>9. ~Refreshed(f)
    BY <1>3 DEF At, Refreshed
  <1>10. /\ UNCHANGED <<shared, lock, store, server, minted, loginOf, faults, killed>>
         /\ server' \in [Login -> Maybe] /\ killed' \subseteq Login
    BY Known DEF FindToken
  <1>11. c.pc \in Critical /\ call[f].pc \in Critical /\ call[f].pc \in Asking
    BY <1>3, <1>5 DEF Critical, Asking
  <1>12. c.pc \notin {"used", "recover", "failed", "revoke", "setStored", "send", "found"}
    BY <1>5
  <1>13. QED
    BY <1>1, <1>3, <1>5, <1>6, <1>7, <1>8, <1>9, <1>10, <1>11, <1>12, MoveKeeps

LEMMA ReplayedKeeps ==
  ASSUME IInv, NEW f \in Flow, Replayed(f)
  PROVE  IInv'
  <1>1. PICK t \in Tok : t = call[f].info
    BY Known, CallTypes, MaybeTypes DEF Replayed, At, CallInv
  <1>2. /\ server' \in [Login -> Maybe]
        /\ \A m \in Login : server'[m] \in {server[m], None}
    BY <1>1, Known, Deletes DEF Replayed
  <1>3. killed' \subseteq Login
    BY <1>1, CurrentTypes, Known DEF Replayed
  <1>4. PICK c : c = [call[f] EXCEPT !.pc = "reply", !.answer = "invalid_grant"]
    OBVIOUS
  <1>5. /\ c \in Call /\ c.pc = "reply" /\ c.job = call[f].job /\ c.kind = call[f].kind
        /\ c.old = call[f].old /\ c.new = call[f].new /\ c.mine = call[f].mine
        /\ c.answer = "invalid_grant"
    BY <1>4, CallTypes, Known DEF Call, Step
  <1>6. call' = [call EXCEPT ![f] = c]
    BY <1>4 DEF Replayed
  <1>7. ~Alone
    BY Known DEF Replayed, At, Safe
  <1>8. QED
    BY <1>2, <1>3, <1>5, <1>6, <1>7, MoveKeeps DEF Replayed, Asking

LEMMA RotateThrowsKeeps ==
  ASSUME IInv, NEW f \in Flow, RotateThrows(f)
  PROVE  IInv'
  <1>1. call[f].info # None
    BY Known DEF RotateThrows, At, CallInv
  <1>2. PICK c : c = [call[f] EXCEPT !.pc = "failed", !.answer = "error"]
    OBVIOUS
  <1>3. /\ c \in Call /\ c.pc = "failed" /\ c.job = call[f].job /\ c.kind = call[f].kind
        /\ c.old = call[f].old /\ c.new = call[f].new /\ c.mine = call[f].mine
        /\ c.info = call[f].info /\ c.answer = "error"
    BY <1>2, CallTypes, Known DEF Call, Step
  <1>4. call' = [call EXCEPT ![f] = c]
    BY <1>2 DEF RotateThrows
  <1>5. ~Refreshed(f)
    BY DEF RotateThrows, At, Refreshed
  <1>6. QED
    BY <1>1, <1>3, <1>4, <1>5, MoveKeeps, Known DEF RotateThrows, At, Critical, Asking

LEMMA FindRevokedKeeps ==
  ASSUME IInv, NEW f \in Flow, FindRevoked(f)
  PROVE  IInv'
  <1>1. PICK t \in Tok : t = call[f].target
    BY Known, CallTypes, MaybeTypes DEF FindRevoked, At, CallInv
  <1>2. PICK i \in Maybe :
          i = IF Current(t) = t \/ lock[LockOf(f)] = f THEN Current(t) ELSE None
    BY <1>1, CurrentTypes, Known, MaybeTypes
  <1>3. PICK c : c = [call[f] EXCEPT !.pc = "revoked", !.info = i]
    OBVIOUS
  <1>4. /\ c \in Call /\ c.pc = "revoked" /\ c.job = call[f].job /\ c.kind = call[f].kind
        /\ c.old = call[f].old /\ c.new = call[f].new /\ c.mine = call[f].mine
    BY <1>3, CallTypes, Known DEF Call, Step
  <1>5. call' = [call EXCEPT ![f] = c]
    BY <1>1, <1>2, <1>3 DEF FindRevoked
  <1>6. ~Refreshed(f)
    BY DEF FindRevoked, At, Refreshed
  <1>7. QED
    BY <1>4, <1>5, <1>6, MoveKeeps, Known DEF FindRevoked, At, Critical, Asking

-----------------------------------------------------------------------------
(* The store outside of the lock *)

LEMMA ForgetKeeps ==
  ASSUME IInv, NEW f \in Flow, Forget(f)
  PROVE  IInv'
  <1>1. PICK c : c = IF call[f].job = "callback" THEN [call[f] EXCEPT !.pc = "put"] ELSE Idle
    OBVIOUS
  <1>2. /\ c \in Call /\ c.pc \in {"put", "idle"}
        /\ c.kind # "stale" => c.job = "get"
        /\ c.old \in {call[f].old, None} /\ c.new \in {call[f].new, None}
        /\ c.mine \in {call[f].mine, None}
    <2>1. CASE call[f].job = "callback"
      BY <1>1, <2>1, CallTypes, Known DEF Call, Step, CallInv
    <2>2. CASE call[f].job # "callback"
      BY <1>1, <2>2, IdleCall
    <2>3. QED
      BY <2>1, <2>2
  <1>3. /\ call' \in [Flow -> Call] /\ call'[f] = c
        /\ \A g \in Flow : g # f => call'[g] = call[g]
    BY <1>1, <1>2, Goes, Known DEF Forget
  <1>4. Plain(f)
    <2>1. c.old <= minted /\ c.new <= minted /\ c.mine <= minted /\ None <= minted
      BY <1>2, Known, MaybeTypes DEF CallInv, TypeOK
    <2>2. CallInv(f)'
      BY <1>2, <1>3, <2>1 DEF CallInv, Refreshed, At, Forget
    <2>3. f \notin Askers'
      BY <1>2, <1>3 DEF Askers, Asking
    <2>4. QED
      BY <1>3, <2>1, <2>2, <2>3, Known, MaybeTypes DEF Plain, Forget
  <1>5. ASSUME Alone PROVE SafeStep(f)
    BY <1>2, <1>3, <1>5, Known DEF SafeStep, Forget, Critical, Refreshed, At, Safe
  <1>6. QED
    BY <1>4, <1>5, StepKeeps

LEMMA PutKeeps ==
  ASSUME IInv, NEW f \in Flow, Put(f)
  PROVE  IInv'
  <1>1. /\ call' \in [Flow -> Call] /\ call'[f] = Idle
        /\ \A g \in Flow : g # f => call'[g] = call[g]
    BY IdleCall, Goes, Known DEF Put
  <1>2. PICK t \in Maybe : t = call[f].mine /\ store' = t /\ t <= minted
    BY CallTypes, Known DEF Put, CallInv
  <1>3. Plain(f)
    <2>1. CallInv(f)'
      BY <1>1, IdleCall, MaybeTypes, Known DEF CallInv, Refreshed, At, Put, TypeOK
    <2>2. f \notin Askers'
      BY <1>1, IdleCall DEF Askers, Asking
    <2>3. QED
      BY <1>1, <1>2, <2>1, <2>2, Known DEF Plain, Put
  <1>4. ASSUME Alone PROVE SafeStep(f)
    <2>1. t # None => Good(t)
      BY <1>2, <1>4, Known DEF Safe, MineInv
    <2>2. t # None => (store' = t /\ Good(store'))
      BY <1>2, <2>1 DEF Good, Current, Put
    <2>3. QED
      BY <1>1, <1>2, <1>4, <2>2, IdleCall, Known
      DEF SafeStep, Put, Critical, Refreshed, At, Safe
  <1>5. QED
    BY <1>3, <1>4, StepKeeps

-----------------------------------------------------------------------------
(* Calls begin *)

\* Those that are under way leave room for one more
LEMMA RoomForOne ==
  ASSUME IInv, Room
  PROVE  minted + Cardinality(Askers) + 1 <= MaxTok
  <1> DEFINE busy == {g \in Flow : call[g] # Idle}
  <1>1. Askers \subseteq busy
    BY IdleCall DEF Askers, Asking
  <1>2. busy \in SUBSET Flow
    OBVIOUS
  <1>3. IsFiniteSet(busy) /\ Cardinality(busy) \in Nat /\ minted + Cardinality(busy) < MaxTok
    BY <1>2, FS_Subset, FS_CardinalityType, OauthSessionConstants DEF Room
  <1> HIDE DEF busy
  <1>4. Cardinality(Askers) <= Cardinality(busy)
    BY <1>1, <1>3, FS_Subset
  <1>5. QED
    BY <1>3, <1>4, AskersAreFinite, MaybeTypes DEF IInv, Base, TypeOK

LEMMA BeginKeeps ==
  ASSUME IInv, NEW f \in Flow, NEW job \in Job, NEW kind \in Kind, Begin(f, job, kind),
         kind # "stale" => job = "get"
  PROVE  IInv'
  <1>1. PICK c : c = [Idle EXCEPT !.pc = "lock", !.job = job, !.kind = kind]
    OBVIOUS
  <1>2. /\ c \in Call /\ c.pc = "lock" /\ c.job = job /\ c.kind = kind
        /\ c.old = None /\ c.new = None /\ c.mine = None
    BY <1>1, IdleCall DEF Call, Step
  <1>3. /\ call' \in [Flow -> Call] /\ call'[f] = c
        /\ \A g \in Flow : g # f => call'[g] = call[g]
    BY <1>1, <1>2, Goes, Known DEF Begin
  <1>4. UNCHANGED <<shared, lock, store, server, minted, loginOf, faults, killed>>
    BY DEF Begin
  <1>5. CallInv(f)'
    BY <1>2, <1>3, <1>4, MaybeTypes, Known DEF CallInv, Refreshed, At, TypeOK
  <1>6. Base'
    <2>1. TypeOK'
      BY <1>3, <1>4, Known DEF TypeOK
    <2>2. Cardinality(Askers') <= Cardinality(Askers) + 1 /\ Cardinality(Askers') \in Nat
      BY <1>3, AskersChange
    <2>3. RoomInv'
      BY <1>4, <2>2, RoomForOne, AskersAreFinite, MaybeTypes, Known DEF Begin, RoomInv, TypeOK
    <2>4. \A g \in Flow : g # f => CallInv(g)'
      BY <1>3, <1>4 DEF IInv, Base, CallInv, Refreshed, At
    <2>5. QED
      BY <1>4, <1>5, <2>1, <2>3, <2>4 DEF IInv, Base
  <1>7. ASSUME Alone PROVE SafeStep(f)
    <2>1. call[f].pc = "idle"
      BY IdleCall DEF Begin
    <2>2. lock[TheLock] # f
      BY <1>7, <2>1, Known DEF Safe, Critical
    <2>3. ~Refreshed(f) /\ ~Refreshed(f)'
      BY <1>2, <1>3, <2>1 DEF Refreshed, At
    <2>4. QED
      BY <1>2, <1>3, <1>4, <2>2, <2>3 DEF SafeStep, Critical
  <1>8. ASSUME Alone PROVE SafeInv'
    BY <1>3, <1>4, <1>7, <1>8, SafeKeeps, Known DEF SafeStep
  <1>9. QED
    BY <1>4, <1>6, <1>8 DEF IInv, SafeInv, Alone

\* A token set is issued: it is good, and so stays what another login has
LEMMA Issues ==
  ASSUME IInv, NEW l \in Login, NEW n \in Tok, n = minted + 1, minted' = n,
         server' = [server EXCEPT ![l] = n], loginOf' = [loginOf EXCEPT ![n] = l],
         call' \in [Flow -> Call], UNCHANGED <<shared, lock, store, faults, killed>>
  PROVE  /\ TypeOK' /\ Good(n)'
         /\ \A s \in Tok : s <= minted /\ loginOf[s] # l /\ Good(s) => Good(s)'
         /\ \A s \in Maybe : s <= minted => s # n
  <1>1. TypeOK /\ minted \in Nat /\ Tok \subseteq Nat /\ Tok \subseteq Maybe
    BY MaybeTypes, Known DEF IInv, Base, TypeOK
  <1>2. n \in 0 .. MaxTok
    BY MaybeTypes DEF Tok
  <1>3. TypeOK'
    BY <1>1, <1>2 DEF TypeOK
  <1>4. server'[l] = n /\ loginOf'[n] = l
    BY <1>1 DEF TypeOK
  <1>5. Good(n)'
    BY <1>4 DEF Good, Current
  <1>6. ASSUME NEW s \in Tok, s <= minted, loginOf[s] # l, Good(s) PROVE Good(s)'
    <2>1. s # n
      BY <1>1, <1>6
    <2>2. loginOf'[s] = loginOf[s] /\ server'[loginOf[s]] = server[loginOf[s]]
      BY <1>1, <1>6, <2>1 DEF TypeOK
    <2>3. QED
      BY <1>6, <2>2 DEF Good, Current
  <1>7. \A s \in Maybe : s <= minted => s # n
    BY <1>1, MaybeTypes
  <1>8. QED
    BY <1>3, <1>5, <1>6, <1>7

LEMMA CallbackKeeps ==
  ASSUME IInv, NEW f \in Flow, Callback(f)
  PROVE  IInv'
  <1>1. PICK n : n = minted + 1
    OBVIOUS
  <1>2. n \in Tok /\ n \in Maybe /\ n # None
    BY <1>1, NewToken, MaybeTypes DEF Callback, IInv
  <1>3. PICK l \in Login :
          /\ server[l] = None /\ \A t \in 1 .. minted : loginOf[t] # l
          /\ server' = [server EXCEPT ![l] = n]
          /\ loginOf' = [loginOf EXCEPT ![n] = l]
    BY <1>1 DEF Callback
  <1>4. PICK c : c = [Idle EXCEPT !.pc = "lock", !.job = "callback", !.kind = "stale", !.mine = n]
    OBVIOUS
  <1>5. /\ c \in Call /\ c.pc = "lock" /\ c.job = "callback" /\ c.kind = "stale"
        /\ c.old = None /\ c.new = None /\ c.mine = n
    BY <1>2, <1>4, IdleCall DEF Call, Step, Job, Kind
  <1>6. /\ call' \in [Flow -> Call] /\ call'[f] = c
        /\ \A g \in Flow : g # f => call'[g] = call[g]
    BY <1>1, <1>4, <1>5, Goes, Known DEF Callback
  <1>7. minted' = n /\ UNCHANGED <<shared, lock, store, faults, killed>>
    BY <1>1 DEF Callback
  <1>8. /\ TypeOK' /\ Good(n)'
        /\ \A s \in Tok : s <= minted /\ loginOf[s] # l /\ Good(s) => Good(s)'
        /\ \A s \in Maybe : s <= minted => s # n
    BY <1>1, <1>2, <1>3, <1>6, <1>7, Issues
  <1>9. /\ minted \in Nat /\ minted <= n /\ 0 <= n
       /\ \A s \in Nat : s <= minted => s <= n
    BY <1>1, Known DEF TypeOK
  <1>10. ASSUME NEW s \in Maybe, s # None, s <= minted, Good(s) PROVE Good(s)'
    <2>1. s \in Tok /\ s \in 1 .. minted
      BY <1>9, <1>10, MaybeTypes DEF None, Tok
    <2>2. QED
      BY <1>3, <1>8, <1>10, <2>1
  <1>11. \A g \in Flow : /\ call[g].old \in Maybe /\ call[g].new \in Maybe
                         /\ call[g].mine \in Maybe
                         /\ call[g].old <= minted /\ call[g].new <= minted
                         /\ call[g].mine <= minted
    BY CallTypes, Known DEF CallInv
  <1>12. Base'
    <2>1. call[f].pc = "idle" /\ f \notin Askers /\ f \notin Askers'
      BY <1>5, <1>6, IdleCall DEF Callback, Askers, Asking
    <2>2. Cardinality(Askers') <= Cardinality(Askers) /\ Cardinality(Askers') \in Nat
      BY <1>6, <2>1, AskersChange
    <2>3. RoomInv'
      BY <1>1, <1>7, <1>9, <2>2, RoomForOne, AskersAreFinite, MaybeTypes DEF Callback, RoomInv
    <2>4. ASSUME NEW g \in Flow, g # f PROVE CallInv(g)'
      <3>1. CallInv(g) /\ call'[g] = call[g]
        BY <1>6, <2>4, Known
      <3>2. call[g].old <= n /\ call[g].new <= n /\ call[g].mine <= n
        BY <1>9, <1>11, MaybeTypes
      <3>3. QED
        BY <1>7, <3>1, <3>2 DEF CallInv, Refreshed, At
    <2>5. CallInv(f)'
      BY <1>2, <1>5, <1>6, <1>7, <1>9, MaybeTypes DEF CallInv, Refreshed, At
    <2>6. store' <= minted'
      BY <1>7, <1>9, Known, MaybeTypes
    <2>7. QED
      BY <1>8, <2>3, <2>4, <2>5, <2>6 DEF Base
  <1>13. ASSUME Alone PROVE SafeInv'
    <2>1. /\ \A g \in Flow : Safe(g) /\ CallInv(g)
          /\ StoreInv /\ killed = {}
      BY <1>13, Known DEF IInv, SafeInv
    <2>2. call[f].pc = "idle"
      BY IdleCall DEF Callback
    <2>3. ASSUME NEW g \in Flow, g # f PROVE Safe(g)'
      <3>1. Safe(g) /\ CallInv(g) /\ call'[g] = call[g] /\ MineInv(g)
        BY <1>6, <2>1, <2>3 DEF Safe
      <3>2. PICK o, w, m : o = call[g].old /\ w = call[g].new /\ m = call[g].mine
        OBVIOUS
      <3>3. call[g].pc \in {"send", "found", "rotate"} => Good(o)'
        BY <1>10, <1>11, <3>1, <3>2 DEF Safe, CallInv
      <3>4. Refreshed(g) => Good(w)'
        BY <1>10, <1>11, <3>1, <3>2 DEF Safe, CallInv
      <3>5. m # None => Good(m)'
        BY <1>10, <1>11, <3>1, <3>2 DEF MineInv
      <3>6. m # None =>
              /\ m # store
              /\ \A h \in Flow : /\ m \notin {call'[h].old, call'[h].new}
                                 /\ h # g => call'[h].mine # m
        BY <1>5, <1>6, <1>8, <1>11, <3>1, <3>2 DEF MineInv
      <3>7. MineInv(g)'
        BY <1>7, <3>1, <3>2, <3>5, <3>6 DEF MineInv, Good, Current
      <3>8. QED
        BY <1>7, <3>1, <3>2, <3>3, <3>4, <3>7 DEF Safe, Refreshed, At, Good, Current
    <2>4. Safe(f)'
      <3>1. n # store /\ \A h \in Flow : /\ n \notin {call'[h].old, call'[h].new}
                                         /\ h # f => call'[h].mine # n
        BY <1>2, <1>5, <1>6, <1>8, <1>11, Known
      <3>2. MineInv(f)'
        BY <1>5, <1>6, <1>7, <1>8, <3>1 DEF MineInv, Good, Current
      <3>3. lock[TheLock] # f
        BY <2>1, <2>2 DEF Safe, Critical
      <3>4. QED
        BY <1>5, <1>6, <1>7, <3>2, <3>3 DEF Safe, Critical, Refreshed, At
    <2>5. StoreInv'
      <3>1. \A g \in Flow : Refreshed(g) => Refreshed(g)'
        BY <1>6, <2>2 DEF Refreshed, At
      <3>2. PICK s \in Maybe : s = store /\ s <= minted
        BY Known
      <3>3. s = None \/ Good(s)' \/ \E g \in Flow : Refreshed(g)'
        BY <1>10, <2>1, <3>1, <3>2 DEF StoreInv
      <3>4. QED
        BY <1>7, <3>2, <3>3 DEF StoreInv, Good, Current
    <2>6. QED
      BY <1>7, <2>1, <2>3, <2>4, <2>5 DEF SafeInv
  <1>14. QED
    BY <1>7, <1>12, <1>13 DEF IInv, SafeInv, Alone

-----------------------------------------------------------------------------
(* The rotation *)

LEMMA RotateKeeps ==
  ASSUME IInv, NEW f \in Flow, Rotate(f)
  PROVE  IInv'
  <1>1. PICK n, t : n = minted + 1 /\ t = call[f].info
    OBVIOUS
  <1>2. /\ call[f].pc = "rotate" /\ call[f].kind # "stale" /\ call[f].job = "get"
        /\ t \in Tok /\ t # None
    BY <1>1, Known, CallTypes, MaybeTypes DEF Rotate, At, CallInv
  <1>3. f \in Askers
    BY <1>2, Known DEF Asking
  <1>4. n \in Tok /\ n \in Maybe /\ n # None
    BY <1>1, <1>3, NewToken DEF IInv
  <1>5. PICK l \in Login : l = loginOf[t]
    BY <1>2, CurrentTypes, Known
  <1>6. /\ server[l] = t /\ server' = [server EXCEPT ![l] = n]
        /\ loginOf' = [loginOf EXCEPT ![n] = l]
        /\ minted' = n /\ UNCHANGED <<shared, lock, store, faults, killed>>
    BY <1>1, <1>5 DEF Rotate, Current
  <1>7. PICK c : c = [call[f] EXCEPT !.pc = "reply", !.answer = "ok", !.new = n]
    OBVIOUS
  <1>8. /\ c \in Call /\ c.pc = "reply" /\ c.answer = "ok" /\ c.new = n /\ c.old = call[f].old
        /\ c.mine = call[f].mine /\ c.job = "get"
    BY <1>2, <1>4, <1>7, CallTypes, Known DEF Call, Step
  <1>9. /\ call' \in [Flow -> Call] /\ call'[f] = c
        /\ \A g \in Flow : g # f => call'[g] = call[g]
    <2>1. call' = [call EXCEPT ![f] = c]
      BY <1>1, <1>7 DEF Rotate
    <2>2. QED
      BY <1>8, <2>1, Goes, Known
  <1>10. /\ TypeOK' /\ Good(n)'
         /\ \A s \in Tok : s <= minted /\ loginOf[s] # l /\ Good(s) => Good(s)'
         /\ \A s \in Maybe : s <= minted => s # n
    BY <1>1, <1>4, <1>6, <1>9, Issues
  <1>11. /\ minted \in Nat /\ minted <= n /\ 0 <= n
        /\ \A s \in Nat : s <= minted => s <= n
    BY <1>1, Known DEF TypeOK
  \* Only what was presented is no longer good
  <1>12. ASSUME NEW s \in Maybe, s # None, s # t, s <= minted, Good(s) PROVE Good(s)'
    <2>1. s \in Tok
      BY <1>12, MaybeTypes
    <2>2. loginOf[s] # l
      BY <1>2, <1>6, <1>12 DEF Good, Current
    <2>3. QED
      BY <1>10, <1>12, <2>1, <2>2
  <1>13. \A g \in Flow : /\ call[g].old \in Maybe /\ call[g].new \in Maybe
                         /\ call[g].mine \in Maybe
                         /\ call[g].old <= minted /\ call[g].new <= minted
                         /\ call[g].mine <= minted
    BY CallTypes, Known DEF CallInv
  <1>14. Base'
    <2>1. f \notin Askers'
      BY <1>8, <1>9 DEF Askers, Asking
    <2>2. Cardinality(Askers') = Cardinality(Askers) - 1 /\ Cardinality(Askers') \in Nat
      BY <1>3, <1>9, <2>1, AskersChange
    <2>3. RoomInv'
      BY <1>1, <1>6, <1>11, <2>2, AskersAreFinite, MaybeTypes DEF IInv, Base, RoomInv
    <2>4. ASSUME NEW g \in Flow, g # f PROVE CallInv(g)'
      <3>1. CallInv(g) /\ call'[g] = call[g]
        BY <1>9, <2>4, Known
      <3>2. call[g].old <= n /\ call[g].new <= n /\ call[g].mine <= n
        BY <1>11, <1>13, MaybeTypes
      <3>3. QED
        BY <1>6, <3>1, <3>2 DEF CallInv, Refreshed, At
    <2>5. CallInv(f)'
      <3>1. c.old <= n /\ c.new <= n /\ c.mine <= n
        <4>1. n \in Nat /\ n <= n
          BY <1>1, <1>11
        <4>2. QED
          BY <1>8, <1>11, <1>13, <4>1, MaybeTypes
      <3>2. QED
        BY <1>4, <1>6, <1>8, <1>9, <3>1 DEF CallInv, Refreshed, At
    <2>6. store' <= minted'
      BY <1>6, <1>11, Known, MaybeTypes
    <2>7. QED
      BY <1>10, <2>3, <2>4, <2>5, <2>6 DEF Base
  <1>15. ASSUME Alone PROVE SafeInv'
    <2>1. /\ \A g \in Flow : Safe(g) /\ MineInv(g)
          /\ killed = {}
      BY <1>15 DEF IInv, SafeInv, Safe
    <2>2. t = call[f].old /\ lock[TheLock] = f
      BY <1>1, <1>2, <2>1 DEF Safe, Critical
    <2>3. ASSUME NEW g \in Flow PROVE MineInv(g)'
      <3>1. PICK m : m = call[g].mine /\ m = call'[g].mine
        BY <1>8, <1>9
      <3>2. SUFFICES ASSUME m # None PROVE MineInv(g)'
        BY <3>1 DEF MineInv
      <3>3. /\ Good(m) /\ m # store
            /\ \A h \in Flow : /\ m \notin {call[h].old, call[h].new}
                               /\ h # g => call[h].mine # m
        BY <2>1, <3>1, <3>2 DEF MineInv
      <3>4. m # t /\ m \in Maybe /\ m <= minted /\ m # n
        BY <1>10, <1>13, <2>2, <3>1, <3>3
      <3>5. Good(m)'
        BY <1>12, <3>2, <3>3, <3>4
      <3>6. \A h \in Flow : /\ m \notin {call'[h].old, call'[h].new}
                            /\ h # g => call'[h].mine # m
        BY <1>8, <1>9, <3>3, <3>4
      <3>7. QED
        BY <1>6, <3>1, <3>3, <3>5, <3>6 DEF MineInv, Good, Current
    <2>4. ASSUME NEW g \in Flow, g # f PROVE Safe(g)'
      <3>1. Safe(g) /\ call'[g] = call[g]
        BY <1>9, <2>1, <2>4
      <3>2. call[g].pc \notin Critical
        BY <2>2, <2>4, <3>1 DEF Safe
      <3>3. QED
        BY <1>6, <2>2, <2>3, <2>4, <3>1, <3>2 DEF Safe, Critical, Refreshed, At
    <2>5. Safe(f)'
      BY <1>6, <1>8, <1>9, <1>10, <2>2, <2>3 DEF Safe, Critical, Refreshed, At, Good, Current
    <2>6. Refreshed(f)'
      BY <1>8, <1>9 DEF Refreshed, At
    <2>7. QED
      BY <1>6, <2>1, <2>4, <2>5, <2>6 DEF SafeInv, StoreInv
  <1>16. QED
    BY <1>6, <1>14, <1>15 DEF IInv, SafeInv, Alone

-----------------------------------------------------------------------------
(* The invariant *)

LEMMA Initially ==
  ASSUME Init
  PROVE  IInv
  <1>1. PICK l \in Login :
          /\ server = [m \in Login |-> IF m = l THEN 1 ELSE None]
          /\ loginOf = [t \in Tok |-> l]
    BY DEF Init
  <1>2. /\ shared \in BOOLEAN /\ lock = [i \in Inst |-> None] /\ store = 1 /\ minted = 1
        /\ call = [f \in Flow |-> Idle] /\ faults = 0 /\ killed = {}
    BY DEF Init
  <1>3. TypeOK
    <2>1. 1 \in Maybe /\ 1 \in 0 .. MaxTok
      BY MaybeTypes, OauthSessionConstants DEF Tok
    <2>2. QED
      BY <1>1, <1>2, <2>1, IdleCall, MaybeTypes DEF TypeOK
  <1>4. RoomInv
    <2>1. Askers = {}
      BY <1>2, IdleCall DEF Askers, Asking
    <2>2. QED
      BY <1>2, <2>1, FS_EmptySet, OauthSessionConstants DEF RoomInv
  <1>5. \A f \in Flow : CallInv(f)
    BY <1>2, IdleCall, MaybeTypes DEF CallInv, Refreshed, At
  <1>6. \A f \in Flow : Safe(f)
    BY <1>2, IdleCall, Locks DEF Safe, MineInv, Critical, Refreshed, At
  <1>7. StoreInv
    BY <1>1, <1>2, MaybeTypes DEF StoreInv, Good, Current
  <1>8. QED
    BY <1>2, <1>3, <1>4, <1>5, <1>6, <1>7 DEF IInv, Base, SafeInv

LEMMA Keeps ==
  ASSUME IInv, [Next]_vars
  PROVE  IInv'
  <1>1. ASSUME NEW f \in Flow, GetSession(f) PROVE IInv'
    BY <1>1, BeginKeeps DEF GetSession, Job
  <1>2. ASSUME NEW f \in Flow, SignOut(f) PROVE IInv'
    BY <1>2, BeginKeeps DEF SignOut, Job, Kind
  <1>3. ASSUME NEW f \in Flow, Callback(f) PROVE IInv'
    BY <1>3, CallbackKeeps
  <1>4. ASSUME NEW f \in Flow, Proceed(f) PROVE IInv'
    BY <1>4, AcquireKeeps, UseStoredKeeps, NeedsRefreshKeeps, TakeAnswerKeeps,
       UnsatisfiableKeeps, FailKeeps, RefusedKeeps, RecoverKeeps, SetStoredKeeps,
       SetStoredFailsKeeps, DelStoredKeeps, FindUsedKeeps, FindTokenKeeps, ReplayedKeeps, RotateKeeps, RotateThrowsKeeps,
       ExpiredKeeps, GrantFailsKeeps, LoseKeeps, FindRevokedKeeps, RevokeKeeps, ForgetKeeps,
       PutKeeps
    DEF Proceed
  <1>5. CASE UNCHANGED vars
    BY <1>5 DEF vars, IInv, Base, TypeOK, RoomInv, Askers, CallInv, Refreshed, At, SafeInv,
                Alone, Safe, MineInv, StoreInv, Good, Current
  <1>6. QED
    BY <1>1, <1>2, <1>3, <1>4, <1>5 DEF Next

\* What the calls, the store and the server know of one another is true in every
\* state that the instances, the server and the faults can reach.
THEOREM Invariance == Spec => []IInv
  <1>1. Init => IInv
    BY Initially
  <1>2. IInv /\ [Next]_vars => IInv'
    BY Keeps
  <1>3. QED
    BY <1>1, <1>2, PTL DEF Spec

\* Every variable stays in its type.
THEOREM TypeCorrect == Spec => []TypeOK
  <1>1. IInv => TypeOK
    BY DEF IInv, Base
  <1>2. QED
    BY <1>1, Invariance, PTL

\* With a lock that all instances share, and nothing lost, no refresh token is
\* presented twice, so no session ends by a replay, whatever number of calls,
\* logins and sign-outs there are (runExclusive around CachedGetter.get, with
\* the store written outside of the lock by callback and signOut).
THEOREM NoSessionIsReplayed == Spec => []NoReplay
  <1>1. IInv => NoReplay
    BY DEF IInv, SafeInv, Alone, NoReplay
  <1>2. QED
    BY <1>1, Invariance, PTL

=============================================================================
