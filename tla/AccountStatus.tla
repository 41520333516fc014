--------------------------- MODULE AccountStatus ---------------------------
(***************************************************************************)
(* The life of one account of a PDS: its creation, takedown, deactivation, *)
(* activation and deletion (createAccount.ts, AccountManager,              *)
(* deleteAccount.ts, ActorStore.create and destroy, and the account events *)
(* of the Sequencer).                                                      *)
(*                                                                         *)
(* The account is spread over the account manager's database, a directory  *)
(* with its repository, and the firehose.  No transaction spans them: an   *)
(* operation is a program of steps, each of them atomic in one place, and  *)
(* operations interleave between their steps.  What still has to be done   *)
(* is the operation's "todo"; what is done when a step fails is written in *)
(* Recovery.                                                               *)
(*                                                                         *)
(* Abstraction.  The four events of a creation and the three of an         *)
(* activation, inserted at once, are the account event among them.  The    *)
(* PLC directory is a step that may fail.  Credentials are the subject of  *)
(* RefreshTokens.                                                          *)
(***************************************************************************)
EXTENDS Integers, Sequences, SequencesExt

CONSTANTS
    Op,         \* operations, each of which runs once
    None,       \* no actor row, no status read yet
    MaxFaults   \* bound: crashes, and failures of a step that has no reason to fail

ASSUME AccountStatusConstants == MaxFaults \in Nat

Actor == [takendown : BOOLEAN, deactivated : BOOLEAN]
StatusName == {"active", "takendown", "deactivated", "deleted"}

ASSUME NoneIsDistinct ==
    None \notin Actor \cup StatusName \cup
        {"takedown", "restore", "deactivate", "activate", "status", "delete", "create", "import"}

Event == [by : Op \cup {None}, status : StatusName]

\* Mutant: the files first, then the rows
FilesFirst ==
    [takedown   |-> <<"update", "read", "announce">>,
     restore    |-> <<"update", "read", "announce">>,
     deactivate |-> <<"update", "read", "announce">>,
     activate   |-> <<"update", "read", "sync", "announce">>,
     status     |-> <<"read", "announce">>,
     delete     |-> <<"store", "data", "actor", "event", "purge">>,
     create     |-> <<"check", "make", "repo", "plc", "rows", "created", "finish">>,
     import     |-> <<"check", "make", "repo", "rows", "finish">>]

\* What an operation does
Program ==
    [takedown   |-> <<"update", "read", "announce">>,
     restore    |-> <<"update", "read", "announce">>,
     deactivate |-> <<"update", "read", "announce">>,
     activate   |-> <<"update", "read", "sync", "announce">>,
     status     |-> <<"read", "announce">>,
     delete     |-> <<"data", "actor", "event", "purge", "store">>,
     create     |-> <<"check", "make", "repo", "plc", "rows", "created", "finish">>,
     import     |-> <<"check", "make", "repo", "rows", "finish">>]

Kind == DOMAIN Program
Step == UNION {Range(Program[k]) : k \in Kind}
Creation == {"create", "import"}

Operation == [kind : Kind \cup {None}, todo : Seq(Step), status : StatusName \cup {None},
              failed : BOOLEAN,
              overtaken : BOOLEAN, met : BOOLEAN]

VARIABLES
    actor,   \* the row of the table actor, or None
    data,    \* whether the account's rows of the other tables are there
    store,   \* the account's directory: none, empty, or with a repository
    events,  \* the account's rows of the sequencer
    op,      \* the operations
    faults,  \* history: faults so far
    untold,  \* history: the status changed and the event was lost, late, or not meant
    soiled,  \* history: an operation stopped half way and no deletion has run since
    hasty    \* history: events or a store were removed that a creation may have made

vars == <<actor, data, store, events, op, faults, untold, soiled, hasty>>

\* Mutant: an active account has no status
StatusOrNone ==
    IF actor = None THEN "deleted"
    ELSE IF actor.takendown THEN "takendown"
    ELSE IF actor.deactivated THEN "deactivated"
    ELSE None

\* formatAccountStatus
Status ==
    IF actor = None THEN "deleted"
    ELSE IF actor.takendown THEN "takendown"
    ELSE IF actor.deactivated THEN "deactivated"
    ELSE "active"

Idle == [kind |-> None, todo |-> <<>>, status |-> None, failed |-> FALSE,
         overtaken |-> FALSE, met |-> FALSE]

TypeOK ==
    /\ actor \in Actor \cup {None}
    /\ data \in BOOLEAN
    /\ store \in {"none", "empty", "repo"}
    /\ events \in Seq(Event)
    /\ op \in [Op -> Operation]
    /\ faults \in 0 .. MaxFaults
    /\ untold \in BOOLEAN /\ soiled \in BOOLEAN /\ hasty \in BOOLEAN

\* No account yet, or an active one
Init ==
    /\ \/ actor = None /\ data = FALSE /\ store = "none" /\ events = <<>>
       \/ /\ actor = [takendown |-> FALSE, deactivated |-> FALSE]
          /\ data = TRUE /\ store = "repo"
          /\ events = <<[by |-> None, status |-> "active"]>>
    /\ op = [o \in Op |-> Idle]
    /\ faults = 0
    /\ untold = FALSE /\ soiled = FALSE /\ hasty = FALSE

UnderWay(o) == op[o].todo # <<>>
At(o, step) == UnderWay(o) /\ Head(op[o].todo) = step
Filling(o) == op[o].kind \in Creation /\ \E s \in {"repo", "plc", "rows"} : At(o, s)

-----------------------------------------------------------------------------
(* How operations proceed *)

\* The request arrives
Start(o, kind) ==
    /\ op[o].kind = None
    /\ op' = [op EXCEPT ![o] = [Idle EXCEPT !.kind = kind, !.todo = Program[kind],
                                            !.met = \E p \in Op : Filling(p)]]
    /\ UNCHANGED <<actor, data, store, events, faults, untold, soiled, hasty>>

Done(o) == op' = [op EXCEPT ![o].todo = Tail(@)]

\* The same, after a change of the status that other operations may not have read
DoneAndOvertake(o) ==
    op' = [p \in Op |->
             IF p = o THEN [op[o] EXCEPT !.todo = Tail(@), !.overtaken = FALSE]
             ELSE [op[p] EXCEPT !.overtaken = UnderWay(p)]]

Refuse(o) == op' = [op EXCEPT ![o].todo = <<>>]

\* Mutant: the store of a creation that failed is left behind
RecoveryLeaves(o) ==
    CASE op[o].kind = "delete" -> IF \E s \in {"event", "purge"} : At(o, s) THEN <<"store">> ELSE <<>>
      [] op[o].kind \in Creation /\ \E s \in {"created", "finish"} : At(o, s) -> <<"data", "actor">>
      [] OTHER -> <<>>

\* What the catch and finally clauses around the current step do
Recovery(o) ==
    CASE op[o].kind = "delete" ->
             IF \E s \in {"event", "purge"} : At(o, s) THEN <<"store">> ELSE <<>>
      [] op[o].kind = "create" /\ At(o, "finish") ->
             <<"event", "purge", "data", "actor", "store">>
      [] \/ op[o].kind = "create" /\ \E s \in {"created", "event", "purge"} : At(o, s)
         \/ op[o].kind = "import" /\ At(o, "finish") ->
             <<"data", "actor", "store">>
      [] op[o].kind \in Creation /\ \E s \in {"repo", "plc", "rows", "data", "actor"} : At(o, s) ->
             <<"store">>
      [] OTHER -> <<>>

Fallback(o) == op' = [op EXCEPT ![o].todo = Recovery(o), ![o].failed = TRUE]

-----------------------------------------------------------------------------
(* Changes of the status *)

Changed(kind) ==
    CASE kind \in {"takedown", "restore"} -> [actor EXCEPT !.takendown = kind = "takedown"]
      [] OTHER -> [actor EXCEPT !.deactivated = kind = "deactivate"]

\* Whether the update finds its row; a takedown does not mind
Found(kind) ==
    CASE kind = "deactivate" -> actor # None
      [] kind = "activate" -> actor # None /\ ~actor.takendown
      [] OTHER -> TRUE

Update(o) ==
    /\ At(o, "update")
    /\ IF Found(op[o].kind)
       THEN /\ actor' = IF actor = None THEN None ELSE Changed(op[o].kind)
            /\ DoneAndOvertake(o)
       ELSE Refuse(o) /\ UNCHANGED actor
    /\ UNCHANGED <<data, store, events, faults, untold, soiled, hasty>>

\* Mutant: the status that the update wrote is taken for the account's
ReadOwn(o) ==
    /\ At(o, "read")
    /\ op' = [op EXCEPT ![o].todo = Tail(@),
                        ![o].overtaken = FALSE,
                        ![o].status = IF op[o].kind = "activate" THEN "active" ELSE Status]
    /\ UNCHANGED <<actor, data, store, events, faults, untold, soiled, hasty>>

\* getAccountStatus; an account deleted in the meantime ends a de- or activation
Read(o) ==
    /\ At(o, "read")
    /\ IF Status = "deleted" /\ op[o].kind \in {"deactivate", "activate"}
       THEN Refuse(o)
       ELSE op' = [op EXCEPT ![o].todo = Tail(@), ![o].status = Status,
                             ![o].overtaken = FALSE]
    /\ UNCHANGED <<actor, data, store, events, faults, untold, soiled, hasty>>

\* getSyncEventData: an activation needs a repository
ReadStore(o) ==
    /\ At(o, "sync")
    /\ IF store = "repo" THEN Done(o) /\ UNCHANGED untold
       ELSE Refuse(o) /\ untold' = TRUE
    /\ UNCHANGED <<actor, data, store, events, faults, soiled, hasty>>

\* An event is inserted; whether it may be late is noted
Tell(o, status) ==
    /\ events' = Append(events, [by |-> o, status |-> status])
    /\ untold' = op[o].overtaken

\* sequenceAccount, sequenceAccountActivation
Announce(o) ==
    /\ At(o, "announce")
    /\ Tell(o, op[o].status)
    /\ Done(o)
    /\ UNCHANGED <<actor, data, store, faults, soiled, hasty>>

-----------------------------------------------------------------------------
(* Creation *)

\* ActorStore.create looks whether there is a store ...
CheckStore(o) ==
    /\ At(o, "check")
    /\ IF store = "none" THEN Done(o) ELSE Refuse(o)
    /\ UNCHANGED <<actor, data, store, events, faults, untold, soiled, hasty>>

\* ... and makes one, whatever is there by now
MakeStore(o) ==
    /\ At(o, "make")
    /\ store' = IF store = "none" THEN "empty" ELSE store
    /\ op' = [p \in Op |->
                CASE p = o -> [op[o] EXCEPT !.todo = Tail(@), !.met = @ \/ store # "none"]
                  [] UnderWay(p) /\ p # o -> [op[p] EXCEPT !.met = TRUE]
                  [] OTHER -> op[p]]
    /\ UNCHANGED <<actor, data, events, faults, untold, soiled, hasty>>

\* createRepo, in a store that is there and has no repository
CreateRepo(o) ==
    /\ At(o, "repo")
    /\ IF store = "empty" THEN store' = "repo" /\ Done(o) ELSE Fallback(o) /\ UNCHANGED store
    /\ UNCHANGED <<actor, data, events, faults, untold, soiled, hasty>>

\* The PLC directory takes the operation or does not
SendOperation(o) ==
    /\ At(o, "plc")
    /\ Done(o) \/ Fallback(o)
    /\ UNCHANGED <<actor, data, store, events, faults, untold, soiled, hasty>>

\* AccountManager.createAccount, a transaction; a creation that brings its
\* repository from elsewhere is deactivated and not announced
CreateRows(o) ==
    /\ At(o, "rows")
    /\ IF actor = None /\ ~data
       THEN /\ actor' = [takendown |-> FALSE, deactivated |-> op[o].kind = "import"]
            /\ data' = TRUE
            /\ untold' = (untold \/ op[o].kind = "import")
            /\ DoneAndOvertake(o)
       ELSE Fallback(o) /\ UNCHANGED <<actor, data, untold>>
    /\ UNCHANGED <<store, events, faults, soiled, hasty>>

\* sequenceAccountCreation
AnnounceCreation(o) ==
    /\ At(o, "created")
    /\ Tell(o, "active")
    /\ Done(o)
    /\ UNCHANGED <<actor, data, store, faults, soiled, hasty>>

\* The rest of the handler.  That of a sign-up by OAuth looks for the account once
\* more and finds none that was deleted, taken down or deactivated in the meantime.
Finish(o) ==
    /\ At(o, "finish")
    /\ \/ Done(o)
       \/ op[o].kind = "create" /\ Status # "active" /\ Fallback(o)
    /\ UNCHANGED <<actor, data, store, events, faults, untold, soiled, hasty>>

-----------------------------------------------------------------------------
(* Deletion, and the removal of what a failed creation made *)

\* accountHelpers.deleteAccount: the other tables, and then the actor
DeleteData(o) ==
    /\ At(o, "data")
    /\ data' = FALSE
    /\ Done(o)
    /\ UNCHANGED <<actor, store, events, faults, untold, soiled, hasty>>

DeleteActor(o) ==
    /\ At(o, "actor")
    /\ actor' = None
    /\ untold' = (untold \/ (op[o].kind \in Creation /\ actor # None))
    /\ DoneAndOvertake(o)
    /\ UNCHANGED <<data, store, events, faults, soiled, hasty>>

\* sequenceAccountDeletion: the event ...
AnnounceDeletion(o) ==
    /\ At(o, "event")
    /\ Tell(o, "deleted")
    /\ Done(o)
    /\ UNCHANGED <<actor, data, store, faults, soiled, hasty>>

\* ... and the removal of all others, which may have removed it before
Purge(o) ==
    /\ At(o, "purge")
    /\ LET mine == [by |-> o, status |-> "deleted"]
       IN  events' = IF mine \in Range(events) THEN <<mine>> ELSE <<>>
    /\ hasty' = (hasty \/ op[o].met)
    /\ Done(o)
    /\ UNCHANGED <<actor, data, store, faults, untold, soiled>>

\* ActorStore.destroy
Destroy(o) ==
    /\ At(o, "store")
    /\ store' = "none"
    /\ hasty' = (hasty \/ op[o].met)
    /\ soiled' = (soiled /\ (op[o].kind # "delete" \/ op[o].failed))
    /\ Done(o)
    /\ UNCHANGED <<actor, data, events, faults, untold>>

-----------------------------------------------------------------------------
(* Faults *)

\* Whether the status has changed, or will, and its event is not inserted yet;
\* a creation that is undone announces the deletion before it
Owes(o) ==
    CASE op[o].kind \in Creation -> \E s \in {"created", "event", "purge", "data", "actor"} : At(o, s)
      [] op[o].kind = "delete" -> \E s \in {"actor", "event", "purge"} : At(o, s)
      [] OTHER -> UnderWay(o) /\ ~At(o, "update")

\* Whether the operation would leave a part of an account if it ended now
Half(o) == UnderWay(o) /\ op[o].kind \in Creation \cup {"delete"} /\ ~At(o, "check")

\* The current step fails
Fail(o) ==
    /\ faults < MaxFaults
    /\ UnderWay(o)
    /\ faults' = faults + 1
    /\ Fallback(o)
    /\ untold' = (untold \/ Owes(o))
    /\ soiled' = (soiled \/ \E s \in {"make", "data", "actor", "store"} : At(o, s))
    /\ hasty' = (hasty \/ (op[o].kind \in Creation /\ (At(o, "data") \/ At(o, "actor"))))
    /\ UNCHANGED <<actor, data, store, events>>

\* The process stops; nobody goes on where an operation was
Crash ==
    /\ faults < MaxFaults
    /\ faults' = faults + 1
    /\ op' = [o \in Op |-> [op[o] EXCEPT !.todo = <<>>]]
    /\ untold' = (untold \/ \E o \in Op : Owes(o))
    /\ soiled' = (soiled \/ \E o \in Op : Half(o))
    /\ UNCHANGED <<actor, data, store, events, hasty>>

Run(o) ==
    \/ Update(o) \/ Read(o) \/ ReadStore(o) \/ Announce(o)
    \/ CheckStore(o) \/ MakeStore(o) \/ CreateRepo(o) \/ SendOperation(o)
    \/ CreateRows(o) \/ AnnounceCreation(o) \/ Finish(o)
    \/ DeleteData(o) \/ DeleteActor(o) \/ AnnounceDeletion(o) \/ Purge(o) \/ Destroy(o)

Next == Crash \/ \E o \in Op : Run(o) \/ Fail(o) \/ \E k \in Kind : Start(o, k)

Spec == Init /\ [][Next]_vars

-----------------------------------------------------------------------------
(* Properties *)

Quiet == \A o \in Op : ~UnderWay(o)

\* When nothing is under way the firehose has told the account's status,
\* whatever operations ran into each other: an event may be lost to a fault, or
\* be inserted after the status it tells was changed again, and then nothing
\* but the next event corrects it.
StatusIsTold ==
    (Quiet /\ ~untold /\ ~hasty /\ events # <<>>) => Last(events).status = Status

\* "Order matters here": an account in the database has its repository.  A
\* store is destroyed under an account only by an operation that a creation of
\* the same account overlapped, or that could not undo the rows first.
AccountHasStore ==
    (actor # None /\ ~hasty) => store = "repo"

\* A creation that fails undoes what it did, and a deletion leaves nothing,
\* also of what a crash or a failure left before it.
NothingLeft ==
    (Quiet /\ ~soiled /\ ~hasty /\ actor = None) => store = "none" /\ ~data

=============================================================================
