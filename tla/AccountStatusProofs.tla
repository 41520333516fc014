------------------------- MODULE AccountStatusProofs ------------------------
(***************************************************************************)
(* Proofs about the life of an account: whatever operations and faults,    *)
(* the types, the repository of an account that is there, what remains of  *)
(* one that is not, and the status that the firehose has told.             *)
(*                                                                         *)
(* The inductive invariant names who will still put right what is not      *)
(* right now: an operation that will announce the status, one that will    *)
(* destroy the store.  Operations that remove what a creation may have     *)
(* made are known for it: the creation has overlapped them.                *)
(***************************************************************************)
EXTENDS AccountStatus, TLAPS

Updates == {"takedown", "restore", "deactivate", "activate"}
Undoing == {"event", "purge", "data", "actor", "store"}

In(o, steps) == \E s \in steps : At(o, s)

\* What an operation of a kind may have to do, from its start on, and what it
\* may have to do when a step of it failed
Plans ==
    [takedown   |-> {<<"update", "read", "announce">>, <<"read", "announce">>, <<"announce">>},
     restore    |-> {<<"update", "read", "announce">>, <<"read", "announce">>, <<"announce">>},
     deactivate |-> {<<"update", "read", "announce">>, <<"read", "announce">>, <<"announce">>},
     activate   |-> {<<"update", "read", "sync", "announce">>, <<"read", "sync", "announce">>,
                     <<"sync", "announce">>, <<"announce">>},
     status     |-> {<<"read", "announce">>, <<"announce">>},
     delete     |-> {<<"data", "actor", "event", "purge", "store">>,
                     <<"actor", "event", "purge", "store">>, <<"event", "purge", "store">>,
                     <<"purge", "store">>, <<"store">>},
     create     |-> {<<"check", "make", "repo", "plc", "rows", "created", "finish">>,
                     <<"make", "repo", "plc", "rows", "created", "finish">>,
                     <<"repo", "plc", "rows", "created", "finish">>,
                     <<"plc", "rows", "created", "finish">>, <<"rows", "created", "finish">>,
                     <<"created", "finish">>, <<"finish">>,
                     <<"event", "purge", "data", "actor", "store">>,
                     <<"purge", "data", "actor", "store">>, <<"data", "actor", "store">>,
                     <<"actor", "store">>, <<"store">>},
     import     |-> {<<"check", "make", "repo", "rows", "finish">>,
                     <<"make", "repo", "rows", "finish">>, <<"repo", "rows", "finish">>,
                     <<"rows", "finish">>, <<"finish">>,
                     <<"data", "actor", "store">>, <<"actor", "store">>, <<"store">>}]

PlanInv(o) ==
    IF op[o].kind = None THEN op[o].todo = <<>>
    ELSE op[o].todo \in Plans[op[o].kind] \cup {<<>>}

\* A creation that may be filling the store has overlapped whatever runs
MetInv == \A o, p \in Op : o # p /\ Filling(o) /\ UnderWay(p) => op[p].met

\* Nobody removed the store under a creation that has a repository in it
StoreInv(o) == op[o].kind \in Creation /\ In(o, {"plc", "rows"}) /\ ~hasty => store = "repo"

\* Who destroys the store, and met no creation, has seen the actor go, or
\* never made one
ActorInv(o) ==
    (~hasty /\ ~op[o].met /\
        \/ op[o].kind = "delete" /\ In(o, {"event", "purge", "store"})
        \/ op[o].kind \in Creation /\ (At(o, "store") \/ Filling(o)))
    => actor = None

DataInv(o) ==
    (~op[o].met /\
        \/ At(o, "actor")
        \/ op[o].kind = "delete" /\ In(o, {"event", "purge", "store"}))
    => ~data

\* Who will destroy the store, or fill it
Destroyer(o) ==
    \/ op[o].kind = "delete" /\ UnderWay(o)
    \/ op[o].kind \in Creation /\ (Filling(o) \/ In(o, Undoing))

LeftInv ==
    (~soiled /\ ~hasty /\ actor = None) =>
        /\ store # "none" => \E o \in Op : Destroyer(o)
        /\ data => \E o \in Op : Destroyer(o) /\ op[o].met

\* An operation that nobody overtook knows the status
ReadInv(o) ==
    /\ In(o, {"sync", "announce"}) => op[o].status \in StatusName
    /\ ~op[o].overtaken =>
        /\ In(o, {"sync", "announce"}) => op[o].status = Status
        /\ At(o, "created") => Status = "active"
        /\ op[o].kind = "delete" /\ At(o, "event") => actor = None

\* Who will announce the status
Debtor(o) ==
    \/ In(o, {"sync", "announce", "created"})
    \/ At(o, "read") /\ (actor # None \/ op[o].kind \notin {"deactivate", "activate"})
    \/ op[o].kind = "delete" /\ At(o, "event")
    \/ op[o].kind = "create" /\ In(o, {"event", "purge", "data", "actor"}) /\ actor # None

Told == events = <<>> \/ Last(events).status = Status

ToldInv == untold \/ hasty \/ Told \/ \E o \in Op : Debtor(o)

IInv ==
    /\ TypeOK
    /\ \A o \in Op : PlanInv(o)
    /\ MetInv
    /\ \A o \in Op : StoreInv(o) /\ ActorInv(o) /\ DataInv(o) /\ ReadInv(o)
    /\ AccountHasStore
    /\ LeftInv
    /\ ToldInv

-----------------------------------------------------------------------------
(* Plans *)

Goes(t, s) == t # <<>> /\ Head(t) = s

LEMMA Kinds ==
  /\ Kind = {"takedown", "restore", "deactivate", "activate", "status", "delete", "create",
             "import"}
  /\ None \notin Kind /\ None \notin Actor /\ None \notin StatusName
  BY NoneIsDistinct DEF Kind, Program

LEMMA Steps ==
  Step = {"update", "read", "sync", "announce", "data", "actor", "event", "purge", "store",
          "check", "make", "repo", "plc", "rows", "created", "finish"}
  <1>1. /\ Range(Program["takedown"]) = {"update", "read", "announce"}
        /\ Range(Program["restore"]) = {"update", "read", "announce"}
        /\ Range(Program["deactivate"]) = {"update", "read", "announce"}
        /\ Range(Program["activate"]) = {"update", "read", "sync", "announce"}
        /\ Range(Program["status"]) = {"read", "announce"}
        /\ Range(Program["delete"]) = {"data", "actor", "event", "purge", "store"}
        /\ Range(Program["import"]) = {"check", "make", "repo", "rows", "finish"}
    BY DEF Range, Program
  <1>2. Range(Program["create"]) = {"check", "make", "repo", "plc", "rows", "created", "finish"}
    BY DEF Range, Program
  <1>3. QED
    BY <1>1, <1>2, Kinds DEF Step

\* What comes after a step
PlanStep(k, t) ==
    /\ t # <<>> /\ t \in Seq(Step) /\ Tail(t) \in Plans[k] \cup {<<>>}
    /\ Head(t) \in Step
    /\ Head(t) = "update" => k \in Updates /\ Goes(Tail(t), "read")
    /\ Head(t) = "read" =>
          /\ k \in Updates \cup {"status"}
          /\ Goes(Tail(t), IF k = "activate" THEN "sync" ELSE "announce")
    /\ Head(t) = "sync" => k = "activate" /\ Goes(Tail(t), "announce")
    /\ Head(t) = "announce" => k \in Updates \cup {"status"} /\ Tail(t) = <<>>
    /\ Head(t) = "check" => k \in Creation /\ Goes(Tail(t), "make")
    /\ Head(t) = "make" => k \in Creation /\ Goes(Tail(t), "repo")
    /\ Head(t) = "repo" =>
          k \in Creation /\ Goes(Tail(t), IF k = "create" THEN "plc" ELSE "rows")
    /\ Head(t) = "plc" => k \in Creation /\ Goes(Tail(t), "rows")
    /\ Head(t) = "rows" =>
          k \in Creation /\ Goes(Tail(t), IF k = "create" THEN "created" ELSE "finish")
    /\ Head(t) = "created" => k = "create" /\ Goes(Tail(t), "finish")
    /\ Head(t) = "finish" => k \in Creation /\ Tail(t) = <<>>
    /\ Head(t) = "data" => k \in Creation \cup {"delete"} /\ Goes(Tail(t), "actor")
    /\ Head(t) = "actor" =>
          /\ k \in Creation \cup {"delete"}
          /\ Goes(Tail(t), IF k = "delete" THEN "event" ELSE "store")
    /\ Head(t) = "event" => k \in {"create", "delete"} /\ Goes(Tail(t), "purge")
    /\ Head(t) = "purge" =>
          k \in {"create", "delete"} /\ Goes(Tail(t), IF k = "delete" THEN "store" ELSE "data")
    /\ Head(t) = "store" => k \in Creation \cup {"delete"} /\ Tail(t) = <<>>

LEMMA PlanSteps ==
  ASSUME NEW k \in Kind, NEW t \in Plans[k]
  PROVE  PlanStep(k, t)
  <1>1. CASE k \in {"takedown", "restore", "deactivate"}
    <2>1. PlanStep(k, <<"update", "read", "announce">>)
      BY <1>1, Steps DEF PlanStep, Goes, Plans, Creation, Updates
    <2>2. PlanStep(k, <<"read", "announce">>)
      BY <1>1, Steps DEF PlanStep, Goes, Plans, Creation, Updates
    <2>3. PlanStep(k, <<"announce">>)
      BY <1>1, Steps DEF PlanStep, Goes, Plans, Creation, Updates
    <2>4. QED
      BY <1>1, <2>1, <2>2, <2>3 DEF Plans
  <1>2. CASE k = "activate"
    <2>1. PlanStep(k, <<"update", "read", "sync", "announce">>)
      BY <1>2, Steps DEF PlanStep, Goes, Plans, Creation, Updates
    <2>2. PlanStep(k, <<"read", "sync", "announce">>)
      BY <1>2, Steps DEF PlanStep, Goes, Plans, Creation, Updates
    <2>3. PlanStep(k, <<"sync", "announce">>)
      BY <1>2, Steps DEF PlanStep, Goes, Plans, Creation, Updates
    <2>4. PlanStep(k, <<"announce">>)
      BY <1>2, Steps DEF PlanStep, Goes, Plans, Creation, Updates
    <2>5. QED
      BY <1>2, <2>1, <2>2, <2>3, <2>4 DEF Plans
  <1>3. CASE k = "status"
    <2>1. PlanStep(k, <<"read", "announce">>)
      BY <1>3, Steps DEF PlanStep, Goes, Plans, Creation, Updates
    <2>2. PlanStep(k, <<"announce">>)
      BY <1>3, Steps DEF PlanStep, Goes, Plans, Creation, Updates
    <2>3. QED
      BY <1>3, <2>1, <2>2 DEF Plans
  <1>4. CASE k = "delete"
    <2>1. PlanStep(k, <<"data", "actor", "event", "purge", "store">>)
      BY <1>4, Steps DEF PlanStep, Goes, Plans, Creation, Updates
    <2>2. PlanStep(k, <<"actor", "event", "purge", "store">>)
      BY <1>4, Steps DEF PlanStep, Goes, Plans, Creation, Updates
    <2>3. PlanStep(k, <<"event", "purge", "store">>)
      BY <1>4, Steps DEF PlanStep, Goes, Plans, Creation, Updates
    <2>4. PlanStep(k, <<"purge", "store">>)
      BY <1>4, Steps DEF PlanStep, Goes, Plans, Creation, Updates
    <2>5. PlanStep(k, <<"store">>)
      BY <1>4, Steps DEF PlanStep, Goes, Plans, Creation, Updates
    <2>6. QED
      BY <1>4, <2>1, <2>2, <2>3, <2>4, <2>5 DEF Plans
  <1>5. CASE k = "create"
    <2>1. PlanStep(k, <<"check", "make", "repo", "plc", "rows", "created", "finish">>)
      BY <1>5, Steps DEF PlanStep, Goes, Plans, Creation, Updates
    <2>2. PlanStep(k, <<"make", "repo", "plc", "rows", "created", "finish">>)
      BY <1>5, Steps DEF PlanStep, Goes, Plans, Creation, Updates
    <2>3. PlanStep(k, <<"repo", "plc", "rows", "created", "finish">>)
      BY <1>5, Steps DEF PlanStep, Goes, Plans, Creation, Updates
    <2>4. PlanStep(k, <<"plc", "rows", "created", "finish">>)
      BY <1>5, Steps DEF PlanStep, Goes, Plans, Creation, Updates
    <2>5. PlanStep(k, <<"rows", "created", "finish">>)
      BY <1>5, Steps DEF PlanStep, Goes, Plans, Creation, Updates
    <2>6. PlanStep(k, <<"created", "finish">>)
      BY <1>5, Steps DEF PlanStep, Goes, Plans, Creation, Updates
    <2>7. PlanStep(k, <<"finish">>)
      BY <1>5, Steps DEF PlanStep, Goes, Plans, Creation, Updates
    <2>8. PlanStep(k, <<"event", "purge", "data", "actor", "store">>)
      BY <1>5, Steps DEF PlanStep, Goes, Plans, Creation, Updates
    <2>9. PlanStep(k, <<"purge", "data", "actor", "store">>)
      BY <1>5, Steps DEF PlanStep, Goes, Plans, Creation, Updates
    <2>10. PlanStep(k, <<"data", "actor", "store">>)
      BY <1>5, Steps DEF PlanStep, Goes, Plans, Creation, Updates
    <2>11. PlanStep(k, <<"actor", "store">>)
      BY <1>5, Steps DEF PlanStep, Goes, Plans, Creation, Updates
    <2>12. PlanStep(k, <<"store">>)
      BY <1>5, Steps DEF PlanStep, Goes, Plans, Creation, Updates
    <2>13. QED
      BY <1>5, <2>1, <2>2, <2>3, <2>4, <2>5, <2>6, <2>7, <2>8, <2>9, <2>10, <2>11, <2>12 DEF Plans
  <1>6. CASE k = "import"
    <2>1. PlanStep(k, <<"check", "make", "repo", "rows", "finish">>)
      BY <1>6, Steps DEF PlanStep, Goes, Plans, Creation, Updates
    <2>2. PlanStep(k, <<"make", "repo", "rows", "finish">>)
      BY <1>6, Steps DEF PlanStep, Goes, Plans, Creation, Updates
    <2>3. PlanStep(k, <<"repo", "rows", "finish">>)
      BY <1>6, Steps DEF PlanStep, Goes, Plans, Creation, Updates
    <2>4. PlanStep(k, <<"rows", "finish">>)
      BY <1>6, Steps DEF PlanStep, Goes, Plans, Creation, Updates
    <2>5. PlanStep(k, <<"finish">>)
      BY <1>6, Steps DEF PlanStep, Goes, Plans, Creation, Updates
    <2>6. PlanStep(k, <<"data", "actor", "store">>)
      BY <1>6, Steps DEF PlanStep, Goes, Plans, Creation, Updates
    <2>7. PlanStep(k, <<"actor", "store">>)
      BY <1>6, Steps DEF PlanStep, Goes, Plans, Creation, Updates
    <2>8. PlanStep(k, <<"store">>)
      BY <1>6, Steps DEF PlanStep, Goes, Plans, Creation, Updates
    <2>9. QED
      BY <1>6, <2>1, <2>2, <2>3, <2>4, <2>5, <2>6, <2>7, <2>8 DEF Plans
  <1>7. QED
    BY <1>1, <1>2, <1>3, <1>4, <1>5, <1>6, Kinds

LEMMA FirstSteps ==
  ASSUME NEW k \in Kind
  PROVE  /\ Program[k] \in Plans[k]
         /\ k \in Updates => Goes(Program[k], "update")
         /\ k = "status" => Goes(Program[k], "read")
         /\ k = "delete" => Goes(Program[k], "data")
         /\ k \in Creation => Goes(Program[k], "check")
  BY Kinds DEF Program, Plans, Goes, Updates, Creation

LEMMA RecoveryPlans ==
  /\ <<"store">> \in Plans["delete"] /\ <<"store">> \in Plans["create"]
  /\ <<"store">> \in Plans["import"]
  /\ <<"data", "actor", "store">> \in Plans["create"]
  /\ <<"data", "actor", "store">> \in Plans["import"]
  /\ <<"event", "purge", "data", "actor", "store">> \in Plans["create"]
  /\ Goes(<<"store">>, "store") /\ Goes(<<"data", "actor", "store">>, "data")
  /\ Goes(<<"event", "purge", "data", "actor", "store">>, "event")
  BY DEF Plans, Goes

\* What is known of an operation that is under way
LEMMA Plan ==
  ASSUME TypeOK, NEW o \in Op, PlanInv(o), UnderWay(o)
  PROVE  /\ op[o].kind \in Kind /\ op[o].kind # None /\ op[o].todo \in Plans[op[o].kind]
         /\ PlanStep(op[o].kind, op[o].todo)
  <1>1. op[o] \in Operation
    BY DEF TypeOK
  <1>2. op[o].kind \in Kind \cup {None}
    BY <1>1 DEF Operation
  <1>3. op[o].kind # None /\ op[o].todo \in Plans[op[o].kind]
    BY DEF PlanInv, UnderWay
  <1>4. QED
    BY <1>2, <1>3, PlanSteps

\* What is done after a failure, by the step that failed
LEMMA Recovers ==
  ASSUME TypeOK, NEW o \in Op, PlanInv(o), UnderWay(o), NEW k, k = op[o].kind,
         NEW r, r = Recovery(o)
  PROVE  /\ r \in Plans[k] \cup {<<>>} /\ r \in Seq(Step)
         /\ \/ r = <<>> /\ ~Filling(o) /\ ~In(o, {"event", "purge"})
            \/ Goes(r, "store") /\ k = "delete" /\ In(o, {"event", "purge"})
            \/ Goes(r, "store") /\ k \in Creation /\ In(o, {"repo", "plc", "rows", "data", "actor"})
            \/ Goes(r, "event") /\ k = "create" /\ At(o, "finish")
            \/ Goes(r, "data") /\ k \in Creation
               /\ In(o, {"created", "finish", "event", "purge"})
  <1>1. k \in Kind /\ PlanStep(k, op[o].todo)
    BY Plan
  <1>2. \A s, t : At(o, s) /\ At(o, t) => s = t
    BY DEF At
  <1>3. In(o, {"event", "purge"}) => k \in {"create", "delete"}
    BY <1>1 DEF PlanStep, In, At
  <1>4. /\ r \in Plans[k] \cup {<<>>}
        /\ \/ r = <<>> /\ ~Filling(o) /\ ~In(o, {"event", "purge"})
           \/ Goes(r, "store") /\ k = "delete" /\ In(o, {"event", "purge"})
           \/ Goes(r, "store") /\ k \in Creation /\ In(o, {"repo", "plc", "rows", "data", "actor"})
           \/ Goes(r, "event") /\ k = "create" /\ At(o, "finish")
           \/ Goes(r, "data") /\ k \in Creation
              /\ In(o, {"created", "finish", "event", "purge"})
    <2>1. CASE k = "delete"
      BY <2>1, <1>3, RecoveryPlans DEF Recovery, In, Filling, Creation
    <2>2. CASE k = "create" /\ At(o, "finish")
      <3>1. r = <<"event", "purge", "data", "actor", "store">>
        BY <2>2, <1>2 DEF Recovery, Creation
      <3>2. QED
        BY <2>2, <3>1, RecoveryPlans DEF Creation
    <2>3. CASE \/ k = "create" /\ \E s \in {"created", "event", "purge"} : At(o, s)
               \/ k = "import" /\ At(o, "finish")
      <3>1. r = <<"data", "actor", "store">>
        BY <2>3, <1>2 DEF Recovery, Creation
      <3>2. QED
        BY <2>3, <3>1, RecoveryPlans DEF Creation, In
    <2>4. CASE k \in Creation /\ In(o, {"repo", "plc", "rows", "data", "actor"})
      <3>1. r = <<"store">>
        BY <2>4, <1>2 DEF Recovery, In, Creation
      <3>2. QED
        BY <2>4, <3>1, RecoveryPlans DEF Creation
    <2>5. CASE k # "delete" /\ ~(k \in Creation /\ In(o, {"created", "finish", "event", "purge",
                 "repo", "plc", "rows", "data", "actor"}))
      <3>1. r = <<>> /\ ~Filling(o)
        BY <2>5 DEF Recovery, In, Creation, Filling
      <3>2. ~In(o, {"event", "purge"})
        BY <1>3, <2>5 DEF In, Creation
      <3>3. QED
        BY <3>1, <3>2
    <2>6. k = "import" => ~At(o, "created")
      BY <1>1 DEF PlanStep, At
    <2>7. QED
      BY <2>1, <2>2, <2>3, <2>4, <2>5, <2>6, <1>3 DEF In, Creation
  <1>5. r \in Seq(Step)
    <2>1. r \in Plans[k] => r \in Seq(Step)
      BY <1>1, PlanSteps DEF PlanStep
    <2>2. <<>> \in Seq(Step)
      OBVIOUS
    <2>3. QED
      BY <1>4, <2>1, <2>2
  <1>6. QED
    BY <1>4, <1>5

-----------------------------------------------------------------------------
(* Steps of an operation *)

\* No other operation changes
Others(o) == op' \in [Op -> Operation] /\ \A p \in Op \ {o} : op'[p] = op[p]

\* The operation has this to do now
Moves(o, t) ==
    /\ Others(o)
    /\ op'[o].kind = op[o].kind /\ op'[o].todo = t /\ op'[o].met = op[o].met

Remembers(o) == op'[o].status = op[o].status /\ op'[o].overtaken = op[o].overtaken

\* An operation as its parts
LEMMA Fields ==
  ASSUME NEW r \in Operation
  PROVE  \E k \in Kind \cup {None}, t \in Seq(Step), s \in StatusName \cup {None},
            f \in BOOLEAN, v \in BOOLEAN, m \in BOOLEAN :
            r = [kind |-> k, todo |-> t, status |-> s, failed |-> f, overtaken |-> v, met |-> m]
  BY DEF Operation

LEMMA DoneMoves ==
  ASSUME TypeOK, NEW o \in Op, PlanInv(o), UnderWay(o), Done(o)
  PROVE  Moves(o, Tail(op[o].todo)) /\ Remembers(o)
  <1>1. op \in [Op -> Operation]
    BY DEF TypeOK
  <1>2. PICK k \in Kind \cup {None}, t \in Seq(Step), s \in StatusName \cup {None},
             f \in BOOLEAN, v \in BOOLEAN, m \in BOOLEAN :
             op[o] = [kind |-> k, todo |-> t, status |-> s, failed |-> f, overtaken |-> v,
                      met |-> m]
    BY <1>1, Fields
  <1>3. PICK u : u = Tail(t)
    OBVIOUS
  <1>4. u \in Seq(Step)
    BY <1>2, <1>3 DEF UnderWay
  <1>5. op'[o] = [kind |-> k, todo |-> u, status |-> s, failed |-> f, overtaken |-> v,
                  met |-> m]
    <2>1. op'[o] = [op[o] EXCEPT !.todo = Tail(op[o].todo)]
      BY <1>1 DEF Done
    <2>2. op[o].todo = t
      BY <1>2
    <2>3. op'[o] = [op[o] EXCEPT !.todo = u]
      BY <2>1, <2>2, <1>3
    <2>4. QED
      BY <1>2, <2>3
  <1>6. op'[o] \in Operation
    BY <1>4, <1>5 DEF Operation
  <1>7. Others(o)
    BY <1>1, <1>6 DEF Done, Others
  <1>8. QED
    BY <1>2, <1>3, <1>5, <1>7 DEF Moves, Remembers

LEMMA RefuseMoves ==
  ASSUME TypeOK, NEW o \in Op, Refuse(o)
  PROVE  Moves(o, <<>>) /\ Remembers(o)
  <1>1. op \in [Op -> Operation]
    BY DEF TypeOK
  <1>2. PICK k \in Kind \cup {None}, t \in Seq(Step), s \in StatusName \cup {None},
             f \in BOOLEAN, v \in BOOLEAN, m \in BOOLEAN :
             op[o] = [kind |-> k, todo |-> t, status |-> s, failed |-> f, overtaken |-> v,
                      met |-> m]
    BY <1>1, Fields
  <1>3. op'[o] = [kind |-> k, todo |-> <<>>, status |-> s, failed |-> f, overtaken |-> v,
                  met |-> m]
    BY <1>1, <1>2 DEF Refuse
  <1>4. op'[o] \in Operation
    BY <1>3 DEF Operation
  <1>5. Others(o)
    BY <1>1, <1>4 DEF Refuse, Others
  <1>6. QED
    BY <1>2, <1>3, <1>5 DEF Moves, Remembers

LEMMA FallbackMoves ==
  ASSUME TypeOK, NEW o \in Op, PlanInv(o), UnderWay(o), Fallback(o),
         NEW r, r = Recovery(o)
  PROVE  Moves(o, r) /\ Remembers(o)
  <1>1. op \in [Op -> Operation]
    BY DEF TypeOK
  <1>2. PICK k \in Kind \cup {None}, t \in Seq(Step), s \in StatusName \cup {None},
             f \in BOOLEAN, v \in BOOLEAN, m \in BOOLEAN :
             op[o] = [kind |-> k, todo |-> t, status |-> s, failed |-> f, overtaken |-> v,
                      met |-> m]
    BY <1>1, Fields
  <1>3. r \in Seq(Step)
    BY Recovers
  <1>4. op' = [op EXCEPT ![o].todo = r, ![o].failed = TRUE]
    BY DEF Fallback
  <1>5. op'[o] = [kind |-> k, todo |-> r, status |-> s, failed |-> TRUE, overtaken |-> v,
                  met |-> m]
    <2>1. op'[o] = [[op[o] EXCEPT !.todo = r] EXCEPT !.failed = TRUE]
      BY <1>1, <1>4
    <2>2. [op[o] EXCEPT !.todo = r] =
            [kind |-> k, todo |-> r, status |-> s, failed |-> f, overtaken |-> v, met |-> m]
      BY <1>2
    <2>3. QED
      BY <2>1, <2>2
  <1>6. op'[o] \in Operation
    BY <1>3, <1>5 DEF Operation
  <1>7. Others(o)
    BY <1>1, <1>4, <1>6 DEF Others
  <1>8. QED
    BY <1>2, <1>5, <1>7 DEF Moves, Remembers

\* A step that changes the status
Overtakes(o) ==
    /\ op' \in [Op -> Operation]
    /\ \A p \in Op :
          op'[p].kind = op[p].kind /\ op'[p].met = op[p].met /\ op'[p].status = op[p].status
    /\ op'[o].todo = Tail(op[o].todo) /\ ~op'[o].overtaken
    /\ \A p \in Op \ {o} :
          op'[p].todo = op[p].todo /\ (UnderWay(p) => op'[p].overtaken)

LEMMA DoneAndOvertakes ==
  ASSUME TypeOK, NEW o \in Op, PlanInv(o), UnderWay(o), DoneAndOvertake(o)
  PROVE  Overtakes(o)
  <1>1. op \in [Op -> Operation]
    BY DEF TypeOK
  <1>2. /\ op'[o] \in Operation /\ op'[o].kind = op[o].kind /\ op'[o].met = op[o].met
        /\ op'[o].status = op[o].status
        /\ op'[o].todo = Tail(op[o].todo) /\ ~op'[o].overtaken
    <2>1. PICK k \in Kind \cup {None}, t \in Seq(Step), s \in StatusName \cup {None},
               f \in BOOLEAN, v \in BOOLEAN, m \in BOOLEAN :
               op[o] = [kind |-> k, todo |-> t, status |-> s, failed |-> f, overtaken |-> v,
                        met |-> m]
      BY <1>1, Fields
    <2>2. PICK u : u = Tail(t)
      OBVIOUS
    <2>3. u \in Seq(Step)
      BY <2>1, <2>2 DEF UnderWay
    <2>4. op'[o] = [kind |-> k, todo |-> u, status |-> s, failed |-> f, overtaken |-> FALSE,
                    met |-> m]
      <3>1. op'[o] = [op[o] EXCEPT !.todo = Tail(op[o].todo), !.overtaken = FALSE]
        BY DEF DoneAndOvertake
      <3>2. op[o].todo = t
        BY <2>1
      <3>3. op'[o] = [[op[o] EXCEPT !.todo = u] EXCEPT !.overtaken = FALSE]
        BY <3>1, <3>2, <2>2
      <3>4. [op[o] EXCEPT !.todo = u] =
              [kind |-> k, todo |-> u, status |-> s, failed |-> f, overtaken |-> v, met |-> m]
        BY <2>1
      <3>5. QED
        BY <3>3, <3>4
    <2>5. QED
      BY <2>1, <2>2, <2>3, <2>4 DEF Operation
  <1>3. ASSUME NEW p \in Op \ {o}
        PROVE  /\ op'[p] \in Operation /\ op'[p].kind = op[p].kind /\ op'[p].met = op[p].met
               /\ op'[p].status = op[p].status
               /\ op'[p].todo = op[p].todo /\ (UnderWay(p) => op'[p].overtaken)
    <2>1. PICK k \in Kind \cup {None}, t \in Seq(Step), s \in StatusName \cup {None},
               f \in BOOLEAN, v \in BOOLEAN, m \in BOOLEAN :
               op[p] = [kind |-> k, todo |-> t, status |-> s, failed |-> f, overtaken |-> v,
                        met |-> m]
      BY <1>1, Fields
    <2>2. PICK b \in BOOLEAN : b <=> UnderWay(p)
      OBVIOUS
    <2>3. op'[p] = [op[p] EXCEPT !.overtaken = UnderWay(p)]
      BY DEF DoneAndOvertake
    <2>4. op'[p] = [kind |-> k, todo |-> t, status |-> s, failed |-> f, overtaken |-> b,
                    met |-> m]
      BY <2>1, <2>2, <2>3 DEF UnderWay
    <2>5. QED
      BY <2>1, <2>2, <2>4 DEF Operation
  <1>4. op' \in [Op -> Operation]
    BY <1>2, <1>3 DEF DoneAndOvertake
  <1>5. QED
    BY <1>2, <1>3, <1>4 DEF Overtakes

-----------------------------------------------------------------------------
(* What a step leaves alone *)

\* An operation whose program does not change
LEMMA Stays ==
  ASSUME NEW p, op'[p].kind = op[p].kind, op'[p].todo = op[p].todo
  PROVE  /\ UnderWay(p)' <=> UnderWay(p)
         /\ \A s : At(p, s)' <=> At(p, s)
         /\ \A S : In(p, S)' <=> In(p, S)
         /\ Filling(p)' <=> Filling(p)
         /\ Destroyer(p)' <=> Destroyer(p)
         /\ PlanInv(p)' <=> PlanInv(p)
  <1>1. UnderWay(p)' <=> UnderWay(p)
    BY DEF UnderWay
  <1>2. \A s : At(p, s)' <=> At(p, s)
    BY DEF UnderWay, At
  <1>3. \A S : In(p, S)' <=> In(p, S)
    BY <1>2 DEF In
  <1>4. Filling(p)' <=> Filling(p)
    BY <1>2 DEF Filling
  <1>5. Destroyer(p)' <=> Destroyer(p)
    BY <1>1, <1>3, <1>4 DEF Destroyer
  <1>6. PlanInv(p)' <=> PlanInv(p)
    BY DEF PlanInv
  <1>7. QED
    BY <1>1, <1>2, <1>3, <1>4, <1>5, <1>6

\* A step that leaves the account alone, and all operations but one
LEMMA CalmKeeps ==
  ASSUME IInv, NEW o \in Op, TypeOK', Others(o),
         UNCHANGED <<actor, data, store>>, soiled => soiled', hasty => hasty',
         PlanInv(o)', StoreInv(o)', ActorInv(o)', DataInv(o)', ReadInv(o)',
         Filling(o)' => Filling(o),
         \A p \in Op \ {o} : Filling(p) /\ UnderWay(o)' => op'[o].met,
         Destroyer(o) => soiled' \/ (Destroyer(o)' /\ op'[o].met = op[o].met),
         ToldInv'
  PROVE  IInv'
  <1>1. \A p \in Op \ {o} : op'[p] = op[p] /\ (Filling(p)' <=> Filling(p))
          /\ (UnderWay(p)' <=> UnderWay(p)) /\ (Destroyer(p)' <=> Destroyer(p)) /\ PlanInv(p)'
    BY Stays DEF Others, IInv
  <1>2. \A p \in Op : PlanInv(p)'
    BY <1>1
  <1>3. MetInv'
    BY <1>1 DEF MetInv, IInv
  <1>4. ASSUME NEW p \in Op \ {o}
        PROVE  StoreInv(p)' /\ ActorInv(p)' /\ DataInv(p)' /\ ReadInv(p)'
    <2>1. /\ \A s : At(p, s)' <=> At(p, s)
          /\ \A S : In(p, S)' <=> In(p, S)
          /\ Filling(p)' <=> Filling(p)
      BY <1>1, Stays
    <2>2. Status' = Status
      BY DEF Status
    <2>3. StoreInv(p) /\ ActorInv(p) /\ DataInv(p) /\ ReadInv(p)
      BY DEF IInv
    <2>4. StoreInv(p)' /\ ActorInv(p)' /\ DataInv(p)'
      BY <1>1, <2>1, <2>3 DEF StoreInv, ActorInv, DataInv
    <2>5. ReadInv(p)'
      BY <1>1, <2>1, <2>2, <2>3 DEF ReadInv
    <2>6. QED
      BY <2>4, <2>5
  <1>5. AccountHasStore'
    BY DEF AccountHasStore, IInv
  <1>6. LeftInv'
    BY <1>1 DEF LeftInv, IInv
  <1>7. QED
    BY <1>2, <1>3, <1>4, <1>5, <1>6 DEF IInv

\* Who will announce the status still will
LEMMA ToldKeeps ==
  ASSUME ToldInv, NEW o \in Op, UNCHANGED <<actor, events>>, untold => untold',
         hasty => hasty',
         \A p \in Op \ {o} : op'[p].kind = op[p].kind /\ op'[p].todo = op[p].todo,
         Debtor(o) => untold' \/ hasty' \/ Debtor(o)'
  PROVE  ToldInv'
  <1>1. Told' <=> Told
    BY DEF Told, Status
  <1>2. \A p \in Op \ {o} : Debtor(p) => Debtor(p)'
    BY Stays DEF Debtor
  <1>3. QED
    BY <1>1, <1>2 DEF ToldInv

\* Where an operation is, before a step ...
LEMMA Here ==
  ASSUME IInv, NEW o \in Op, NEW s, At(o, s)
  PROVE  /\ TypeOK /\ PlanInv(o) /\ UnderWay(o)
         /\ StoreInv(o) /\ ActorInv(o) /\ DataInv(o) /\ ReadInv(o) /\ ToldInv
         /\ op[o].kind \in Kind /\ PlanStep(op[o].kind, op[o].todo) /\ Head(op[o].todo) = s
         /\ \A z : At(o, z) <=> z = s
         /\ \A S : In(o, S) <=> s \in S
  <1>1. TypeOK /\ PlanInv(o) /\ UnderWay(o) /\ Head(op[o].todo) = s
    BY DEF IInv, At
  <1>2. op[o].kind \in Kind /\ PlanStep(op[o].kind, op[o].todo)
    BY <1>1, Plan
  <1>3. \A z : At(o, z) <=> z = s
    BY <1>1 DEF At
  <1>4. \A S : In(o, S) <=> s \in S
    BY <1>3 DEF In
  <1>5. StoreInv(o) /\ ActorInv(o) /\ DataInv(o) /\ ReadInv(o) /\ ToldInv
    BY DEF IInv
  <1>6. QED
    BY <1>1, <1>2, <1>3, <1>4, <1>5

\* ... and after it
LEMMA There ==
  ASSUME NEW o, NEW t, op'[o].todo = t
  PROVE  /\ t = <<>> =>
              /\ ~UnderWay(o)' /\ (\A z : ~At(o, z)') /\ (\A S : ~In(o, S)')
              /\ ~Filling(o)' /\ ~Destroyer(o)'
         /\ \A s : Goes(t, s) =>
              UnderWay(o)' /\ (\A z : At(o, z)' <=> z = s) /\ \A S : In(o, S)' <=> s \in S
  <1>1. ASSUME t = <<>>
        PROVE  /\ ~UnderWay(o)' /\ (\A z : ~At(o, z)') /\ (\A S : ~In(o, S)')
               /\ ~Filling(o)' /\ ~Destroyer(o)'
    <2>1. ~UnderWay(o)' /\ (\A z : ~At(o, z)')
      BY <1>1 DEF UnderWay, At
    <2>2. ~Filling(o)' /\ (\A S : ~In(o, S)')
      BY <2>1 DEF Filling, In
    <2>3. QED
      BY <2>1, <2>2 DEF Destroyer
  <1>2. ASSUME NEW s, Goes(t, s)
        PROVE  UnderWay(o)' /\ (\A z : At(o, z)' <=> z = s) /\ \A S : In(o, S)' <=> s \in S
    <2>1. UnderWay(o)' /\ (\A z : At(o, z)' <=> z = s)
      BY <1>2 DEF UnderWay, At, Goes
    <2>2. QED
      BY <2>1 DEF In
  <1>3. QED
    BY <1>1, <1>2

\* The operation goes on with its plan, or with nothing
LEMMA PlanKeeps ==
  ASSUME TypeOK, NEW o \in Op, PlanInv(o), UnderWay(o), NEW t, op'[o].todo = t,
         op'[o].kind = op[o].kind,
         t = <<>> \/ t = Tail(op[o].todo) \/ t = Recovery(o)
  PROVE  PlanInv(o)'
  <1>1. op[o].kind \in Kind /\ op[o].kind # None /\ PlanStep(op[o].kind, op[o].todo)
    BY Plan
  <1>2. Recovery(o) \in Plans[op[o].kind] \cup {<<>>}
    BY Recovers
  <1>3. t \in Plans[op[o].kind] \cup {<<>>}
    BY <1>1, <1>2 DEF PlanStep
  <1>4. QED
    BY <1>1, <1>3 DEF PlanInv

-----------------------------------------------------------------------------
(* Steps that leave the account alone *)

LEMMA StartKeeps ==
  ASSUME IInv, NEW o \in Op, NEW kind \in Kind, Start(o, kind)
  PROVE  IInv'
  <1>1. TypeOK /\ PlanInv(o) /\ op[o].kind = None /\ op \in [Op -> Operation] /\ ToldInv
    BY DEF IInv, Start, TypeOK
  <1>2. ~UnderWay(o) /\ kind # None
    BY <1>1, Kinds DEF PlanInv, UnderWay
  <1>3. PICK m \in BOOLEAN : m <=> \E p \in Op : Filling(p)
    OBVIOUS
  <1>4. PICK t \in Plans[kind] : t = Program[kind]
    BY FirstSteps
  <1>5. t \in Seq(Step) /\ t # <<>>
    BY <1>4, PlanSteps DEF PlanStep
  <1>6. op'[o] = [kind |-> kind, todo |-> t, status |-> None, failed |-> FALSE,
                  overtaken |-> FALSE, met |-> m]
    <2>1. op'[o] = [Idle EXCEPT !.kind = kind, !.todo = Program[kind],
                                !.met = \E p \in Op : Filling(p)]
      BY <1>1 DEF Start
    <2>2. op'[o] = [[[Idle EXCEPT !.kind = kind] EXCEPT !.todo = t] EXCEPT !.met = m]
      BY <2>1, <1>3, <1>4
    <2>3. PICK f \in BOOLEAN : f = FALSE
      OBVIOUS
    <2>4. Idle = [kind |-> None, todo |-> <<>>, status |-> None, failed |-> f,
                  overtaken |-> f, met |-> f]
      BY <2>3 DEF Idle
    <2>5. [Idle EXCEPT !.kind = kind] = [kind |-> kind, todo |-> <<>>, status |-> None,
              failed |-> f, overtaken |-> f, met |-> f]
      BY <2>4
    <2>6. [[Idle EXCEPT !.kind = kind] EXCEPT !.todo = t] =
              [kind |-> kind, todo |-> t, status |-> None, failed |-> f,
               overtaken |-> f, met |-> f]
      <3>1. PICK e : e = <<>>
        OBVIOUS
      <3>2. PICK q : q = [Idle EXCEPT !.kind = kind]
        OBVIOUS
      <3>3. q = [kind |-> kind, todo |-> e, status |-> None, failed |-> f,
                 overtaken |-> f, met |-> f]
        BY <2>5, <3>1, <3>2
      <3>4. [q EXCEPT !.todo = t] = [kind |-> kind, todo |-> t, status |-> None,
                 failed |-> f, overtaken |-> f, met |-> f]
        BY <3>3
      <3>5. QED
        BY <3>2, <3>4
    <2>7. op'[o] = [kind |-> kind, todo |-> t, status |-> None, failed |-> f,
                    overtaken |-> f, met |-> m]
      BY <2>2, <2>6
    <2>8. QED
      BY <2>3, <2>7
  <1>7. op'[o] \in Operation
    BY <1>5, <1>6 DEF Operation
  <1>8. Others(o)
    BY <1>1, <1>7 DEF Start, Others
  <1>9. TypeOK'
    BY <1>1, <1>8 DEF Start, TypeOK, Others
  <1>10. \E s \in {"update", "read", "data", "check"} :
            /\ Goes(t, s) /\ (s = "data" => kind = "delete") /\ (s = "read" => kind = "status")
            /\ (s = "update" => kind \in Updates) /\ (s = "check" => kind \in Creation)
    BY <1>4, Kinds, FirstSteps DEF Updates, Creation
  <1>11. PICK s \in {"update", "read", "data", "check"} :
            /\ Goes(t, s) /\ (s = "data" => kind = "delete") /\ (s = "read" => kind = "status")
            /\ (s = "update" => kind \in Updates) /\ (s = "check" => kind \in Creation)
    BY <1>10
  <1>12. UnderWay(o)' /\ (\A z : At(o, z)' <=> z = s) /\ \A S : In(o, S)' <=> s \in S
    <2>1. op'[o].todo = t
      BY <1>6
    <2>2. QED
      BY <1>11, <2>1, There
  <1>13. PlanInv(o)'
    BY <1>2, <1>4, <1>6 DEF PlanInv
  <1>14. StoreInv(o)' /\ ActorInv(o)' /\ DataInv(o)' /\ ReadInv(o)'
    BY <1>6, <1>11, <1>12 DEF StoreInv, ActorInv, DataInv, ReadInv, Filling
  <1>15. ~Filling(o)' /\ ~Destroyer(o)
    BY <1>2, <1>11, <1>12 DEF Filling, Destroyer, In, At
  <1>16. \A p \in Op \ {o} : Filling(p) => op'[o].met
    BY <1>3, <1>6
  <1>17. ToldInv'
    <2>1. ~Debtor(o)
      BY <1>2 DEF Debtor, In, At
    <2>2. QED
      BY <1>1, <1>8, <2>1, ToldKeeps DEF Start, Others
  <1>18. QED
    BY <1>8, <1>9, <1>13, <1>14, <1>15, <1>16, <1>17, CalmKeeps DEF Start

\* A step of one operation that leaves the account alone, and does not make
\* of the operation what it was not
LEMMA MoveKeeps ==
  ASSUME IInv, NEW o \in Op, UnderWay(o), TypeOK', NEW t, Moves(o, t),
         t = <<>> \/ t = Tail(op[o].todo) \/ t = Recovery(o),
         UNCHANGED <<actor, data, store>>, soiled => soiled', hasty => hasty',
         StoreInv(o)', ActorInv(o)', DataInv(o)', ReadInv(o)',
         Filling(o)' => Filling(o),
         Destroyer(o) => soiled' \/ Destroyer(o)',
         ToldInv'
  PROVE  IInv'
  <1>1. PlanInv(o)'
    BY PlanKeeps DEF Moves, IInv
  <1>2. \A p \in Op \ {o} : Filling(p) => op'[o].met
    BY DEF IInv, MetInv, Moves
  <1>3. QED
    BY <1>1, <1>2, CalmKeeps DEF Moves

LEMMA ReadKeeps ==
  ASSUME IInv, NEW o \in Op, Read(o)
  PROVE  IInv'
  <1>1. At(o, "read")
    BY DEF Read
  <1>2. /\ TypeOK /\ PlanInv(o) /\ UnderWay(o) /\ ToldInv
        /\ op[o].kind \in Updates \cup {"status"}
        /\ Goes(Tail(op[o].todo), IF op[o].kind = "activate" THEN "sync" ELSE "announce")
        /\ \A z : At(o, z) <=> z = "read"
        /\ \A S : In(o, S) <=> "read" \in S
    BY <1>1, Here DEF PlanStep
  <1>3. ~Filling(o) /\ ~Destroyer(o)
    BY <1>2 DEF Filling, Destroyer, Updates, Creation
  <1>4. op \in [Op -> Operation] /\ Status \in StatusName
    BY <1>2 DEF TypeOK, Status, StatusName
  <1>5. CASE Status = "deleted" /\ op[o].kind \in {"deactivate", "activate"}
    <2>1. Moves(o, <<>>)
      BY <1>2, <1>5, RefuseMoves DEF Read
    <2>2. /\ ~UnderWay(o)' /\ (\A z : ~At(o, z)') /\ (\A S : ~In(o, S)')
          /\ ~Filling(o)' /\ ~Destroyer(o)'
      BY <2>1, There DEF Moves
    <2>3. TypeOK'
      BY <1>2, <2>1 DEF Read, TypeOK, Moves, Others
    <2>4. StoreInv(o)' /\ ActorInv(o)' /\ DataInv(o)' /\ ReadInv(o)'
      BY <2>2 DEF StoreInv, ActorInv, DataInv, ReadInv
    <2>5. ~Debtor(o)
      <3>1. actor = None
        BY <1>2, <1>5 DEF Status, TypeOK
      <3>2. QED
        BY <1>2, <1>5, <3>1 DEF Debtor
    <2>6. ToldInv'
      BY <1>2, <2>1, <2>5, ToldKeeps DEF Read, Moves, Others
    <2>7. QED
      BY <1>2, <1>3, <2>1, <2>2, <2>3, <2>4, <2>6, MoveKeeps DEF Read
  <1>6. CASE ~(Status = "deleted" /\ op[o].kind \in {"deactivate", "activate"})
    <2>1. PICK w \in StatusName : w = Status
      BY <1>4
    <2>2. PICK u : u = Tail(op[o].todo)
      OBVIOUS
    <2>3. u \in Seq(Step)
      BY <1>2, <1>4, <2>2 DEF UnderWay, Operation
    <2>4. op' = [op EXCEPT ![o].todo = u, ![o].status = w, ![o].overtaken = FALSE]
      BY <1>6, <2>1, <2>2 DEF Read
    <2>5. /\ op'[o] \in Operation /\ op'[o].kind = op[o].kind /\ op'[o].met = op[o].met
          /\ op'[o].todo = u /\ op'[o].status = w /\ ~op'[o].overtaken
      <3>1. op'[o] = [[[op[o] EXCEPT !.todo = u] EXCEPT !.status = w] EXCEPT !.overtaken = FALSE]
        BY <1>4, <2>4
      <3>2. PICK k \in Kind \cup {None}, t \in Seq(Step), s \in StatusName \cup {None},
                 f \in BOOLEAN, v \in BOOLEAN, m \in BOOLEAN :
                 op[o] = [kind |-> k, todo |-> t, status |-> s, failed |-> f, overtaken |-> v,
                          met |-> m]
        BY <1>4, Fields
      <3>3. PICK q : q = [op[o] EXCEPT !.todo = u]
        OBVIOUS
      <3>4. q = [kind |-> k, todo |-> u, status |-> s, failed |-> f, overtaken |-> v,
                 met |-> m]
        BY <3>2, <3>3
      <3>5. PICK y : y = [q EXCEPT !.status = w]
        OBVIOUS
      <3>6. y = [kind |-> k, todo |-> u, status |-> w, failed |-> f, overtaken |-> v,
                 met |-> m]
        BY <3>4, <3>5
      <3>7. op'[o] = [kind |-> k, todo |-> u, status |-> w, failed |-> f,
                      overtaken |-> FALSE, met |-> m]
        <4>1. op'[o] = [y EXCEPT !.overtaken = FALSE]
          BY <3>1, <3>3, <3>5
        <4>2. QED
          BY <3>6, <4>1
      <3>8. QED
        BY <2>3, <3>2, <3>7 DEF Operation
    <2>6. Moves(o, u)
      BY <1>4, <2>4, <2>5 DEF Moves, Others
    <2>7. PICK z \in {"sync", "announce"} : Goes(u, z)
      BY <1>2, <2>2
    <2>8. UnderWay(o)' /\ (\A x : At(o, x)' <=> x = z) /\ \A S : In(o, S)' <=> z \in S
      BY <2>5, <2>7, There
    <2>9. TypeOK'
      BY <1>2, <2>6 DEF Read, TypeOK, Moves, Others
    <2>10. Status' = w
      BY <2>1 DEF Status, Read
    <2>11. StoreInv(o)' /\ ActorInv(o)' /\ DataInv(o)' /\ ReadInv(o)'
      BY <1>2, <2>5, <2>8, <2>10 DEF StoreInv, ActorInv, DataInv, ReadInv, Updates,
         Creation, Filling
    <2>12. ~Filling(o)'
      BY <2>8 DEF Filling
    <2>13. Debtor(o)'
      BY <2>8 DEF Debtor
    <2>14. ToldInv'
      BY <1>2, <2>6, <2>13, ToldKeeps DEF Read, Moves, Others
    <2>15. QED
      BY <1>2, <1>3, <2>2, <2>6, <2>9, <2>11, <2>12, <2>14, MoveKeeps DEF Read
  <1>7. QED
    BY <1>5, <1>6

LEMMA ReadStoreKeeps ==
  ASSUME IInv, NEW o \in Op, ReadStore(o)
  PROVE  IInv'
  <1>1. At(o, "sync")
    BY DEF ReadStore
  <1>2. /\ TypeOK /\ PlanInv(o) /\ UnderWay(o) /\ ToldInv /\ ReadInv(o)
        /\ op[o].kind = "activate" /\ Goes(Tail(op[o].todo), "announce")
        /\ \A z : At(o, z) <=> z = "sync"
        /\ \A S : In(o, S) <=> "sync" \in S
    BY <1>1, Here DEF PlanStep
  <1>3. ~Filling(o) /\ ~Destroyer(o)
    BY <1>2 DEF Filling, Destroyer, Creation
  <1>4. CASE store = "repo"
    <2>1. Moves(o, Tail(op[o].todo)) /\ Remembers(o)
      BY <1>2, <1>4, DoneMoves DEF ReadStore
    <2>2. UnderWay(o)' /\ (\A z : At(o, z)' <=> z = "announce")
          /\ \A S : In(o, S)' <=> "announce" \in S
      BY <1>2, <2>1, There DEF Moves
    <2>3. TypeOK'
      BY <1>2, <1>4, <2>1 DEF ReadStore, TypeOK, Moves, Others
    <2>4. Status' = Status
      BY DEF Status, ReadStore
    <2>5. StoreInv(o)' /\ ActorInv(o)' /\ DataInv(o)' /\ ReadInv(o)'
      BY <1>2, <2>1, <2>2, <2>4 DEF StoreInv, ActorInv, DataInv, ReadInv, Moves, Remembers,
         Creation, Filling
    <2>6. ~Filling(o)' /\ Debtor(o)'
      BY <2>2 DEF Filling, Debtor
    <2>7. ToldInv'
      BY <1>2, <1>4, <2>1, <2>6, ToldKeeps DEF ReadStore, Moves, Others
    <2>8. QED
      BY <1>2, <1>3, <2>1, <2>3, <2>5, <2>6, <2>7, MoveKeeps DEF ReadStore
  <1>5. CASE store # "repo"
    <2>1. Moves(o, <<>>)
      BY <1>2, <1>5, RefuseMoves DEF ReadStore
    <2>2. /\ ~UnderWay(o)' /\ (\A z : ~At(o, z)') /\ (\A S : ~In(o, S)')
          /\ ~Filling(o)' /\ ~Destroyer(o)'
      BY <2>1, There DEF Moves
    <2>3. TypeOK'
      BY <1>2, <1>5, <2>1 DEF ReadStore, TypeOK, Moves, Others
    <2>4. StoreInv(o)' /\ ActorInv(o)' /\ DataInv(o)' /\ ReadInv(o)'
      BY <2>2 DEF StoreInv, ActorInv, DataInv, ReadInv
    <2>5. ToldInv'
      BY <1>5 DEF ReadStore, ToldInv
    <2>6. QED
      BY <1>2, <1>3, <2>1, <2>2, <2>3, <2>4, <2>5, MoveKeeps DEF ReadStore
  <1>6. QED
    BY <1>4, <1>5

\* An event of an operation that was not overtaken tells the status
LEMMA Telling ==
  ASSUME TypeOK, NEW o \in Op, NEW s \in StatusName, Tell(o, s), UNCHANGED actor
  PROVE  /\ events' \in Seq(Event) /\ untold' \in BOOLEAN
         /\ (~op[o].overtaken => s = Status) => untold' \/ Told'
  <1>1. events \in Seq(Event) /\ op[o] \in Operation
    BY DEF TypeOK
  <1>2. PICK e : e = [by |-> o, status |-> s]
    OBVIOUS
  <1>3. e \in Event /\ e.status = s
    BY <1>2 DEF Event
  <1>4. events' = Append(events, e)
    BY <1>2 DEF Tell
  <1>5. events' \in Seq(Event) /\ Last(events') = e
    BY <1>1, <1>3, <1>4 DEF Last
  <1>6. untold' = op[o].overtaken /\ untold' \in BOOLEAN
    BY <1>1 DEF Operation, Tell
  <1>7. Status' = Status
    BY DEF Status
  <1>8. (~op[o].overtaken => s = Status) => untold' \/ Told'
    BY <1>3, <1>5, <1>6, <1>7 DEF Told
  <1>9. QED
    BY <1>5, <1>6, <1>8

LEMMA AnnounceKeeps ==
  ASSUME IInv, NEW o \in Op, Announce(o)
  PROVE  IInv'
  <1>1. At(o, "announce")
    BY DEF Announce
  <1>2. /\ TypeOK /\ PlanInv(o) /\ UnderWay(o) /\ ReadInv(o)
        /\ op[o].kind \in Updates \cup {"status"} /\ Tail(op[o].todo) = <<>>
        /\ \A z : At(o, z) <=> z = "announce"
        /\ \A S : In(o, S) <=> "announce" \in S
    BY <1>1, Here DEF PlanStep
  <1>3. ~Filling(o) /\ ~Destroyer(o)
    BY <1>2 DEF Filling, Destroyer, Updates, Creation
  <1>4. Moves(o, <<>>)
    BY <1>2, DoneMoves DEF Announce
  <1>5. /\ ~UnderWay(o)' /\ (\A z : ~At(o, z)') /\ (\A S : ~In(o, S)')
        /\ ~Filling(o)' /\ ~Destroyer(o)'
    BY <1>4, There DEF Moves
  <1>6. op[o].status \in StatusName /\ (~op[o].overtaken => op[o].status = Status)
    BY <1>2 DEF ReadInv
  <1>7. events' \in Seq(Event) /\ untold' \in BOOLEAN /\ (untold' \/ Told')
    BY <1>2, <1>6, Telling DEF Announce
  <1>8. TypeOK'
    BY <1>2, <1>4, <1>7 DEF Announce, TypeOK, Moves, Others
  <1>9. StoreInv(o)' /\ ActorInv(o)' /\ DataInv(o)' /\ ReadInv(o)'
    BY <1>5 DEF StoreInv, ActorInv, DataInv, ReadInv
  <1>10. ToldInv'
    BY <1>7 DEF ToldInv
  <1>11. QED
    BY <1>2, <1>3, <1>4, <1>5, <1>8, <1>9, <1>10, MoveKeeps DEF Announce

LEMMA RefusedUpdateKeeps ==
  ASSUME IInv, NEW o \in Op, At(o, "update"), Refuse(o),
         UNCHANGED <<actor, data, store, events, faults, untold, soiled, hasty>>
  PROVE  IInv'
  <1>1. /\ TypeOK /\ PlanInv(o) /\ UnderWay(o) /\ ToldInv
        /\ op[o].kind \in Updates
        /\ \A z : At(o, z) <=> z = "update"
        /\ \A S : In(o, S) <=> "update" \in S
    BY Here DEF PlanStep
  <1>2. ~Filling(o) /\ ~Destroyer(o) /\ ~Debtor(o)
    BY <1>1 DEF Filling, Destroyer, Debtor, Updates, Creation
  <1>3. Moves(o, <<>>)
    BY <1>1, RefuseMoves
  <1>4. /\ ~UnderWay(o)' /\ (\A z : ~At(o, z)') /\ (\A S : ~In(o, S)')
        /\ ~Filling(o)' /\ ~Destroyer(o)'
    BY <1>3, There DEF Moves
  <1>5. TypeOK'
    BY <1>1, <1>3 DEF TypeOK, Moves, Others
  <1>6. StoreInv(o)' /\ ActorInv(o)' /\ DataInv(o)' /\ ReadInv(o)'
    BY <1>4 DEF StoreInv, ActorInv, DataInv, ReadInv
  <1>7. ToldInv'
    BY <1>1, <1>2, <1>3, ToldKeeps DEF Moves, Others
  <1>8. QED
    BY <1>1, <1>2, <1>3, <1>4, <1>5, <1>6, <1>7, MoveKeeps

LEMMA CheckStoreKeeps ==
  ASSUME IInv, NEW o \in Op, CheckStore(o)
  PROVE  IInv'
  <1>1. At(o, "check")
    BY DEF CheckStore
  <1>2. /\ TypeOK /\ PlanInv(o) /\ UnderWay(o) /\ ToldInv
        /\ op[o].kind \in Creation /\ Goes(Tail(op[o].todo), "make")
        /\ \A z : At(o, z) <=> z = "check"
        /\ \A S : In(o, S) <=> "check" \in S
    BY <1>1, Here DEF PlanStep
  <1>3. ~Filling(o) /\ ~Destroyer(o) /\ ~Debtor(o)
    BY <1>2 DEF Filling, Destroyer, Debtor, Undoing, Creation
  <1>4. PICK t : Moves(o, t) /\ (t = <<>> \/ t = Tail(op[o].todo))
    BY <1>2, DoneMoves, RefuseMoves DEF CheckStore
  <1>5. ~Filling(o)' /\ StoreInv(o)' /\ ActorInv(o)' /\ DataInv(o)' /\ ReadInv(o)'
    <2>1. op'[o].kind \in Creation /\ op'[o].todo = t
      BY <1>2, <1>4 DEF Moves
    <2>2. CASE t = <<>>
      <3>1. (\A z : ~At(o, z)') /\ (\A S : ~In(o, S)') /\ ~Filling(o)'
        BY <2>1, <2>2, There
      <3>2. QED
        BY <3>1 DEF StoreInv, ActorInv, DataInv, ReadInv
    <2>3. CASE t = Tail(op[o].todo)
      <3>1. (\A z : At(o, z)' <=> z = "make") /\ \A S : In(o, S)' <=> "make" \in S
        BY <1>2, <2>1, <2>3, There
      <3>2. QED
        BY <2>1, <3>1 DEF StoreInv, ActorInv, DataInv, ReadInv, Filling, Creation
    <2>4. QED
      BY <1>4, <2>2, <2>3
  <1>6. TypeOK'
    BY <1>2, <1>4 DEF CheckStore, TypeOK, Moves, Others
  <1>7. ToldInv'
    BY <1>2, <1>3, <1>4, ToldKeeps DEF CheckStore, Moves, Others
  <1>8. QED
    BY <1>2, <1>3, <1>4, <1>5, <1>6, <1>7, MoveKeeps DEF CheckStore

\* A creation that cannot go on destroys the store
LEMMA FallsBack ==
  ASSUME IInv, NEW o \in Op, NEW s \in {"repo", "plc", "rows"}, At(o, s), Fallback(o),
         UNCHANGED <<actor, data, store, events, faults, untold, soiled, hasty>>
  PROVE  IInv'
  <1>1. /\ TypeOK /\ PlanInv(o) /\ UnderWay(o) /\ ToldInv /\ ActorInv(o)
        /\ op[o].kind \in Creation
        /\ \A z : At(o, z) <=> z = s
        /\ \A S : In(o, S) <=> s \in S
    BY Here DEF PlanStep
  <1>2. Filling(o) /\ ~Debtor(o)
    BY <1>1 DEF Filling, Debtor, Creation
  <1>3. PICK r : r = Recovery(o)
    OBVIOUS
  <1>4. Moves(o, r) /\ Goes(r, "store")
    BY <1>1, <1>2, <1>3, FallbackMoves, Recovers
  <1>5. UnderWay(o)' /\ (\A z : At(o, z)' <=> z = "store") /\ \A S : In(o, S)' <=> "store" \in S
    BY <1>4, There DEF Moves
  <1>6. TypeOK'
    BY <1>1, <1>4 DEF TypeOK, Moves, Others
  <1>7. StoreInv(o)' /\ ActorInv(o)' /\ DataInv(o)' /\ ReadInv(o)'
    BY <1>1, <1>2, <1>4, <1>5 DEF StoreInv, ActorInv, DataInv, ReadInv, Moves, Creation
  <1>8. Destroyer(o)'
    BY <1>1, <1>4, <1>5 DEF Destroyer, Undoing, Moves
  <1>9. ToldInv'
    BY <1>1, <1>2, <1>4, ToldKeeps DEF Moves, Others
  <1>10. QED
    BY <1>1, <1>2, <1>3, <1>4, <1>6, <1>7, <1>8, <1>9, MoveKeeps

LEMMA SendOperationKeeps ==
  ASSUME IInv, NEW o \in Op, SendOperation(o)
  PROVE  IInv'
  <1>1. At(o, "plc")
    BY DEF SendOperation
  <1>2. CASE Fallback(o)
    BY <1>1, <1>2, FallsBack DEF SendOperation
  <1>3. CASE Done(o)
    <2>1. /\ TypeOK /\ PlanInv(o) /\ UnderWay(o) /\ ToldInv /\ ActorInv(o) /\ StoreInv(o)
          /\ op[o].kind \in Creation /\ Goes(Tail(op[o].todo), "rows")
          /\ \A z : At(o, z) <=> z = "plc"
          /\ \A S : In(o, S) <=> "plc" \in S
      BY <1>1, Here DEF PlanStep
    <2>2. Filling(o) /\ ~Debtor(o)
      BY <2>1 DEF Filling, Debtor, Creation
    <2>3. Moves(o, Tail(op[o].todo))
      BY <1>3, <2>1, DoneMoves
    <2>4. UnderWay(o)' /\ (\A z : At(o, z)' <=> z = "rows") /\ \A S : In(o, S)' <=> "rows" \in S
      BY <2>1, <2>3, There DEF Moves
    <2>5. TypeOK'
      BY <2>1, <2>3 DEF TypeOK, Moves, Others, SendOperation
    <2>6. StoreInv(o)' /\ ActorInv(o)' /\ DataInv(o)' /\ ReadInv(o)'
      BY <2>1, <2>2, <2>3, <2>4 DEF StoreInv, ActorInv, DataInv, ReadInv, Moves, Creation,
         SendOperation
    <2>7. Filling(o)' /\ Destroyer(o)'
      BY <2>1, <2>3, <2>4 DEF Destroyer, Filling, Moves
    <2>8. ToldInv'
      BY <2>1, <2>2, <2>3, ToldKeeps DEF Moves, Others, SendOperation
    <2>9. QED
      BY <2>1, <2>2, <2>3, <2>5, <2>6, <2>7, <2>8, MoveKeeps DEF SendOperation
  <1>4. QED
    BY <1>2, <1>3 DEF SendOperation

LEMMA AnnounceCreationKeeps ==
  ASSUME IInv, NEW o \in Op, AnnounceCreation(o)
  PROVE  IInv'
  <1>1. At(o, "created")
    BY DEF AnnounceCreation
  <1>2. /\ TypeOK /\ PlanInv(o) /\ UnderWay(o) /\ ReadInv(o)
        /\ op[o].kind = "create" /\ Goes(Tail(op[o].todo), "finish")
        /\ \A z : At(o, z) <=> z = "created"
        /\ \A S : In(o, S) <=> "created" \in S
    BY <1>1, Here DEF PlanStep
  <1>3. ~Filling(o) /\ ~Destroyer(o)
    BY <1>2 DEF Filling, Destroyer, Undoing
  <1>4. Moves(o, Tail(op[o].todo))
    BY <1>2, DoneMoves DEF AnnounceCreation
  <1>5. UnderWay(o)' /\ (\A z : At(o, z)' <=> z = "finish") /\ \A S : In(o, S)' <=> "finish" \in S
    BY <1>2, <1>4, There DEF Moves
  <1>6. ~op[o].overtaken => "active" = Status
    BY <1>1, <1>2 DEF ReadInv
  <1>7. events' \in Seq(Event) /\ untold' \in BOOLEAN /\ (untold' \/ Told')
    BY <1>2, <1>6, Telling DEF AnnounceCreation, StatusName
  <1>8. TypeOK'
    BY <1>2, <1>4, <1>7 DEF AnnounceCreation, TypeOK, Moves, Others
  <1>9. ~Filling(o)' /\ StoreInv(o)' /\ ActorInv(o)' /\ DataInv(o)' /\ ReadInv(o)'
    BY <1>2, <1>4, <1>5 DEF StoreInv, ActorInv, DataInv, ReadInv, Filling, Moves
  <1>10. ToldInv'
    BY <1>7 DEF ToldInv
  <1>11. QED
    BY <1>2, <1>3, <1>4, <1>8, <1>9, <1>10, MoveKeeps DEF AnnounceCreation

LEMMA FinishKeeps ==
  ASSUME IInv, NEW o \in Op, Finish(o)
  PROVE  IInv'
  <1>1. At(o, "finish")
    BY DEF Finish
  <1>2. /\ TypeOK /\ PlanInv(o) /\ UnderWay(o) /\ ToldInv
        /\ op[o].kind \in Creation /\ Tail(op[o].todo) = <<>>
        /\ \A z : At(o, z) <=> z = "finish"
        /\ \A S : In(o, S) <=> "finish" \in S
    BY <1>1, Here DEF PlanStep
  <1>3. ~Filling(o) /\ ~Destroyer(o) /\ ~Debtor(o)
    BY <1>2 DEF Filling, Destroyer, Debtor, Undoing, Creation
  <1>4. PICK r : r = Recovery(o)
    OBVIOUS
  <1>5. PICK t : Moves(o, t) /\ (t = <<>> \/ t = r)
    BY <1>2, <1>4, DoneMoves, FallbackMoves DEF Finish
  <1>6. ~Filling(o)' /\ StoreInv(o)' /\ ActorInv(o)' /\ DataInv(o)' /\ ReadInv(o)'
    <2>1. op'[o].kind \in Creation /\ op'[o].todo = t
      BY <1>2, <1>5 DEF Moves
    <2>2. CASE t = <<>>
      <3>1. (\A z : ~At(o, z)') /\ (\A S : ~In(o, S)') /\ ~Filling(o)'
        BY <2>1, <2>2, There
      <3>2. QED
        BY <3>1 DEF StoreInv, ActorInv, DataInv, ReadInv
    <2>3. CASE t = r /\ t # <<>>
      <3>1. PICK z \in {"event", "data"} : Goes(t, z)
        BY <1>2, <1>4, <2>3, Recovers DEF Creation
      <3>2. (\A x : At(o, x)' <=> x = z) /\ \A S : In(o, S)' <=> z \in S
        BY <2>1, <3>1, There
      <3>3. QED
        BY <2>1, <3>2 DEF StoreInv, ActorInv, DataInv, ReadInv, Filling, Creation
    <2>4. QED
      BY <1>5, <2>2, <2>3
  <1>7. TypeOK'
    BY <1>2, <1>5 DEF Finish, TypeOK, Moves, Others
  <1>8. ToldInv'
    BY <1>2, <1>3, <1>5, ToldKeeps DEF Finish, Moves, Others
  <1>9. QED
    BY <1>2, <1>3, <1>4, <1>5, <1>6, <1>7, <1>8, MoveKeeps DEF Finish

LEMMA AnnounceDeletionKeeps ==
  ASSUME IInv, NEW o \in Op, AnnounceDeletion(o)
  PROVE  IInv'
  <1>1. At(o, "event")
    BY DEF AnnounceDeletion
  <1>2. /\ TypeOK /\ PlanInv(o) /\ UnderWay(o) /\ ReadInv(o) /\ ActorInv(o) /\ DataInv(o)
        /\ op[o].kind \in {"create", "delete"} /\ Goes(Tail(op[o].todo), "purge")
        /\ \A z : At(o, z) <=> z = "event"
        /\ \A S : In(o, S) <=> "event" \in S
    BY <1>1, Here DEF PlanStep
  <1>3. Moves(o, Tail(op[o].todo))
    BY <1>2, DoneMoves DEF AnnounceDeletion
  <1>4. UnderWay(o)' /\ (\A z : At(o, z)' <=> z = "purge") /\ \A S : In(o, S)' <=> "purge" \in S
    BY <1>2, <1>3, There DEF Moves
  <1>5. /\ events' \in Seq(Event) /\ untold' \in BOOLEAN
        /\ (~op[o].overtaken => "deleted" = Status) => untold' \/ Told'
    BY <1>2, Telling DEF AnnounceDeletion, StatusName
  <1>6. TypeOK'
    BY <1>2, <1>3, <1>5 DEF AnnounceDeletion, TypeOK, Moves, Others
  <1>7. ~Filling(o)' /\ Destroyer(o)'
    BY <1>2, <1>3, <1>4 DEF Filling, Destroyer, Moves, Undoing, Creation
  <1>8. StoreInv(o)' /\ ActorInv(o)' /\ DataInv(o)' /\ ReadInv(o)'
    BY <1>2, <1>3, <1>4, <1>7 DEF StoreInv, ActorInv, DataInv, ReadInv, Moves,
       AnnounceDeletion
  <1>9. ToldInv'
    <2>1. CASE op[o].kind = "create" /\ actor # None
      <3>1. Debtor(o)'
        BY <1>3, <1>4, <2>1 DEF Debtor, Moves, AnnounceDeletion
      <3>2. QED
        BY <3>1 DEF ToldInv
    <2>2. CASE actor = None \/ op[o].kind = "delete"
      <3>1. ~op[o].overtaken => actor = None
        BY <1>2, <2>2 DEF ReadInv
      <3>2. ~op[o].overtaken => "deleted" = Status
        BY <3>1 DEF Status
      <3>3. QED
        BY <1>5, <3>2 DEF ToldInv
    <2>3. QED
      BY <1>2, <2>1, <2>2
  <1>10. QED
    BY <1>2, <1>3, <1>6, <1>7, <1>8, <1>9, MoveKeeps DEF AnnounceDeletion

LEMMA PurgeKeeps ==
  ASSUME IInv, NEW o \in Op, Purge(o)
  PROVE  IInv'
  <1>1. At(o, "purge")
    BY DEF Purge
  <1>2. /\ TypeOK /\ PlanInv(o) /\ UnderWay(o) /\ ActorInv(o) /\ DataInv(o)
        /\ op[o].kind \in {"create", "delete"}
        /\ Goes(Tail(op[o].todo), IF op[o].kind = "delete" THEN "store" ELSE "data")
        /\ \A z : At(o, z) <=> z = "purge"
        /\ \A S : In(o, S) <=> "purge" \in S
    BY <1>1, Here DEF PlanStep
  <1>3. Moves(o, Tail(op[o].todo))
    BY <1>2, DoneMoves DEF Purge
  <1>4. PICK s : s = IF op[o].kind = "delete" THEN "store" ELSE "data"
    OBVIOUS
  <1>5. UnderWay(o)' /\ (\A z : At(o, z)' <=> z = s) /\ \A S : In(o, S)' <=> s \in S
    BY <1>2, <1>3, <1>4, There DEF Moves
  <1>6. PICK e : e = [by |-> o, status |-> "deleted"]
    OBVIOUS
  <1>7. e \in Event /\ e.status = "deleted"
    BY <1>6 DEF Event, StatusName
  <1>8. events' = <<e>> \/ events' = <<>>
    BY <1>6 DEF Purge
  <1>9. events' \in Seq(Event) /\ (events' # <<>> => Last(events').status = "deleted")
    <2>1. <<>> \in Seq(Event) /\ <<e>> \in Seq(Event) /\ Last(<<e>>) = e
      BY <1>7 DEF Last
    <2>2. QED
      BY <1>7, <1>8, <2>1
  <1>10. hasty' \in BOOLEAN /\ (hasty' <=> hasty \/ op[o].met)
    BY <1>2 DEF Purge, TypeOK, Operation
  <1>11. TypeOK'
    BY <1>2, <1>3, <1>9, <1>10 DEF Purge, TypeOK, Moves, Others
  <1>12. ~Filling(o)' /\ Destroyer(o)'
    BY <1>2, <1>3, <1>4, <1>5 DEF Filling, Destroyer, Moves, Undoing, Creation
  <1>13. StoreInv(o)' /\ ActorInv(o)' /\ DataInv(o)' /\ ReadInv(o)'
    BY <1>2, <1>3, <1>4, <1>5, <1>10, <1>12 DEF StoreInv, ActorInv, DataInv, ReadInv, Moves,
       Purge
  <1>14. ToldInv'
    <2>1. CASE actor = None
      <3>1. Status' = "deleted"
        BY <2>1 DEF Status, Purge
      <3>2. QED
        BY <1>9, <3>1 DEF ToldInv, Told
    <2>2. CASE actor # None /\ op[o].kind = "delete"
      <3>1. hasty'
        BY <1>2, <1>10, <2>2 DEF ActorInv
      <3>2. QED
        BY <3>1 DEF ToldInv
    <2>3. CASE actor # None /\ op[o].kind = "create"
      <3>1. Debtor(o)'
        BY <1>3, <1>4, <1>5, <2>3 DEF Debtor, Moves, Purge
      <3>2. QED
        BY <3>1 DEF ToldInv
    <2>4. QED
      BY <1>2, <2>1, <2>2, <2>3
  <1>15. QED
    BY <1>2, <1>3, <1>10, <1>11, <1>12, <1>13, <1>14, MoveKeeps DEF Purge

-----------------------------------------------------------------------------
(* Faults *)

LEMMA FailKeeps ==
  ASSUME IInv, NEW o \in Op, Fail(o)
  PROVE  IInv'
  <1>1. UnderWay(o)
    BY DEF Fail
  <1>2. PICK s : s = Head(op[o].todo)
    OBVIOUS
  <1>3. At(o, s)
    BY <1>1, <1>2 DEF At
  <1>4. /\ TypeOK /\ PlanInv(o) /\ ToldInv /\ ActorInv(o) /\ DataInv(o)
        /\ PlanStep(op[o].kind, op[o].todo)
        /\ \A z : At(o, z) <=> z = s
        /\ \A S : In(o, S) <=> s \in S
    BY <1>3, Here
  <1>5. PICK r : r = Recovery(o)
    OBVIOUS
  <1>6. Moves(o, r)
    BY <1>1, <1>4, <1>5, FallbackMoves DEF Fail
  <1>7. PICK k : k = op[o].kind /\ k = op'[o].kind
    BY <1>6 DEF Moves
  <1>8. \/ r = <<>> /\ ~Filling(o) /\ ~In(o, {"event", "purge"})
        \/ Goes(r, "store") /\ k = "delete" /\ In(o, {"event", "purge"})
        \/ Goes(r, "store") /\ k \in Creation /\ In(o, {"repo", "plc", "rows", "data", "actor"})
        \/ Goes(r, "event") /\ k = "create" /\ At(o, "finish")
        \/ Goes(r, "data") /\ k \in Creation /\ In(o, {"created", "finish", "event", "purge"})
    <2>1. k = op[o].kind
      BY <1>7
    <2>2. QED
      BY <1>1, <1>4, <1>5, <2>1, Recovers
  <1>9. op'[o].todo = r /\ op'[o].met = op[o].met
    BY <1>6 DEF Moves
  <1>10. /\ soiled' <=> soiled \/ s \in {"make", "data", "actor", "store"}
         /\ hasty' <=> hasty \/ (k \in Creation /\ s \in {"data", "actor"})
         /\ untold' <=> untold \/ Owes(o)
    BY <1>4, <1>7 DEF Fail
  <1>11. TypeOK'
    <2>1. soiled' \in BOOLEAN /\ hasty' \in BOOLEAN /\ untold' \in BOOLEAN
      BY DEF Fail
    <2>2. faults' \in 0 .. MaxFaults
      BY <1>4, AccountStatusConstants DEF TypeOK, Fail
    <2>3. QED
      BY <1>4, <1>6, <2>1, <2>2 DEF Fail, TypeOK, Moves, Others
  <1>12. ~Filling(o)' /\ StoreInv(o)' /\ ActorInv(o)' /\ DataInv(o)' /\ ReadInv(o)'
    <2>1. CASE r = <<>>
      <3>1. (\A z : ~At(o, z)') /\ (\A S : ~In(o, S)') /\ ~Filling(o)'
        BY <1>9, <2>1, There
      <3>2. QED
        BY <3>1 DEF StoreInv, ActorInv, DataInv, ReadInv
    <2>2. CASE Goes(r, "store")
      <3>1. (\A z : At(o, z)' <=> z = "store") /\ \A S : In(o, S)' <=> "store" \in S
        BY <1>9, <2>2, There
      <3>2. ~Goes(r, "event") /\ ~Goes(r, "data") /\ r # <<>>
        BY <2>2 DEF Goes
      <3>3. CASE k = "delete" /\ s \in {"event", "purge"}
        BY <1>4, <1>7, <1>9, <1>10, <3>1, <3>3 DEF StoreInv, ActorInv, DataInv, ReadInv,
           Filling, Creation, Fail
      <3>4. CASE k \in Creation /\ s \in {"repo", "plc", "rows"}
        <4>1. Filling(o)
          BY <1>4, <1>7, <3>4 DEF Filling
        <4>2. QED
          BY <1>4, <1>7, <1>9, <1>10, <3>1, <3>4, <4>1 DEF StoreInv, ActorInv, DataInv, ReadInv,
             Filling, Creation, Fail
      <3>5. CASE k \in Creation /\ s \in {"data", "actor"}
        BY <1>4, <1>7, <1>9, <1>10, <3>1, <3>5 DEF StoreInv, ActorInv, DataInv, ReadInv,
           Filling, Creation, Fail
      <3>6. QED
        BY <1>4, <1>8, <3>2, <3>3, <3>4, <3>5
    <2>3. ASSUME NEW z \in {"event", "data"}, Goes(r, z)
          PROVE  ~Filling(o)' /\ StoreInv(o)' /\ ActorInv(o)' /\ DataInv(o)' /\ ReadInv(o)'
      <3>1. (\A x : At(o, x)' <=> x = z) /\ \A S : In(o, S)' <=> z \in S
        BY <1>9, <2>3, There
      <3>2. k \in Creation
        BY <1>8, <2>3 DEF Goes, Creation
      <3>3. QED
        BY <1>7, <3>1, <3>2 DEF StoreInv, ActorInv, DataInv, ReadInv, Filling, Creation
    <2>4. QED
      BY <1>8, <2>1, <2>2, <2>3
  <1>13. Destroyer(o) => soiled' \/ Destroyer(o)'
    <2>1. CASE k = "delete"
      <3>1. s \in {"data", "actor", "event", "purge", "store"}
        BY <1>2, <1>4, <1>7, <2>1, Steps DEF PlanStep, Updates, Creation
      <3>2. CASE s \in {"event", "purge"}
        <4>1. Goes(r, "store")
          BY <1>4, <1>8, <2>1, <3>2 DEF Creation
        <4>2. UnderWay(o)'
          BY <1>9, <4>1, There
        <4>3. QED
          BY <1>7, <2>1, <4>2 DEF Destroyer
      <3>3. QED
        BY <1>10, <3>1, <3>2
    <2>2. CASE k \in Creation
      <3>1. CASE s \in {"repo", "plc", "rows", "event", "purge"}
        <4>1. In(o, {"repo", "plc", "rows"}) => Filling(o)
          BY <1>7, <2>2 DEF Filling, In
        <4>2. r # <<>>
          BY <1>4, <1>8, <3>1, <4>1 DEF Goes
        <4>3. PICK z \in Undoing : Goes(r, z)
          BY <1>8, <4>2 DEF Undoing
        <4>4. In(o, Undoing)'
          BY <1>9, <4>3, There DEF Undoing
        <4>5. QED
          BY <1>7, <2>2, <4>4 DEF Destroyer
      <3>2. CASE s \in {"data", "actor", "store"}
        BY <1>10, <3>2
      <3>3. CASE s \notin {"repo", "plc", "rows", "event", "purge", "data", "actor", "store"}
        BY <1>4, <1>7, <2>2, <3>3 DEF Destroyer, Filling, Undoing, Creation
      <3>4. QED
        BY <3>1, <3>2, <3>3
    <2>3. CASE k # "delete" /\ k \notin Creation
      BY <1>7, <2>3 DEF Destroyer
    <2>4. QED
      BY <2>1, <2>2, <2>3
  <1>14. ToldInv'
    <2>1. Debtor(o) => Owes(o)
      BY <1>1, <1>2, <1>4 DEF Debtor, Owes, PlanStep, Updates, Creation
    <2>2. QED
      BY <1>4, <1>6, <1>10, <2>1, ToldKeeps DEF Fail, Moves, Others
  <1>15. QED
    BY <1>1, <1>5, <1>6, <1>10, <1>11, <1>12, <1>13, <1>14, MoveKeeps DEF Fail

LEMMA CrashKeeps ==
  ASSUME IInv, Crash
  PROVE  IInv'
  <1>1. TypeOK /\ op \in [Op -> Operation]
    BY DEF IInv, TypeOK
  <1>2. ASSUME NEW o \in Op
        PROVE  op'[o] \in Operation /\ op'[o].kind = op[o].kind /\ op'[o].todo = <<>>
    <2>1. PICK k \in Kind \cup {None}, t \in Seq(Step), s \in StatusName \cup {None},
               f \in BOOLEAN, v \in BOOLEAN, m \in BOOLEAN :
               op[o] = [kind |-> k, todo |-> t, status |-> s, failed |-> f, overtaken |-> v,
                        met |-> m]
      BY <1>1, Fields
    <2>2. op'[o] = [op[o] EXCEPT !.todo = <<>>]
      BY DEF Crash
    <2>3. op'[o] = [kind |-> k, todo |-> <<>>, status |-> s, failed |-> f, overtaken |-> v,
                    met |-> m]
      BY <2>1, <2>2
    <2>4. QED
      BY <2>1, <2>3 DEF Operation
  <1>3. \A o \in Op : /\ ~UnderWay(o)' /\ (\A z : ~At(o, z)') /\ (\A S : ~In(o, S)')
                      /\ ~Filling(o)' /\ ~Destroyer(o)'
    BY <1>2, There
  <1>4. TypeOK'
    <2>1. op' \in [Op -> Operation]
      BY <1>2 DEF Crash
    <2>2. untold' \in BOOLEAN /\ soiled' \in BOOLEAN
      BY DEF Crash
    <2>3. faults' \in 0 .. MaxFaults
      BY <1>1, AccountStatusConstants DEF TypeOK, Crash
    <2>4. QED
      BY <1>1, <2>1, <2>2, <2>3 DEF TypeOK, Crash
  <1>5. \A o \in Op : PlanInv(o)'
    BY <1>2 DEF PlanInv
  <1>6. MetInv'
    BY <1>3 DEF MetInv
  <1>7. \A o \in Op : StoreInv(o)' /\ ActorInv(o)' /\ DataInv(o)' /\ ReadInv(o)'
    BY <1>3 DEF StoreInv, ActorInv, DataInv, ReadInv
  <1>8. AccountHasStore'
    BY DEF AccountHasStore, IInv, Crash
  <1>9. LeftInv'
    <2>1. ASSUME NEW o \in Op, Destroyer(o)
          PROVE  Half(o)
      <3>1. UnderWay(o) /\ op[o].kind \in Creation \cup {"delete"}
        BY <2>1 DEF Destroyer, Filling, In, At
      <3>2. PlanInv(o)
        BY DEF IInv
      <3>3. PlanStep(op[o].kind, op[o].todo)
        BY <1>1, <3>1, <3>2, Plan
      <3>4. ~At(o, "check")
        BY <2>1, <3>3 DEF Destroyer, Filling, In, At, PlanStep, Creation, Undoing
      <3>5. QED
        BY <3>1, <3>4 DEF Half
    <2>2. SUFFICES ASSUME ~soiled', ~hasty', actor' = None
                   PROVE  store' = "none" /\ ~data'
      BY DEF LeftInv
    <2>3. ~soiled /\ \A o \in Op : ~Half(o)
      BY <2>2 DEF Crash
    <2>4. QED
      BY <2>1, <2>2, <2>3 DEF LeftInv, IInv, Crash
  <1>10. ToldInv'
    <2>1. ASSUME NEW o \in Op, Debtor(o)
          PROVE  Owes(o)
      <3>1. UnderWay(o) /\ PlanInv(o)
        BY <2>1 DEF Debtor, In, At, IInv
      <3>2. PlanStep(op[o].kind, op[o].todo)
        BY <1>1, <3>1, Plan
      <3>3. PICK s : s = Head(op[o].todo)
        OBVIOUS
      <3>4. (\A z : At(o, z) <=> z = s) /\ \A S : In(o, S) <=> s \in S
        <4>1. \A z : At(o, z) <=> z = s
          BY <3>1, <3>3 DEF At
        <4>2. QED
          BY <4>1 DEF In
      <3>5. QED
        BY <2>1, <3>1, <3>2, <3>3, <3>4 DEF Debtor, Owes, PlanStep, Updates, Creation
    <2>2. Told' <=> Told
      BY DEF Told, Status, Crash
    <2>3. CASE \E o \in Op : Debtor(o)
      BY <2>1, <2>3 DEF ToldInv, Crash
    <2>4. CASE ~\E o \in Op : Debtor(o)
      BY <2>2, <2>4 DEF ToldInv, IInv, Crash
    <2>5. QED
      BY <2>3, <2>4
  <1>11. QED
    BY <1>4, <1>5, <1>6, <1>7, <1>8, <1>9, <1>10 DEF IInv

-----------------------------------------------------------------------------
(* Steps that change the account *)

\* An operation that the step is not of
LEMMA OthersStay ==
  ASSUME IInv, NEW o \in Op, NEW p \in Op \ {o}, Others(o)
  PROVE  /\ op'[p] = op[p] /\ PlanInv(p)'
         /\ UnderWay(p)' <=> UnderWay(p)
         /\ \A s : At(p, s)' <=> At(p, s)
         /\ \A S : In(p, S)' <=> In(p, S)
         /\ Filling(p)' <=> Filling(p)
         /\ Destroyer(p)' <=> Destroyer(p)
  BY Stays DEF Others, IInv

\* The step of one operation keeps what is known of who met whom
LEMMA MetKeeps ==
  ASSUME IInv, NEW o \in Op, UnderWay(o), op'[o].met = op[o].met,
         Filling(o)' => Filling(o),
         \A p \in Op \ {o} :
            (Filling(p)' <=> Filling(p)) /\ (UnderWay(p)' <=> UnderWay(p))
            /\ op'[p].met = op[p].met
  PROVE  MetInv'
  BY DEF MetInv, IInv

LEMMA CreateRepoKeeps ==
  ASSUME IInv, NEW o \in Op, CreateRepo(o)
  PROVE  IInv'
  <1>1. At(o, "repo")
    BY DEF CreateRepo
  <1>2. CASE store # "empty"
    BY <1>1, <1>2, FallsBack DEF CreateRepo
  <1>3. CASE store = "empty"
    <2>1. /\ TypeOK /\ PlanInv(o) /\ UnderWay(o) /\ ToldInv /\ ActorInv(o)
          /\ op[o].kind \in Creation
          /\ Goes(Tail(op[o].todo), IF op[o].kind = "create" THEN "plc" ELSE "rows")
          /\ \A z : At(o, z) <=> z = "repo"
          /\ \A S : In(o, S) <=> "repo" \in S
      BY <1>1, Here DEF PlanStep
    <2>2. Filling(o) /\ ~Debtor(o)
      BY <2>1 DEF Filling, Debtor, Creation
    <2>3. PICK t : t = Tail(op[o].todo)
      OBVIOUS
    <2>4. Moves(o, t) /\ store' = "repo"
      BY <1>3, <2>1, <2>3, DoneMoves DEF CreateRepo
    <2>5. PICK s \in {"plc", "rows"} : Goes(t, s)
      BY <2>1, <2>3
    <2>6. UnderWay(o)' /\ (\A z : At(o, z)' <=> z = s) /\ \A S : In(o, S)' <=> s \in S
      BY <2>4, <2>5, There DEF Moves
    <2>7. op'[o].kind = op[o].kind /\ op'[o].met = op[o].met /\ Others(o)
      BY <2>4 DEF Moves
    <2>8. TypeOK'
      BY <2>1, <2>4 DEF TypeOK, Moves, Others, CreateRepo
    <2>9. Filling(o)' /\ Destroyer(o)'
      BY <2>1, <2>5, <2>6, <2>7 DEF Filling, Destroyer
    <2>10. \A p \in Op : PlanInv(p)'
      <3>1. PlanInv(o)'
        BY <2>1, <2>3, <2>4, PlanKeeps DEF Moves
      <3>2. QED
        BY <2>7, <3>1, OthersStay
    <2>11. MetInv'
      BY <2>1, <2>2, <2>7, OthersStay, MetKeeps
    <2>12. ASSUME NEW p \in Op
           PROVE  StoreInv(p)' /\ ActorInv(p)' /\ DataInv(p)' /\ ReadInv(p)'
      <3>1. StoreInv(p)'
        BY <2>4 DEF StoreInv
      <3>2. CASE p = o
        BY <2>1, <2>2, <2>6, <2>7, <3>1, <3>2 DEF ActorInv, DataInv, ReadInv, CreateRepo, Creation
      <3>3. CASE p # o
        <4>1. /\ op'[p] = op[p] /\ (Filling(p)' <=> Filling(p))
              /\ \A s1 : At(p, s1)' <=> At(p, s1)
              /\ \A S : In(p, S)' <=> In(p, S)
          BY <2>7, <3>3, OthersStay
        <4>2. ActorInv(p) /\ DataInv(p) /\ ReadInv(p) /\ Status' = Status
          BY DEF IInv, Status, CreateRepo
        <4>3. ActorInv(p)' /\ DataInv(p)'
          BY <4>1, <4>2 DEF ActorInv, DataInv, CreateRepo
        <4>4. ReadInv(p)'
          BY <4>1, <4>2 DEF ReadInv, CreateRepo
        <4>5. QED
          BY <3>1, <4>3, <4>4
      <3>4. QED
        BY <3>2, <3>3
    <2>13. AccountHasStore'
      BY <2>4 DEF AccountHasStore
    <2>14. LeftInv'
      <3>1. \A p \in Op : Destroyer(p) /\ op[p].met => Destroyer(p)' /\ op'[p].met
        BY <2>7, <2>9, OthersStay
      <3>2. QED
        BY <2>9, <3>1 DEF LeftInv, IInv, CreateRepo
    <2>15. ToldInv'
      BY <2>1, <2>2, <2>7, ToldKeeps DEF Others, CreateRepo
    <2>16. QED
      BY <2>8, <2>10, <2>11, <2>12, <2>13, <2>14, <2>15 DEF IInv
  <1>4. QED
    BY <1>2, <1>3

LEMMA DeleteDataKeeps ==
  ASSUME IInv, NEW o \in Op, DeleteData(o)
  PROVE  IInv'
  <1>1. At(o, "data")
    BY DEF DeleteData
  <1>2. /\ TypeOK /\ PlanInv(o) /\ UnderWay(o) /\ ToldInv
        /\ op[o].kind \in Creation \cup {"delete"} /\ Goes(Tail(op[o].todo), "actor")
        /\ \A z : At(o, z) <=> z = "data"
        /\ \A S : In(o, S) <=> "data" \in S
    BY <1>1, Here DEF PlanStep
  <1>3. Moves(o, Tail(op[o].todo))
    BY <1>2, DoneMoves DEF DeleteData
  <1>4. UnderWay(o)' /\ (\A z : At(o, z)' <=> z = "actor") /\ \A S : In(o, S)' <=> "actor" \in S
    BY <1>2, <1>3, There DEF Moves
  <1>5. op'[o].kind = op[o].kind /\ op'[o].met = op[o].met /\ Others(o)
    BY <1>3 DEF Moves
  <1>6. TypeOK'
    BY <1>2, <1>5 DEF TypeOK, Others, DeleteData
  <1>7. ~Filling(o)' /\ Destroyer(o)'
    BY <1>2, <1>4, <1>5 DEF Filling, Destroyer, Undoing
  <1>8. \A p \in Op : PlanInv(p)'
    <2>1. PlanInv(o)'
      BY <1>2, <1>3, PlanKeeps DEF Moves
    <2>2. QED
      BY <1>5, <2>1, OthersStay
  <1>9. MetInv'
    BY <1>2, <1>5, <1>7, OthersStay, MetKeeps
  <1>10. ASSUME NEW p \in Op
         PROVE  StoreInv(p)' /\ ActorInv(p)' /\ DataInv(p)' /\ ReadInv(p)'
    <2>1. DataInv(p)'
      BY DEF DataInv, DeleteData
    <2>2. CASE p = o
      BY <1>4, <1>7, <2>1, <2>2 DEF StoreInv, ActorInv, ReadInv
    <2>3. CASE p # o
      <3>1. /\ op'[p] = op[p] /\ (Filling(p)' <=> Filling(p))
            /\ \A s1 : At(p, s1)' <=> At(p, s1)
            /\ \A S : In(p, S)' <=> In(p, S)
        BY <1>5, <2>3, OthersStay
      <3>2. StoreInv(p) /\ ActorInv(p) /\ ReadInv(p) /\ Status' = Status
        BY DEF IInv, Status, DeleteData
      <3>3. StoreInv(p)' /\ ActorInv(p)'
        BY <3>1, <3>2 DEF StoreInv, ActorInv, DeleteData
      <3>4. ReadInv(p)'
        BY <3>1, <3>2 DEF ReadInv, DeleteData
      <3>5. QED
        BY <2>1, <3>3, <3>4
    <2>4. QED
      BY <2>2, <2>3
  <1>11. AccountHasStore'
    BY DEF AccountHasStore, IInv, DeleteData
  <1>12. LeftInv'
    <2>1. \A p \in Op : Destroyer(p) => Destroyer(p)'
      BY <1>5, <1>7, OthersStay
    <2>2. QED
      BY <2>1 DEF LeftInv, IInv, DeleteData
  <1>13. ToldInv'
    <2>1. Debtor(o) => Debtor(o)'
      BY <1>2, <1>4, <1>5 DEF Debtor, DeleteData
    <2>2. QED
      BY <1>2, <1>5, <2>1, ToldKeeps DEF Others, DeleteData
  <1>14. QED
    BY <1>6, <1>8, <1>9, <1>10, <1>11, <1>12, <1>13 DEF IInv

LEMMA DestroyKeeps ==
  ASSUME IInv, NEW o \in Op, Destroy(o)
  PROVE  IInv'
  <1>1. At(o, "store")
    BY DEF Destroy
  <1>2. /\ TypeOK /\ PlanInv(o) /\ UnderWay(o) /\ ToldInv /\ ActorInv(o) /\ DataInv(o)
        /\ op[o].kind \in Creation \cup {"delete"} /\ Tail(op[o].todo) = <<>>
        /\ \A z : At(o, z) <=> z = "store"
        /\ \A S : In(o, S) <=> "store" \in S
    BY <1>1, Here DEF PlanStep
  <1>3. Moves(o, <<>>)
    BY <1>2, DoneMoves DEF Destroy
  <1>4. /\ ~UnderWay(o)' /\ (\A z : ~At(o, z)') /\ (\A S : ~In(o, S)')
        /\ ~Filling(o)' /\ ~Destroyer(o)'
    BY <1>3, There DEF Moves
  <1>5. op'[o].kind = op[o].kind /\ op'[o].met = op[o].met /\ Others(o)
    BY <1>3 DEF Moves
  <1>6. /\ hasty' <=> hasty \/ op[o].met
        /\ ~soiled' => ~soiled \/ op[o].kind = "delete"
    BY <1>2 DEF Destroy
  <1>7. TypeOK'
    <2>1. hasty' \in BOOLEAN /\ soiled' \in BOOLEAN
      BY DEF Destroy
    <2>2. QED
      BY <1>2, <1>5, <2>1 DEF TypeOK, Others, Destroy
  <1>8. \A p \in Op : PlanInv(p)'
    <2>1. PlanInv(o)'
      BY <1>2, <1>3, PlanKeeps DEF Moves
    <2>2. QED
      BY <1>5, <2>1, OthersStay
  <1>9. MetInv'
    BY <1>2, <1>4, <1>5, OthersStay, MetKeeps
  <1>10. ~hasty' => actor = None
    BY <1>2, <1>6 DEF ActorInv
  <1>11. ASSUME NEW p \in Op
         PROVE  StoreInv(p)' /\ ActorInv(p)' /\ DataInv(p)' /\ ReadInv(p)'
    <2>1. CASE p = o
      BY <1>4, <2>1 DEF StoreInv, ActorInv, DataInv, ReadInv
    <2>2. CASE p # o
      <3>1. /\ op'[p] = op[p] /\ (Filling(p)' <=> Filling(p))
            /\ \A s : At(p, s)' <=> At(p, s)
            /\ \A S : In(p, S)' <=> In(p, S)
        BY <1>5, <2>2, OthersStay
      <3>2. ActorInv(p) /\ DataInv(p) /\ ReadInv(p) /\ Status' = Status
        BY DEF IInv, Status, Destroy
      <3>3. DataInv(p)' /\ ActorInv(p)'
        BY <1>10, <3>1, <3>2 DEF DataInv, ActorInv, Destroy
      <3>4. ReadInv(p)'
        BY <3>1, <3>2 DEF ReadInv, Destroy
      <3>5. StoreInv(p)'
        <4>1. Filling(p) => op[o].met
          BY <1>2, <2>2 DEF MetInv, IInv
        <4>2. op[p].kind \in Creation /\ In(p, {"plc", "rows"}) => Filling(p)
          BY DEF In, Filling
        <4>3. QED
          BY <1>6, <3>1, <4>1, <4>2 DEF StoreInv
      <3>6. QED
        BY <3>3, <3>4, <3>5
    <2>3. QED
      BY <2>1, <2>2
  <1>12. AccountHasStore'
    BY <1>10 DEF AccountHasStore, Destroy
  <1>13. LeftInv'
    <2>1. SUFFICES ASSUME ~soiled', ~hasty', actor' = None, data'
                   PROVE  \E p \in Op : Destroyer(p)' /\ op'[p].met
      BY DEF LeftInv, Destroy
    <2>2. ~hasty /\ ~op[o].met /\ actor = None /\ data
      BY <1>6, <2>1 DEF Destroy
    <2>3. ~soiled
      BY <1>2, <1>6, <2>1, <2>2 DEF DataInv
    <2>4. PICK p \in Op : Destroyer(p) /\ op[p].met
      BY <2>2, <2>3 DEF LeftInv, IInv
    <2>5. Destroyer(p)' /\ op'[p].met
      BY <1>5, <2>2, <2>4, OthersStay
    <2>6. QED
      BY <2>5
  <1>14. ToldInv'
    <2>1. ~Debtor(o)
      BY <1>2 DEF Debtor
    <2>2. QED
      BY <1>2, <1>5, <1>6, <2>1, ToldKeeps DEF Others, Destroy
  <1>15. QED
    BY <1>7, <1>8, <1>9, <1>11, <1>12, <1>13, <1>14 DEF IInv

LEMMA MakeStoreKeeps ==
  ASSUME IInv, NEW o \in Op, MakeStore(o)
  PROVE  IInv'
  <1>1. At(o, "make")
    BY DEF MakeStore
  <1>2. /\ TypeOK /\ PlanInv(o) /\ UnderWay(o) /\ ToldInv
        /\ op[o].kind \in Creation /\ Goes(Tail(op[o].todo), "repo")
        /\ \A z : At(o, z) <=> z = "make"
        /\ \A S : In(o, S) <=> "make" \in S
    BY <1>1, Here DEF PlanStep
  <1>3. op \in [Op -> Operation]
    BY <1>2 DEF TypeOK
  <1>4. /\ op'[o] \in Operation /\ op'[o].kind = op[o].kind /\ op'[o].todo = Tail(op[o].todo)
        /\ (op'[o].met <=> op[o].met \/ store # "none")
    <2>1. PICK k \in Kind \cup {None}, t \in Seq(Step), s \in StatusName \cup {None},
               f \in BOOLEAN, v \in BOOLEAN, m \in BOOLEAN :
               op[o] = [kind |-> k, todo |-> t, status |-> s, failed |-> f, overtaken |-> v,
                        met |-> m]
      BY <1>3, Fields
    <2>2. PICK u : u = Tail(t)
      OBVIOUS
    <2>3. u \in Seq(Step)
      BY <1>2, <2>1, <2>2 DEF UnderWay
    <2>4. PICK n \in BOOLEAN : n <=> op[o].met \/ store # "none"
      OBVIOUS
    <2>5. op'[o] = [op[o] EXCEPT !.todo = Tail(op[o].todo), !.met = op[o].met \/ store # "none"]
      BY DEF MakeStore
    <2>6. op'[o] = [[op[o] EXCEPT !.todo = u] EXCEPT !.met = n]
      <3>1. op[o].todo = t
        BY <2>1
      <3>2. QED
        BY <2>2, <2>4, <2>5, <3>1
    <2>7. PICK q : q = [op[o] EXCEPT !.todo = u]
      OBVIOUS
    <2>8. q = [kind |-> k, todo |-> u, status |-> s, failed |-> f, overtaken |-> v, met |-> m]
      BY <2>1, <2>7
    <2>9. op'[o] = [kind |-> k, todo |-> u, status |-> s, failed |-> f, overtaken |-> v,
                    met |-> n]
      <3>1. op'[o] = [q EXCEPT !.met = n]
        BY <2>6, <2>7
      <3>2. QED
        BY <2>8, <3>1
    <2>10. QED
      BY <2>1, <2>2, <2>3, <2>4, <2>9 DEF Operation
  <1>5. ASSUME NEW p \in Op \ {o}
        PROVE  /\ op'[p] \in Operation /\ op'[p].kind = op[p].kind /\ op'[p].todo = op[p].todo
               /\ op'[p].status = op[p].status /\ op'[p].overtaken = op[p].overtaken
               /\ (op'[p].met <=> op[p].met \/ UnderWay(p))
    <2>1. CASE UnderWay(p)
      <3>1. PICK k \in Kind \cup {None}, t \in Seq(Step), s \in StatusName \cup {None},
                 f \in BOOLEAN, v \in BOOLEAN, m \in BOOLEAN :
                 op[p] = [kind |-> k, todo |-> t, status |-> s, failed |-> f, overtaken |-> v,
                          met |-> m]
        BY <1>3, Fields
      <3>2. op'[p] = [op[p] EXCEPT !.met = TRUE]
        BY <2>1 DEF MakeStore
      <3>3. PICK n \in BOOLEAN : n = TRUE
        OBVIOUS
      <3>4. op'[p] = [kind |-> k, todo |-> t, status |-> s, failed |-> f, overtaken |-> v,
                      met |-> n]
        <4>1. op'[p] = [op[p] EXCEPT !.met = n]
          BY <3>2, <3>3
        <4>2. QED
          BY <3>1, <4>1
      <3>5. QED
        BY <2>1, <3>1, <3>3, <3>4 DEF Operation
    <2>2. CASE ~UnderWay(p)
      <3>1. op'[p] = op[p]
        BY <2>2 DEF MakeStore
      <3>2. QED
        BY <1>3, <2>2, <3>1
    <2>3. QED
      BY <2>1, <2>2
  <1>6. op' \in [Op -> Operation]
    BY <1>4, <1>5 DEF MakeStore
  <1>7. TypeOK'
    BY <1>2, <1>6 DEF TypeOK, MakeStore
  <1>8. UnderWay(o)' /\ (\A z : At(o, z)' <=> z = "repo") /\ \A S : In(o, S)' <=> "repo" \in S
    BY <1>2, <1>4, There
  <1>9. Filling(o)' /\ Destroyer(o)' /\ ~Filling(o) /\ ~Destroyer(o) /\ ~Debtor(o)
    BY <1>2, <1>4, <1>8 DEF Filling, Destroyer, Debtor, Undoing, Creation
  <1>10. \A p \in Op \ {o} :
            /\ UnderWay(p)' <=> UnderWay(p)
            /\ \A s : At(p, s)' <=> At(p, s)
            /\ \A S : In(p, S)' <=> In(p, S)
            /\ Filling(p)' <=> Filling(p)
            /\ Destroyer(p)' <=> Destroyer(p)
            /\ PlanInv(p)' <=> PlanInv(p)
    BY <1>5, Stays
  <1>11. \A p \in Op : PlanInv(p)'
    <2>1. PlanInv(o)'
      BY <1>2, <1>4, PlanKeeps
    <2>2. QED
      BY <1>10, <2>1 DEF IInv
  <1>12. MetInv'
    <2>1. \A p \in Op \ {o} : UnderWay(p)' => op'[p].met
      BY <1>5, <1>10
    <2>2. \A p \in Op \ {o} : Filling(p)' => op'[o].met
      BY <1>2, <1>4, <1>10 DEF MetInv, IInv
    <2>3. QED
      BY <2>1, <2>2 DEF MetInv
  <1>13. store = "repo" => store' = "repo"
    BY DEF MakeStore
  <1>14. ASSUME NEW p \in Op
         PROVE  StoreInv(p)' /\ ActorInv(p)' /\ DataInv(p)' /\ ReadInv(p)'
    <2>1. CASE p = o
      <3>1. ActorInv(o)'
        <4>1. store # "none" => op'[o].met
          BY <1>4
        <4>2. store = "none" /\ ~hasty => actor = None
          BY DEF IInv, AccountHasStore
        <4>3. QED
          BY <4>1, <4>2 DEF ActorInv, MakeStore
      <3>2. QED
        BY <1>2, <1>4, <1>8, <2>1, <3>1 DEF StoreInv, DataInv, ReadInv, Creation
    <2>2. CASE p # o
      <3>1. StoreInv(p) /\ ReadInv(p) /\ Status' = Status
        BY DEF IInv, Status, MakeStore
      <3>2. /\ \A s : At(p, s)' <=> At(p, s)
            /\ \A S : In(p, S)' <=> In(p, S)
            /\ Filling(p)' <=> Filling(p)
        BY <1>10, <2>2
      <3>3. StoreInv(p)'
        BY <1>5, <1>13, <2>2, <3>1, <3>2 DEF StoreInv, MakeStore
      <3>4. ReadInv(p)'
        BY <1>5, <2>2, <3>1, <3>2 DEF ReadInv, MakeStore
      <3>5. ActorInv(p)' /\ DataInv(p)'
        <4>1. (\E s : At(p, s)) => op'[p].met
          BY <1>5, <2>2 DEF At
        <4>2. QED
          BY <3>2, <4>1 DEF ActorInv, DataInv, In, Filling
      <3>6. QED
        BY <3>3, <3>4, <3>5
    <2>3. QED
      BY <2>1, <2>2
  <1>15. AccountHasStore'
    BY <1>13 DEF AccountHasStore, IInv, MakeStore
  <1>16. LeftInv'
    <2>1. \A p \in Op : Destroyer(p) /\ op[p].met => Destroyer(p)' /\ op'[p].met
      BY <1>5, <1>9, <1>10
    <2>2. QED
      BY <1>9, <2>1 DEF LeftInv, IInv, MakeStore
  <1>17. ToldInv'
    BY <1>2, <1>5, <1>9, ToldKeeps DEF MakeStore
  <1>18. QED
    BY <1>7, <1>11, <1>12, <1>14, <1>15, <1>16, <1>17 DEF IInv

\* Operations that a change of the status overtakes
LEMMA OvertakenStay ==
  ASSUME IInv, NEW o \in Op, Overtakes(o), NEW p \in Op \ {o}
  PROVE  /\ op'[p].kind = op[p].kind /\ op'[p].met = op[p].met /\ PlanInv(p)' /\ ReadInv(p)'
         /\ UnderWay(p)' <=> UnderWay(p)
         /\ \A s : At(p, s)' <=> At(p, s)
         /\ \A S : In(p, S)' <=> In(p, S)
         /\ Filling(p)' <=> Filling(p)
         /\ Destroyer(p)' <=> Destroyer(p)
  <1>1. /\ op'[p].kind = op[p].kind /\ op'[p].met = op[p].met /\ op'[p].todo = op[p].todo
        /\ op'[p].status = op[p].status /\ (UnderWay(p) => op'[p].overtaken)
    BY DEF Overtakes
  <1>2. /\ PlanInv(p)'
        /\ UnderWay(p)' <=> UnderWay(p)
        /\ \A s : At(p, s)' <=> At(p, s)
        /\ \A S : In(p, S)' <=> In(p, S)
        /\ Filling(p)' <=> Filling(p)
        /\ Destroyer(p)' <=> Destroyer(p)
    BY <1>1, Stays DEF IInv
  <1>3. ReadInv(p)'
    <2>1. op'[p].overtaken \/ \A s : ~At(p, s)
      BY <1>1 DEF At
    <2>2. ReadInv(p)
      BY DEF IInv
    <2>3. QED
      BY <1>1, <1>2, <2>1, <2>2 DEF ReadInv, In
  <1>4. QED
    BY <1>1, <1>2, <1>3

\* What all changes of the status leave as it is
LEMMA OvertakeKeeps ==
  ASSUME IInv, NEW o \in Op, UnderWay(o), Overtakes(o), TypeOK',
         Filling(o)' => Filling(o), PlanInv(o)'
  PROVE  MetInv' /\ \A p \in Op : PlanInv(p)'
  <1>1. op'[o].met = op[o].met
    BY DEF Overtakes
  <1>2. MetInv'
    BY <1>1, OvertakenStay, MetKeeps
  <1>3. QED
    BY <1>2, OvertakenStay

LEMMA UpdateKeeps ==
  ASSUME IInv, NEW o \in Op, Update(o)
  PROVE  IInv'
  <1>1. At(o, "update")
    BY DEF Update
  <1>2. CASE ~Found(op[o].kind)
    BY <1>1, <1>2, RefusedUpdateKeeps DEF Update
  <1>3. CASE Found(op[o].kind)
    <2>1. /\ TypeOK /\ PlanInv(o) /\ UnderWay(o) /\ ToldInv
          /\ op[o].kind \in Updates /\ Goes(Tail(op[o].todo), "read")
          /\ \A z : At(o, z) <=> z = "update"
          /\ \A S : In(o, S) <=> "update" \in S
      BY <1>1, Here DEF PlanStep
    <2>2. Overtakes(o)
      BY <1>3, <2>1, DoneAndOvertakes DEF Update
    <2>3. /\ actor' \in Actor \cup {None} /\ (actor' = None <=> actor = None)
          /\ op[o].kind \in {"deactivate", "activate"} => actor # None
      <3>1. op[o].kind \in {"deactivate", "activate"} => actor # None
        BY <1>3 DEF Found
      <3>2. CASE actor = None
        BY <1>3, <3>1, <3>2 DEF Update
      <3>3. CASE actor # None
        <4>1. PICK t \in BOOLEAN, d \in BOOLEAN : actor = [takendown |-> t, deactivated |-> d]
          BY <2>1, <3>3 DEF TypeOK, Actor
        <4>2. PICK c : c = op[o].kind
          OBVIOUS
        <4>3. PICK x \in BOOLEAN : x <=> c = "takedown"
          OBVIOUS
        <4>4. PICK y \in BOOLEAN : y <=> c = "deactivate"
          OBVIOUS
        <4>5. Changed(c) = [actor EXCEPT !.takendown = x]
                \/ Changed(c) = [actor EXCEPT !.deactivated = y]
          BY <4>3, <4>4 DEF Changed
        <4>6. [actor EXCEPT !.takendown = x] = [takendown |-> x, deactivated |-> d]
          BY <4>1
        <4>7. [actor EXCEPT !.deactivated = y] = [takendown |-> t, deactivated |-> y]
          BY <4>1
        <4>8. Changed(c) \in Actor
          BY <4>5, <4>6, <4>7 DEF Actor
        <4>9. actor' = Changed(c)
          BY <1>3, <3>3, <4>2 DEF Update
        <4>10. QED
          BY <3>1, <3>3, <4>8, <4>9, Kinds
      <3>4. QED
        BY <3>2, <3>3
    <2>4. UnderWay(o)' /\ (\A z : At(o, z)' <=> z = "read") /\ \A S : In(o, S)' <=> "read" \in S
      BY <2>1, <2>2, There DEF Overtakes
    <2>5. TypeOK'
      BY <2>1, <2>2, <2>3 DEF TypeOK, Overtakes, Update
    <2>6. op'[o].kind = op[o].kind /\ op'[o].todo = Tail(op[o].todo)
      BY <2>2 DEF Overtakes
    <2>7. ~Filling(o)' /\ ~Destroyer(o)
      BY <2>1, <2>4 DEF Filling, Destroyer, Updates, Creation
    <2>8. MetInv' /\ \A p \in Op : PlanInv(p)'
      BY <2>1, <2>2, <2>5, <2>6, <2>7, PlanKeeps, OvertakeKeeps
    <2>9. ASSUME NEW p \in Op
          PROVE  StoreInv(p)' /\ ActorInv(p)' /\ DataInv(p)' /\ ReadInv(p)'
      <3>1. CASE p = o
        BY <2>1, <2>4, <2>6, <2>7, <3>1 DEF StoreInv, ActorInv, DataInv, ReadInv, Updates,
           Creation
      <3>2. CASE p # o
        <4>1. StoreInv(p) /\ ActorInv(p) /\ DataInv(p)
          BY DEF IInv
        <4>2. QED
          BY <2>2, <2>3, <3>2, <4>1, OvertakenStay DEF StoreInv, ActorInv, DataInv, Update
      <3>3. QED
        BY <3>1, <3>2
    <2>10. AccountHasStore'
      BY <2>3 DEF AccountHasStore, IInv, Update
    <2>11. LeftInv'
      <3>1. \A p \in Op : Destroyer(p) => Destroyer(p)' /\ op'[p].met = op[p].met
        BY <2>2, <2>7, OvertakenStay
      <3>2. QED
        BY <2>3, <3>1 DEF LeftInv, IInv, Update
    <2>12. Debtor(o)'
      BY <2>3, <2>4, <2>6 DEF Debtor
    <2>13. ToldInv'
      BY <2>12 DEF ToldInv
    <2>14. QED
      BY <2>5, <2>8, <2>9, <2>10, <2>11, <2>13 DEF IInv
  <1>4. QED
    BY <1>2, <1>3

LEMMA CreateRowsKeeps ==
  ASSUME IInv, NEW o \in Op, CreateRows(o)
  PROVE  IInv'
  <1>1. At(o, "rows")
    BY DEF CreateRows
  <1>2. CASE ~(actor = None /\ ~data)
    BY <1>1, <1>2, FallsBack DEF CreateRows
  <1>3. CASE actor = None /\ ~data
    <2>1. /\ TypeOK /\ PlanInv(o) /\ UnderWay(o) /\ StoreInv(o)
          /\ op[o].kind \in Creation
          /\ Goes(Tail(op[o].todo), IF op[o].kind = "create" THEN "created" ELSE "finish")
          /\ \A z : At(o, z) <=> z = "rows"
          /\ \A S : In(o, S) <=> "rows" \in S
      BY <1>1, Here DEF PlanStep
    <2>2. Overtakes(o)
      BY <1>3, <2>1, DoneAndOvertakes DEF CreateRows
    <2>3. PICK i \in BOOLEAN : i <=> op[o].kind = "import"
      OBVIOUS
    <2>4. PICK f \in BOOLEAN : f = FALSE
      OBVIOUS
    <2>5. /\ actor' \in Actor /\ actor' # None /\ ~actor'.takendown
          /\ actor'.deactivated <=> op[o].kind = "import"
      <3>1. actor' = [takendown |-> f, deactivated |-> i]
        BY <1>3, <2>3, <2>4 DEF CreateRows
      <3>2. QED
        BY <2>3, <2>4, <3>1, Kinds DEF Actor
    <2>6. op'[o].kind = op[o].kind /\ op'[o].todo = Tail(op[o].todo)
      BY <2>2 DEF Overtakes
    <2>7. PICK s : s = IF op[o].kind = "create" THEN "created" ELSE "finish"
      OBVIOUS
    <2>8. UnderWay(o)' /\ (\A z : At(o, z)' <=> z = s) /\ \A S : In(o, S)' <=> s \in S
      BY <2>1, <2>6, <2>7, There
    <2>9. untold' <=> untold \/ op[o].kind = "import"
      BY <1>3 DEF CreateRows
    <2>10. TypeOK'
      <3>1. untold' \in BOOLEAN /\ data' \in BOOLEAN
        BY <1>3 DEF CreateRows
      <3>2. QED
        BY <2>1, <2>2, <2>5, <3>1 DEF TypeOK, Overtakes, CreateRows
    <2>11. Filling(o) /\ ~Filling(o)'
      BY <2>1, <2>7, <2>8 DEF Filling
    <2>12. MetInv' /\ \A p \in Op : PlanInv(p)'
      BY <2>1, <2>2, <2>6, <2>10, <2>11, PlanKeeps, OvertakeKeeps
    <2>13. ASSUME NEW p \in Op
           PROVE  StoreInv(p)' /\ ActorInv(p)' /\ DataInv(p)' /\ ReadInv(p)'
      <3>1. CASE p = o
        <4>1. ReadInv(o)'
          <5>1. op[o].kind = "create" => Status' = "active"
            BY <2>5 DEF Status
          <5>2. QED
            BY <2>1, <2>6, <2>7, <2>8, <5>1 DEF ReadInv, Creation
        <4>2. QED
          BY <2>1, <2>6, <2>7, <2>8, <2>11, <3>1, <4>1 DEF StoreInv, ActorInv, DataInv, Creation
      <3>2. CASE p # o
        <4>1. /\ op'[p].kind = op[p].kind /\ op'[p].met = op[p].met /\ ReadInv(p)'
              /\ (UnderWay(p)' <=> UnderWay(p))
              /\ \A S : In(p, S)' <=> In(p, S)
          BY <2>2, <3>2, OvertakenStay
        <4>2. StoreInv(p)'
          BY <4>1 DEF StoreInv, IInv, CreateRows
        <4>3. UnderWay(p)' => op'[p].met
          BY <2>11, <3>2, <4>1 DEF MetInv, IInv
        <4>4. (\E z : At(p, z)') => op'[p].met
          BY <4>3 DEF At
        <4>5. ActorInv(p)' /\ DataInv(p)'
          BY <4>4 DEF ActorInv, DataInv, In, Filling
        <4>6. QED
          BY <4>1, <4>2, <4>5
      <3>3. QED
        BY <3>1, <3>2
    <2>14. AccountHasStore'
      BY <2>1 DEF AccountHasStore, StoreInv, CreateRows
    <2>15. LeftInv'
      BY <2>5 DEF LeftInv
    <2>16. ToldInv'
      <3>1. CASE op[o].kind = "import"
        BY <2>9, <3>1 DEF ToldInv
      <3>2. CASE op[o].kind = "create"
        <4>1. Debtor(o)'
          BY <2>7, <2>8, <3>2 DEF Debtor
        <4>2. QED
          BY <4>1 DEF ToldInv
      <3>3. QED
        BY <2>1, <3>1, <3>2 DEF Creation
    <2>17. QED
      BY <2>10, <2>12, <2>13, <2>14, <2>15, <2>16 DEF IInv
  <1>4. QED
    BY <1>2, <1>3

LEMMA DeleteActorKeeps ==
  ASSUME IInv, NEW o \in Op, DeleteActor(o)
  PROVE  IInv'
  <1>1. At(o, "actor")
    BY DEF DeleteActor
  <1>2. /\ TypeOK /\ PlanInv(o) /\ UnderWay(o) /\ DataInv(o) /\ ToldInv
        /\ op[o].kind \in Creation \cup {"delete"}
        /\ Goes(Tail(op[o].todo), IF op[o].kind = "delete" THEN "event" ELSE "store")
        /\ \A z : At(o, z) <=> z = "actor"
        /\ \A S : In(o, S) <=> "actor" \in S
    BY <1>1, Here DEF PlanStep
  <1>3. Overtakes(o)
    BY <1>2, DoneAndOvertakes DEF DeleteActor
  <1>4. op'[o].kind = op[o].kind /\ op'[o].todo = Tail(op[o].todo) /\ op'[o].met = op[o].met
    BY <1>3 DEF Overtakes
  <1>5. PICK s : s = IF op[o].kind = "delete" THEN "event" ELSE "store"
    OBVIOUS
  <1>6. UnderWay(o)' /\ (\A z : At(o, z)' <=> z = s) /\ \A S : In(o, S)' <=> s \in S
    BY <1>2, <1>4, <1>5, There
  <1>7. untold' <=> untold \/ (op[o].kind \in Creation /\ actor # None)
    BY DEF DeleteActor
  <1>8. TypeOK'
    <2>1. untold' \in BOOLEAN
      BY DEF DeleteActor
    <2>2. QED
      BY <1>2, <1>3, <2>1 DEF TypeOK, Overtakes, DeleteActor
  <1>9. ~Filling(o)' /\ Destroyer(o)'
    BY <1>2, <1>4, <1>5, <1>6 DEF Filling, Destroyer, Undoing, Creation
  <1>10. MetInv' /\ \A p \in Op : PlanInv(p)'
    BY <1>2, <1>3, <1>4, <1>8, <1>9, PlanKeeps, OvertakeKeeps
  <1>11. actor' = None
    BY DEF DeleteActor
  <1>12. ASSUME NEW p \in Op
         PROVE  StoreInv(p)' /\ ActorInv(p)' /\ DataInv(p)' /\ ReadInv(p)'
    <2>1. ActorInv(p)'
      BY <1>11 DEF ActorInv
    <2>2. CASE p = o
      BY <1>2, <1>4, <1>5, <1>6, <1>11, <2>1, <2>2 DEF StoreInv, DataInv, ReadInv, Creation,
         DeleteActor
    <2>3. CASE p # o
      <3>1. StoreInv(p) /\ DataInv(p)
        BY DEF IInv
      <3>2. QED
        BY <1>3, <2>1, <2>3, <3>1, OvertakenStay DEF StoreInv, DataInv, DeleteActor
    <2>4. QED
      BY <2>2, <2>3
  <1>13. AccountHasStore'
    BY <1>11 DEF AccountHasStore
  <1>14. LeftInv'
    <2>1. data => op[o].met
      BY <1>2 DEF DataInv
    <2>2. QED
      BY <1>4, <1>9, <2>1 DEF LeftInv, DeleteActor
  <1>15. ToldInv'
    <2>1. CASE op[o].kind = "delete"
      <3>1. Debtor(o)'
        BY <1>4, <1>5, <1>6, <2>1 DEF Debtor
      <3>2. QED
        BY <3>1 DEF ToldInv
    <2>2. CASE op[o].kind \in Creation /\ actor # None
      BY <1>7, <2>2 DEF ToldInv
    <2>3. CASE op[o].kind \in Creation /\ actor = None
      <3>1. ~Debtor(o)
        BY <1>2, <2>3 DEF Debtor, Creation
      <3>2. QED
        BY <1>2, <1>3, <1>7, <1>11, <2>3, <3>1, ToldKeeps DEF Overtakes, DeleteActor
    <2>4. QED
      BY <1>2, <2>1, <2>2, <2>3
  <1>16. QED
    BY <1>8, <1>10, <1>12, <1>13, <1>14, <1>15 DEF IInv

-----------------------------------------------------------------------------
(* Theorems *)

LEMMA Initially == Init => IInv
  <1>1. SUFFICES ASSUME Init PROVE IInv
    OBVIOUS
  <1>2. op = [o \in Op |-> Idle] /\ faults = 0 /\ ~untold /\ ~soiled /\ ~hasty
    BY <1>1 DEF Init
  <1>3. Idle \in Operation /\ Idle.kind = None /\ Idle.todo = <<>>
    <2>1. <<>> \in Seq(Step)
      OBVIOUS
    <2>2. QED
      BY <2>1 DEF Idle, Operation
  <1>4. \A o \in Op : /\ ~UnderWay(o) /\ (\A s : ~At(o, s)) /\ (\A S : ~In(o, S))
                      /\ ~Filling(o) /\ ~Destroyer(o) /\ PlanInv(o)
    <2>1. \A o \in Op : ~UnderWay(o) /\ (\A s : ~At(o, s)) /\ PlanInv(o)
      BY <1>2, <1>3 DEF UnderWay, At, PlanInv
    <2>2. \A o \in Op : ~Filling(o) /\ (\A S : ~In(o, S))
      BY <2>1 DEF Filling, In
    <2>3. QED
      BY <2>1, <2>2 DEF Destroyer
  <1>5. PICK a : a = [takendown |-> FALSE, deactivated |-> FALSE]
    OBVIOUS
  <1>6. PICK e : e = [by |-> None, status |-> "active"]
    OBVIOUS
  <1>7. a \in Actor /\ a # None /\ ~a.takendown /\ ~a.deactivated
    <2>1. PICK f \in BOOLEAN : f = FALSE
      OBVIOUS
    <2>2. a = [takendown |-> f, deactivated |-> f]
      BY <1>5, <2>1
    <2>3. QED
      BY <2>1, <2>2, Kinds DEF Actor
  <1>8. e \in Event /\ e.status = "active"
    BY <1>6 DEF Event, StatusName
  <1>9. \/ actor = None /\ data = FALSE /\ store = "none" /\ events = <<>>
        \/ actor = a /\ data = TRUE /\ store = "repo" /\ events = <<e>>
    <2>1. \/ actor = None /\ data = FALSE /\ store = "none" /\ events = <<>>
          \/ /\ actor = [takendown |-> FALSE, deactivated |-> FALSE]
             /\ data = TRUE /\ store = "repo"
             /\ events = <<[by |-> None, status |-> "active"]>>
      BY <1>1 DEF Init
    <2>2. QED
      BY <1>5, <1>6, <2>1
  <1>10. events \in Seq(Event) /\ Told
    <2>1. <<>> \in Seq(Event) /\ <<e>> \in Seq(Event) /\ Last(<<e>>) = e
      BY <1>8 DEF Last
    <2>2. QED
      BY <1>7, <1>8, <1>9, <2>1 DEF Told, Status
  <1>11. TypeOK
    <2>1. op \in [Op -> Operation]
      BY <1>2, <1>3
    <2>2. faults \in 0 .. MaxFaults
      BY <1>2, AccountStatusConstants
    <2>3. untold \in BOOLEAN /\ soiled \in BOOLEAN /\ hasty \in BOOLEAN
      BY <1>1, Zenon DEF Init
    <2>4. QED
      BY <1>7, <1>9, <1>10, <2>1, <2>2, <2>3 DEF TypeOK
  <1>12. \A o \in Op : StoreInv(o) /\ ActorInv(o) /\ DataInv(o) /\ ReadInv(o)
    BY <1>4 DEF StoreInv, ActorInv, DataInv, ReadInv
  <1>13. MetInv /\ AccountHasStore /\ LeftInv /\ ToldInv
    BY <1>4, <1>7, <1>9, <1>10 DEF MetInv, AccountHasStore, LeftInv, ToldInv
  <1>14. QED
    BY <1>4, <1>11, <1>12, <1>13 DEF IInv

LEMMA Keeps == IInv /\ [Next]_vars => IInv'
  <1>1. SUFFICES ASSUME IInv, [Next]_vars PROVE IInv'
    OBVIOUS
  <1>2. CASE Crash
    BY <1>1, <1>2, CrashKeeps
  <1>3. ASSUME NEW o \in Op, Run(o)
        PROVE  IInv'
    BY <1>1, <1>3, UpdateKeeps, ReadKeeps, ReadStoreKeeps, AnnounceKeeps, CheckStoreKeeps,
       MakeStoreKeeps, CreateRepoKeeps, SendOperationKeeps, CreateRowsKeeps,
       AnnounceCreationKeeps, FinishKeeps, DeleteDataKeeps, DeleteActorKeeps,
       AnnounceDeletionKeeps, PurgeKeeps, DestroyKeeps DEF Run
  <1>4. ASSUME NEW o \in Op, Fail(o) \/ \E k \in Kind : Start(o, k)
        PROVE  IInv'
    BY <1>1, <1>4, FailKeeps, StartKeeps
  <1>5. CASE UNCHANGED vars
    <2>1. \A p : op'[p].kind = op[p].kind /\ op'[p].todo = op[p].todo /\ op'[p] = op[p]
      BY <1>5 DEF vars
    <2>2. \A p : /\ (\A S : In(p, S)' <=> In(p, S)) /\ (\A s : At(p, s)' <=> At(p, s))
                 /\ (Filling(p)' <=> Filling(p)) /\ (Destroyer(p)' <=> Destroyer(p))
                 /\ (UnderWay(p)' <=> UnderWay(p)) /\ (PlanInv(p)' <=> PlanInv(p))
      BY <2>1, Stays
    <2>3. Status' = Status
      BY <1>5 DEF Status, vars
    <2>4. ToldInv'
      <3>1. \A p : Debtor(p)' <=> Debtor(p)
        BY <1>5, <2>1, <2>2 DEF Debtor, vars
      <3>2. QED
        BY <1>1, <1>5, <2>3, <3>1 DEF ToldInv, Told, IInv, vars
    <2>5. TypeOK' /\ AccountHasStore'
      BY <1>1, <1>5 DEF IInv, TypeOK, AccountHasStore, vars
    <2>6. LeftInv' /\ MetInv'
      BY <1>1, <1>5, <2>2 DEF IInv, LeftInv, MetInv, vars
    <2>7. ASSUME NEW p \in Op
          PROVE  PlanInv(p)' /\ StoreInv(p)' /\ ActorInv(p)' /\ DataInv(p)' /\ ReadInv(p)'
      <3>1. PlanInv(p) /\ StoreInv(p) /\ ActorInv(p) /\ DataInv(p) /\ ReadInv(p)
        BY <1>1 DEF IInv
      <3>2. QED
        BY <1>5, <2>1, <2>2, <2>3, <3>1 DEF StoreInv, ActorInv, DataInv, ReadInv, vars
    <2>8. QED
      BY <2>4, <2>5, <2>6, <2>7 DEF IInv
  <1>6. QED
    BY <1>1, <1>2, <1>3, <1>4, <1>5 DEF Next

\* Whatever operations and faults: the invariant that the properties rest on.
THEOREM Invariance == Spec => []IInv
  BY Initially, Keeps, PTL DEF Spec

\* Every variable keeps its type.
THEOREM TypeCorrect == Spec => []TypeOK
  <1>1. IInv => TypeOK
    BY DEF IInv
  <1>2. QED
    BY <1>1, Invariance, PTL

\* When nothing is under way the firehose has told the account's status, for any
\* number of operations: each change of the status leaves an operation that
\* will announce it, and an operation that was not overtaken knows it.
THEOREM StatusGetsOut == Spec => []StatusIsTold
  <1>1. IInv => StatusIsTold
    <2>1. SUFFICES ASSUME IInv, Quiet, ~untold, ~hasty, events # <<>>
                   PROVE  Last(events).status = Status
      BY DEF StatusIsTold
    <2>2. \A o \in Op : ~Debtor(o)
      BY <2>1 DEF Quiet, Debtor, In, At
    <2>3. QED
      BY <2>1, <2>2 DEF IInv, ToldInv, Told
  <1>2. QED
    BY <1>1, Invariance, PTL

\* An account in the database has its repository: who destroys a store has seen
\* the account go, or has met a creation of it.
THEOREM StoreGoesLast == Spec => []AccountHasStore
  <1>1. IInv => AccountHasStore
    BY DEF IInv
  <1>2. QED
    BY <1>1, Invariance, PTL

\* A creation that fails and a deletion leave nothing: what is there without an
\* account is there only while the operation runs that will remove it.
THEOREM DeletionIsComplete == Spec => []NothingLeft
  <1>1. IInv => NothingLeft
    <2>1. SUFFICES ASSUME IInv, Quiet, ~soiled, ~hasty, actor = None
                   PROVE  store = "none" /\ ~data
      BY DEF NothingLeft
    <2>2. \A o \in Op : ~Destroyer(o)
      BY <2>1 DEF Quiet, Destroyer, Filling, In, At
    <2>3. QED
      BY <2>1, <2>2 DEF IInv, LeftInv
  <1>2. QED
    BY <1>1, Invariance, PTL

=============================================================================
