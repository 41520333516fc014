---------------------------- MODULE MemoryRunner ----------------------------
(***************************************************************************)
(* A consumer of the firehose: Firehose and MemoryRunner                   *)
(* (packages/sync/src/firehose/index.ts, packages/sync/src/runner).        *)
(*                                                                         *)
(* Events arrive in the order of the log.  The runner tracks each in a     *)
(* ConsecutiveList and hands it to the queue of its repo; handlers of one  *)
(* repo run one after the other, those of different repos side by side.    *)
(* Its cursor is the last event of the completed prefix of the list, and   *)
(* a new subscription starts after it.  Subscriptions break, and the       *)
(* process may stop and start again from the cursor it has persisted.      *)
(*                                                                         *)
(* Abstraction.  An event is its position in the log, the repo it is about *)
(* and whether it passes validation; what a subscription delivers is the   *)
(* log from a position on (module EventStream).  PQueue starts a task as   *)
(* soon as it can, so which tasks run is a function of those that are not  *)
(* finished.  A handler that fails is reported and counts as completed.    *)
(***************************************************************************)
EXTENDS Integers, Sequences, FiniteSets

CONSTANTS
    Did,          \* repos
    Concurrency,  \* tasks the main queue runs at a time
    StartCursor,  \* startCursor of the first start, -1 when undefined
    Persists,     \* is setCursor given, and read back at a restart?
    MaxSeq,       \* bound: events in the log
    MaxConnects,  \* bound: subscriptions
    MaxRestarts   \* bound: restarts of the process

ASSUME RunnerConstants ==
    /\ Concurrency \in Nat \ {0}
    /\ StartCursor \in Nat \cup {-1}
    /\ Persists \in BOOLEAN
    /\ MaxSeq \in Nat /\ MaxConnects \in Nat /\ MaxRestarts \in Nat

VARIABLES
    log,        \* the events published so far
    position,   \* last event the open subscription delivered, -1 when closed
    tasks,      \* tracked events, in the order trackEvent was called
    spliced,    \* how many tasks have left the ConsecutiveList
    cursor,     \* MemoryRunner.cursor, -1 when undefined
    stored,     \* the cursor that setCursor has persisted
    destroyed,  \* MemoryRunner.destroyed
    handled,    \* history: the events whose handler took effect, in order
    origin,     \* history: the event the consumer follows the log from
    connects,   \* history: subscriptions so far
    restarts    \* history: restarts so far

vars == <<log, position, tasks, spliced, cursor, stored, destroyed, handled,
          origin, connects, restarts>>

Event == [did : Did, valid : BOOLEAN]

\* waiting: in a queue, or its handler runs and has no effect yet
\* handled: the handler took effect;  saving: setCursor(save) is in progress
\* lost: cleared from the queue of its repo, still pending in the main queue
Stage == {"waiting", "handled", "saving", "done", "dropped", "lost"}
Task == [seq : Nat, stage : Stage, save : Nat \cup {-1}]

TypeOK ==
    /\ log \in Seq(Event)
    /\ position \in -1 .. Len(log)
    /\ tasks \in Seq(Task)
    /\ spliced \in 0 .. Len(tasks)
    /\ {cursor, stored} \subseteq Nat \cup {-1}
    /\ StartCursor # -1 => cursor # -1 /\ stored # -1
    /\ destroyed \in BOOLEAN
    /\ handled \in Seq(Nat)
    /\ origin \in Nat \cup {-1}
    /\ connects \in Nat /\ restarts \in Nat

Init ==
    /\ log = <<>> /\ position = -1 /\ tasks = <<>> /\ spliced = 0
    /\ cursor = StartCursor /\ stored = StartCursor
    /\ destroyed = FALSE /\ handled = <<>> /\ origin = StartCursor
    /\ connects = 0 /\ restarts = 0

-----------------------------------------------------------------------------
(* The queues *)

Repo(i) == log[tasks[i].seq].did
Unfinished(i) == tasks[i].stage \notin {"done", "dropped"}
IsComplete(i) == tasks[i].stage \in {"saving", "done"}

\* The main queue starts tasks first come, first served
Started(i) ==
    /\ Unfinished(i)
    /\ Cardinality({j \in 1 .. i : Unfinished(j)}) <= Concurrency

\* Mutant: no queue per repo
RunningUnordered(i) == Started(i) /\ tasks[i].stage # "lost"

\* The queue of a repo runs one task at a time
Running(i) ==
    /\ Started(i) /\ tasks[i].stage # "lost"
    /\ \A j \in 1 .. i - 1 : Unfinished(j) => Repo(j) # Repo(i)

\* Tasks that leave the ConsecutiveList when task i completes
Consecutive(i) ==
    {j \in spliced + 1 .. Len(tasks) :
        \A k \in spliced + 1 .. j : k = i \/ IsComplete(k)}

-----------------------------------------------------------------------------
(* The stream *)

Publish(d, valid) ==
    /\ Len(log) < MaxSeq
    /\ log' = Append(log, [did |-> d, valid |-> valid])
    /\ UNCHANGED <<position, tasks, spliced, cursor, stored, destroyed,
                   handled, origin, connects, restarts>>

\* Mutant: a reconnect goes on with the next event
ConnectLatest ==
    /\ position = -1 /\ ~destroyed /\ connects < MaxConnects
    /\ connects' = connects + 1
    /\ position' = Len(log)
    /\ UNCHANGED <<log, tasks, spliced, cursor, stored, destroyed, handled,
                   origin, restarts>>

\* A (re)connect: getParams asks the runner for its cursor; without one the
\* subscription starts with the next event.  A server refuses a cursor in the
\* future, and the consumer tries again.
Connect ==
    /\ position = -1 /\ ~destroyed /\ connects < MaxConnects
    /\ cursor <= Len(log)
    /\ connects' = connects + 1
    /\ position' = IF cursor = -1 THEN Len(log) ELSE cursor
    /\ origin' = IF cursor = -1 /\ tasks = <<>> THEN Len(log) ELSE origin
    /\ UNCHANGED <<log, tasks, spliced, cursor, stored, destroyed, handled,
                   restarts>>

\* The socket closes
Drop ==
    /\ position # -1 /\ connects < MaxConnects
    /\ position' = -1
    /\ UNCHANGED <<log, tasks, spliced, cursor, stored, destroyed, handled,
                   origin, connects, restarts>>

\* start(): the next message; one that fails validation is reported, any other
\* goes to trackEvent
Deliver ==
    /\ position \in 0 .. Len(log) - 1
    /\ position' = position + 1
    /\ tasks' = IF log[position + 1].valid
                THEN Append(tasks, [seq |-> position + 1, stage |-> "waiting",
                                    save |-> -1])
                ELSE tasks
    /\ UNCHANGED <<log, spliced, cursor, stored, destroyed, handled, origin,
                   connects, restarts>>

-----------------------------------------------------------------------------
(* The runner *)

\* The handler of task i takes effect
Handle(i) ==
    /\ Running(i) /\ tasks[i].stage = "waiting"
    /\ handled' = Append(handled, tasks[i].seq)
    /\ tasks' = [tasks EXCEPT ![i].stage = "handled"]
    /\ UNCHANGED <<log, position, spliced, cursor, stored, destroyed, origin,
                   connects, restarts>>

\* Mutant: the cursor is the event that completed
CompleteItself(i) ==
    /\ tasks[i].stage = "handled"
    /\ spliced' = spliced + Cardinality(Consecutive(i))
    /\ cursor' = tasks[i].seq
    /\ tasks' = [tasks EXCEPT ![i].stage = IF Persists THEN "saving" ELSE "done",
                              ![i].save = IF Persists THEN cursor' ELSE -1]
    /\ UNCHANGED <<log, position, stored, destroyed, handled, origin, connects,
                   restarts>>

\* Mutant: a completion that frees no event resets the cursor
CompleteUnchecked(i) ==
    /\ tasks[i].stage = "handled"
    /\ spliced' = spliced + Cardinality(Consecutive(i))
    /\ cursor' = IF Consecutive(i) = {} THEN -1 ELSE tasks[spliced'].seq
    /\ tasks' = [tasks EXCEPT ![i].stage = IF Persists THEN "saving" ELSE "done",
                              ![i].save = IF Persists THEN cursor' ELSE -1]
    /\ UNCHANGED <<log, position, stored, destroyed, handled, origin, connects,
                   restarts>>

\* trackEvent after the handler: complete() takes the completed prefix off the
\* list, and the last event of it becomes the cursor
Complete(i) ==
    /\ tasks[i].stage = "handled"
    /\ IF Consecutive(i) = {}
       THEN /\ tasks' = [tasks EXCEPT ![i].stage = "done"]
            /\ UNCHANGED <<spliced, cursor>>
       ELSE /\ spliced' = spliced + Cardinality(Consecutive(i))
            /\ cursor' = tasks[spliced'].seq
            /\ tasks' = [tasks EXCEPT
                            ![i].stage = IF Persists THEN "saving" ELSE "done",
                            ![i].save = IF Persists THEN cursor' ELSE -1]
    /\ UNCHANGED <<log, position, stored, destroyed, handled, origin, connects,
                   restarts>>

\* setCursor has persisted the cursor it was called with.  Calls of tasks of
\* different repos overlap and end in any order.
Save(i) ==
    /\ tasks[i].stage = "saving"
    /\ stored' = tasks[i].save
    /\ tasks' = [tasks EXCEPT ![i].stage = "done", ![i].save = -1]
    /\ UNCHANGED <<log, position, spliced, cursor, destroyed, handled, origin,
                   connects, restarts>>

\* Shutdown: the subscription ends, then every queue is cleared
Destroy ==
    /\ ~destroyed
    /\ destroyed' = TRUE
    /\ position' = -1
    /\ tasks' = [i \in DOMAIN tasks |->
                    IF ~Unfinished(i) \/ Running(i) THEN tasks[i]
                    ELSE [tasks[i] EXCEPT !.stage =
                            IF Started(i) THEN "lost" ELSE "dropped"]]
    /\ UNCHANGED <<log, spliced, cursor, stored, handled, origin, connects,
                   restarts>>

\* The process stops at any point; the next one starts from the stored cursor
Restart ==
    /\ restarts < MaxRestarts /\ connects < MaxConnects
    /\ restarts' = restarts + 1
    /\ position' = -1 /\ tasks' = <<>> /\ spliced' = 0
    /\ cursor' = stored
    /\ destroyed' = FALSE
    /\ UNCHANGED <<log, stored, handled, origin, connects>>

-----------------------------------------------------------------------------
Work == \E i \in DOMAIN tasks : Handle(i) \/ Complete(i) \/ Save(i)

Next ==
    \/ \E d \in Did, valid \in BOOLEAN : Publish(d, valid)
    \/ Connect \/ Drop \/ Deliver
    \/ Work
    \/ Destroy
    \/ Restart

Spec == Init /\ [][Next]_vars

\* The subscription reconnects for ever, messages arrive, handlers and
\* setCursor end
FairSpec == Spec /\ WF_vars(Connect) /\ WF_vars(Deliver) /\ WF_vars(Work)

-----------------------------------------------------------------------------
(* Properties *)

Handled == {handled[i] : i \in DOMAIN handled}
Events(lo, hi) == {n \in lo + 1 .. hi : n \in DOMAIN log /\ log[n].valid}

\* "This ensures that no events are dropped": every valid event after the one
\* the consumer started from, up to the cursor it holds or has persisted, was
\* handled, however completions, reconnects, saves and restarts interleave.
NoneDropped ==
    \A c \in {cursor, stored} : Events(origin, c) \subseteq Handled

\* "Events from a given repo must be processed in order": no event takes effect
\* before the events of its repo that precede it did.
FirstEffectsInOrder ==
    \A i \in DOMAIN handled :
        \A n \in Events(origin, handled[i] - 1) :
            log[n].did = log[handled[i]].did => \E j \in 1 .. i - 1 : handled[j] = n

\* Every valid event after the one the consumer started from is handled in the
\* end, in spite of reconnects, replays, a cursor that goes back with a replay,
\* and restarts, unless the runner is destroyed.
EveryEventHandled ==
    <>[](destroyed \/ Events(origin, Len(log)) \subseteq Handled)

\* "await runner.destroy()" ends
DestroyEnds == destroyed ~> (~destroyed \/ \A i \in DOMAIN tasks : ~Unfinished(i))

=============================================================================
