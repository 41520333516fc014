------------------------- MODULE MemoryRunnerProofs -------------------------
(***************************************************************************)
(* Proofs about a consumer of the firehose: whatever repos, concurrency,   *)
(* reconnects and restarts, the types, and, for a consumer that starts     *)
(* from a cursor, that no event before its cursor is unhandled and that    *)
(* the events of a repo take effect in order.                              *)
(*                                                                         *)
(* The events up to that of a tracked task were handled or are those of    *)
(* the tasks up to it, and so are the events up to the position of the     *)
(* subscription.  Tasks that left the list are complete, hence the cursor  *)
(* covers nothing else.  A task that runs is preceded by no dropped one,   *)
(* and by none of its repo in progress, hence what precedes it of its repo *)
(* was handled.                                                            *)
(***************************************************************************)
EXTENDS MemoryRunner, FiniteSetTheorems, TLAPS

\* The events of the first n tasks
Tracked(n) == {tasks[j].seq : j \in 1 .. n}

\* Every event up to c was handled
Covered(c) ==
    /\ c <= Len(log) \/ c = StartCursor
    /\ Events(StartCursor, c) \subseteq Handled

TaskInv(i) ==
    /\ tasks[i].seq \in DOMAIN log
    /\ tasks[i].stage \in {"handled", "saving"} => Running(i)
    /\ tasks[i].stage \in {"handled", "saving", "done"} => tasks[i].seq \in Handled
    /\ tasks[i].stage = "saving" => tasks[i].save # -1
    /\ tasks[i].stage \in {"dropped", "lost"} => destroyed
    /\ i <= spliced => IsComplete(i)
    /\ \A j \in 1 .. i - 1 : tasks[j].stage = "dropped" => ~Unfinished(i)

Base ==
    /\ TypeOK
    /\ Handled \subseteq DOMAIN log
    /\ destroyed => position = -1
    /\ \A i \in DOMAIN tasks : TaskInv(i)

CursorInv ==
    /\ origin = StartCursor
    /\ Covered(cursor) /\ Covered(stored)
    /\ \A i \in DOMAIN tasks : tasks[i].stage = "saving" => Covered(tasks[i].save)

TrackedInv ==
    /\ \A i \in DOMAIN tasks : Events(StartCursor, tasks[i].seq) \subseteq Handled \cup Tracked(i)
    /\ Events(StartCursor, position) \subseteq Handled \cup Tracked(Len(tasks))

FromCursor == CursorInv /\ TrackedInv /\ FirstEffectsInOrder

IInv == Base /\ (StartCursor # -1 => FromCursor)

-----------------------------------------------------------------------------
(* The operators *)

LEMMA Types ==
  ASSUME TypeOK
  PROVE  /\ Len(log) \in Nat /\ DOMAIN log = 1 .. Len(log)
         /\ Len(tasks) \in Nat /\ DOMAIN tasks = 1 .. Len(tasks)
         /\ spliced \in Nat /\ spliced <= Len(tasks) /\ spliced \in 0 .. Len(tasks)
         /\ cursor \in Nat \cup {-1} /\ stored \in Nat \cup {-1} /\ position \in Int
         /\ Len(handled) \in Nat /\ DOMAIN handled = 1 .. Len(handled)
         /\ handled \in Seq(Nat) /\ \A k \in 1 .. Len(handled) : handled[k] \in Nat
         /\ StartCursor \in Nat \cup {-1}
  BY RunnerConstants DEF TypeOK

LEMMA TaskTypes ==
  ASSUME TypeOK, NEW i \in DOMAIN tasks
  PROVE  /\ tasks[i] \in Task /\ tasks[i].seq \in Nat /\ tasks[i].stage \in Stage
         /\ tasks[i].save \in Nat \cup {-1}
  <1>1. tasks[i] \in Task
    BY DEF TypeOK
  <1>2. QED
    BY <1>1 DEF Task

LEMMA Interval ==
  ASSUME NEW a \in Int, NEW b \in Int, a <= b + 1
  PROVE  IsFiniteSet(a .. b) /\ Cardinality(a .. b) = b - a + 1
  <1>1. IsFiniteSet(a .. b) /\ Cardinality(a .. b) = IF a > b THEN 0 ELSE b - a + 1
    BY FS_Interval
  <1>2. a > b => b - a + 1 = 0
    OBVIOUS
  <1>3. QED
    BY <1>1, <1>2

\* Tasks that leave the list are the next ones in it
LEMMA Leaves ==
  ASSUME TypeOK, NEW i, NEW c, c = Cardinality(Consecutive(i))
  PROVE  /\ c \in Nat /\ spliced + c <= Len(tasks)
         /\ \A k \in spliced + 1 .. spliced + c :
               k \in DOMAIN tasks /\ (k = i \/ IsComplete(k))
         /\ Consecutive(i) # {} => c # 0
  <1>1. /\ Consecutive(i) \subseteq spliced + 1 .. Len(tasks)
        /\ \A j \in Consecutive(i) : \A k \in spliced + 1 .. j : k \in Consecutive(i)
        /\ \A j \in Consecutive(i) : j = i \/ IsComplete(j)
    BY Types DEF Consecutive
  <1>2. /\ IsFiniteSet(spliced + 1 .. Len(tasks))
        /\ Cardinality(spliced + 1 .. Len(tasks)) = Len(tasks) - spliced
    <2>1. PICK a \in Int, b \in Int : a = spliced + 1 /\ b = Len(tasks) /\ a <= b + 1
      <3>1. spliced + 1 \in Int /\ Len(tasks) \in Int /\ spliced + 1 <= Len(tasks) + 1
        BY Types
      <3>2. QED
        BY <3>1
    <2>2. IsFiniteSet(a .. b) /\ Cardinality(a .. b) = b - a + 1
      BY <2>1, Interval
    <2>3. b - a + 1 = Len(tasks) - spliced
      BY <2>1, Types
    <2>4. QED
      BY <2>1, <2>2, <2>3
  <1>3. IsFiniteSet(Consecutive(i)) /\ c \in Nat /\ c <= Len(tasks) - spliced
    BY <1>1, <1>2, FS_Subset, FS_CardinalityType
  <1>4. ASSUME NEW k \in spliced + 1 .. spliced + c PROVE k \in Consecutive(i)
    <2>1. SUFFICES ASSUME k \notin Consecutive(i) PROVE FALSE
      OBVIOUS
    <2>2. Consecutive(i) \subseteq spliced + 1 .. k - 1
      BY <1>1, <1>3, <1>4, <2>1, Types
    <2>3. /\ IsFiniteSet(spliced + 1 .. k - 1)
          /\ Cardinality(spliced + 1 .. k - 1) = k - 1 - spliced
      <3>1. PICK a \in Int, b \in Int : a = spliced + 1 /\ b = k - 1 /\ a <= b + 1
        BY <1>3, <1>4, Types
      <3>2. IsFiniteSet(a .. b) /\ Cardinality(a .. b) = b - a + 1
        BY <3>1, Interval
      <3>3. b - a + 1 = k - 1 - spliced
        BY <1>3, <1>4, <3>1, Types
      <3>4. QED
        BY <3>1, <3>2, <3>3
    <2>4. c <= k - 1 - spliced
      BY <1>3, <2>2, <2>3, FS_Subset
    <2>5. QED
      BY <1>3, <1>4, <2>4, Types
  <1>5. \A k \in spliced + 1 .. spliced + c : k \in DOMAIN tasks
    BY <1>3, Types
  <1>6. Consecutive(i) # {} => c # 0
    BY <1>3, FS_EmptySet
  <1>7. QED
    BY <1>1, <1>3, <1>4, <1>5, <1>6, Types

\* Unfinished tasks up to one
Before(i) == {j \in 1 .. i : Unfinished(j)}

LEMMA BeforeIsFinite ==
  ASSUME NEW i \in Nat
  PROVE  IsFiniteSet(Before(i)) /\ Cardinality(Before(i)) \in Nat
  <1>1. Before(i) \subseteq 1 .. i /\ IsFiniteSet(1 .. i)
    BY FS_Interval DEF Before
  <1>2. QED
    BY <1>1, FS_Subset, FS_CardinalityType

\* Tasks start in the order of the list
LEMMA StartsInOrder ==
  ASSUME NEW i \in Nat, NEW j \in Nat, j <= i, Started(i), Unfinished(j)
  PROVE  Started(j)
  <1>1. Before(j) \subseteq Before(i)
    BY DEF Before
  <1>2. Cardinality(Before(j)) <= Cardinality(Before(i))
    BY <1>1, BeforeIsFinite, FS_Subset
  <1>3. QED
    BY <1>2, BeforeIsFinite, RunnerConstants DEF Started, Before

\* A task that runs goes on while those before it only finish
LEMMA RunningStays ==
  ASSUME TypeOK, NEW i \in DOMAIN tasks, Running(i),
         \A j \in 1 .. i : /\ Unfinished(j)' => Unfinished(j)
                           /\ tasks'[j].seq = tasks[j].seq
                           /\ log'[tasks[j].seq] = log[tasks[j].seq],
         Unfinished(i)', tasks'[i].stage # "lost"
  PROVE  Running(i)'
  <1>1. i \in Nat /\ i \in 1 .. i
    BY Types
  <1>2. Before(i)' \subseteq Before(i)
    BY DEF Before
  <1>3. Cardinality(Before(i)') <= Cardinality(Before(i)) /\ Cardinality(Before(i)') \in Nat
    BY <1>1, <1>2, BeforeIsFinite, FS_Subset, FS_CardinalityType
  <1>4. Started(i)'
    BY <1>1, <1>3, BeforeIsFinite, RunnerConstants DEF Running, Started, Before
  <1>5. \A j \in 1 .. i - 1 : Unfinished(j)' => Repo(j)' # Repo(i)'
    BY <1>1 DEF Running, Repo
  <1>6. QED
    BY <1>4, <1>5 DEF Running

LEMMA HandledGrows ==
  ASSUME TypeOK, NEW n \in Nat, handled' = Append(handled, n)
  PROVE  /\ Handled' = Handled \cup {n} /\ handled' \in Seq(Nat)
         /\ Len(handled') = Len(handled) + 1 /\ handled'[Len(handled) + 1] = n
         /\ \A k \in 1 .. Len(handled) : handled'[k] = handled[k]
  <1>1. /\ handled' \in Seq(Nat)
        /\ Len(handled') = Len(handled) + 1 /\ handled'[Len(handled) + 1] = n
        /\ \A k \in 1 .. Len(handled) : handled'[k] = handled[k]
    BY Types
  <1>2. DOMAIN handled' = 1 .. Len(handled) + 1 /\ DOMAIN handled = 1 .. Len(handled)
    BY <1>1, Types
  <1>3. Handled' \subseteq Handled \cup {n}
    BY <1>1, <1>2, Types DEF Handled
  <1>4. Handled \subseteq Handled'
    BY <1>1, <1>2, Types DEF Handled
  <1>5. n \in Handled'
    BY <1>1, <1>2, Types DEF Handled
  <1>6. QED
    BY <1>1, <1>3, <1>4, <1>5

LEMMA EventsOf ==
  ASSUME TypeOK, NEW a, NEW c
  PROVE  /\ Events(a, c) \subseteq DOMAIN log
         /\ a \in Nat /\ c = a => Events(a, c) = {}
         /\ a \in Nat /\ c = -1 => Events(a, c) = {}
         /\ a \in Nat /\ c \in Nat =>
               \A n \in Events(a, c + 1) : n \in Events(a, c) \/ (n = c + 1 /\ log[n].valid)
  <1>1. Events(a, c) \subseteq DOMAIN log
    BY DEF Events
  <1>2. a \in Nat /\ c = a => Events(a, c) = {}
    BY DEF Events
  <1>3. a \in Nat /\ c = -1 => Events(a, c) = {}
    BY DEF Events
  <1>4. ASSUME a \in Nat, c \in Nat, NEW n \in Events(a, c + 1)
        PROVE  n \in Events(a, c) \/ (n = c + 1 /\ log[n].valid)
    BY <1>4 DEF Events
  <1>5. QED
    BY <1>1, <1>2, <1>3, <1>4

-----------------------------------------------------------------------------
(* A step of one task *)

LEMMA OneTask ==
  ASSUME Base, NEW i \in DOMAIN tasks, NEW t \in Task, tasks' = [tasks EXCEPT ![i] = t],
         t.seq = tasks[i].seq, t.stage \in {"handled", "saving", "done"}, Running(i),
         t.seq \in Handled', Handled \subseteq Handled', Handled' \subseteq DOMAIN log,
         handled' \in Seq(Nat), UNCHANGED <<log, position, destroyed, origin, connects, restarts>>,
         t.stage = "saving" => t.save # -1,
         IsComplete(i) => t.stage \in {"saving", "done"},
         spliced' \in 0 .. Len(tasks),
         \A k \in 1 .. spliced' :
            IF k = i THEN t.stage \in {"saving", "done"} ELSE k <= spliced \/ IsComplete(k),
         {cursor', stored'} \subseteq Nat \cup {-1},
         StartCursor # -1 => cursor' # -1 /\ stored' # -1
  PROVE  /\ Base' /\ Len(tasks') = Len(tasks) /\ tasks'[i] = t
         /\ \A k \in DOMAIN tasks : tasks'[k].seq = tasks[k].seq /\ (k # i => tasks'[k] = tasks[k])
  <1>1. TypeOK /\ \A k \in DOMAIN tasks : TaskInv(k)
    BY DEF Base
  <1>2. /\ Len(tasks') = Len(tasks) /\ DOMAIN tasks' = DOMAIN tasks /\ tasks'[i] = t
        /\ tasks' \in Seq(Task)
        /\ \A k \in DOMAIN tasks : tasks'[k].seq = tasks[k].seq /\ (k # i => tasks'[k] = tasks[k])
    BY <1>1 DEF TypeOK
  <1>3. TypeOK'
    BY <1>1, <1>2 DEF TypeOK
  <1>4. /\ \A k \in DOMAIN tasks : Unfinished(k)' => Unfinished(k)
        /\ \A k \in DOMAIN tasks : tasks'[k].stage = "dropped" => tasks[k].stage = "dropped"
        /\ \A k \in DOMAIN tasks : IsComplete(k) => IsComplete(k)'
    <2>1. Unfinished(i)
      BY DEF Running, Started
    <2>2. QED
      BY <1>2, <2>1 DEF Unfinished, IsComplete
  <1>5. ASSUME NEW k \in DOMAIN tasks, Running(k), Unfinished(k)', tasks'[k].stage # "lost"
        PROVE  Running(k)'
    <2>1. \A j \in 1 .. k : j \in DOMAIN tasks
      BY <1>1, Types
    <2>2. \A j \in 1 .. k : /\ Unfinished(j)' => Unfinished(j)
                            /\ tasks'[j].seq = tasks[j].seq
                            /\ log'[tasks[j].seq] = log[tasks[j].seq]
      BY <1>2, <1>4, <2>1
    <2>3. QED
      BY <1>1, <1>5, <2>2, RunningStays
  <1>6. ASSUME NEW k \in DOMAIN tasks PROVE TaskInv(k)'
    <2>1. TaskInv(k) /\ k \in 1 .. Len(tasks)
      BY <1>1, Types
    <2>2. tasks'[k].seq \in DOMAIN log'
      BY <1>2, <2>1 DEF TaskInv
    <2>3. ASSUME tasks'[k].stage \in {"handled", "saving"} PROVE Running(k)'
      <3>1. Running(k)
        BY <1>2, <2>1, <2>3 DEF TaskInv
      <3>2. QED
        BY <1>5, <2>3, <3>1 DEF Unfinished
    <2>4. tasks'[k].stage \in {"handled", "saving", "done"} => tasks'[k].seq \in Handled'
      BY <1>2, <2>1 DEF TaskInv
    <2>5. tasks'[k].stage = "saving" => tasks'[k].save # -1
      BY <1>2, <2>1 DEF TaskInv
    <2>6. tasks'[k].stage \in {"dropped", "lost"} => destroyed'
      BY <1>2, <2>1 DEF TaskInv
    <2>7. k <= spliced' => IsComplete(k)'
      <3>1. SUFFICES ASSUME k <= spliced' PROVE IsComplete(k)'
        OBVIOUS
      <3>2. k \in 1 .. spliced'
        BY <1>1, <2>1, <3>1, Types
      <3>3. CASE k = i
        BY <1>2, <3>2, <3>3 DEF IsComplete
      <3>4. CASE k # i
        <4>1. IsComplete(k)
          BY <2>1, <3>2, <3>4 DEF TaskInv
        <4>2. QED
          BY <1>4, <4>1
      <3>5. QED
        BY <3>3, <3>4
    <2>8. ASSUME NEW j \in 1 .. k - 1, tasks'[j].stage = "dropped" PROVE ~Unfinished(k)'
      <3>1. j \in DOMAIN tasks
        BY <1>1, <2>1, Types
      <3>2. ~Unfinished(k)
        BY <1>4, <2>1, <2>8, <3>1 DEF TaskInv
      <3>3. QED
        BY <1>4, <3>2
    <2>9. QED
      BY <2>2, <2>3, <2>4, <2>5, <2>6, <2>7, <2>8 DEF TaskInv
  <1>7. QED
    BY <1>2, <1>3, <1>6 DEF Base

\* What is covered stays so, and what precedes a task too
LEMMA FromCursorKeeps ==
  ASSUME Base, StartCursor # -1, FromCursor, Base', UNCHANGED <<log, origin>>,
         position' \in {position, -1},
         Len(tasks') = Len(tasks), \A k \in DOMAIN tasks : tasks'[k].seq = tasks[k].seq,
         Handled \subseteq Handled',
         Covered(cursor)', Covered(stored)',
         \A k \in DOMAIN tasks :
            tasks'[k].stage = "saving" =>
               Covered(tasks[k].save)' \/ (tasks[k].stage = "saving" /\ tasks'[k] = tasks[k]),
         FirstEffectsInOrder'
  PROVE  FromCursor'
  <1>1. DOMAIN tasks = 1 .. Len(tasks) /\ DOMAIN tasks' = 1 .. Len(tasks) /\ Len(tasks) \in Nat
    BY Types DEF Base, TypeOK
  <1>2. CursorInv'
    <2>1. ASSUME NEW c, Covered(c) PROVE Covered(c)'
      BY <2>1 DEF Covered, Events
    <2>2. ASSUME NEW k \in DOMAIN tasks', tasks'[k].stage = "saving"
          PROVE  Covered(tasks[k].save)'
      <3>1. CASE tasks[k].stage = "saving" /\ tasks'[k] = tasks[k]
        <4>1. PICK c : c = tasks[k].save
          OBVIOUS
        <4>2. Covered(c)
          BY <1>1, <2>2, <3>1, <4>1 DEF FromCursor, CursorInv
        <4>3. Covered(c)' /\ c = tasks'[k].save
          BY <2>1, <3>1, <4>1, <4>2
        <4>4. QED
          BY <4>3 DEF Covered, Events
      <3>2. QED
        BY <1>1, <2>2, <3>1
    <2>3. QED
      BY <2>2 DEF FromCursor, CursorInv
  <1>3. \A n \in 0 .. Len(tasks) : Tracked(n)' = Tracked(n)
    BY <1>1 DEF Tracked
  <1>4. TrackedInv'
    <2>1. ASSUME NEW k \in DOMAIN tasks'
          PROVE  Events(StartCursor, tasks[k].seq)' \subseteq Handled' \cup Tracked(k)'
      BY <1>1, <1>3 DEF FromCursor, TrackedInv, Events
    <2>2. Events(StartCursor, position)' \subseteq Handled' \cup Tracked(Len(tasks))'
      <3>1. CASE position' = position
        BY <1>1, <1>3, <3>1 DEF FromCursor, TrackedInv, Events
      <3>2. CASE position' = -1
        <4>1. StartCursor \in Nat
          BY RunnerConstants
        <4>2. Events(StartCursor, position)' = {}
          BY <3>2, <4>1 DEF Events
        <4>3. QED
          BY <4>2
      <3>3. QED
        BY <3>1, <3>2
    <2>3. QED
      BY <1>1, <2>1, <2>2 DEF TrackedInv, Events, Tracked
  <1>5. QED
    BY <1>2, <1>4 DEF FromCursor

-----------------------------------------------------------------------------
(* The runner *)

LEMMA Running1 ==
  ASSUME Base, NEW i \in DOMAIN tasks, tasks[i].stage \in {"waiting", "handled", "saving"},
         Running(i) \/ tasks[i].stage # "waiting"
  PROVE  Running(i) /\ TypeOK /\ TaskInv(i) /\ tasks[i] \in Task
  BY DEF Base, TaskInv, TypeOK

LEMMA HandleKeeps ==
  ASSUME IInv, NEW i \in DOMAIN tasks, Handle(i)
  PROVE  IInv'
  <1>1. /\ TypeOK /\ Running(i) /\ TaskInv(i) /\ tasks[i].stage = "waiting"
        /\ handled' = Append(handled, tasks[i].seq)
        /\ UNCHANGED <<log, position, spliced, cursor, stored, destroyed, origin,
                       connects, restarts>>
    BY DEF Handle, IInv, Base
  <1>2. PICK n : n = tasks[i].seq
    OBVIOUS
  <1>3. n \in Nat /\ n \in DOMAIN log
    BY <1>1, <1>2, TaskTypes DEF TaskInv
  <1>4. /\ Handled' = Handled \cup {n} /\ handled' \in Seq(Nat)
        /\ Len(handled') = Len(handled) + 1 /\ handled'[Len(handled) + 1] = n
        /\ \A k \in 1 .. Len(handled) : handled'[k] = handled[k]
    BY <1>1, <1>2, <1>3, HandledGrows
  <1>5. PICK t : t = [tasks[i] EXCEPT !.stage = "handled"]
    OBVIOUS
  <1>6. /\ t \in Task /\ t.seq = n /\ t.stage = "handled" /\ t.save = tasks[i].save
        /\ tasks' = [tasks EXCEPT ![i] = t]
    BY <1>1, <1>2, <1>5, TaskTypes DEF Task, Stage, Handle
  <1>7. /\ Base' /\ Len(tasks') = Len(tasks) /\ tasks'[i] = t
        /\ \A k \in DOMAIN tasks : tasks'[k].seq = tasks[k].seq /\ (k # i => tasks'[k] = tasks[k])
    <2>1. Base /\ Handled \subseteq DOMAIN log /\ \A k \in DOMAIN tasks : TaskInv(k)
      BY DEF IInv, Base
    <2>2. ~IsComplete(i)
      BY <1>1 DEF IsComplete
    <2>3. \A k \in 1 .. spliced : k \in DOMAIN tasks /\ IsComplete(k) /\ k # i
      BY <1>1, <2>1, <2>2, Types DEF TaskInv
    <2>4. spliced' \in 0 .. Len(tasks) /\ {cursor', stored'} \subseteq Nat \cup {-1}
          /\ (StartCursor # -1 => cursor' # -1 /\ stored' # -1)
      BY <1>1 DEF TypeOK
    <2>5. \A k \in 1 .. spliced' :
             IF k = i THEN t.stage \in {"saving", "done"} ELSE k <= spliced \/ IsComplete(k)
      BY <1>1, <2>3
    <2>6. t.seq \in Handled' /\ Handled \subseteq Handled' /\ Handled' \subseteq DOMAIN log
      BY <1>3, <1>4, <1>6, <2>1
    <2>7. t.seq = tasks[i].seq
      BY <1>2, <1>6
    <2>8. QED
      BY <1>1, <1>4, <1>6, <2>1, <2>2, <2>4, <2>5, <2>6, <2>7, OneTask
  <1>8. ASSUME StartCursor # -1 PROVE FromCursor'
    <2>1. FromCursor /\ Base
      BY <1>8 DEF IInv
    <2>2. \A m \in Events(StartCursor, n - 1) : log[m].did = log[n].did => m \in Handled
      <3>1. SUFFICES ASSUME NEW m \in Events(StartCursor, n - 1), log[m].did = log[n].did
                     PROVE  m \in Handled
        OBVIOUS
      <3>2. m \in Events(StartCursor, n) /\ m # n
        BY <1>3, <3>1 DEF Events
      <3>3. m \in Handled \/ \E j \in 1 .. i : m = tasks[j].seq
        BY <1>2, <2>1, <3>2 DEF FromCursor, TrackedInv, Tracked
      <3>4. ASSUME NEW j \in 1 .. i, m = tasks[j].seq PROVE m \in Handled
        <4>1. j \in DOMAIN tasks /\ j \in 1 .. i - 1 /\ TaskInv(j)
          BY <1>1, <1>2, <2>1, <3>2, <3>4, Types DEF Base
        <4>2. ~Unfinished(j)
          BY <1>1, <1>2, <3>1, <3>4, <4>1 DEF Running, Repo
        <4>3. tasks[j].stage # "dropped"
          BY <1>1, <4>1 DEF TaskInv, Running, Started
        <4>4. QED
          BY <3>4, <4>1, <4>2, <4>3 DEF TaskInv, Unfinished
      <3>5. QED
        BY <3>3, <3>4
    <2>3. FirstEffectsInOrder'
      <3>1. ASSUME NEW k \in 1 .. Len(handled) + 1, NEW h, h = handled'[k],
                   NEW m \in Events(StartCursor, h - 1), log[m].did = log[h].did
            PROVE  \E j \in 1 .. k - 1 : handled'[j] = m
        <4>1. CASE k \in 1 .. Len(handled)
          <5>1. h = handled[k] /\ k \in DOMAIN handled
            BY <1>1, <1>4, <3>1, <4>1, Types
          <5>2. PICK j \in 1 .. k - 1 : handled[j] = m
            BY <2>1, <3>1, <5>1 DEF FromCursor, FirstEffectsInOrder, CursorInv
          <5>3. QED
            BY <1>1, <1>4, <4>1, <5>2, Types
        <4>2. CASE k = Len(handled) + 1
          <5>1. m \in Handled
            BY <1>4, <2>2, <3>1, <4>2
          <5>2. PICK j \in 1 .. Len(handled) : handled[j] = m
            BY <1>1, <5>1, Types DEF Handled
          <5>3. j \in 1 .. k - 1 /\ handled'[j] = m
            BY <1>1, <1>4, <4>2, <5>2, Types
          <5>4. QED
            BY <5>3
        <4>3. QED
          BY <1>1, <3>1, <4>1, <4>2, Types
      <3>2. DOMAIN handled' = 1 .. Len(handled) + 1
        BY <1>1, <1>4, Types
      <3>3. QED
        BY <1>1, <2>1, <3>1, <3>2 DEF FirstEffectsInOrder, Events, FromCursor, CursorInv
    <2>4. Covered(cursor)' /\ Covered(stored)'
      BY <1>1, <1>4, <2>1 DEF FromCursor, CursorInv, Covered, Events
    <2>5. \A k \in DOMAIN tasks :
            tasks'[k].stage = "saving" => tasks[k].stage = "saving" /\ tasks'[k] = tasks[k]
      BY <1>6, <1>7
    <2>6. Handled \subseteq Handled'
      BY <1>4
    <2>7. QED
      BY <1>1, <1>7, <1>8, <2>1, <2>3, <2>4, <2>5, <2>6, FromCursorKeeps
  <1>9. QED
    BY <1>7, <1>8 DEF IInv

\* The cursor that a completion sets covers only what was handled
LEMMA CompleteKeeps ==
  ASSUME IInv, NEW i \in DOMAIN tasks, Complete(i)
  PROVE  IInv'
  <1>1. /\ Base /\ TypeOK /\ Running(i) /\ TaskInv(i) /\ tasks[i].stage = "handled"
        /\ UNCHANGED <<log, position, stored, destroyed, handled, origin, connects, restarts>>
        /\ \A k \in DOMAIN tasks : TaskInv(k)
    BY Running1 DEF Complete, IInv, Base
  <1>2. PICK c : c = Cardinality(Consecutive(i))
    OBVIOUS
  <1>3. /\ c \in Nat /\ spliced + c <= Len(tasks)
        /\ \A k \in spliced + 1 .. spliced + c :
              k \in DOMAIN tasks /\ (k = i \/ IsComplete(k))
        /\ Consecutive(i) # {} => c # 0
    BY <1>1, <1>2, Leaves
  <1>4. PICK t : t = tasks'[i]
    OBVIOUS
  <1>5. /\ t \in Task /\ t.seq = tasks[i].seq /\ t.stage \in {"saving", "done"}
        /\ tasks' = [tasks EXCEPT ![i] = t]
        /\ spliced' = spliced \/ (spliced' = spliced + c /\ c # 0)
        /\ IF spliced' = spliced
           THEN cursor' = cursor /\ t.stage # "saving"
           ELSE cursor' = tasks[spliced'].seq /\ (t.stage = "saving" => t.save = cursor')
    <2>1. CASE Consecutive(i) = {}
      <3>1. PICK u : u = [tasks[i] EXCEPT !.stage = "done"]
        OBVIOUS
      <3>2. /\ tasks' = [tasks EXCEPT ![i] = u] /\ u \in Task /\ u.seq = tasks[i].seq
            /\ u.stage = "done" /\ spliced' = spliced /\ cursor' = cursor
        BY <1>1, <2>1, <3>1, TaskTypes DEF Complete, Task, Stage
      <3>3. t = u
        BY <1>1, <1>4, <3>2 DEF TypeOK
      <3>4. QED
        BY <3>2, <3>3
    <2>2. CASE Consecutive(i) # {}
      <3>1. PICK s, v : s = (IF Persists THEN "saving" ELSE "done")
                        /\ v = (IF Persists THEN cursor' ELSE -1)
        OBVIOUS
      <3>2. PICK u : u = [tasks[i] EXCEPT !.stage = s, !.save = v]
        OBVIOUS
      <3>3. spliced' = spliced + c /\ c # 0 /\ cursor' = tasks[spliced'].seq
        BY <1>2, <1>3, <2>2 DEF Complete
      <3>4. spliced' \in DOMAIN tasks
        BY <1>1, <1>3, <3>3, Types
      <3>5. cursor' \in Nat
        BY <1>1, <3>3, <3>4, TaskTypes
      <3>6. v \in Nat \cup {-1} /\ s \in {"saving", "done"} /\ (s = "saving" => v = cursor')
        BY <3>1, <3>5, RunnerConstants
      <3>7. u \in Task /\ u.seq = tasks[i].seq /\ u.stage = s /\ u.save = v
        BY <1>1, <3>2, <3>6, TaskTypes DEF Task, Stage
      <3>8. tasks' = [tasks EXCEPT ![i] = u]
        BY <2>2, <3>1, <3>2 DEF Complete
      <3>9. t = u
        BY <1>1, <1>4, <3>8 DEF TypeOK
      <3>10. spliced' # spliced
        BY <1>1, <1>3, <3>3, Types
      <3>11. QED
        BY <3>3, <3>6, <3>7, <3>8, <3>9, <3>10
    <2>3. QED
      BY <2>1, <2>2
  <1>6. /\ spliced' \in 0 .. Len(tasks)
        /\ \A k \in 1 .. spliced' : k \in DOMAIN tasks /\ (k = i \/ k <= spliced \/ IsComplete(k))
        /\ spliced' # spliced => spliced' \in DOMAIN tasks
    <2>1. spliced \in Nat /\ spliced <= Len(tasks) /\ DOMAIN tasks = 1 .. Len(tasks)
          /\ Len(tasks) \in Nat
      BY <1>1, Types
    <2>2. CASE spliced' = spliced
      BY <2>1, <2>2
    <2>3. CASE spliced' = spliced + c /\ c # 0
      BY <1>3, <2>1, <2>3
    <2>4. QED
      BY <1>5, <2>2, <2>3
  <1>7. cursor' \in Nat \cup {-1} /\ (spliced' # spliced => cursor' \in Nat)
    BY <1>1, <1>5, <1>6, TaskTypes, Types
  <1>8. /\ Base' /\ Len(tasks') = Len(tasks) /\ tasks'[i] = t
        /\ \A k \in DOMAIN tasks : tasks'[k].seq = tasks[k].seq /\ (k # i => tasks'[k] = tasks[k])
    <2>1. /\ {cursor', stored'} \subseteq Nat \cup {-1}
          /\ StartCursor # -1 => cursor' # -1 /\ stored' # -1
      BY <1>1, <1>5, <1>7 DEF TypeOK
    <2>2. t.stage = "saving" => t.save # -1
      BY <1>5, <1>7
    <2>3. Handled' = Handled /\ Handled \subseteq DOMAIN log /\ t.seq \in Handled
          /\ handled' \in Seq(Nat)
      BY <1>1, <1>5 DEF Handled, Base, TaskInv, TypeOK
    <2>4. QED
      BY <1>1, <1>5, <1>6, <2>1, <2>2, <2>3, OneTask
  <1>9. ASSUME StartCursor # -1 PROVE FromCursor'
    <2>1. FromCursor
      BY <1>9 DEF IInv
    <2>2. ASSUME spliced' # spliced PROVE Covered(cursor)'
      <3>1. PICK e : e = tasks[spliced'].seq /\ e = cursor'
        BY <1>5, <2>2
      <3>2. e \in DOMAIN log /\ e <= Len(log)
        <4>1. PICK k \in DOMAIN tasks : k = spliced'
          BY <1>6, <2>2
        <4>2. e \in DOMAIN log
          BY <1>1, <3>1, <4>1 DEF TaskInv
        <4>3. QED
          BY <1>1, <4>2, Types
      <3>3. Events(StartCursor, e) \subseteq Handled \cup Tracked(spliced')
        BY <1>6, <2>1, <2>2, <3>1 DEF FromCursor, TrackedInv, Tracked
      <3>4. \A k \in 1 .. spliced' : tasks[k].seq \in Handled
        BY <1>1, <1>6 DEF TaskInv, IsComplete
      <3>5. Events(StartCursor, e) \subseteq Handled
        BY <3>3, <3>4 DEF Tracked
      <3>6. QED
        BY <1>1, <3>1, <3>2, <3>5 DEF Covered, Events, Handled
    <2>3. Covered(cursor)' /\ Covered(stored)'
      BY <1>1, <1>5, <2>1, <2>2 DEF FromCursor, CursorInv, Covered, Events, Handled
    <2>4. \A k \in DOMAIN tasks :
            tasks'[k].stage = "saving" =>
               Covered(tasks[k].save)' \/ (tasks[k].stage = "saving" /\ tasks'[k] = tasks[k])
      <3>1. t.stage = "saving" => Covered(t.save)
        BY <1>1, <1>5, <2>2 DEF Covered, Events, Handled
      <3>2. QED
        BY <1>1, <1>8, <3>1 DEF Covered, Events, Handled
    <2>5. FirstEffectsInOrder' /\ Handled \subseteq Handled'
      BY <1>1, <2>1 DEF FromCursor, FirstEffectsInOrder, Events, Handled
    <2>6. QED
      BY <1>1, <1>8, <1>9, <2>1, <2>3, <2>4, <2>5, FromCursorKeeps
  <1>10. QED
    BY <1>8, <1>9 DEF IInv

LEMMA SaveKeeps ==
  ASSUME IInv, NEW i \in DOMAIN tasks, Save(i)
  PROVE  IInv'
  <1>1. /\ Base /\ TypeOK /\ Running(i) /\ TaskInv(i) /\ tasks[i].stage = "saving"
        /\ UNCHANGED <<log, position, spliced, cursor, destroyed, handled, origin,
                       connects, restarts>>
        /\ stored' = tasks[i].save /\ stored' \in Nat
        /\ \A k \in DOMAIN tasks : TaskInv(k)
    BY Running1, TaskTypes DEF Save, IInv, Base, TaskInv
  <1>2. PICK t : t = [tasks[i] EXCEPT !.stage = "done", !.save = -1]
    OBVIOUS
  <1>3. /\ t \in Task /\ t.seq = tasks[i].seq /\ t.stage = "done"
        /\ tasks' = [tasks EXCEPT ![i] = t]
    BY <1>1, <1>2, TaskTypes DEF Task, Stage, Save
  <1>4. /\ Base' /\ Len(tasks') = Len(tasks) /\ tasks'[i] = t
        /\ \A k \in DOMAIN tasks : tasks'[k].seq = tasks[k].seq /\ (k # i => tasks'[k] = tasks[k])
    <2>1. /\ {cursor', stored'} \subseteq Nat \cup {-1} /\ spliced' \in 0 .. Len(tasks)
          /\ StartCursor # -1 => cursor' # -1 /\ stored' # -1
      BY <1>1 DEF TypeOK
    <2>2. Handled' = Handled /\ Handled \subseteq DOMAIN log /\ t.seq \in Handled
          /\ handled' \in Seq(Nat)
      BY <1>1, <1>3 DEF Handled, Base, TaskInv, TypeOK
    <2>3. \A k \in 1 .. spliced' : k <= spliced
      BY <1>1, Types
    <2>4. QED
      BY <1>1, <1>3, <2>1, <2>2, <2>3, OneTask
  <1>5. ASSUME StartCursor # -1 PROVE FromCursor'
    <2>1. FromCursor
      BY <1>5 DEF IInv
    <2>2. Covered(cursor)' /\ Covered(stored)'
      <3>1. Covered(tasks[i].save)
        BY <1>1, <2>1 DEF FromCursor, CursorInv
      <3>2. QED
        BY <1>1, <2>1, <3>1 DEF FromCursor, CursorInv, Covered, Events, Handled
    <2>3. \A k \in DOMAIN tasks :
            tasks'[k].stage = "saving" => tasks[k].stage = "saving" /\ tasks'[k] = tasks[k]
      BY <1>3, <1>4
    <2>4. FirstEffectsInOrder' /\ Handled \subseteq Handled'
      BY <1>1, <2>1 DEF FromCursor, FirstEffectsInOrder, Events, Handled
    <2>5. QED
      BY <1>1, <1>4, <1>5, <2>1, <2>2, <2>3, <2>4, FromCursorKeeps
  <1>6. QED
    BY <1>4, <1>5 DEF IInv

-----------------------------------------------------------------------------
(* The stream *)

\* A step that leaves the tasks alone
LEMMA NoTask ==
  ASSUME Base, UNCHANGED <<tasks, spliced, cursor, stored, destroyed, handled>>,
         log' \in Seq(Event), Len(log) <= Len(log'), \A n \in DOMAIN log : log'[n] = log[n],
         position' \in -1 .. Len(log'), destroyed => position' = -1,
         origin' \in Nat \cup {-1}, connects' \in Nat, restarts' \in Nat
  PROVE  /\ Base' /\ DOMAIN log \subseteq DOMAIN log'
         /\ \A a, c \in Int : c <= Len(log) \/ c = a => Events(a, c)' = Events(a, c)
  <1>1. /\ TypeOK /\ \A k \in DOMAIN tasks : TaskInv(k)
        /\ Len(log) \in Nat /\ Len(log') \in Nat
        /\ DOMAIN log = 1 .. Len(log) /\ DOMAIN log' = 1 .. Len(log')
    BY Types DEF Base
  <1>2. TypeOK' /\ DOMAIN log \subseteq DOMAIN log'
    BY <1>1 DEF TypeOK
  <1>3. ASSUME NEW a \in Int, NEW c \in Int, c <= Len(log) \/ c = a
        PROVE  Events(a, c)' = Events(a, c)
    <2>1. \A n \in Int : n \in a + 1 .. c /\ n \in DOMAIN log' => n \in DOMAIN log
      <3>1. CASE c = a
        BY <3>1
      <3>2. CASE c <= Len(log)
        BY <1>1, <3>2
      <3>3. QED
        BY <1>3, <3>1, <3>2
    <2>2. QED
      BY <1>2, <2>1 DEF Events
  <1>4. ASSUME NEW k \in DOMAIN tasks PROVE TaskInv(k)'
    <2>1. TaskInv(k)
      BY <1>1
    <2>2. \A j \in 1 .. k : j \in DOMAIN tasks /\ tasks[j].seq \in DOMAIN log
      BY <1>1, Types DEF TaskInv
    <2>3. \A j \in 1 .. k : /\ Unfinished(j)' => Unfinished(j)
                            /\ tasks'[j].seq = tasks[j].seq
                            /\ log'[tasks[j].seq] = log[tasks[j].seq]
      BY <2>2 DEF Unfinished
    <2>4. tasks'[k].stage \in {"handled", "saving"} => Running(k)'
      BY <1>1, <2>1, <2>3, RunningStays DEF TaskInv, Unfinished
    <2>5. QED
      BY <1>2, <2>1, <2>4 DEF TaskInv, Unfinished, IsComplete, Handled
  <1>5. QED
    BY <1>2, <1>3, <1>4 DEF Base, Handled

\* What a consumer from a cursor knows is about events that were published
LEMMA Published ==
  ASSUME Base, FromCursor
  PROVE  /\ cursor <= Len(log) \/ cursor = StartCursor
         /\ stored <= Len(log) \/ stored = StartCursor
         /\ \A k \in DOMAIN tasks : tasks[k].seq <= Len(log)
         /\ \A k \in DOMAIN tasks : tasks[k].stage = "saving" =>
               tasks[k].save <= Len(log) \/ tasks[k].save = StartCursor
         /\ position <= Len(log)
         /\ \A k \in DOMAIN handled : handled[k] - 1 <= Len(log)
  <1>1. TypeOK /\ \A k \in DOMAIN tasks : tasks[k].seq \in DOMAIN log
    BY DEF Base, TaskInv
  <1>2. \A n \in DOMAIN log : n \in Nat /\ n <= Len(log) /\ n - 1 <= Len(log)
    BY <1>1, Types
  <1>3. \A k \in DOMAIN handled : handled[k] \in DOMAIN log
    BY DEF Base, Handled
  <1>4. position <= Len(log)
    BY <1>1 DEF TypeOK
  <1>5. QED
    BY <1>1, <1>2, <1>3, <1>4 DEF FromCursor, CursorInv, Covered

\* The same, when the position of the subscription is that of its cursor
LEMMA StreamKeeps ==
  ASSUME IInv, UNCHANGED <<tasks, spliced, cursor, stored, destroyed, handled>>,
         log' \in Seq(Event), Len(log) <= Len(log'), \A n \in DOMAIN log : log'[n] = log[n],
         position' \in -1 .. Len(log'), destroyed => position' = -1,
         origin' \in Nat \cup {-1}, connects' \in Nat, restarts' \in Nat,
         StartCursor # -1 =>
            origin' = origin /\ (position' = position \/ position' = -1 \/ position' = cursor)
  PROVE  IInv'
  <1>1. Base /\ TypeOK
    BY DEF IInv, Base
  <1>2. /\ Base' /\ DOMAIN log \subseteq DOMAIN log'
        /\ \A a, c \in Int : c <= Len(log) \/ c = a => Events(a, c)' = Events(a, c)
    BY <1>1, NoTask
  <1>3. ASSUME StartCursor # -1 PROVE FromCursor'
    <2>1. FromCursor /\ origin = StartCursor /\ origin' = StartCursor /\ StartCursor \in Nat
      BY <1>3, RunnerConstants DEF IInv, FromCursor, CursorInv
    <2>2. /\ Len(log) \in Nat /\ Len(log') \in Nat /\ Len(log) <= Len(log')
          /\ log \in Seq(Event)
      BY <1>1 DEF TypeOK
    <2>3. ASSUME NEW c \in Int, c <= Len(log) \/ c = StartCursor
          PROVE  Events(StartCursor, c)' = Events(StartCursor, c)
      <3>1. StartCursor \in Int
        BY <2>1
      <3>2. QED
        BY <1>2, <2>3, <3>1
    <2>4. ASSUME NEW c \in Int, Covered(c) PROVE Covered(c)'
      <3>1. Events(StartCursor, c)' = Events(StartCursor, c)
        BY <2>3, <2>4 DEF Covered
      <3>2. Len(log) <= Len(log') /\ (c <= Len(log) => c <= Len(log'))
        BY <2>2
      <3>3. QED
        BY <2>4, <3>1, <3>2 DEF Covered, Handled
    <2>5. CursorInv'
      <3>1. Covered(cursor)' /\ Covered(stored)'
        <4>1. PICK c, s : c = cursor /\ s = stored /\ c \in Int /\ s \in Int
          BY <1>1, Types
        <4>2. Covered(c)' /\ Covered(s)'
          BY <2>1, <2>4, <4>1 DEF FromCursor, CursorInv
        <4>3. QED
          BY <4>1, <4>2 DEF Covered, Events
      <3>2. ASSUME NEW k \in DOMAIN tasks, tasks[k].stage = "saving"
            PROVE  Covered(tasks[k].save)'
        <4>1. PICK c \in Int : c = tasks[k].save
          BY <1>1, <3>2, TaskTypes
        <4>2. Covered(c)'
          BY <2>1, <2>4, <3>2, <4>1 DEF FromCursor, CursorInv
        <4>3. QED
          BY <4>1, <4>2 DEF Covered, Events
      <3>3. QED
        BY <2>1, <3>1, <3>2 DEF CursorInv
    <2>6. TrackedInv'
      <3>1. ASSUME NEW k \in DOMAIN tasks
            PROVE  Events(StartCursor, tasks[k].seq)' \subseteq Handled \cup Tracked(k)
        <4>1. PICK c \in Int : c = tasks[k].seq /\ c <= Len(log)
          BY <1>1, <2>1, <3>1, Published, TaskTypes
        <4>2. Events(StartCursor, c)' = Events(StartCursor, c)
          BY <2>3, <4>1
        <4>3. QED
          BY <2>1, <4>1, <4>2 DEF FromCursor, TrackedInv, Events
      <3>2. Events(StartCursor, position)' \subseteq Handled \cup Tracked(Len(tasks))
        <4>1. PICK p, c \in Int : p = position' /\ c = position
          BY <1>1, <1>2, Types DEF Base, TypeOK
        <4>2. CASE p = c
          <5>1. Events(StartCursor, c)' = Events(StartCursor, c)
            BY <1>1, <2>3, <2>1, <4>1, Published
          <5>2. QED
            BY <2>1, <4>1, <4>2, <5>1 DEF FromCursor, TrackedInv, Events
        <4>3. CASE p = -1
          <5>1. Events(StartCursor, p)' = {}
            BY <2>1, <4>3 DEF Events
          <5>2. QED
            BY <4>1, <5>1 DEF Events
        <4>4. CASE p = cursor
          <5>1. Events(StartCursor, p)' = Events(StartCursor, p)
            BY <1>1, <2>3, <2>1, <4>1, <4>4, Published
          <5>2. Events(StartCursor, p) \subseteq Handled
            BY <2>1, <4>4 DEF FromCursor, CursorInv, Covered
          <5>3. QED
            BY <4>1, <5>1, <5>2 DEF Events
        <4>5. QED
          BY <1>3, <4>1, <4>2, <4>3, <4>4
      <3>3. QED
        BY <3>1, <3>2 DEF TrackedInv, Handled, Tracked, Events
    <2>7. FirstEffectsInOrder'
      <3>1. ASSUME NEW i \in DOMAIN handled
            PROVE  /\ Events(StartCursor, handled[i] - 1)' = Events(StartCursor, handled[i] - 1)
                   /\ log'[handled[i]] = log[handled[i]]
                   /\ \A n \in Events(StartCursor, handled[i] - 1) : log'[n] = log[n]
        <4>1. PICK h \in Nat : h = handled[i] /\ h - 1 <= Len(log) /\ h \in DOMAIN log
          BY <1>1, <2>1, <3>1, Published, Types DEF Base, Handled
        <4>2. Events(StartCursor, h - 1)' = Events(StartCursor, h - 1)
          <5>1. PICK c \in Int : c = h - 1
            BY <4>1
          <5>2. Events(StartCursor, c)' = Events(StartCursor, c)
            BY <2>3, <4>1, <5>1
          <5>3. QED
            BY <5>1, <5>2
        <4>3. \A n \in Events(StartCursor, h - 1) : n \in DOMAIN log
          BY DEF Events
        <4>4. QED
          BY <4>1, <4>2, <4>3 DEF Events
      <3>2. QED
        BY <2>1, <3>1 DEF FromCursor, FirstEffectsInOrder
    <2>8. QED
      BY <2>5, <2>6, <2>7 DEF FromCursor
  <1>4. QED
    BY <1>2, <1>3 DEF IInv

LEMMA PublishKeeps ==
  ASSUME IInv, NEW d \in Did, NEW valid \in BOOLEAN, Publish(d, valid)
  PROVE  IInv'
  <1>1. PICK e : e = [did |-> d, valid |-> valid]
    OBVIOUS
  <1>2. e \in Event /\ log' = Append(log, e) /\ log \in Seq(Event)
    BY <1>1 DEF Event, Publish, IInv, Base, TypeOK
  <1>3. /\ log' \in Seq(Event) /\ Len(log') = Len(log) + 1 /\ Len(log) \in Nat
        /\ \A n \in DOMAIN log : log'[n] = log[n]
    BY <1>2
  <1>4. position' \in -1 .. Len(log') /\ origin' \in Nat \cup {-1}
        /\ connects' \in Nat /\ restarts' \in Nat /\ (destroyed => position' = -1)
    BY <1>3 DEF Publish, IInv, Base, TypeOK
  <1>5. QED
    BY <1>3, <1>4, StreamKeeps DEF Publish

LEMMA ConnectKeeps ==
  ASSUME IInv, Connect
  PROVE  IInv'
  <1>1. TypeOK /\ log \in Seq(Event) /\ Len(log) \in Nat /\ Len(log) <= Len(log)
    BY DEF IInv, Base, TypeOK
  <1>2. position' \in -1 .. Len(log') /\ origin' \in Nat \cup {-1}
        /\ connects' \in Nat /\ restarts' \in Nat
    BY <1>1 DEF Connect, TypeOK
  <1>3. StartCursor # -1 => origin' = origin /\ position' = cursor
    BY <1>1 DEF Connect, TypeOK
  <1>4. QED
    BY <1>1, <1>2, <1>3, StreamKeeps DEF Connect

LEMMA DropKeeps ==
  ASSUME IInv, Drop
  PROVE  IInv'
  <1>1. TypeOK /\ log \in Seq(Event) /\ Len(log) \in Nat /\ Len(log) <= Len(log)
    BY DEF IInv, Base, TypeOK
  <1>2. position' \in -1 .. Len(log') /\ origin' \in Nat \cup {-1}
        /\ connects' \in Nat /\ restarts' \in Nat
    BY <1>1 DEF Drop, TypeOK
  <1>3. QED
    BY <1>1, <1>2, StreamKeeps DEF Drop

\* An event that does not pass validation is not tracked
LEMMA SkipKeeps ==
  ASSUME IInv, Deliver, tasks' = tasks, ~log[position + 1].valid
  PROVE  IInv'
  <1>1. Base /\ TypeOK /\ log \in Seq(Event) /\ Len(log) \in Nat /\ Len(log) <= Len(log)
        /\ position \in Nat /\ position + 1 \in 1 .. Len(log) /\ ~destroyed
    BY DEF IInv, Base, TypeOK, Deliver
  <1>2. position' \in -1 .. Len(log') /\ origin' \in Nat \cup {-1}
        /\ connects' \in Nat /\ restarts' \in Nat
    BY <1>1 DEF Deliver, TypeOK
  <1>3. Base'
    BY <1>1, <1>2, NoTask DEF Deliver
  <1>4. ASSUME StartCursor # -1 PROVE FromCursor'
    <2>1. FromCursor /\ StartCursor \in Nat
      BY <1>4, RunnerConstants DEF IInv
    <2>2. Events(StartCursor, position + 1) \subseteq Events(StartCursor, position)
      BY <1>1, <2>1, EventsOf DEF Deliver
    <2>3. Events(StartCursor, position)' = Events(StartCursor, position + 1)
      BY DEF Events, Deliver
    <2>4. Events(StartCursor, position)' \subseteq Handled \cup Tracked(Len(tasks))
      BY <2>1, <2>2, <2>3 DEF FromCursor, TrackedInv
    <2>5. QED
      BY <2>1, <2>4 DEF Deliver, FromCursor, CursorInv, TrackedInv, FirstEffectsInOrder,
                        Covered, Events, Handled, Tracked
  <1>5. QED
    BY <1>3, <1>4 DEF IInv

LEMMA TrackKeeps ==
  ASSUME IInv, Deliver, log[position + 1].valid
  PROVE  IInv'
  <1>1. PICK t : t = [seq |-> position + 1, stage |-> "waiting", save |-> -1]
    OBVIOUS
  <1>2. /\ Base /\ TypeOK /\ Len(log) \in Nat /\ position \in Nat /\ position + 1 \in DOMAIN log
        /\ ~destroyed /\ position' = position + 1
        /\ UNCHANGED <<log, spliced, cursor, stored, destroyed, handled, origin,
                       connects, restarts>>
    BY DEF IInv, Base, TypeOK, Deliver
  <1>3. t \in Task /\ t.seq = position + 1 /\ t.stage = "waiting" /\ tasks' = Append(tasks, t)
    BY <1>1, <1>2 DEF Task, Stage, Deliver
  <1>4. PICK m \in Nat : m = Len(tasks)
    BY <1>2, Types
  <1>5. /\ tasks' \in Seq(Task) /\ Len(tasks') = m + 1 /\ tasks'[m + 1] = t
        /\ DOMAIN tasks' = 1 .. m + 1 /\ DOMAIN tasks = 1 .. m
        /\ \A k \in 1 .. m : tasks'[k] = tasks[k]
    BY <1>2, <1>3, <1>4 DEF TypeOK
  <1>6. TypeOK'
    <2>1. spliced \in Nat /\ spliced <= m
      BY <1>2, <1>4, Types
    <2>2. spliced' \in 0 .. Len(tasks') /\ position' \in -1 .. Len(log')
      BY <1>2, <1>5, <2>1, Types
    <2>3. QED
      BY <1>2, <1>5, <2>2 DEF TypeOK
  <1>7. ASSUME NEW k \in 1 .. m PROVE TaskInv(k)'
    <2>1. TaskInv(k) /\ k \in DOMAIN tasks
      BY <1>2, <1>5 DEF Base
    <2>2. \A j \in 1 .. k : tasks'[j] = tasks[j]
      BY <1>5
    <2>3. \A j \in 1 .. k : Unfinished(j)' <=> Unfinished(j)
      BY <2>2 DEF Unfinished
    <2>4. \A j \in 1 .. k : /\ Unfinished(j)' => Unfinished(j)
                            /\ tasks'[j].seq = tasks[j].seq
                            /\ log'[tasks[j].seq] = log[tasks[j].seq]
      BY <1>2, <2>2, <2>3
    <2>5. tasks'[k].stage \in {"handled", "saving"} => Running(k)'
      BY <1>2, <1>5, <2>1, <2>4, RunningStays DEF TaskInv, Unfinished
    <2>6. QED
      BY <1>2, <1>5, <2>1, <2>2, <2>3, <2>5 DEF TaskInv, IsComplete, Handled
  <1>8. ASSUME NEW k, k = m + 1 PROVE TaskInv(k)'
    <2>1. tasks'[k] = t /\ ~(k <= spliced)
      BY <1>2, <1>4, <1>5, <1>8, Types
    <2>2. \A j \in 1 .. k - 1 : tasks'[j].stage # "dropped"
      <3>1. \A j \in 1 .. m : TaskInv(j)
        BY <1>2, <1>5 DEF Base
      <3>2. \A j \in 1 .. m : tasks'[j].stage # "dropped"
        BY <1>2, <1>5, <3>1 DEF TaskInv
      <3>3. QED
        BY <1>8, <3>2
    <2>3. tasks'[k].seq \in DOMAIN log' /\ tasks'[k].stage = "waiting"
      BY <1>2, <1>3, <2>1
    <2>4. QED
      BY <1>2, <2>1, <2>2, <2>3 DEF TaskInv
  <1>9. Base'
    <2>1. \A k \in DOMAIN tasks' : TaskInv(k)'
      BY <1>5, <1>7, <1>8
    <2>2. QED
      BY <1>2, <1>6, <2>1 DEF Base, Handled
  <1>10. ASSUME StartCursor # -1 PROVE FromCursor'
    <2>1. FromCursor /\ StartCursor \in Nat
      BY <1>10, RunnerConstants DEF IInv
    <2>2. CursorInv'
      <3>1. Covered(cursor)' /\ Covered(stored)'
        BY <1>2, <2>1 DEF FromCursor, CursorInv, Covered, Events, Handled
      <3>2. ASSUME NEW k \in DOMAIN tasks', tasks'[k].stage = "saving"
            PROVE  Covered(tasks[k].save)'
        <4>1. k \in 1 .. m /\ tasks'[k] = tasks[k]
          BY <1>3, <1>5, <3>2
        <4>2. Covered(tasks[k].save)
          BY <1>5, <2>1, <3>2, <4>1 DEF FromCursor, CursorInv
        <4>3. QED
          BY <1>2, <4>1, <4>2 DEF Covered, Events, Handled
      <3>3. QED
        BY <1>2, <2>1, <3>1, <3>2 DEF FromCursor, CursorInv
    <2>3. \A n \in 0 .. m : Tracked(n)' = Tracked(n)
      BY <1>5 DEF Tracked
    <2>4. Tracked(m + 1)' = Tracked(m) \cup {position + 1}
      BY <1>3, <1>5 DEF Tracked
    <2>5. Events(StartCursor, position + 1) \subseteq Handled \cup Tracked(m) \cup {position + 1}
      BY <1>2, <1>4, <2>1, EventsOf DEF FromCursor, TrackedInv
    <2>6. TrackedInv'
      <3>1. ASSUME NEW k \in 1 .. m + 1
            PROVE  Events(StartCursor, tasks[k].seq)' \subseteq Handled \cup Tracked(k)'
        <4>1. CASE k \in 1 .. m
          <5>1. Events(StartCursor, tasks[k].seq) \subseteq Handled \cup Tracked(k)
            BY <1>5, <2>1, <4>1 DEF FromCursor, TrackedInv
          <5>2. QED
            BY <1>2, <1>5, <2>3, <4>1, <5>1 DEF Events
        <4>2. CASE k = m + 1
          <5>1. Events(StartCursor, tasks[k].seq)' = Events(StartCursor, position + 1)
            BY <1>2, <1>3, <1>5, <4>2 DEF Events
          <5>2. QED
            BY <2>4, <2>5, <4>2, <5>1
        <4>3. QED
          BY <4>1, <4>2
      <3>2. Events(StartCursor, position)' \subseteq Handled \cup Tracked(m + 1)'
        BY <1>2, <2>4, <2>5 DEF Events
      <3>3. Handled' = Handled /\ Tracked(Len(tasks))' = Tracked(m + 1)'
        BY <1>2, <1>5 DEF Handled, Tracked
      <3>4. QED
        BY <1>5, <3>1, <3>2, <3>3 DEF TrackedInv
    <2>7. FirstEffectsInOrder'
      BY <1>2, <2>1 DEF FromCursor, FirstEffectsInOrder, Events
    <2>8. QED
      BY <2>2, <2>6, <2>7 DEF FromCursor
  <1>11. QED
    BY <1>9, <1>10 DEF IInv

LEMMA DeliverKeeps ==
  ASSUME IInv, Deliver
  PROVE  IInv'
  BY SkipKeeps, TrackKeeps DEF Deliver

-----------------------------------------------------------------------------
(* Shutdown and restart *)

LEMMA DestroyKeeps ==
  ASSUME IInv, Destroy
  PROVE  IInv'
  <1>1. /\ Base /\ TypeOK /\ destroyed' = TRUE /\ position' = -1
        /\ UNCHANGED <<log, spliced, cursor, stored, handled, origin, connects, restarts>>
        /\ tasks' = [i \in DOMAIN tasks |->
                       IF ~Unfinished(i) \/ Running(i) THEN tasks[i]
                       ELSE [tasks[i] EXCEPT !.stage = IF Started(i) THEN "lost" ELSE "dropped"]]
    BY DEF Destroy, IInv, Base
  <1>2. ASSUME NEW k \in DOMAIN tasks
        PROVE  /\ tasks'[k] \in Task /\ tasks'[k].seq = tasks[k].seq
               /\ ~Unfinished(k) \/ Running(k) => tasks'[k] = tasks[k]
               /\ Unfinished(k) /\ ~Running(k) /\ Started(k) => tasks'[k].stage = "lost"
               /\ Unfinished(k) /\ ~Running(k) /\ ~Started(k) => tasks'[k].stage = "dropped"
    BY <1>1, <1>2, TaskTypes DEF Task, Stage
  <1>3. DOMAIN tasks' = DOMAIN tasks /\ DOMAIN tasks = 1 .. Len(tasks) /\ Len(tasks) \in Nat
    BY <1>1, Types
  <1>4. tasks' \in Seq(Task) /\ Len(tasks') = Len(tasks)
    BY <1>1, <1>2, <1>3
  <1>5. TypeOK'
    BY <1>1, <1>4 DEF TypeOK
  <1>6. \A k \in DOMAIN tasks : Unfinished(k)' => Unfinished(k)
    BY <1>2 DEF Unfinished
  <1>7. ASSUME NEW k \in DOMAIN tasks PROVE TaskInv(k)'
    <2>1. TaskInv(k) /\ k \in 1 .. Len(tasks)
      BY <1>1, <1>3, <1>7 DEF Base
    <2>2. tasks'[k].stage \in {"handled", "saving", "done"} => tasks'[k] = tasks[k]
      BY <1>2
    <2>3. \A j \in 1 .. k : j \in DOMAIN tasks
      BY <1>3
    <2>4. \A j \in 1 .. k : /\ Unfinished(j)' => Unfinished(j)
                            /\ tasks'[j].seq = tasks[j].seq
                            /\ log'[tasks[j].seq] = log[tasks[j].seq]
      BY <1>1, <1>2, <1>6, <2>3
    <2>5. ASSUME tasks'[k].stage \in {"handled", "saving"} PROVE Running(k)'
      <3>1. Running(k) /\ Unfinished(k)' /\ tasks'[k].stage # "lost"
        BY <2>1, <2>2, <2>5 DEF TaskInv, Unfinished
      <3>2. QED
        BY <1>1, <2>4, <3>1, RunningStays
    <2>6. k <= spliced' => IsComplete(k)'
      BY <1>1, <1>2, <2>1 DEF TaskInv, IsComplete, Unfinished
    <2>7. ASSUME NEW j \in 1 .. k - 1, tasks'[j].stage = "dropped" PROVE ~Unfinished(k)'
      <3>1. j \in DOMAIN tasks /\ j \in Nat /\ k \in Nat /\ j <= k
        BY <1>3, <2>1
      <3>2. CASE ~Unfinished(k)
        BY <1>6, <3>2
      <3>3. CASE Unfinished(k)
        <4>1. tasks[j].stage # "dropped"
          BY <2>1, <2>7, <3>3 DEF TaskInv
        <4>2. Unfinished(j) /\ ~Started(j)
          BY <1>2, <2>7, <3>1, <4>1 DEF Unfinished
        <4>3. ~Started(k)
          BY <3>1, <4>2, StartsInOrder
        <4>4. tasks'[k].stage = "dropped"
          BY <1>2, <3>3, <4>3 DEF Running
        <4>5. QED
          BY <4>4 DEF Unfinished
      <3>4. QED
        BY <3>2, <3>3
    <2>8. tasks'[k].seq \in DOMAIN log'
      BY <1>1, <1>2, <2>1 DEF TaskInv
    <2>9. Handled' = Handled
      BY <1>1 DEF Handled
    <2>10. QED
      BY <1>1, <1>2, <2>1, <2>2, <2>5, <2>6, <2>7, <2>8, <2>9 DEF TaskInv
  <1>8. Base'
    BY <1>1, <1>3, <1>5, <1>7 DEF Base, Handled
  <1>9. ASSUME StartCursor # -1 PROVE FromCursor'
    <2>1. FromCursor /\ Handled \subseteq Handled'
      BY <1>1, <1>9 DEF IInv, Handled
    <2>2. Covered(cursor)' /\ Covered(stored)' /\ FirstEffectsInOrder'
      BY <1>1, <2>1 DEF FromCursor, CursorInv, Covered, FirstEffectsInOrder, Events, Handled
    <2>3. \A k \in DOMAIN tasks :
            tasks'[k].stage = "saving" => tasks[k].stage = "saving" /\ tasks'[k] = tasks[k]
      BY <1>2
    <2>4. QED
      BY <1>1, <1>2, <1>4, <1>8, <1>9, <2>1, <2>2, <2>3, FromCursorKeeps
  <1>10. QED
    BY <1>8, <1>9 DEF IInv

LEMMA RestartKeeps ==
  ASSUME IInv, Restart
  PROVE  IInv'
  <1>1. /\ Base /\ TypeOK /\ position' = -1 /\ tasks' = <<>> /\ spliced' = 0
        /\ cursor' = stored /\ destroyed' = FALSE /\ restarts' = restarts + 1
        /\ UNCHANGED <<log, stored, handled, origin, connects>>
    BY DEF Restart, IInv, Base
  <1>2. TypeOK'
    <2>1. tasks' \in Seq(Task) /\ Len(tasks') = 0 /\ spliced' \in 0 .. Len(tasks')
      BY <1>1
    <2>2. position' \in -1 .. Len(log')
      BY <1>1, Types
    <2>3. /\ log' \in Seq(Event) /\ handled' \in Seq(Nat) /\ origin' \in Nat \cup {-1}
          /\ connects' \in Nat /\ restarts \in Nat
      BY <1>1 DEF TypeOK
    <2>4. /\ cursor' \in Nat \cup {-1} /\ stored' \in Nat \cup {-1}
          /\ StartCursor # -1 => cursor' # -1 /\ stored' # -1
      BY <1>1, Types DEF TypeOK
    <2>5. restarts' \in Nat
      BY <2>3 DEF Restart
    <2>6. destroyed' \in BOOLEAN
      BY DEF Restart
    <2>7. QED
      BY <2>1, <2>2, <2>3, <2>4, <2>5, <2>6 DEF TypeOK
  <1>3. Base'
    BY <1>1, <1>2 DEF Base, Handled
  <1>4. ASSUME StartCursor # -1 PROVE FromCursor'
    <2>1. FromCursor /\ StartCursor \in Nat
      BY <1>4, RunnerConstants DEF IInv
    <2>2. Events(StartCursor, position)' = {}
      BY <1>1, <2>1 DEF Events
    <2>3. QED
      BY <1>1, <2>1, <2>2 DEF FromCursor, CursorInv, TrackedInv, FirstEffectsInOrder,
                              Covered, Events, Handled
  <1>5. QED
    BY <1>3, <1>4 DEF IInv

-----------------------------------------------------------------------------
(* The invariant *)

LEMMA Initially ==
  ASSUME Init
  PROVE  IInv
  <1>1. TypeOK
    <2>1. /\ log \in Seq(Event) /\ position \in -1 .. Len(log)
          /\ tasks \in Seq(Task) /\ spliced \in 0 .. Len(tasks) /\ handled \in Seq(Nat)
      BY DEF Init
    <2>2. QED
      BY <2>1, RunnerConstants DEF Init, TypeOK
  <1>2. Handled = {}
    BY DEF Init, Handled
  <1>3. Base
    BY <1>1, <1>2 DEF Init, Base
  <1>4. ASSUME StartCursor # -1 PROVE FromCursor
    <2>1. StartCursor \in Nat
      BY <1>4, RunnerConstants
    <2>2. Events(StartCursor, StartCursor) = {} /\ Events(StartCursor, position) = {}
      BY <2>1 DEF Init, Events
    <2>3. QED
      BY <2>2 DEF Init, FromCursor, CursorInv, TrackedInv, FirstEffectsInOrder, Covered
  <1>5. QED
    BY <1>3, <1>4 DEF IInv

LEMMA Keeps ==
  ASSUME IInv, [Next]_vars
  PROVE  IInv'
  <1>1. ASSUME NEW d \in Did, NEW valid \in BOOLEAN, Publish(d, valid) PROVE IInv'
    BY <1>1, PublishKeeps
  <1>2. ASSUME NEW i \in DOMAIN tasks, Handle(i) \/ Complete(i) \/ Save(i) PROVE IInv'
    BY <1>2, HandleKeeps, CompleteKeeps, SaveKeeps
  <1>3. CASE UNCHANGED vars
    <2>1. /\ log' \in Seq(Event) /\ Len(log) <= Len(log') /\ log' = log
          /\ position' \in -1 .. Len(log') /\ (destroyed => position' = -1)
          /\ origin' \in Nat \cup {-1} /\ connects' \in Nat /\ restarts' \in Nat
      BY <1>3 DEF vars, IInv, Base, TypeOK
    <2>2. QED
      BY <1>3, <2>1, StreamKeeps DEF vars
  <1>4. QED
    BY <1>1, <1>2, <1>3, ConnectKeeps, DropKeeps, DeliverKeeps, DestroyKeeps, RestartKeeps
    DEF Next, Work

\* What the tracked events, the cursors and the effects have to do with one another
\* is true in every state that deliveries, handlers, disconnects, a shutdown and
\* restarts can reach.
THEOREM Invariance == Spec => []IInv
  <1>1. Init => IInv
    BY Initially
  <1>2. IInv /\ [Next]_vars => IInv'
    BY Keeps
  <1>3. QED
    BY <1>1, <1>2, PTL DEF Spec

\* Every variable stays in its type, with or without a cursor to start from.
THEOREM TypeCorrect == Spec => []TypeOK
  <1>1. IInv => TypeOK
    BY DEF IInv, Base
  <1>2. QED
    BY <1>1, Invariance, PTL

\* "This ensures that no events are dropped" (packages/sync/README.md), for a
\* consumer that has a cursor to start from: neither the cursor that it holds nor
\* the one that it persisted passes an event that was not handled.  Without one
\* the statement is false: a subscription that breaks before the first event is
\* complete comes back at the end of the log.
THEOREM NothingIsDropped == ASSUME StartCursor # -1 PROVE Spec => []NoneDropped
  <1>1. IInv => NoneDropped
    BY DEF IInv, FromCursor, CursorInv, Covered, NoneDropped
  <1>2. QED
    BY <1>1, Invariance, PTL

\* "Events from a given repo must be processed in order", whatever the concurrency
\* of the runner, and although a reconnect delivers again what is in progress.
THEOREM ReposInOrder == ASSUME StartCursor # -1 PROVE Spec => []FirstEffectsInOrder
  <1>1. IInv => FirstEffectsInOrder
    BY DEF IInv, FromCursor
  <1>2. QED
    BY <1>1, Invariance, PTL

=============================================================================
