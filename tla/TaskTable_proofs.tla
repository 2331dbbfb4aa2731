--------------------------- MODULE TaskTable_proofs ---------------------------
(***************************************************************************)
(* What is proved of the tasks table for any number of rows, claimers and  *)
(* cancel requests.                                                        *)
(***************************************************************************)
EXTENDS TaskTable, FiniteSetTheorems, TLAPS

\* Rows are numbered in the order of their insertion, without gaps.
Contiguous == Present = 1 .. Cardinality(Present)

\* A row a claimer has selected is there and its dependency has succeeded.
ClaimsUnblocked ==
    \A w \in Claimers : pick[w].at = "selected" =>
        /\ pick[w].task \in Tasks
        /\ status[pick[w].task] # "absent"
        /\ Unblocked(pick[w].task)

\* A cancel request has selected active rows; a row it saw as started has a
\* dependency that has succeeded, whatever became of the row since.
SeenUnblocked ==
    \A c \in Cancellers : txn[c].at = "read" =>
        \A t \in txn[c].rows :
            /\ status[t] # "absent"
            /\ txn[c].seen[t] = "queued" \/ Unblocked(t)

\* Nobody is blamed for a cancellation that was not requested.
BlamelessWhileUncancelled ==
    \A t \in Tasks : status[t] \in {"absent", "queued", "running"}
                       => cancelledBy[t] = NoOne

\* The inductive invariant of the table.
TableInv ==
    /\ TypeOK
    /\ Contiguous
    /\ ClaimsUnblocked
    /\ SeenUnblocked
    /\ StartedAfterParent
    /\ UniqueActive
    /\ BlamelessWhileUncancelled
    /\ CascadeHasCause

\* The edges of the status graph of a row that is there.
Edge(s, next) ==
    \/ next = s
    \/ s = "queued" /\ next \in {"running", "failed", "cancelled"}
    \/ s = "running" /\ next \in {"queued", "succeeded", "failed",
                                   "cancelling", "cancelled"}
    \/ s = "cancelling" /\ next = "cancelled"

-----------------------------------------------------------------------------
(* Rows about to be inserted. *)

\* The ids an insertion takes are natural numbers, and were not in use: a row,
\* once inserted, is never inserted again (task_id is the primary key).
LEMMA NextIdsFresh ==
    ASSUME TypeOK, Contiguous, NEW n \in 1 .. MaxBatch
    PROVE  /\ Cardinality(Present) \in Nat
           /\ NextIds(n) \cap Present = {}
<1>1. IsFiniteSet(Tasks)
  BY TableAssumption, FS_Interval DEF Tasks, TableAssumption
<1>2. IsFiniteSet(Present)
  BY <1>1, FS_Subset DEF Present
<1>3. Cardinality(Present) \in Nat
  BY <1>2, FS_CardinalityType
<1> QED
  BY <1>3 DEF NextIds, Contiguous

-----------------------------------------------------------------------------
(* Type correctness, one lemma for each group of operations. *)

LEMMA InsertType ==
    ASSUME TypeOK, Contiguous, NEW n \in 1 .. MaxBatch, EnqueueBatch(n)
    PROVE  TypeOK'
<1> PICK keys \in [NextIds(n) -> Resources] :
    \E deps \in [NextIds(n) -> Present \union {NoTask}] :
    \E provs \in [NextIds(n) -> Providers \union {NoProvider}] :
        Insert(n, keys, deps, provs)
  BY DEF EnqueueBatch
<1> PICK deps \in [NextIds(n) -> Present \union {NoTask}] :
    \E provs \in [NextIds(n) -> Providers \union {NoProvider}] :
        Insert(n, keys, deps, provs)
  OBVIOUS
<1> PICK provs \in [NextIds(n) -> Providers \union {NoProvider}] :
        Insert(n, keys, deps, provs)
  OBVIOUS
<1> DEFINE new == NextIds(n)
<1>1. Cardinality(Present) + 1 \in Nat
  BY NextIdsFresh
<1>2. /\ status' = [t \in Tasks |-> IF t \in new THEN "queued" ELSE status[t]]
      /\ key' = [t \in Tasks |-> IF t \in new THEN keys[t] ELSE key[t]]
      /\ dep' = [t \in Tasks |-> IF t \in new THEN deps[t] ELSE dep[t]]
      /\ provider' = [t \in Tasks |-> IF t \in new THEN provs[t] ELSE provider[t]]
      /\ queuedAt' = [t \in Tasks |-> IF t \in new THEN Cardinality(Present) + 1
                                                   ELSE queuedAt[t]]
      /\ UNCHANGED <<cancelledBy, pick, txn>>
  BY DEF Insert
<1> HIDE DEF new
<1>3. status' \in [Tasks -> Status]
  BY <1>2 DEF TypeOK, Status, Active
<1>4. key' \in [Tasks -> Resources]
  BY <1>2 DEF TypeOK, new
<1>5. dep' \in [Tasks -> Tasks \union {NoTask}]
  BY <1>2 DEF TypeOK, new, Present
<1>6. provider' \in [Tasks -> Providers \union {NoProvider}]
  BY <1>2 DEF TypeOK, new
<1>7. queuedAt' \in [Tasks -> Nat]
  BY <1>1, <1>2 DEF TypeOK
<1> QED
  BY <1>2, <1>3, <1>4, <1>5, <1>6, <1>7 DEF TypeOK

LEMMA ClaimType ==
    ASSUME TypeOK, NEW w \in Claimers, ClaimStep(w)
    PROVE  TypeOK'
<1>1. CASE \E media \in {"image", "video", "audio"}, full \in SUBSET Providers :
             ClaimSelect(w, media, full)
  BY <1>1 DEF TypeOK, ClaimSelect, Claimable, rowVars
<1>2. CASE ClaimUpdate(w)
  <2>1. status' \in [Tasks -> Status]
    BY <1>2 DEF TypeOK, ClaimUpdate, Status, Active
  <2>2. pick' \in [Claimers -> [at : {"idle", "selected", "claimed"},
                                task : Tasks \union {NoTask}]]
    <3>1. CASE pick' = [pick EXCEPT ![w].at = "claimed"]
      BY <3>1 DEF TypeOK
    <3>2. CASE pick' = [pick EXCEPT ![w] = NoPick]
      BY <3>2 DEF TypeOK, NoPick
    <3> QED
      BY <1>2, <3>1, <3>2 DEF ClaimUpdate
  <2> QED
    BY <1>2, <2>1, <2>2 DEF TypeOK, ClaimUpdate
<1>3. CASE HandOver(w)
  BY <1>3 DEF TypeOK, HandOver, NoPick, rowVars
<1>4. CASE \E p \in Providers : PersistProvider(w, p)
  <2>1. provider' \in [Tasks -> Providers \union {NoProvider}]
    BY <1>4 DEF TypeOK, PersistProvider
  <2> QED
    BY <1>4, <2>1 DEF TypeOK, PersistProvider
<1>5. CASE RequeueClaimed(w)
  BY <1>5 DEF TypeOK, RequeueClaimed, NoPick, Status, Active
<1> QED
  BY <1>1, <1>2, <1>3, <1>4, <1>5 DEF ClaimStep

\* A transaction that cancels rows only writes statuses and attributions.
LEMMA CancelRowsType ==
    ASSUME TypeOK, NEW killed, NEW stopped,
           NEW by \in {"user", "cascade", "episode_deleted"},
           CancelRows(killed, stopped, by)
    PROVE  /\ status' \in [Tasks -> Status]
           /\ cancelledBy' \in [Tasks -> {NoOne, "user", "cascade", "episode_deleted"}]
           /\ UNCHANGED <<key, dep, queuedAt, provider>>
<1>1. status' \in [Tasks -> Status]
  BY DEF TypeOK, CancelRows, Status, Active, Terminal
<1>2. cancelledBy' \in [Tasks -> {NoOne, "user", "cascade", "episode_deleted"}]
  BY DEF TypeOK, CancelRows, Blame
<1> QED
  BY <1>1, <1>2 DEF CancelRows

LEMMA CancelType ==
    ASSUME TypeOK, NEW c \in Cancellers, CancelStep(c)
    PROVE  TypeOK'
<1>1. CASE CancelSelect(c)
  <2>1. PICK choice \in
         {[kind |-> "task", rows |-> {t}] : t \in ActiveTasks}
           \union {[kind |-> "episode",
                    rows |-> {t \in ActiveTasks : EpisodeOf[key[t]] = EpisodeOf[r]}]
                   : r \in Resources}
           \union {[kind |-> "project", rows |-> ActiveTasks]} :
           txn' = [txn EXCEPT ![c] =
                     [at |-> "read", kind |-> choice.kind, rows |-> choice.rows,
                      seen |-> [t \in Tasks |-> IF t \in choice.rows
                                                THEN status[t] ELSE "absent"],
                      signal |-> {}]]
    BY <1>1 DEF CancelSelect
  <2>2. /\ choice.kind \in {"task", "episode", "project"}
        /\ choice.rows \in SUBSET Tasks
    BY DEF ActiveTasks
  <2>3. [t \in Tasks |-> IF t \in choice.rows THEN status[t] ELSE "absent"]
          \in [Tasks -> Status]
    BY DEF TypeOK, Status
  <2> QED
    BY <1>1, <2>1, <2>2, <2>3 DEF TypeOK, CancelSelect, rowVars
<1>2. CASE CancelApply(c)
  <2> DEFINE top     == txn[c].rows
             killed  == Killed(top, View(c))
             stopped == Stopped(top, killed, View(c))
             by      == IF txn[c].kind = "episode" THEN "episode_deleted" ELSE "user"
             signal  == stopped \union FoundCancelling(top, killed, View(c))
  <2>1. /\ CancelRows(killed, stopped, by)
        /\ txn' = [txn EXCEPT ![c] = [NoTxn EXCEPT !.at = "committed",
                                                   !.kind = txn[c].kind,
                                                   !.signal = signal]]
        /\ UNCHANGED pick
    BY <1>2 DEF CancelApply
  <2>2. signal \in SUBSET Tasks
    BY DEF Stopped, FoundCancelling
  <2>3. by \in {"user", "cascade", "episode_deleted"}
    OBVIOUS
  <2> HIDE DEF signal, stopped, killed, by
  <2>4. /\ status' \in [Tasks -> Status]
        /\ cancelledBy' \in [Tasks -> {NoOne, "user", "cascade", "episode_deleted"}]
        /\ UNCHANGED <<key, dep, queuedAt, provider>>
    BY <2>1, <2>3, CancelRowsType
  <2>5. txn' \in [Cancellers -> [at : {"idle", "read", "committed"},
                                 kind : {"task", "episode", "project"},
                                 rows : SUBSET Tasks,
                                 seen : [Tasks -> Status],
                                 signal : SUBSET Tasks]]
    BY <2>1, <2>2 DEF TypeOK, NoTxn, Status
  <2> QED
    BY <2>1, <2>4, <2>5 DEF TypeOK
<1>3. CASE FinalizeCancelling(c)
  <2>1. /\ status' \in [Tasks -> Status]
        /\ cancelledBy' \in [Tasks -> {NoOne, "user", "cascade", "episode_deleted"}]
        /\ UNCHANGED <<key, dep, queuedAt, provider>>
    BY <1>3, CancelRowsType DEF FinalizeCancelling
  <2> QED
    BY <1>3, <2>1 DEF TypeOK, FinalizeCancelling, NoTxn, Status
<1>4. CASE CancelReturn(c)
  BY <1>4 DEF TypeOK, CancelReturn, NoTxn, Status, rowVars
<1> QED
  BY <1>1, <1>2, <1>3, <1>4 DEF CancelStep

LEMMA EndType ==
    ASSUME TypeOK, NEW t \in Tasks,
           MarkSucceeded(t) \/ MarkFailed(t) \/ FinalizeCancelled(t)
    PROVE  TypeOK'
<1>1. CASE MarkSucceeded(t)
  BY <1>1 DEF TypeOK, MarkSucceeded, Status, Terminal
<1>2. CASE MarkFailed(t)
  BY <1>2 DEF TypeOK, MarkFailed, FailRows, Status, Terminal
<1>3. CASE FinalizeCancelled(t)
  <2>1. /\ status' \in [Tasks -> Status]
        /\ cancelledBy' \in [Tasks -> {NoOne, "user", "cascade", "episode_deleted"}]
        /\ UNCHANGED <<key, dep, queuedAt, provider>>
    BY <1>3, CancelRowsType DEF FinalizeCancelled
  <2> QED
    BY <1>3, <2>1 DEF TypeOK, FinalizeCancelled
<1> QED
  BY <1>1, <1>2, <1>3

-----------------------------------------------------------------------------
(* The effect of a step on the rows. *)

\* An insertion leaves the rows that are there alone; it keeps the numbering
\* without gaps and no two active rows with one key.
LEMMA InsertEffect ==
    ASSUME TypeOK, Contiguous, NEW n \in 1 .. MaxBatch, EnqueueBatch(n)
    PROVE  /\ \A t \in Tasks : status[t] # "absent" =>
                 status'[t] = status[t] /\ key'[t] = key[t] /\ dep'[t] = dep[t]
           /\ \A t \in Tasks : status[t] = "absent" =>
                 status'[t] \in {"absent", "queued"}
           /\ UNCHANGED <<cancelledBy, pick, txn>>
           /\ Contiguous'
           /\ UniqueActive => UniqueActive'
<1> PICK keys \in [NextIds(n) -> Resources] :
    \E deps \in [NextIds(n) -> Present \union {NoTask}] :
    \E provs \in [NextIds(n) -> Providers \union {NoProvider}] :
        Insert(n, keys, deps, provs)
  BY DEF EnqueueBatch
<1> PICK deps \in [NextIds(n) -> Present \union {NoTask}] :
    \E provs \in [NextIds(n) -> Providers \union {NoProvider}] :
        Insert(n, keys, deps, provs)
  OBVIOUS
<1> PICK provs \in [NextIds(n) -> Providers \union {NoProvider}] :
        Insert(n, keys, deps, provs)
  OBVIOUS
<1> DEFINE new == NextIds(n)
<1>1. /\ new \subseteq Tasks
      /\ status' = [t \in Tasks |-> IF t \in new THEN "queued" ELSE status[t]]
      /\ key' = [t \in Tasks |-> IF t \in new THEN keys[t] ELSE key[t]]
      /\ dep' = [t \in Tasks |-> IF t \in new THEN deps[t] ELSE dep[t]]
      /\ UNCHANGED <<cancelledBy, pick, txn>>
  BY DEF Insert
<1>2. /\ Cardinality(Present) \in Nat
      /\ new \cap Present = {}
  BY NextIdsFresh
<1>3. \A t \in Tasks : status[t] # "absent" => t \notin new
  BY <1>2 DEF Present
<1>4. Contiguous'
  <2>1. Present' = Present \union new
    <3> HIDE DEF new
    <3> QED
      BY <1>1 DEF Present
  <2>2. Present' = 1 .. (Cardinality(Present) + n)
    BY <1>2, <2>1 DEF Contiguous, NextIds
  <2>3. Cardinality(Present') = Cardinality(Present) + n
    BY <1>2, <2>2, FS_Interval
  <2> QED
    BY <2>2, <2>3 DEF Contiguous
<1>5. ASSUME UniqueActive PROVE UniqueActive'
  <2>1. \A t \in new : \A u \in ActiveTasks \union (new \ {t}) :
          keys[t] # (IF u \in new THEN keys[u] ELSE key[u])
    BY DEF Insert
  <2>2. ActiveTasks' = ActiveTasks \union new
    <3> HIDE DEF new
    <3> QED
      BY <1>1, <1>3 DEF ActiveTasks, Active
  <2> HIDE DEF new
  <2> SUFFICES ASSUME NEW t \in ActiveTasks', NEW u \in ActiveTasks', key'[t] = key'[u]
               PROVE  t = u
    BY DEF UniqueActive
  <2>3. t \in Tasks /\ u \in Tasks
    BY DEF ActiveTasks
  <2>4. CASE t \in new
    BY <1>1, <2>1, <2>2, <2>3, <2>4
  <2>5. CASE u \in new
    BY <1>1, <2>1, <2>2, <2>3, <2>5
  <2>6. CASE t \notin new /\ u \notin new
    BY <1>1, <1>5, <2>2, <2>3, <2>6 DEF UniqueActive
  <2> QED
    BY <2>4, <2>5, <2>6
<1> HIDE DEF new
<1> QED
  BY <1>1, <1>3, <1>4, <1>5

\* What every step but an insertion may do to the rows.
RowStep ==
    /\ UNCHANGED <<key, dep>>
    /\ \A t \in Tasks : Edge(status[t], status'[t])
    /\ \A t \in Tasks : status[t] = "queued" /\ status'[t] = "running"
                          => Unblocked(t)

\* The attributions a step leaves: nobody is blamed too early, a cascade has a
\* cancelled dependency, and no attribution changes.
SoundBlame ==
    /\ BlamelessWhileUncancelled'
    /\ CascadeHasCause'
    /\ \A t \in Tasks : cancelledBy[t] # NoOne => cancelledBy'[t] = cancelledBy[t]

\* The graph of the statuses is enough for whatever only looks at statuses:
\* rows stay there, dependencies stay succeeded, no row becomes active again.
LEMMA RowStepKeeps ==
    ASSUME TypeOK, TypeOK', Contiguous, StartedAfterParent, UniqueActive, RowStep
    PROVE  /\ Contiguous'
           /\ StartedAfterParent'
           /\ UniqueActive'
           /\ \A t \in Tasks : status[t] # "absent" => status'[t] # "absent"
           /\ \A t \in Tasks : Unblocked(t) => Unblocked(t)'
<1>1. \A t \in Tasks : (status'[t] = "absent") <=> (status[t] = "absent")
  BY DEF RowStep, Edge
<1>2. Present' = Present
  BY <1>1 DEF Present
<1>3. \A t \in Tasks : status[t] = "succeeded" => status'[t] = "succeeded"
  BY DEF RowStep, Edge
<1>4. \A t \in Tasks : Unblocked(t) => Unblocked(t)'
  BY <1>3 DEF RowStep, Unblocked, TypeOK, NoTask
<1>5. StartedAfterParent'
  <2> SUFFICES ASSUME NEW t \in Tasks, status'[t] \in Started, dep'[t] # NoTask
               PROVE  status'[dep'[t]] = "succeeded"
    BY DEF StartedAfterParent
  <2>1. dep'[t] = dep[t] /\ dep[t] \in Tasks
    BY DEF RowStep, TypeOK
  <2>2. status[t] \in Started \/ Unblocked(t)
    BY DEF RowStep, Edge, Started
  <2>3. status[dep[t]] = "succeeded"
    BY <2>1, <2>2 DEF StartedAfterParent, Unblocked
  <2> QED
    BY <1>3, <2>1, <2>3
<1>6. \A t \in Tasks : status'[t] \in Active => status[t] \in Active
  BY DEF RowStep, Edge, Active
<1>7. UniqueActive'
  BY <1>6 DEF RowStep, UniqueActive, ActiveTasks
<1> QED
  BY <1>1, <1>2, <1>4, <1>5, <1>7 DEF Contiguous

\* A step that leaves the attributions alone keeps them sound.
LEMMA UntouchedBlame ==
    ASSUME TypeOK, BlamelessWhileUncancelled, CascadeHasCause, RowStep,
           UNCHANGED cancelledBy
    PROVE  SoundBlame
<1>1. BlamelessWhileUncancelled'
  BY DEF RowStep, Edge, BlamelessWhileUncancelled
<1>2. CascadeHasCause'
  <2>1. \A t \in Tasks : status[t] = "cancelled" => status'[t] = "cancelled"
    BY DEF RowStep, Edge
  <2> QED
    BY <2>1 DEF RowStep, CascadeHasCause, TypeOK
<1> QED
  BY <1>1, <1>2 DEF SoundBlame

\* The two UPDATEs of a cancelling transaction follow the status graph, and
\* blame a cascade only below a row the same transaction cancels.
LEMMA CancelRowsEffect ==
    ASSUME TypeOK, BlamelessWhileUncancelled, CascadeHasCause,
           NEW killed \in SUBSET Tasks, \A t \in killed : status[t] \in Active,
           NEW stopped \in SUBSET Tasks, \A t \in stopped : status[t] = "running",
           NEW by \in {"user", "episode_deleted"},
           CancelRows(killed, stopped, by)
    PROVE  RowStep /\ SoundBlame
<1>1. /\ \A t \in Tasks : status'[t] = IF t \in killed THEN "cancelled"
                                       ELSE IF t \in stopped THEN "cancelling"
                                       ELSE status[t]
      /\ UNCHANGED <<key, dep>>
  BY DEF CancelRows
<1>2. \A t \in Tasks : cancelledBy'[t] =
         IF t \in stopped \/ (t \in killed /\ cancelledBy[t] = NoOne)
           THEN Blame(t, killed, by)
           ELSE cancelledBy[t]
  BY DEF CancelRows
<1>3. \A t \in Tasks : Edge(status[t], status'[t])
  BY <1>1 DEF Edge, Active
<1>4. RowStep
  BY <1>1, <1>3 DEF RowStep
<1>5. BlamelessWhileUncancelled'
  BY <1>1, <1>2 DEF BlamelessWhileUncancelled
<1>6. CascadeHasCause'
  <2> SUFFICES ASSUME NEW t \in Tasks, cancelledBy'[t] = "cascade"
               PROVE  dep'[t] # NoTask /\ status'[dep'[t]] = "cancelled"
    BY DEF CascadeHasCause
  <2>1. dep[t] \in killed \/ cancelledBy[t] = "cascade"
    BY <1>2 DEF Blame
  <2>2. CASE dep[t] \in killed
    <3>1. dep[t] \in Tasks
      BY <2>2
    <3>2. dep[t] # NoTask
      BY <3>1, TableAssumption DEF NoTask, Tasks
    <3>3. status'[dep[t]] = "cancelled"
      BY <1>1, <2>2, <3>1
    <3> QED
      BY <1>1, <3>2, <3>3
  <2>3. CASE cancelledBy[t] = "cascade"
    <3>1. dep[t] # NoTask /\ status[dep[t]] = "cancelled" /\ dep[t] \in Tasks
      BY <2>3 DEF CascadeHasCause, TypeOK
    <3>2. status'[dep[t]] = "cancelled"
      BY <1>3, <3>1 DEF Edge
    <3> QED
      BY <1>1, <3>1, <3>2
  <2> QED
    BY <2>1, <2>2, <2>3
<1>7. \A t \in Tasks : cancelledBy[t] # NoOne => cancelledBy'[t] = cancelledBy[t]
  BY <1>2 DEF BlamelessWhileUncancelled
<1> QED
  BY <1>4, <1>5, <1>6, <1>7 DEF SoundBlame

\* The cascade takes rows among those it may take...
LEMMA DownstreamAmong ==
    ASSUME NEW roots, NEW among
    PROVE  Downstream(roots, among) \subseteq among
  BY DEF Downstream

\* ... and all of them: a row behind a root, or behind a row taken, is taken.
LEMMA DownstreamClosed ==
    ASSUME NEW roots, NEW among, NEW u \in among,
           dep[u] \in roots \union Downstream(roots, among)
    PROVE  u \in Downstream(roots, among)
<1> SUFFICES ASSUME NEW S \in SUBSET among,
                    \A v \in among : dep[v] \in roots \union S => v \in S
             PROVE  u \in S
  BY DEF Downstream
<1>1. Downstream(roots, among) \subseteq S
  BY DEF Downstream
<1> QED
  BY <1>1

-----------------------------------------------------------------------------
(* Which steps of the table do what to the rows and to the attributions. *)

\* A claimer starts a queued row only when its dependency has succeeded, puts
\* back only what is running, and blames nobody.
LEMMA ClaimEffect ==
    ASSUME TypeOK, ClaimsUnblocked, NEW w \in Claimers, ClaimStep(w)
    PROVE  RowStep /\ UNCHANGED <<cancelledBy, txn>>
<1>1. CASE UNCHANGED <<status, key, dep, cancelledBy, txn>>
  BY <1>1 DEF RowStep, Edge
<1>2. CASE ClaimUpdate(w)
  BY <1>2 DEF ClaimUpdate, RowStep, Edge, ClaimsUnblocked, TypeOK
<1>3. CASE RequeueClaimed(w)
  BY <1>3 DEF RequeueClaimed, RowStep, Edge, TypeOK
<1> QED
  BY <1>1, <1>2, <1>3
     DEF ClaimStep, ClaimSelect, HandOver, PersistProvider, rowVars

\* What a cancel request cancels is active, what it stops is running.
LEMMA KilledActive ==
    ASSUME NEW top, NEW view
    PROVE  Killed(top, view) \subseteq {t \in Tasks : Cancellable(t)}
<1> DEFINE candidates == {t \in Tasks : view[t] = "queued" /\ Cancellable(t)}
           roots == top \cap candidates
<1>1. Killed(top, view) = roots \union Downstream(roots, candidates)
  BY DEF Killed
<1>2. Downstream(roots, candidates) \subseteq candidates
  BY DownstreamAmong
<1> QED
  BY <1>1, <1>2

LEMMA CancelEffect ==
    ASSUME TypeOK, BlamelessWhileUncancelled, CascadeHasCause,
           NEW c \in Cancellers, CancelStep(c)
    PROVE  RowStep /\ SoundBlame /\ UNCHANGED pick
<1>1. CASE UNCHANGED <<rowVars, pick>>
  <2>1. RowStep
    BY <1>1 DEF RowStep, Edge, rowVars
  <2> QED
    BY <1>1, <2>1, UntouchedBlame DEF rowVars
<1>2. CASE CancelApply(c)
  <2> DEFINE killed  == Killed(txn[c].rows, View(c))
             stopped == Stopped(txn[c].rows, killed, View(c))
             by      == IF txn[c].kind = "episode" THEN "episode_deleted" ELSE "user"
  <2>1. CancelRows(killed, stopped, by) /\ UNCHANGED pick
    BY <1>2 DEF CancelApply
  <2>2. killed \in SUBSET Tasks /\ \A t \in killed : status[t] \in Active
    BY KilledActive DEF Cancellable
  <2>3. stopped \in SUBSET Tasks /\ \A t \in stopped : status[t] = "running"
    BY DEF Stopped
  <2>4. by \in {"user", "episode_deleted"}
    OBVIOUS
  <2> HIDE DEF killed, stopped, by
  <2> QED
    BY <2>1, <2>2, <2>3, <2>4, CancelRowsEffect
<1>3. CASE FinalizeCancelling(c)
  <2> DEFINE rows == {t \in txn[c].signal : Cancellable(t)}
  <2>1. CancelRows(rows, {}, "user") /\ UNCHANGED pick
    BY <1>3 DEF FinalizeCancelling
  <2>2. rows \in SUBSET Tasks /\ \A t \in rows : status[t] \in Active
    BY DEF TypeOK, Cancellable
  <2> HIDE DEF rows
  <2>3. RowStep /\ SoundBlame
    BY <2>1, <2>2, CancelRowsEffect
  <2> QED
    BY <2>1, <2>3
<1> QED
  BY <1>1, <1>2, <1>3 DEF CancelStep, CancelSelect, CancelReturn

\* A failure and its cascade, whatever else the step does.
LEMMA FailRowsEffect ==
    ASSUME TypeOK, BlamelessWhileUncancelled, CascadeHasCause,
           NEW t \in Tasks, FailRows(t)
    PROVE  RowStep /\ SoundBlame
<1> DEFINE blocked == Downstream({t}, {u \in Tasks : status[u] = "queued"})
<1>1. \A u \in blocked : status[u] = "queued"
  BY DownstreamAmong
<1>2. /\ status[t] = "running"
      /\ \A u \in Tasks : status'[u] = IF u = t \/ u \in blocked THEN "failed"
                                                                 ELSE status[u]
      /\ UNCHANGED <<key, dep, cancelledBy>>
  BY DEF FailRows
<1> HIDE DEF blocked
<1>3. RowStep
  BY <1>1, <1>2 DEF RowStep, Edge
<1> QED
  BY <1>2, <1>3, UntouchedBlame

\* A terminal write or the operator's requeue.
LEMMA EndEffect ==
    ASSUME TypeOK, BlamelessWhileUncancelled, CascadeHasCause,
           \/ RequeueRunning
           \/ \E t \in Tasks : MarkSucceeded(t) \/ MarkFailed(t) \/ FinalizeCancelled(t)
    PROVE  RowStep /\ SoundBlame /\ UNCHANGED <<pick, txn>>
<1>1. CASE RequeueRunning
  <2>1. RowStep
    BY <1>1 DEF RequeueRunning, RowStep, Edge
  <2> QED
    BY <1>1, <2>1, UntouchedBlame DEF RequeueRunning
<1>2. ASSUME NEW t \in Tasks, MarkSucceeded(t)
      PROVE  RowStep /\ SoundBlame /\ UNCHANGED <<pick, txn>>
  <2>1. RowStep
    BY <1>2 DEF MarkSucceeded, RowStep, Edge, TypeOK
  <2> QED
    BY <1>2, <2>1, UntouchedBlame DEF MarkSucceeded
<1>3. ASSUME NEW t \in Tasks, MarkFailed(t)
      PROVE  RowStep /\ SoundBlame /\ UNCHANGED <<pick, txn>>
  BY <1>3, FailRowsEffect DEF MarkFailed
<1>4. ASSUME NEW t \in Tasks, FinalizeCancelled(t)
      PROVE  RowStep /\ SoundBlame /\ UNCHANGED <<pick, txn>>
  <2> DEFINE killed  == KilledWith(t)
             stopped == Stopped({}, killed, status)
  <2>1. CancelRows(killed, stopped, "user") /\ UNCHANGED <<pick, txn>> /\ Cancellable(t)
    BY <1>4 DEF FinalizeCancelled
  <2>2. killed \in SUBSET Tasks /\ \A u \in killed : status[u] \in Active
    <3>1. Downstream({t}, {u \in Tasks : status[u] = "queued"})
            \subseteq {u \in Tasks : status[u] = "queued"}
      BY DownstreamAmong
    <3> QED
      BY <2>1, <3>1 DEF KilledWith, Cancellable, Active
  <2>3. stopped \in SUBSET Tasks /\ \A u \in stopped : status[u] = "running"
    BY DEF Stopped
  <2> HIDE DEF killed, stopped
  <2>4. RowStep /\ SoundBlame
    BY <2>1, <2>2, <2>3, CancelRowsEffect
  <2> QED
    BY <2>1, <2>4
<1> QED
  BY <1>1, <1>2, <1>3, <1>4

-----------------------------------------------------------------------------
(* The invariant is inductive. *)

LEMMA InitInv == TableInit => TableInv
<1> SUFFICES ASSUME TableInit PROVE TableInv
  OBVIOUS
<1>1. TypeOK
  BY TableAssumption DEF TableInit, TypeOK, Status, NoPick, NoTxn
<1>2. Contiguous
  <2>1. Present = {}
    BY DEF TableInit, Present
  <2> QED
    BY <2>1, FS_EmptySet DEF Contiguous
<1>3. UniqueActive
  BY DEF TableInit, UniqueActive, ActiveTasks, Active
<1>4. StartedAfterParent
  BY DEF TableInit, StartedAfterParent, Started
<1>5. BlamelessWhileUncancelled /\ CascadeHasCause
  BY DEF TableInit, BlamelessWhileUncancelled, CascadeHasCause, NoOne
<1>6. ClaimsUnblocked /\ SeenUnblocked
  BY DEF TableInit, ClaimsUnblocked, SeenUnblocked, NoPick, NoTxn
<1> QED
  BY <1>1, <1>2, <1>3, <1>4, <1>5, <1>6 DEF TableInv

\* The callers' memories stay sound when the rows only move along their graph
\* and the callers themselves do nothing.
LEMMA MemoriesKept ==
    ASSUME TypeOK, ClaimsUnblocked, SeenUnblocked, UNCHANGED <<pick, txn>>,
           \A t \in Tasks : status[t] # "absent" =>
              status'[t] # "absent" /\ (Unblocked(t) => Unblocked(t)')
    PROVE  ClaimsUnblocked' /\ SeenUnblocked'
<1>1. ClaimsUnblocked'
  BY DEF ClaimsUnblocked
<1>2. SeenUnblocked'
  <2> SUFFICES ASSUME NEW c \in Cancellers, txn[c].at = "read", NEW t \in txn[c].rows
               PROVE  /\ status'[t] # "absent"
                      /\ txn[c].seen[t] = "queued" \/ Unblocked(t)'
    BY DEF SeenUnblocked
  <2>1. t \in Tasks
    BY DEF TypeOK
  <2> QED
    BY <2>1 DEF SeenUnblocked
<1> QED
  BY <1>1, <1>2

LEMMA InsertInv ==
    ASSUME TableInv, NEW n \in 1 .. MaxBatch, EnqueueBatch(n)
    PROVE  TableInv'
<1> USE DEF TableInv
<1>1. TypeOK'
  BY InsertType
<1>2. /\ \A t \in Tasks : status[t] # "absent" =>
            status'[t] = status[t] /\ key'[t] = key[t] /\ dep'[t] = dep[t]
      /\ \A t \in Tasks : status[t] = "absent" => status'[t] \in {"absent", "queued"}
      /\ UNCHANGED <<cancelledBy, pick, txn>>
      /\ Contiguous'
      /\ UniqueActive'
  BY InsertEffect
<1>3. \A t \in Tasks : status[t] # "absent" => (Unblocked(t) => Unblocked(t)')
  BY <1>2 DEF Unblocked, TypeOK, NoTask
<1>4. ClaimsUnblocked' /\ SeenUnblocked'
  BY <1>2, <1>3, MemoriesKept
<1>5. StartedAfterParent'
  <2> SUFFICES ASSUME NEW t \in Tasks, status'[t] \in Started, dep'[t] # NoTask
               PROVE  status'[dep'[t]] = "succeeded"
    BY DEF StartedAfterParent
  <2>1. status[t] # "absent"
    BY <1>2 DEF Started
  <2>2. dep'[t] = dep[t] /\ dep[t] \in Tasks /\ status[dep[t]] = "succeeded"
    BY <1>2, <2>1 DEF StartedAfterParent, TypeOK
  <2> QED
    BY <1>2, <2>2
<1>6. BlamelessWhileUncancelled'
  BY <1>2 DEF BlamelessWhileUncancelled
<1>7. CascadeHasCause'
  <2> SUFFICES ASSUME NEW t \in Tasks, cancelledBy'[t] = "cascade"
               PROVE  dep'[t] # NoTask /\ status'[dep'[t]] = "cancelled"
    BY DEF CascadeHasCause
  <2>1. status[t] # "absent"
    BY <1>2 DEF BlamelessWhileUncancelled, NoOne
  <2>2. dep[t] # NoTask /\ status[dep[t]] = "cancelled" /\ dep[t] \in Tasks
    BY <1>2 DEF CascadeHasCause, TypeOK
  <2> QED
    BY <1>2, <2>1, <2>2
<1> QED
  BY <1>1, <1>2, <1>4, <1>5, <1>6, <1>7

LEMMA ClaimInv ==
    ASSUME TableInv, NEW w \in Claimers, ClaimStep(w)
    PROVE  TableInv'
<1> USE DEF TableInv
<1>1. TypeOK'
  BY ClaimType
<1>2. RowStep /\ UNCHANGED <<cancelledBy, txn>>
  BY ClaimEffect
<1>3. /\ Contiguous' /\ StartedAfterParent' /\ UniqueActive'
      /\ \A t \in Tasks : status[t] # "absent" => status'[t] # "absent"
      /\ \A t \in Tasks : Unblocked(t) => Unblocked(t)'
  BY <1>1, <1>2, RowStepKeeps
<1>4. BlamelessWhileUncancelled' /\ CascadeHasCause'
  BY <1>2, UntouchedBlame DEF SoundBlame
<1>5. SeenUnblocked'
  <2> SUFFICES ASSUME NEW c \in Cancellers, txn[c].at = "read", NEW t \in txn[c].rows
               PROVE  /\ status'[t] # "absent"
                      /\ txn[c].seen[t] = "queued" \/ Unblocked(t)'
    BY <1>2 DEF SeenUnblocked
  <2>1. t \in Tasks
    BY DEF TypeOK
  <2> QED
    BY <1>3, <2>1 DEF SeenUnblocked
<1>6. \/ pick' = pick
      \/ pick' = [pick EXCEPT ![w] = NoPick]
      \/ pick' = [pick EXCEPT ![w].at = "claimed"]
      \/ \E t \in Tasks : /\ status[t] = "queued" /\ Unblocked(t)
                          /\ pick' = [pick EXCEPT ![w] = [at |-> "selected", task |-> t]]
  BY DEF ClaimStep, ClaimSelect, Claimable, ClaimUpdate, HandOver, PersistProvider,
         RequeueClaimed
<1>7. ClaimsUnblocked'
  <2> SUFFICES ASSUME NEW v \in Claimers, pick'[v].at = "selected"
               PROVE  /\ pick'[v].task \in Tasks
                      /\ status'[pick'[v].task] # "absent"
                      /\ Unblocked(pick[v].task)'
    BY DEF ClaimsUnblocked
  <2>1. ASSUME pick'[v] = pick[v]
        PROVE  /\ pick'[v].task \in Tasks
               /\ status'[pick'[v].task] # "absent"
               /\ Unblocked(pick[v].task)'
    BY <1>3, <2>1 DEF ClaimsUnblocked
  <2>2. CASE pick' = pick \/ v # w
    BY <1>6, <2>1, <2>2 DEF TypeOK
  <2>3. CASE v = w /\ pick' = [pick EXCEPT ![w] = NoPick]
    BY <2>3 DEF NoPick, TypeOK
  <2>4. CASE v = w /\ pick' = [pick EXCEPT ![w].at = "claimed"]
    <3>1. pick'[w].at = "claimed"
      BY <2>4 DEF TypeOK
    <3> QED
      BY <2>4, <3>1
  <2>5. ASSUME v = w, NEW t \in Tasks, status[t] = "queued", Unblocked(t),
               pick' = [pick EXCEPT ![w] = [at |-> "selected", task |-> t]]
        PROVE  /\ pick'[v].task \in Tasks
               /\ status'[pick'[v].task] # "absent"
               /\ Unblocked(pick[v].task)'
    <3>1. pick'[v].task = t
      BY <2>5 DEF TypeOK
    <3>2. status'[t] # "absent" /\ Unblocked(t)'
      BY <1>3, <2>5
    <3> QED
      BY <3>1, <3>2 DEF Unblocked
  <2> QED
    BY <1>6, <2>2, <2>3, <2>4, <2>5
<1> QED
  BY <1>1, <1>3, <1>4, <1>5, <1>7

LEMMA CancelInv ==
    ASSUME TableInv, NEW c \in Cancellers, CancelStep(c)
    PROVE  TableInv'
<1> USE DEF TableInv
<1>1. TypeOK'
  BY CancelType
<1>2. RowStep /\ SoundBlame /\ UNCHANGED pick
  BY CancelEffect
<1>3. /\ Contiguous' /\ StartedAfterParent' /\ UniqueActive'
      /\ \A t \in Tasks : status[t] # "absent" => status'[t] # "absent"
      /\ \A t \in Tasks : Unblocked(t) => Unblocked(t)'
  BY <1>1, <1>2, RowStepKeeps
<1>4. ClaimsUnblocked'
  BY <1>2, <1>3 DEF ClaimsUnblocked
<1>5. SeenUnblocked'
  <2> SUFFICES ASSUME NEW d \in Cancellers, txn'[d].at = "read", NEW t \in txn'[d].rows
               PROVE  /\ status'[t] # "absent"
                      /\ txn'[d].seen[t] = "queued" \/ Unblocked(t)'
    BY DEF SeenUnblocked
  <2>1. t \in Tasks
    BY <1>1 DEF TypeOK
  <2>2. CASE txn'[d] = txn[d]
    BY <1>3, <2>1, <2>2 DEF SeenUnblocked
  <2>3. txn'[d] = txn[d] \/ d = c
    BY DEF CancelStep, CancelSelect, CancelApply, FinalizeCancelling, CancelReturn, TypeOK
  <2>4. CASE d = c
    <3>1. CASE CancelSelect(c)
      <4>1. PICK kind, rows : /\ rows \subseteq ActiveTasks
                              /\ txn'[c] = [at |-> "read", kind |-> kind, rows |-> rows,
                                   seen |-> [u \in Tasks |-> IF u \in rows
                                               THEN status[u] ELSE "absent"],
                                   signal |-> {}]
        <5>1. PICK choice \in
               {[kind |-> "task", rows |-> {u}] : u \in ActiveTasks}
                 \union {[kind |-> "episode",
                          rows |-> {u \in ActiveTasks : EpisodeOf[key[u]] = EpisodeOf[r]}]
                         : r \in Resources}
                 \union {[kind |-> "project", rows |-> ActiveTasks]} :
                 txn' = [txn EXCEPT ![c] =
                           [at |-> "read", kind |-> choice.kind, rows |-> choice.rows,
                            seen |-> [u \in Tasks |-> IF u \in choice.rows
                                                      THEN status[u] ELSE "absent"],
                            signal |-> {}]]
          BY <3>1 DEF CancelSelect
        <5>2. choice.rows \subseteq ActiveTasks
          OBVIOUS
        <5> QED
          BY <5>1, <5>2 DEF TypeOK
      <4>2. t \in rows /\ txn'[c].seen[t] = status[t]
        BY <2>1, <2>4, <4>1
      <4>3. status[t] \in Active
        BY <4>1, <4>2 DEF ActiveTasks
      <4>4. status[t] = "queued" \/ Unblocked(t)
        BY <2>1, <4>3 DEF StartedAfterParent, Started, Active, Unblocked
      <4> QED
        BY <1>3, <2>1, <2>4, <4>2, <4>3, <4>4 DEF Active
    <3>2. CASE CancelApply(c)
      <4>1. txn'[c].at = "committed"
        BY <3>2 DEF CancelApply, NoTxn, TypeOK
      <4> QED
        BY <2>4, <4>1
    <3>3. CASE FinalizeCancelling(c) \/ CancelReturn(c)
      BY <2>4, <3>3 DEF FinalizeCancelling, CancelReturn, NoTxn, TypeOK
    <3> QED
      BY <3>1, <3>2, <3>3 DEF CancelStep
  <2> QED
    BY <2>2, <2>3, <2>4
<1> QED
  BY <1>1, <1>2, <1>3, <1>4, <1>5 DEF SoundBlame

LEMMA EndInv ==
    ASSUME TableInv,
           \/ RequeueRunning
           \/ \E t \in Tasks : MarkSucceeded(t) \/ MarkFailed(t) \/ FinalizeCancelled(t)
    PROVE  TableInv'
<1> USE DEF TableInv
<1>1. TypeOK'
  <2>1. CASE RequeueRunning
    BY <2>1 DEF RequeueRunning, TypeOK, Status, Active
  <2>2. CASE \E t \in Tasks : MarkSucceeded(t) \/ MarkFailed(t) \/ FinalizeCancelled(t)
    BY <2>2, EndType
  <2> QED
    BY <2>1, <2>2
<1>2. RowStep /\ SoundBlame /\ UNCHANGED <<pick, txn>>
  BY EndEffect
<1>3. /\ Contiguous' /\ StartedAfterParent' /\ UniqueActive'
      /\ \A t \in Tasks : status[t] # "absent" => status'[t] # "absent"
      /\ \A t \in Tasks : Unblocked(t) => Unblocked(t)'
  BY <1>1, <1>2, RowStepKeeps
<1>4. ClaimsUnblocked' /\ SeenUnblocked'
  BY <1>2, <1>3, MemoriesKept
<1> QED
  BY <1>1, <1>2, <1>3, <1>4 DEF SoundBlame

LEMMA StutterInv == TableInv /\ UNCHANGED tableVars => TableInv'
<1> SUFFICES ASSUME TableInv, UNCHANGED tableVars PROVE TableInv'
  OBVIOUS
<1> USE DEF tableVars, rowVars
<1>1. TypeOK' /\ Contiguous'
  BY DEF TableInv, TypeOK, Contiguous, Present
<1>2. StartedAfterParent' /\ BlamelessWhileUncancelled' /\ CascadeHasCause'
  BY DEF TableInv, StartedAfterParent, BlamelessWhileUncancelled, CascadeHasCause
<1>3. UniqueActive'
  BY DEF TableInv, UniqueActive, ActiveTasks
<1>4. ClaimsUnblocked' /\ SeenUnblocked'
  BY DEF TableInv, ClaimsUnblocked, SeenUnblocked, Unblocked
<1> QED
  BY <1>1, <1>2, <1>3, <1>4 DEF TableInv

LEMMA NextInv == TableInv /\ [TableNext]_tableVars => TableInv'
  BY InsertInv, ClaimInv, CancelInv, EndInv, StutterInv DEF TableNext

\* The memory of claimers and requests may be lost at any time.
LEMMA ForgettingInv ==
    ASSUME TableInv, TypeOK', RowStep, SoundBlame,
           \A w \in Claimers : pick'[w] = pick[w] \/ pick'[w] = NoPick,
           \A c \in Cancellers : txn'[c] = txn[c] \/ txn'[c] = NoTxn
    PROVE  TableInv'
<1> USE DEF TableInv
<1>1. /\ Contiguous' /\ StartedAfterParent' /\ UniqueActive'
      /\ \A t \in Tasks : status[t] # "absent" => status'[t] # "absent"
      /\ \A t \in Tasks : Unblocked(t) => Unblocked(t)'
  BY RowStepKeeps
<1>2. ClaimsUnblocked'
  BY <1>1 DEF ClaimsUnblocked, NoPick
<1>3. SeenUnblocked'
  <2> SUFFICES ASSUME NEW c \in Cancellers, txn'[c].at = "read", NEW t \in txn'[c].rows
               PROVE  /\ status'[t] # "absent"
                      /\ txn'[c].seen[t] = "queued" \/ Unblocked(t)'
    BY DEF SeenUnblocked
  <2>1. txn'[c] = txn[c] /\ t \in Tasks
    BY DEF TypeOK, NoTxn
  <2> QED
    BY <1>1, <2>1 DEF SeenUnblocked
<1> QED
  BY <1>1, <1>2, <1>3 DEF SoundBlame

\* The invariant holds in every state, whatever calls interleave.
THEOREM TableCorrect == TableSpec => []TableInv
<1>1. TableInit => TableInv
  BY InitInv
<1>2. TableInv /\ [TableNext]_tableVars => TableInv'
  BY NextInv
<1> QED
  BY <1>1, <1>2, PTL DEF TableSpec

-----------------------------------------------------------------------------
(* The theorems: safety. *)

\* Every column keeps its type: no call writes a status nobody else knows.
THEOREM TypeCorrect == TableSpec => []TypeOK
  BY TableCorrect, PTL DEF TableInv

\* enqueue (task_repo.py): two active rows never share a dedupe key, also when
\* inserts, cancellations and requeues interleave.
THEOREM DedupeHolds == TableSpec => []UniqueActive
  BY TableCorrect, PTL DEF TableInv

\* claim_next (task_repo.py): no work starts before its dependency has succeeded,
\* although the SELECT that checks it precedes the UPDATE that starts the work.
THEOREM WorkFollowsDependency == TableSpec => []StartedAfterParent
  BY TableCorrect, PTL DEF TableInv

\* _mark_cancelled (task_repo.py): a cascade is blamed on a cancelled dependency.
THEOREM CascadesAreCaused == TableSpec => []CascadeHasCause
  BY TableCorrect, PTL DEF TableInv

-----------------------------------------------------------------------------
(* The theorems: what a step may never do. *)

\* Every step moves the rows along the status graph of the guards and leaves the
\* attributions that were made; a step that inserts rows changes no other.
LEMMA StepFollowsGraph ==
    ASSUME TableInv, [TableNext]_tableVars
    PROVE  /\ \A t \in Tasks :
                /\ status[t] # "absent" => Edge(status[t], status'[t])
                /\ cancelledBy[t] # NoOne => cancelledBy'[t] = cancelledBy[t]
           /\ \/ \A t \in Tasks : status[t] = "absent" => status'[t] = "absent"
              \/ \A t \in Tasks : status[t] # "absent" => status'[t] = status[t]
<1> USE DEF TableInv
<1>1. CASE \E n \in 1 .. MaxBatch : EnqueueBatch(n)
  BY <1>1, InsertEffect DEF Edge
<1>2. CASE \E w \in Claimers : ClaimStep(w)
  BY <1>2, ClaimEffect DEF RowStep, Edge
<1>3. CASE \E c \in Cancellers : CancelStep(c)
  BY <1>3, CancelEffect DEF RowStep, SoundBlame, Edge
<1>4. CASE \/ RequeueRunning
           \/ \E t \in Tasks : MarkSucceeded(t) \/ MarkFailed(t) \/ FinalizeCancelled(t)
  BY <1>4, EndEffect DEF RowStep, SoundBlame, Edge
<1>5. CASE UNCHANGED tableVars
  BY <1>5 DEF tableVars, rowVars, Edge
<1> QED
  BY <1>1, <1>2, <1>3, <1>4, <1>5 DEF TableNext

\* A terminal row is never written again, also by a call that saw it active.
THEOREM TerminalRowsStay == TableSpec => TerminalIsFinal
<1>1. TableInv /\ [TableNext]_tableVars =>
        [\A t \in Tasks : status[t] \in Terminal => status'[t] = status[t]]_tableVars
  BY StepFollowsGraph DEF Edge, Terminal
<1> QED
  BY <1>1, TableCorrect, PTL DEF TableSpec, TerminalIsFinal

\* A cancelling row is not taken back by a success, a failure or a requeue.
THEOREM CancellingRowsCancel == TableSpec => CancellingOnlyCancels
<1>1. TableInv /\ [TableNext]_tableVars =>
        [\A t \in Tasks : status[t] = "cancelling"
           => status'[t] \in {"cancelling", "cancelled"}]_tableVars
  BY StepFollowsGraph DEF Edge
<1> QED
  BY <1>1, TableCorrect, PTL DEF TableSpec, CancellingOnlyCancels

\* Whoever cancelled a row first is named for good (COALESCE in _mark_cancelled).
THEOREM AttributionStays == TableSpec => AttributionIsFinal
<1>1. TableInv /\ [TableNext]_tableVars =>
        [\A t \in Tasks : cancelledBy[t] # NoOne
           => cancelledBy'[t] = cancelledBy[t]]_tableVars
  BY StepFollowsGraph
<1> QED
  BY <1>1, TableCorrect, PTL DEF TableSpec, AttributionIsFinal

\* A step that fails or cancels a row also ends every row queued behind it.  The
\* case that is not local to one transaction: a cancel request that saw the
\* dependent as started, and skips it, would leave it queued; but what it saw as
\* started has a dependency that has succeeded, which no step cancels.
LEMMA CascadeIsComplete ==
    ASSUME TableInv, [TableNext]_tableVars,
           \A c \in Cancellers : ~ FinalizeCancelling(c),
           NEW t \in Tasks, status[t] \in Active, status'[t] \in {"failed", "cancelled"},
           NEW u \in Tasks, dep[u] = t, status[u] = "queued"
    PROVE  status'[u] # "queued"
<1> USE DEF TableInv
<1> DEFINE queued == {v \in Tasks : status[v] = "queued"}
<1>1. CASE \E n \in 1 .. MaxBatch : EnqueueBatch(n)
  BY <1>1, InsertEffect DEF Active
<1>2. CASE \E w \in Claimers : ClaimStep(w)
  BY <1>2 DEF ClaimStep, ClaimSelect, ClaimUpdate, HandOver, PersistProvider,
              RequeueClaimed, rowVars, TypeOK, Active
<1>3. ASSUME NEW c \in Cancellers, CancelStep(c)
      PROVE  status'[u] # "queued"
  <2> DEFINE view    == View(c)
             candidates == {v \in Tasks : view[v] = "queued" /\ Cancellable(v)}
             roots   == txn[c].rows \cap candidates
             killed  == Killed(txn[c].rows, view)
             stopped == Stopped(txn[c].rows, killed, view)
  <2>1. CASE CancelSelect(c) \/ CancelReturn(c)
    BY <2>1 DEF CancelSelect, CancelReturn, rowVars, Active
  <2>2. CASE CancelApply(c)
    <3>1. \A v \in Tasks : status'[v] = IF v \in killed THEN "cancelled"
                                        ELSE IF v \in stopped THEN "cancelling"
                                        ELSE status[v]
      BY <2>2 DEF CancelApply, CancelRows
    <3>2. killed = roots \union Downstream(roots, candidates)
      BY DEF Killed
    <3>3. killed \subseteq {v \in Tasks : Cancellable(v)}
      BY KilledActive
    <3> HIDE DEF killed, stopped
    <3>4. t \in killed
      BY <3>1 DEF Active
    <3>5. u \in candidates
      <4>1. txn[c].at = "read"
        BY <2>2 DEF CancelApply
      <4>2. view[u] = IF u \in txn[c].rows THEN txn[c].seen[u] ELSE status[u]
        BY DEF View
      <4>3. ~ Unblocked(u)
        <5>1. status[t] # "succeeded"
          BY <3>3, <3>4 DEF Cancellable, Active
        <5> QED
          BY <5>1, TableAssumption DEF Unblocked, NoTask, Tasks
      <4>4. u \in txn[c].rows => txn[c].seen[u] = "queued"
        BY <4>1, <4>3 DEF SeenUnblocked
      <4> QED
        BY <4>2, <4>4 DEF Cancellable, Active
    <3>6. u \in Downstream(roots, candidates)
      BY <3>2, <3>4, <3>5, DownstreamClosed
    <3> QED
      BY <3>1, <3>2, <3>6
  <2> QED
    BY <1>3, <2>1, <2>2 DEF CancelStep
<1>4. CASE RequeueRunning
  BY <1>4 DEF RequeueRunning, Active
<1>5. ASSUME NEW s \in Tasks, MarkSucceeded(s)
      PROVE  status'[u] # "queued"
  BY <1>5 DEF MarkSucceeded, TypeOK, Active
<1>6. ASSUME NEW s \in Tasks, MarkFailed(s)
      PROVE  status'[u] # "queued"
  <2> DEFINE blocked == Downstream({s}, queued)
  <2>1. \A v \in Tasks : status'[v] = IF v = s \/ v \in blocked THEN "failed"
                                                                ELSE status[v]
    BY <1>6 DEF MarkFailed, FailRows
  <2>2. t = s \/ t \in blocked
    <3> HIDE DEF blocked
    <3> QED
      BY <2>1 DEF Active
  <2>3. u \in blocked
    BY <2>2, DownstreamClosed
  <2> HIDE DEF blocked
  <2> QED
    BY <2>1, <2>3
<1>7. ASSUME NEW s \in Tasks, FinalizeCancelled(s)
      PROVE  status'[u] # "queued"
  <2> DEFINE behind  == Downstream({s}, queued)
             stopped == Stopped({}, KilledWith(s), status)
  <2>1. \A v \in Tasks : status'[v] = IF v \in KilledWith(s) THEN "cancelled"
                                      ELSE IF v \in stopped THEN "cancelling"
                                      ELSE status[v]
    BY <1>7 DEF FinalizeCancelled, CancelRows
  <2>2. KilledWith(s) = {s} \union behind
    BY DEF KilledWith
  <2>3. t \in {s} \union behind
    <3> HIDE DEF behind, stopped
    <3> QED
      BY <2>1, <2>2 DEF Active
  <2>4. u \in behind
    BY <2>3, DownstreamClosed
  <2> HIDE DEF behind, stopped
  <2> QED
    BY <2>1, <2>2, <2>4
<1>8. CASE UNCHANGED tableVars
  BY <1>8 DEF tableVars, rowVars, Active
<1> QED
  BY <1>1, <1>2, <1>3, <1>4, <1>5, <1>6, <1>7, <1>8 DEF TableNext

\* _cascade_failed_queued and _cascade_cancel_dependents (task_repo.py): nothing
\* stays queued behind a row that failed or was cancelled.
THEOREM NothingLeftQueued == TableSpec => NoChildLeftQueued
<1>1. ASSUME TableInv, [TableNext]_tableVars
      PROVE  [(\A c \in Cancellers : ~ FinalizeCancelling(c)) =>
         \A t \in Tasks : status[t] \in Active /\ status'[t] \in {"failed", "cancelled"}
            => \A u \in Tasks : dep[u] = t => status'[u] # "queued"]_tableVars
  <2> SUFFICES ASSUME \A c \in Cancellers : ~ FinalizeCancelling(c),
                      NEW t \in Tasks, status[t] \in Active,
                      status'[t] \in {"failed", "cancelled"},
                      NEW u \in Tasks, dep[u] = t, status'[u] = "queued"
               PROVE  FALSE
    OBVIOUS
  <2>1. status[u] # "queued"
    BY <1>1, CascadeIsComplete
  <2>2. status[t] # "succeeded" /\ t # NoTask
    BY TableAssumption DEF Active, NoTask, Tasks
  <2>3. status[u] \notin Started
    BY <1>1, <2>2 DEF TableInv, StartedAfterParent
  <2>4. status[u] = "absent"
    BY <1>1, <2>1, <2>3, StepFollowsGraph DEF Edge, Started
  <2>5. status'[t] # status[t]
    BY DEF Active
  <2> QED
    BY <1>1, <2>4, <2>5, StepFollowsGraph DEF Active
<1> QED
  BY <1>1, TableCorrect, PTL DEF TableSpec, NoChildLeftQueued

-----------------------------------------------------------------------------
(* The theorems: claims, while no operator requeues what is running. *)

\* What a claimer holds is not queued, so nobody else can claim it.
ClaimedHasStarted ==
    \A w \in Claimers : pick[w].at = "claimed" =>
        pick[w].task \in Tasks /\ status[pick[w].task] \notin {"absent", "queued"}

\* A step that leaves the claims alone and queues no started row keeps them exclusive.
LEMMA ClaimsKept ==
    ASSUME ClaimedHasStarted, ClaimsAreExclusive, UNCHANGED pick,
           \A t \in Tasks : status[t] \notin {"absent", "queued"} =>
              status'[t] \notin {"absent", "queued"}
    PROVE  ClaimedHasStarted' /\ ClaimsAreExclusive'
  BY DEF ClaimedHasStarted, ClaimsAreExclusive

\* The two guards at work: the UPDATE of a claim only takes a queued row, which
\* nobody holds; a requeue is the holder's own, and it forgets the row.
LEMMA ClaimKeepsExclusive ==
    ASSUME TableInv, ClaimedHasStarted, ClaimsAreExclusive,
           NEW w \in Claimers, ClaimStep(w)
    PROVE  ClaimedHasStarted' /\ ClaimsAreExclusive'
<1> USE DEF TableInv
<1>1. CASE \E media \in {"image", "video", "audio"}, full \in SUBSET Providers :
             ClaimSelect(w, media, full)
  <2>1. PICK t : pick' = [pick EXCEPT ![w] = [at |-> "selected", task |-> t]]
    BY <1>1 DEF ClaimSelect
  <2>2. \A v \in Claimers : pick'[v].at = "claimed" => pick'[v] = pick[v]
    BY <2>1 DEF TypeOK
  <2> QED
    BY <1>1, <2>2 DEF ClaimSelect, rowVars, ClaimedHasStarted, ClaimsAreExclusive
<1>2. CASE ClaimUpdate(w)
  <2> DEFINE t == pick[w].task
  <2>1. pick[w].at = "selected" /\ t \in Tasks
    BY <1>2 DEF ClaimUpdate, ClaimsUnblocked
  <2>2. CASE status[t] = "queued"
    <3>1. /\ status' = [status EXCEPT ![t] = "running"]
          /\ pick' = [pick EXCEPT ![w].at = "claimed"]
      BY <1>2, <2>2 DEF ClaimUpdate
    <3>2. \A v \in Claimers : pick[v].at = "claimed" => pick[v].task # t
      BY <2>2 DEF ClaimedHasStarted
    <3>3. /\ pick'[w].task = t
          /\ \A v \in Claimers \ {w} : pick'[v] = pick[v]
      BY <3>1 DEF TypeOK
    <3>4. /\ status'[t] = "running"
          /\ \A u \in Tasks \ {t} : status'[u] = status[u]
      BY <2>1, <3>1 DEF TypeOK
    <3>5. ClaimedHasStarted'
      BY <2>1, <3>3, <3>4 DEF ClaimedHasStarted
    <3>6. ClaimsAreExclusive'
      BY <3>2, <3>3 DEF ClaimsAreExclusive
    <3> QED
      BY <3>5, <3>6
  <2>3. CASE status[t] # "queued"
    <3>1. pick' = [pick EXCEPT ![w] = NoPick] /\ UNCHANGED status
      BY <1>2, <2>3 DEF ClaimUpdate
    <3>2. \A v \in Claimers : pick'[v].at = "claimed" => pick'[v] = pick[v]
      BY <3>1 DEF TypeOK, NoPick
    <3> QED
      BY <3>1, <3>2 DEF ClaimedHasStarted, ClaimsAreExclusive
  <2> QED
    BY <2>2, <2>3
<1>3. CASE HandOver(w)
  <2>1. \A v \in Claimers : pick'[v].at = "claimed" => pick'[v] = pick[v]
    BY <1>3 DEF HandOver, TypeOK, NoPick
  <2> QED
    BY <1>3, <2>1 DEF HandOver, rowVars, ClaimedHasStarted, ClaimsAreExclusive
<1>4. CASE \E p \in Providers : PersistProvider(w, p)
  BY <1>4, ClaimsKept DEF PersistProvider
<1>5. CASE RequeueClaimed(w)
  <2> DEFINE t == pick[w].task
  <2>1. /\ pick[w].at = "claimed"
        /\ pick' = [pick EXCEPT ![w] = NoPick]
        /\ \A u \in Tasks : u # t => status'[u] = status[u]
    BY <1>5 DEF RequeueClaimed, TypeOK
  <2>2. \A v \in Claimers : pick'[v].at = "claimed" => v # w /\ pick'[v] = pick[v]
    BY <2>1 DEF TypeOK, NoPick
  <2>3. \A v \in Claimers : pick'[v].at = "claimed" => pick[v].task # t
    BY <2>1, <2>2 DEF ClaimsAreExclusive
  <2>4. ClaimedHasStarted'
    BY <2>1, <2>2, <2>3 DEF ClaimedHasStarted
  <2>5. ClaimsAreExclusive'
    BY <2>2 DEF ClaimsAreExclusive
  <2> QED
    BY <2>4, <2>5
<1> QED
  BY <1>1, <1>2, <1>3, <1>4, <1>5 DEF ClaimStep

\* Every step but the operator's.
CallersNext ==
    \/ \E n \in 1 .. MaxBatch : EnqueueBatch(n)
    \/ \E w \in Claimers : ClaimStep(w)
    \/ \E c \in Cancellers : CancelStep(c)
    \/ \E t \in Tasks : MarkSucceeded(t) \/ MarkFailed(t) \/ FinalizeCancelled(t)

LEMMA CallersKeepExclusive ==
    ASSUME TableInv, ClaimedHasStarted, ClaimsAreExclusive, [CallersNext]_tableVars
    PROVE  ClaimedHasStarted' /\ ClaimsAreExclusive'
<1> USE DEF TableInv
<1>1. CASE \E n \in 1 .. MaxBatch : EnqueueBatch(n)
  BY <1>1, InsertEffect, ClaimsKept
<1>2. CASE \E w \in Claimers : ClaimStep(w)
  BY <1>2, ClaimKeepsExclusive
<1>3. CASE \E c \in Cancellers : CancelStep(c)
  <2>1. PICK c \in Cancellers : CancelStep(c)
    BY <1>3
  <2>2. RowStep /\ UNCHANGED pick
    BY <2>1, CancelEffect
  <2>3. \A t \in Tasks : status[t] = "running" => status'[t] # "queued"
    BY <2>1 DEF CancelStep, CancelSelect, CancelApply, FinalizeCancelling,
                CancelReturn, CancelRows, rowVars
  <2> QED
    BY <2>2, <2>3, ClaimsKept DEF RowStep, Edge
<1>4. ASSUME NEW t \in Tasks, MarkSucceeded(t) \/ MarkFailed(t) \/ FinalizeCancelled(t)
      PROVE  ClaimedHasStarted' /\ ClaimsAreExclusive'
  <2>1. RowStep /\ UNCHANGED pick
    BY <1>4, EndEffect
  <2>2. \A u \in Tasks : status[u] = "running" => status'[u] # "queued"
    <3>1. CASE MarkSucceeded(t)
      BY <3>1 DEF MarkSucceeded, TypeOK
    <3>2. CASE MarkFailed(t)
      BY <3>2 DEF MarkFailed, FailRows, CancelRows, TypeOK
    <3>3. CASE FinalizeCancelled(t)
      BY <3>3 DEF FinalizeCancelled, CancelRows, TypeOK
    <3> QED
      BY <1>4, <3>1, <3>2, <3>3
  <2> QED
    BY <2>1, <2>2, ClaimsKept DEF RowStep, Edge
<1>5. CASE UNCHANGED tableVars
  BY <1>5, ClaimsKept DEF tableVars, rowVars
<1> QED
  BY <1>1, <1>2, <1>3, <1>4, <1>5 DEF CallersNext

\* claim_next and _requeue_single_task: no two claimers hold one task, unless an
\* operator's requeue_running takes it from under the first.
THEOREM NoDoubleClaim ==
    ASSUME ~ OpsRequeue
    PROVE  TableSpec => []ClaimsAreExclusive
<1>1. TableInit => ClaimedHasStarted /\ ClaimsAreExclusive
  BY DEF TableInit, ClaimedHasStarted, ClaimsAreExclusive, NoPick
<1>2. TableInv /\ ClaimedHasStarted /\ ClaimsAreExclusive /\ [TableNext]_tableVars
        => ClaimedHasStarted' /\ ClaimsAreExclusive'
  BY CallersKeepExclusive DEF TableNext, CallersNext, RequeueRunning
<1> QED
  BY <1>1, <1>2, TableCorrect, PTL DEF TableSpec
-----------------------------------------------------------------------------
(***************************************************************************)
(* The tasks table implements the lifecycle of its guards, for any number  *)
(* of rows, claimers and cancel requests: every step of the table is a     *)
(* step of TaskLifecycle or leaves statuses and dependencies as they are.  *)
(* A failure or a cancellation takes along all that is queued behind it,   *)
(* and a running row may be cancelled directly, as in the code and against *)
(* docs/adr/0006.                                                          *)
(***************************************************************************)

(* What a cancel request means to signal is being cancelled: finalize_cancelling *)
(* must find no row that a worker is still running undisturbed.                  *)
SignalledIsCancelling ==
    \A c \in Cancellers :
        /\ txn[c].at = "read" => txn[c].signal = {}
        /\ \A t \in txn[c].signal : status[t] \in {"cancelling", "cancelled"}

\* Steps of other callers do not take a signalled row back.
LEMMA SignalledStays ==
    ASSUME TableInv, SignalledIsCancelling, [TableNext]_tableVars
    PROVE  \A c \in Cancellers : \A t \in txn[c].signal :
               status'[t] \in {"cancelling", "cancelled"}
<1> SUFFICES ASSUME NEW c \in Cancellers, NEW t \in txn[c].signal
             PROVE  status'[t] \in {"cancelling", "cancelled"}
  OBVIOUS
<1>1. t \in Tasks /\ status[t] \in {"cancelling", "cancelled"}
  BY DEF TableInv, TypeOK, SignalledIsCancelling
<1> QED
  BY <1>1, StepFollowsGraph DEF Edge

LEMMA SignalledInit == TableInit => SignalledIsCancelling
  BY DEF TableInit, SignalledIsCancelling, NoTxn

\* CancelApply signals the rows it moved to cancelling and those it found there.
LEMMA ApplySignals ==
    ASSUME TypeOK, NEW c \in Cancellers, CancelApply(c)
    PROVE  /\ txn'[c].at = "committed"
           /\ \A t \in txn'[c].signal : status'[t] \in {"cancelling", "cancelled"}
           /\ \A d \in Cancellers \ {c} : txn'[d] = txn[d]
<1> DEFINE killed  == Killed(txn[c].rows, View(c))
           stopped == Stopped(txn[c].rows, killed, View(c))
           found   == FoundCancelling(txn[c].rows, killed, View(c))
<1>1. /\ \A t \in Tasks : status'[t] = IF t \in killed THEN "cancelled"
                                       ELSE IF t \in stopped THEN "cancelling"
                                       ELSE status[t]
      /\ txn' = [txn EXCEPT ![c] = [NoTxn EXCEPT !.at = "committed",
                                                 !.kind = txn[c].kind,
                                                 !.signal = stopped \union found]]
  BY DEF CancelApply, CancelRows
<1>2. \A t \in found : t \in Tasks /\ status[t] = "cancelling"
  BY DEF FoundCancelling
<1>3. stopped \subseteq Tasks
  BY DEF Stopped
<1> HIDE DEF killed, stopped, found
<1>4. txn'[c].at = "committed" /\ txn'[c].signal = stopped \union found
  BY <1>1 DEF NoTxn, TypeOK
<1> QED
  BY <1>1, <1>2, <1>3, <1>4 DEF TypeOK

LEMMA SignalledNext ==
    ASSUME TableInv, SignalledIsCancelling, [TableNext]_tableVars
    PROVE  SignalledIsCancelling'
<1>1. CASE UNCHANGED txn
  BY <1>1, SignalledStays DEF SignalledIsCancelling
<1>2. ASSUME NEW c \in Cancellers, CancelStep(c)
      PROVE  SignalledIsCancelling'
  <2> SUFFICES ASSUME NEW d \in Cancellers
               PROVE  /\ txn'[d].at = "read" => txn'[d].signal = {}
                      /\ \A t \in txn'[d].signal : status'[t] \in {"cancelling", "cancelled"}
    BY DEF SignalledIsCancelling
  <2>1. CASE txn'[d] = txn[d]
    BY <2>1, SignalledStays DEF SignalledIsCancelling
  <2>2. CASE CancelApply(c)
    BY <2>1, <2>2, ApplySignals DEF TableInv
  <2>3. CASE CancelSelect(c)
    <3>1. \/ txn'[d] = txn[d]
          \/ txn'[d].signal = {}
      BY <2>3 DEF CancelSelect, TableInv, TypeOK
    <3> QED
      BY <2>1, <3>1
  <2>4. CASE FinalizeCancelling(c) \/ CancelReturn(c)
    <3>1. txn' = [txn EXCEPT ![c] = NoTxn]
      BY <2>4 DEF FinalizeCancelling, CancelReturn
    <3>2. txn'[d] = txn[d] \/ txn'[d] = NoTxn
      BY <3>1 DEF TableInv, TypeOK
    <3> QED
      BY <2>1, <3>2 DEF NoTxn
  <2> QED
    BY <1>2, <2>2, <2>3, <2>4 DEF CancelStep
<1>3. CASE \E n \in 1 .. MaxBatch : EnqueueBatch(n)
  BY <1>1, <1>3, InsertEffect DEF TableInv
<1>4. CASE \E w \in Claimers : ClaimStep(w)
  BY <1>1, <1>4, ClaimEffect DEF TableInv
<1>5. CASE \/ RequeueRunning
           \/ \E t \in Tasks : MarkSucceeded(t) \/ MarkFailed(t) \/ FinalizeCancelled(t)
  BY <1>1, <1>5, EndEffect DEF TableInv
<1> QED
  BY <1>1, <1>2, <1>3, <1>4, <1>5 DEF TableNext, tableVars

-----------------------------------------------------------------------------
(* The cascade takes nothing else than what is behind its roots. *)

\* Every row the cascade takes is behind a root or behind a row it takes.
LEMMA DownstreamCaused ==
    ASSUME NEW roots, NEW among, NEW u \in Downstream(roots, among)
    PROVE  dep[u] \in roots \union Downstream(roots, among)
<1> DEFINE taken == Downstream(roots, among)
           S     == {v \in taken : dep[v] \in roots \union taken}
<1>1. taken \subseteq among
  BY DownstreamAmong
<1>2. \A v \in among : dep[v] \in roots \union S => v \in S
  BY DownstreamClosed
<1>3. S \in SUBSET among
  BY <1>1
<1>4. u \in S
  <2> HIDE DEF S
  <2> QED
    BY <1>2, <1>3 DEF Downstream
<1> QED
  BY <1>4

-----------------------------------------------------------------------------
(* Every step of the table is a step of the lifecycle. *)

\* enqueue, enqueue_batch.
LEMMA InsertCreates ==
    ASSUME TableInv, NEW n \in 1 .. MaxBatch, EnqueueBatch(n)
    PROVE  Lifecycle!Create(NextIds(n))
<1> DEFINE new == NextIds(n)
<1>1. PICK deps \in [new -> Present \union {NoTask}] :
        /\ new \subseteq Tasks
        /\ status' = [t \in Tasks |-> IF t \in new THEN "queued" ELSE status[t]]
        /\ dep' = [t \in Tasks |-> IF t \in new THEN deps[t] ELSE dep[t]]
  BY DEF EnqueueBatch, Insert
<1>2. Cardinality(Present) \in Nat /\ new \cap Present = {}
  BY NextIdsFresh DEF TableInv
<1>3. new # {}
  BY <1>2, TableAssumption DEF NextIds
<1>4. new \subseteq Lifecycle!InState("absent")
  BY <1>1, <1>2 DEF Lifecycle!InState, Present
<1>5. Present = Tasks \ Lifecycle!InState("absent")
  BY DEF Lifecycle!InState, Present
<1> HIDE DEF new
<1>6. status' = Lifecycle!MoveTo(new, "queued")
  BY <1>1 DEF Lifecycle!MoveTo
<1> QED
  BY <1>1, <1>3, <1>4, <1>5, <1>6 DEF Lifecycle!Create, new

\* claim_next starts a row; a claim that found its row taken, a hand-over and a
\* refreshed provider are no steps; a requeue puts back what still runs.
LEMMA ClaimStarts ==
    ASSUME TableInv, NEW w \in Claimers, ClaimStep(w)
    PROVE  \/ \E t \in Tasks : Lifecycle!Start(t)
           \/ \E rows \in SUBSET Tasks : Lifecycle!PutBack(rows)
           \/ UNCHANGED <<status, dep>>
<1> DEFINE t == pick[w].task
<1>1. CASE ClaimUpdate(w)
  <2>1. t \in Tasks /\ Unblocked(t)
    BY <1>1 DEF ClaimUpdate, TableInv, ClaimsUnblocked
  <2>2. CASE status[t] = "queued"
    <3>1. status' = [status EXCEPT ![t] = "running"] /\ UNCHANGED dep
      BY <1>1, <2>2 DEF ClaimUpdate
    <3>2. status' = Lifecycle!MoveTo({t}, "running")
      BY <3>1 DEF TableInv, TypeOK, Lifecycle!MoveTo
    <3> QED
      BY <2>1, <2>2, <3>1, <3>2 DEF Lifecycle!Start, Unblocked
  <2>3. CASE status[t] # "queued"
    BY <1>1, <2>3 DEF ClaimUpdate
  <2> QED
    BY <2>2, <2>3
<1>2. CASE RequeueClaimed(w)
  <2> DEFINE rows == {u \in Tasks : u = t /\ status[u] = "running"}
  <2>1. /\ status' = [status EXCEPT ![t] = IF @ = "running" THEN "queued" ELSE @]
        /\ UNCHANGED dep
    BY <1>2 DEF RequeueClaimed
  <2>2. status' = Lifecycle!MoveTo(rows, "queued")
    BY <2>1 DEF TableInv, TypeOK, Lifecycle!MoveTo
  <2>3. rows \subseteq Lifecycle!InState("running")
    BY DEF Lifecycle!InState
  <2>4. Lifecycle!PutBack(rows)
    BY <2>1, <2>2, <2>3 DEF Lifecycle!PutBack
  <2> QED
    BY <2>4
<1>3. CASE UNCHANGED <<status, dep>>
  BY <1>3
<1> QED
  BY <1>1, <1>2, <1>3 DEF ClaimStep, ClaimSelect, HandOver, PersistProvider, rowVars

\* Rows cancelled together with everything queued behind them, and running rows
\* asked to stop, are one cancellation of the lifecycle.
LEMMA CancelRowsCancels ==
    ASSUME TypeOK,
           NEW killed \in SUBSET Tasks, \A t \in killed : status[t] \in Active,
           NEW stopped \in SUBSET Tasks, \A t \in stopped : status[t] = "running",
           \A u \in Tasks : status[u] = "queued" /\ dep[u] \in killed => u \in killed,
           NEW by, CancelRows(killed, stopped, by)
    PROVE  \E ended, asked \in SUBSET Tasks : Lifecycle!Cancel(ended, asked)
<1> DEFINE asked == stopped \ killed
<1>1. status' = [t \in Tasks |-> IF t \in killed THEN "cancelled"
                                 ELSE IF t \in asked THEN "cancelling" ELSE status[t]]
  BY DEF CancelRows
<1>2. killed \subseteq Lifecycle!Unfinished
  BY DEF Lifecycle!Unfinished, Lifecycle!InState, Active
<1>3. asked \subseteq Lifecycle!InState("running") \ killed
  BY DEF Lifecycle!InState
<1>4. \A u \in Lifecycle!Queued \ killed : dep[u] \notin killed
  BY DEF Lifecycle!Queued
<1>5. UNCHANGED dep
  BY DEF CancelRows
<1> HIDE DEF asked
<1>6. Lifecycle!Cancel(killed, asked)
  BY <1>1, <1>2, <1>3, <1>4, <1>5 DEF Lifecycle!Cancel
<1>7. asked \in SUBSET Tasks
  BY DEF asked
<1> QED
  BY <1>6, <1>7

\* cancel_task and its siblings.  The case that is not local to one transaction
\* is CascadeIsComplete's: a dependent the request saw as started, and skips.
LEMMA CancelCancels ==
    ASSUME TableInv, SignalledIsCancelling, NEW c \in Cancellers, CancelStep(c)
    PROVE  \/ \E ended, asked \in SUBSET Tasks : Lifecycle!Cancel(ended, asked)
           \/ \E rows \in SUBSET Tasks : Lifecycle!GiveUp(rows)
           \/ UNCHANGED <<status, dep>>
<1> USE DEF TableInv
<1>1. CASE CancelApply(c)
  <2> DEFINE killed  == Killed(txn[c].rows, View(c))
             stopped == Stopped(txn[c].rows, killed, View(c))
             by      == IF txn[c].kind = "episode" THEN "episode_deleted" ELSE "user"
             candidates == {v \in Tasks : View(c)[v] = "queued" /\ Cancellable(v)}
             roots   == txn[c].rows \cap candidates
  <2>1. CancelRows(killed, stopped, by)
    BY <1>1 DEF CancelApply
  <2>2. killed \in SUBSET Tasks /\ \A t \in killed : status[t] \in Active
    BY KilledActive DEF Cancellable
  <2>3. stopped \in SUBSET Tasks /\ \A t \in stopped : status[t] = "running"
    BY DEF Stopped
  <2>4. ASSUME NEW u \in Tasks, status[u] = "queued", dep[u] \in killed
        PROVE  u \in killed
    <3>1. killed = roots \union Downstream(roots, candidates)
      BY DEF Killed
    <3>2. ~ Unblocked(u)
      <4>1. dep[u] \in Tasks /\ status[dep[u]] # "succeeded"
        BY <2>2, <2>4 DEF Active
      <4> QED
        BY <4>1, TableAssumption DEF Unblocked, NoTask, Tasks
    <3>3. View(c)[u] = IF u \in txn[c].rows THEN txn[c].seen[u] ELSE status[u]
      BY DEF View
    <3>4. u \in txn[c].rows => txn[c].seen[u] = "queued"
      BY <1>1, <3>2 DEF SeenUnblocked, CancelApply
    <3>5. u \in candidates
      BY <2>4, <3>3, <3>4 DEF Cancellable, Active
    <3> HIDE DEF killed, candidates, roots
    <3>6. u \in Downstream(roots, candidates)
      BY <2>4, <3>1, <3>5, DownstreamClosed
    <3> QED
      BY <3>1, <3>6
  <2> HIDE DEF killed, stopped, by
  <2> QED
    BY <2>1, <2>2, <2>3, <2>4, CancelRowsCancels
<1>2. CASE FinalizeCancelling(c)
  <2> DEFINE rows == {t \in txn[c].signal : Cancellable(t)}
  <2>1. CancelRows(rows, {}, "user")
    BY <1>2 DEF FinalizeCancelling
  <2>2. rows \in SUBSET Tasks
    BY DEF TypeOK
  <2>3. rows \subseteq Lifecycle!InState("cancelling")
    BY <2>2 DEF SignalledIsCancelling, Cancellable, Active, Lifecycle!InState
  <2> HIDE DEF rows
  <2>4. status' = Lifecycle!MoveTo(rows, "cancelled") /\ UNCHANGED dep
    BY <2>1 DEF CancelRows, Lifecycle!MoveTo
  <2>5. Lifecycle!GiveUp(rows)
    BY <2>3, <2>4 DEF Lifecycle!GiveUp
  <2> QED
    BY <2>2, <2>5
<1>3. CASE CancelSelect(c) \/ CancelReturn(c)
  BY <1>3 DEF CancelSelect, CancelReturn, rowVars
<1> QED
  BY <1>1, <1>2, <1>3 DEF CancelStep

\* mark_failed: the row and exactly what is queued behind it.
LEMMA FailFails ==
    ASSUME TableInv, NEW t \in Tasks, FailRows(t)
    PROVE  \E behind \in SUBSET Tasks : Lifecycle!Fail(t, behind)
<1> DEFINE queued  == {u \in Tasks : status[u] = "queued"}
           blocked == Downstream({t}, queued)
<1>1. /\ status[t] = "running"
      /\ status' = [u \in Tasks |-> IF u = t \/ u \in blocked THEN "failed"
                                                              ELSE status[u]]
      /\ UNCHANGED dep
  BY DEF FailRows
<1>2. blocked \subseteq queued
  BY DownstreamAmong
<1>3. \A u \in blocked : dep[u] \in blocked \union {t}
  BY DownstreamCaused
<1>4. \A u \in queued \ blocked : dep[u] \notin blocked \union {t}
  BY DownstreamClosed
<1>5. queued = Lifecycle!Queued
  BY DEF Lifecycle!Queued
<1> HIDE DEF blocked
<1>6. status' = Lifecycle!MoveTo(blocked \union {t}, "failed")
  BY <1>1 DEF Lifecycle!MoveTo
<1>7. Lifecycle!Fail(t, blocked)
  BY <1>1, <1>2, <1>3, <1>4, <1>5, <1>6 DEF Lifecycle!Fail
<1> QED
  BY <1>2, <1>7

\* finalize_cancelled.
LEMMA FinalizeCancels ==
    ASSUME TableInv, NEW t \in Tasks, FinalizeCancelled(t)
    PROVE  \E ended, asked \in SUBSET Tasks : Lifecycle!Cancel(ended, asked)
<1> DEFINE queued  == {u \in Tasks : status[u] = "queued"}
           behind  == Downstream({t}, queued)
           killed  == KilledWith(t)
           stopped == Stopped({}, killed, status)
<1>1. CancelRows(killed, stopped, "user") /\ Cancellable(t)
  BY DEF FinalizeCancelled
<1>2. killed = {t} \union behind
  BY DEF KilledWith
<1>3. behind \subseteq queued
  BY DownstreamAmong
<1>4. stopped \in SUBSET Tasks /\ \A u \in stopped : status[u] = "running"
  BY DEF Stopped
<1>5. \A u \in queued : dep[u] \in {t} \union behind => u \in behind
  BY DownstreamClosed
<1> HIDE DEF behind, killed, stopped
<1>6. killed \in SUBSET Tasks /\ \A u \in killed : status[u] \in Active
  BY <1>1, <1>2, <1>3 DEF Cancellable, Active
<1>7. \A u \in Tasks : status[u] = "queued" /\ dep[u] \in killed => u \in killed
  BY <1>2, <1>5
<1> QED
  BY <1>1, <1>4, <1>6, <1>7, CancelRowsCancels DEF TableInv

LEMMA StepIsLifecycle ==
    ASSUME TableInv, SignalledIsCancelling, [TableNext]_tableVars
    PROVE  [Lifecycle!LifecycleNext]_(Lifecycle!lifecycleVars)
<1> USE DEF Lifecycle!LifecycleNext, Lifecycle!lifecycleVars
<1>1. ASSUME NEW n \in 1 .. MaxBatch, EnqueueBatch(n)
      PROVE  Lifecycle!LifecycleNext
  <2>1. NextIds(n) \in SUBSET Tasks
    BY <1>1 DEF EnqueueBatch, Insert
  <2> QED
    BY <1>1, <2>1, InsertCreates
<1>2. CASE \E w \in Claimers : ClaimStep(w)
  BY <1>2, ClaimStarts
<1>3. CASE \E c \in Cancellers : CancelStep(c)
  BY <1>3, CancelCancels
<1>4. CASE RequeueRunning
  <2>1. PICK rows \in SUBSET {t \in Tasks : status[t] = "running"} :
          status' = [t \in Tasks |-> IF t \in rows THEN "queued" ELSE status[t]]
    BY <1>4 DEF RequeueRunning
  <2>2. Lifecycle!PutBack(rows)
    BY <1>4, <2>1 DEF RequeueRunning, Lifecycle!PutBack, Lifecycle!InState, Lifecycle!MoveTo
  <2> QED
    BY <2>2
<1>5. ASSUME NEW t \in Tasks, MarkSucceeded(t)
      PROVE  Lifecycle!LifecycleNext
  <2>1. status' = Lifecycle!MoveTo({t}, "succeeded")
    BY <1>5 DEF MarkSucceeded, TableInv, TypeOK, Lifecycle!MoveTo
  <2>2. Lifecycle!Succeed(t)
    BY <1>5, <2>1 DEF MarkSucceeded, Lifecycle!Succeed
  <2> QED
    BY <2>2
<1>6. ASSUME NEW t \in Tasks, MarkFailed(t)
      PROVE  Lifecycle!LifecycleNext
  BY <1>6, FailFails DEF MarkFailed
<1>7. ASSUME NEW t \in Tasks, FinalizeCancelled(t)
      PROVE  Lifecycle!LifecycleNext
  BY <1>7, FinalizeCancels
<1>8. CASE UNCHANGED tableVars
  BY <1>8 DEF tableVars, rowVars
<1> QED
  BY <1>1, <1>2, <1>3, <1>4, <1>5, <1>6, <1>7, <1>8 DEF TableNext

\* The table implements the lifecycle: whatever calls interleave, a row starts
\* after its dependency has succeeded, and a failure or a cancellation takes along
\* what is queued behind it and, in the case of a failure, nothing else.  The graph
\* is that of the guards: it is docs/adr/0006's with one edge more, from running
\* straight to cancelled (task_repo.py:769).
THEOREM TableImplementsLifecycle == TableSpec => FollowsLifecycle
<1>1. TableInit => Lifecycle!LifecycleInit
  BY DEF TableInit, Lifecycle!LifecycleInit
<1>2. TableInit => SignalledIsCancelling
  BY SignalledInit
<1>3. TableInv /\ SignalledIsCancelling /\ [TableNext]_tableVars
        => SignalledIsCancelling'
  BY SignalledNext
<1>4. TableInv /\ SignalledIsCancelling /\ [TableNext]_tableVars
        => [Lifecycle!LifecycleNext]_(Lifecycle!lifecycleVars)
  BY StepIsLifecycle
<1> QED
  BY <1>1, <1>2, <1>3, <1>4, TableCorrect, PTL
     DEF TableSpec, FollowsLifecycle, Lifecycle!LifecycleSpec
=============================================================================
