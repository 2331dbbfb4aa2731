------------------------------ MODULE TaskTable ------------------------------
(***************************************************************************)
(* The tasks table of the generation queue and the repository operations   *)
(* on it (lib/db/repositories/task_repo.py, lib/db/models/task.py), with   *)
(* the two callers that interleave on it: claimers (the worker's main      *)
(* loop) and cancellers (API requests).                                    *)
(*                                                                         *)
(* A repository call that starts with its guarded UPDATE is one step.  A   *)
(* call that SELECTs first and UPDATEs later is two steps: neither SQLite  *)
(* under the default driver nor PostgreSQL under READ COMMITTED keeps the  *)
(* selected rows unchanged until the UPDATE, so the second step uses the   *)
(* statuses the first one saw.  Once a transaction has written it holds    *)
(* the write lock, and the rest of it belongs to the same step.            *)
(***************************************************************************)
EXTENDS Naturals, FiniteSets

CONSTANTS MaxTasks,    \* bound: task ids are 1..MaxTasks, in insertion order
          Resources,   \* dedupe keys (project, type, resource, script, kind)
          MediaOf,     \* media lane of a resource's tasks
          EpisodeOf,   \* script_file of a resource
          Providers,   \* provider ids
          MaxBatch,    \* bound: rows one enqueue transaction inserts
          Claimers,    \* callers of claim_next
          Cancellers,  \* concurrent cancel requests
          OpsRequeue   \* whether an operator may run requeue_running

Tasks == 1 .. MaxTasks
NoTask == 0
NoProvider == "none"
NoOne == "nobody"

ASSUME TableAssumption ==
    /\ MaxTasks \in Nat
    /\ MaxBatch \in Nat
    /\ Resources # {}
    /\ MediaOf \in [Resources -> {"image", "video", "audio"}]
    /\ NoProvider \notin Providers
    /\ OpsRequeue \in BOOLEAN

Active    == {"queued", "running", "cancelling"}
Terminal  == {"succeeded", "failed", "cancelled"}
Status    == Active \union Terminal \union {"absent"}
\* Statuses only a claimed task can have.
Started   == {"running", "cancelling", "succeeded"}

VARIABLES status,       \* [Tasks -> Status], "absent" before insertion
          key,          \* [Tasks -> Resources]
          dep,          \* [Tasks -> dependency_task_id, NoTask if NULL]
          queuedAt,     \* [Tasks -> Nat], equal within one insertion
          provider,     \* [Tasks -> provider_id column, NoProvider if NULL]
          cancelledBy,  \* [Tasks -> cancelled_by column]
          pick,         \* [Claimers -> the claim in progress]
          txn           \* [Cancellers -> the cancel request in progress]

rowVars == <<status, key, dep, queuedAt, provider, cancelledBy>>
tableVars == <<rowVars, pick, txn>>

Present == {t \in Tasks : status[t] # "absent"}
ActiveTasks == {t \in Tasks : status[t] \in Active}

NoPick == [at |-> "idle", task |-> NoTask]
NoTxn == [at |-> "idle", kind |-> "task", rows |-> {},
          seen |-> [t \in Tasks |-> "absent"], signal |-> {}]

TypeOK ==
    /\ status \in [Tasks -> Status]
    /\ key \in [Tasks -> Resources]
    /\ dep \in [Tasks -> Tasks \union {NoTask}]
    /\ queuedAt \in [Tasks -> Nat]
    /\ provider \in [Tasks -> Providers \union {NoProvider}]
    /\ cancelledBy \in [Tasks -> {NoOne, "user", "cascade", "episode_deleted"}]
    /\ pick \in [Claimers -> [at : {"idle", "selected", "claimed"},
                              task : Tasks \union {NoTask}]]
    /\ txn \in [Cancellers -> [at : {"idle", "read", "committed"},
                               kind : {"task", "episode", "project"},
                               rows : SUBSET Tasks,
                               seen : [Tasks -> Status],
                               signal : SUBSET Tasks]]

TableInit ==
    /\ status = [t \in Tasks |-> "absent"]
    /\ key = [t \in Tasks |-> CHOOSE r \in Resources : TRUE]
    /\ dep = [t \in Tasks |-> NoTask]
    /\ queuedAt = [t \in Tasks |-> 0]
    /\ provider = [t \in Tasks |-> NoProvider]
    /\ cancelledBy = [t \in Tasks |-> NoOne]
    /\ pick = [w \in Claimers |-> NoPick]
    /\ txn = [c \in Cancellers |-> NoTxn]

-----------------------------------------------------------------------------
(***************************************************************************)
(* Enqueueing.  A single insert that meets an active row of the same key   *)
(* returns that row instead, a batch that meets one is rolled back: either *)
(* way the table does not change, so both are the absence of a step.       *)
(***************************************************************************)
NextIds(n) == (Cardinality(Present) + 1) .. (Cardinality(Present) + n)

\* Mistake: an index that leaves the cancelling rows out.
InsertBesideCancelling(n, keys, deps, provs) ==
    LET new == NextIds(n) IN
    /\ new \subseteq Tasks
    /\ \A t \in new : \A u \in {v \in Tasks : status[v] \in {"queued", "running"}}
                                \union (new \ {t}) :
         keys[t] # (IF u \in new THEN keys[u] ELSE key[u])
    /\ status' = [t \in Tasks |-> IF t \in new THEN "queued" ELSE status[t]]
    /\ key' = [t \in Tasks |-> IF t \in new THEN keys[t] ELSE key[t]]
    /\ dep' = [t \in Tasks |-> IF t \in new THEN deps[t] ELSE dep[t]]
    /\ provider' = [t \in Tasks |-> IF t \in new THEN provs[t] ELSE provider[t]]
    /\ queuedAt' = [t \in Tasks |-> IF t \in new THEN Cardinality(Present) + 1
                                                 ELSE queuedAt[t]]
    /\ UNCHANGED <<cancelledBy, pick, txn>>

Insert(n, keys, deps, provs) ==
    LET new == NextIds(n) IN
    /\ new \subseteq Tasks
    /\ \A t \in new : \A u \in ActiveTasks \union (new \ {t}) :
         keys[t] # (IF u \in new THEN keys[u] ELSE key[u])
    /\ status' = [t \in Tasks |-> IF t \in new THEN "queued" ELSE status[t]]
    /\ key' = [t \in Tasks |-> IF t \in new THEN keys[t] ELSE key[t]]
    /\ dep' = [t \in Tasks |-> IF t \in new THEN deps[t] ELSE dep[t]]
    /\ provider' = [t \in Tasks |-> IF t \in new THEN provs[t] ELSE provider[t]]
    /\ queuedAt' = [t \in Tasks |-> IF t \in new THEN Cardinality(Present) + 1
                                                 ELSE queuedAt[t]]
    /\ UNCHANGED <<cancelledBy, pick, txn>>

\* A dependency names a task that already exists when the row is inserted.
EnqueueBatch(n) ==
    \E keys \in [NextIds(n) -> Resources] :
    \E deps \in [NextIds(n) -> Present \union {NoTask}] :
    \E provs \in [NextIds(n) -> Providers \union {NoProvider}] :
        Insert(n, keys, deps, provs)

-----------------------------------------------------------------------------
(* Claiming: SELECT the oldest claimable row, then UPDATE it if still queued. *)
\* Mistake: any terminal status of the dependency will do.
UnblockedByAnyEnd(t) == dep[t] = NoTask \/ status[dep[t]] \in Terminal

Unblocked(t) == dep[t] = NoTask \/ status[dep[t]] = "succeeded"

Claimable(media, full) ==
    {t \in Tasks : /\ status[t] = "queued"
                   /\ MediaOf[key[t]] = media
                   /\ provider[t] \notin full
                   /\ Unblocked(t)}

ClaimSelect(w, media, full) ==
    /\ pick[w].at = "idle"
    /\ \E t \in Claimable(media, full) :
         /\ \A u \in Claimable(media, full) : queuedAt[t] <= queuedAt[u]
         /\ pick' = [pick EXCEPT ![w] = [at |-> "selected", task |-> t]]
    /\ UNCHANGED <<rowVars, txn>>

\* Mistake: no guard on the status, hence no row count to look at.
ClaimUpdateUnguarded(w) ==
    LET t == pick[w].task IN
    /\ pick[w].at = "selected"
    /\ status' = [status EXCEPT ![t] = "running"]
    /\ pick' = [pick EXCEPT ![w].at = "claimed"]
    /\ UNCHANGED <<key, dep, queuedAt, provider, cancelledBy, txn>>

ClaimUpdate(w) ==
    LET t == pick[w].task IN
    /\ pick[w].at = "selected"
    /\ IF status[t] = "queued"
         THEN /\ status' = [status EXCEPT ![t] = "running"]
              /\ pick' = [pick EXCEPT ![w].at = "claimed"]
         ELSE /\ pick' = [pick EXCEPT ![w] = NoPick]
              /\ UNCHANGED status
    /\ UNCHANGED <<key, dep, queuedAt, provider, cancelledBy, txn>>

\* The claimer hands the task to an execution and forgets it.
HandOver(w) ==
    /\ pick[w].at = "claimed"
    /\ pick' = [pick EXCEPT ![w] = NoPick]
    /\ UNCHANGED <<rowVars, txn>>

\* The claimer stores the provider it derived for the task it cannot run yet...
PersistProvider(w, p) ==
    /\ pick[w].at = "claimed"
    /\ provider' = [provider EXCEPT ![pick[w].task] = p]
    /\ UNCHANGED <<status, key, dep, queuedAt, cancelledBy, pick, txn>>

\* Mistake: a status nobody else knows.
RequeueAsPending(w) ==
    LET t == pick[w].task IN
    /\ pick[w].at = "claimed"
    /\ status' = [status EXCEPT ![t] = IF @ = "running" THEN "pending" ELSE @]
    /\ pick' = [pick EXCEPT ![w] = NoPick]
    /\ UNCHANGED <<key, dep, queuedAt, provider, cancelledBy, txn>>

\* ... and puts it back.  The row count of this UPDATE is not looked at.
RequeueClaimed(w) ==
    LET t == pick[w].task IN
    /\ pick[w].at = "claimed"
    /\ status' = [status EXCEPT ![t] = IF @ = "running" THEN "queued" ELSE @]
    /\ pick' = [pick EXCEPT ![w] = NoPick]
    /\ UNCHANGED <<key, dep, queuedAt, provider, cancelledBy, txn>>

\* The operator's rescue: every running row (or the oldest of them) goes back.
RequeueRunning ==
    /\ OpsRequeue
    /\ \E rows \in SUBSET {t \in Tasks : status[t] = "running"} :
         /\ rows # {}
         /\ status' = [t \in Tasks |-> IF t \in rows THEN "queued" ELSE status[t]]
    /\ UNCHANGED <<key, dep, queuedAt, provider, cancelledBy, pick, txn>>

-----------------------------------------------------------------------------
(* Terminal writes and their cascades. *)

\* The smallest set of members of `among` that contains each u whose
\* dependency is in roots or in the set itself.
Downstream(roots, among) ==
    {u \in among : \A S \in SUBSET among :
        (\A v \in among : dep[v] \in roots \union S => v \in S) => u \in S}

MarkSucceeded(t) ==
    /\ status[t] = "running"
    /\ status' = [status EXCEPT ![t] = "succeeded"]
    /\ UNCHANGED <<key, dep, queuedAt, provider, cancelledBy, pick, txn>>

\* Mistake: a failure without its cascade.
FailOneRow(t) ==
    /\ status[t] = "running"
    /\ status' = [status EXCEPT ![t] = "failed"]
    /\ UNCHANGED <<key, dep, queuedAt, provider, cancelledBy>>

FailRows(t) ==
    LET blocked == Downstream({t}, {u \in Tasks : status[u] = "queued"}) IN
    /\ status[t] = "running"
    /\ status' = [u \in Tasks |-> IF u = t \/ u \in blocked THEN "failed"
                                                            ELSE status[u]]
    /\ UNCHANGED <<key, dep, queuedAt, provider, cancelledBy>>

MarkFailed(t) == FailRows(t) /\ UNCHANGED <<pick, txn>>

(***************************************************************************)
(* A transaction that cancels sees each row as `view` says and moves the   *)
(* rows of `top` and, below every row it moves to cancelled, the direct    *)
(* dependents: seen as queued they become cancelled, seen as running they  *)
(* become cancelling.  The UPDATEs are guarded by the actual status; the   *)
(* guard of the first one also accepts a running row.                      *)
(***************************************************************************)
Cancellable(t) == status[t] \in Active

Killed(top, view) ==
    LET candidates == {t \in Tasks : view[t] = "queued" /\ Cancellable(t)}
        roots == top \intersect candidates
    IN  roots \union Downstream(roots, candidates)

Stopped(top, killed, view) ==
    {t \in Tasks : /\ view[t] = "running"
                   /\ status[t] = "running"
                   /\ t \in top \/ dep[t] \in killed}

\* Mistake: every missed row is signalled, whatever it has become.
FoundAnything(top, killed, view) ==
    {t \in Tasks : /\ view[t] = "running"
                   /\ status[t] # "running"
                   /\ t \in top \/ dep[t] \in killed}

\* The UPDATE of a row seen as running missed because it is already cancelling.
FoundCancelling(top, killed, view) ==
    {t \in Tasks : /\ view[t] = "running"
                   /\ status[t] = "cancelling"
                   /\ t \in top \/ dep[t] \in killed}

Blame(t, killed, by) == IF dep[t] \in killed THEN "cascade" ELSE by

\* Mistake: cancelled_by without COALESCE.
CancelRowsAnew(killed, stopped, by) ==
    /\ status' = [t \in Tasks |-> IF t \in killed THEN "cancelled"
                                  ELSE IF t \in stopped THEN "cancelling"
                                  ELSE status[t]]
    /\ cancelledBy' = [t \in Tasks |-> IF t \in stopped \union killed
                                         THEN Blame(t, killed, by)
                                         ELSE cancelledBy[t]]
    /\ UNCHANGED <<key, dep, queuedAt, provider>>

CancelRows(killed, stopped, by) ==
    /\ status' = [t \in Tasks |-> IF t \in killed THEN "cancelled"
                                  ELSE IF t \in stopped THEN "cancelling"
                                  ELSE status[t]]
    /\ cancelledBy' = [t \in Tasks |->
         IF t \in stopped \/ (t \in killed /\ cancelledBy[t] = NoOne)
           THEN Blame(t, killed, by)
           ELSE cancelledBy[t]]
    /\ UNCHANGED <<key, dep, queuedAt, provider>>

\* Mistake: finalize_cancelled with cascade=False.
KilledAlone(t) == {t}

\* What a worker's finally block, the drain and the orphan scan call.
\* Its cascade starts from a row that may be queued, running or cancelling.
KilledWith(t) ==
    {t} \union Downstream({t}, {u \in Tasks : status[u] = "queued"})

FinalizeCancelled(t) ==
    /\ Cancellable(t)
    /\ CancelRows(KilledWith(t), Stopped({}, KilledWith(t), status), "user")
    /\ UNCHANGED <<pick, txn>>

-----------------------------------------------------------------------------
(* Cancel requests: one task, an episode, or every active task.  A request    *)
(* that finds nothing active skips every row and writes nothing: no step.     *)
CancelSelect(c) ==
    /\ txn[c].at = "idle"
    /\ \E choice \in
         {[kind |-> "task", rows |-> {t}] : t \in ActiveTasks}
           \union {[kind |-> "episode",
                    rows |-> {t \in ActiveTasks : EpisodeOf[key[t]] = EpisodeOf[r]}]
                   : r \in Resources}
           \union {[kind |-> "project", rows |-> ActiveTasks]} :
         /\ choice.rows # {}
         /\ txn' = [txn EXCEPT ![c] =
                     [at |-> "read", kind |-> choice.kind, rows |-> choice.rows,
                      seen |-> [t \in Tasks |-> IF t \in choice.rows
                                                THEN status[t] ELSE "absent"],
                      signal |-> {}]]
    /\ UNCHANGED <<rowVars, pick>>

\* Rows loaded by the SELECT keep the status it saw; others are read now.
View(c) == [t \in Tasks |-> IF t \in txn[c].rows THEN txn[c].seen[t] ELSE status[t]]

CancelApply(c) ==
    LET top     == txn[c].rows
        killed  == Killed(top, View(c))
        stopped == Stopped(top, killed, View(c))
        by      == IF txn[c].kind = "episode" THEN "episode_deleted" ELSE "user"
    IN
    /\ txn[c].at = "read"
    /\ CancelRows(killed, stopped, by)
    /\ txn' = [txn EXCEPT ![c] =
                [NoTxn EXCEPT !.at = "committed",
                              !.kind = txn[c].kind,
                              !.signal = stopped
                                  \union FoundCancelling(top, killed, View(c))]]
    /\ UNCHANGED pick

\* cancel_all with no worker to signal: the rows are cancelled without cascade.
FinalizeCancelling(c) ==
    LET rows == {t \in txn[c].signal : Cancellable(t)} IN
    /\ txn[c].at = "committed"
    /\ txn[c].kind = "project"
    /\ CancelRows(rows, {}, "user")
    /\ txn' = [txn EXCEPT ![c] = NoTxn]
    /\ UNCHANGED pick

\* The request has signalled the worker (or had nobody to signal) and returns.
CancelReturn(c) ==
    /\ txn[c].at = "committed"
    /\ txn' = [txn EXCEPT ![c] = NoTxn]
    /\ UNCHANGED <<rowVars, pick>>

-----------------------------------------------------------------------------
ClaimStep(w) ==
    \/ \E media \in {"image", "video", "audio"}, full \in SUBSET Providers :
         ClaimSelect(w, media, full)
    \/ ClaimUpdate(w)
    \/ HandOver(w)
    \/ \E p \in Providers : PersistProvider(w, p)
    \/ RequeueClaimed(w)

CancelStep(c) ==
    \/ CancelSelect(c)
    \/ CancelApply(c)
    \/ FinalizeCancelling(c)
    \/ CancelReturn(c)

TableNext ==
    \/ \E n \in 1 .. MaxBatch : EnqueueBatch(n)
    \/ \E w \in Claimers : ClaimStep(w)
    \/ \E c \in Cancellers : CancelStep(c)
    \/ RequeueRunning
    \/ \E t \in Tasks : MarkSucceeded(t) \/ MarkFailed(t) \/ FinalizeCancelled(t)

TableSpec == TableInit /\ [][TableNext]_tableVars
-----------------------------------------------------------------------------
(* Properties of the table, whoever calls it and however the calls interleave. *)

Lifecycle == INSTANCE TaskLifecycle WITH st <- status, parent <- dep

\* Whatever calls interleave, the table behaves as TaskLifecycle says: statuses move
\* along the graph of the repository's guards, a task starts after its dependency
\* has succeeded, failures and cancellations take along what is queued behind them.
\* The graph has the edge from running to cancelled that docs/adr/0006 has not.
FollowsLifecycle == Lifecycle!LifecycleSpec

\* Two active tasks never share a dedupe key: what enqueue's IntegrityError
\* branch and the partial unique index promise (models/task.py).
UniqueActive ==
    \A t, u \in ActiveTasks : key[t] = key[u] => t = u

\* Work on a task starts only after its dependency has succeeded, and the
\* dependency's success is never taken back: claim_next checks it in a SELECT
\* that precedes the UPDATE, so it must not be able to change in between.
StartedAfterParent ==
    \A t \in Tasks : status[t] \in Started /\ dep[t] # NoTask
                       => status[dep[t]] = "succeeded"

\* A cancellation blamed on a cascade has a cancelled dependency to blame
\* (_cascade_cancel_dependents, COALESCE in _mark_cancelled).
CascadeHasCause ==
    \A t \in Tasks : cancelledBy[t] = "cascade"
                       => dep[t] # NoTask /\ status[dep[t]] = "cancelled"

\* Two claimers never hold the same task between claim and hand-over
\* (the row count guard of claim_next and the guard of _requeue_single_task).
ClaimsAreExclusive ==
    \A v, w \in Claimers : pick[v].at = "claimed" /\ pick[w].at = "claimed"
                             /\ pick[v].task = pick[w].task => v = w

\* Terminal statuses are final, also against calls that saw an older status.
TerminalIsFinal ==
    [][\A t \in Tasks : status[t] \in Terminal => status'[t] = status[t]]_tableVars

\* ADR 0006: from cancelling a task can only become cancelled; a late success,
\* failure or requeue must not overwrite it.
CancellingOnlyCancels ==
    [][\A t \in Tasks : status[t] = "cancelling"
         => status'[t] \in {"cancelling", "cancelled"}]_tableVars

\* A step that fails or cancels a task leaves none of its existing dependents
\* queued behind it (_cascade_failed_queued, _cascade_cancel_dependents), save
\* for finalize_cancelling, which is called with cascade=False.
NoChildLeftQueued ==
    [][(\A c \in Cancellers : ~ FinalizeCancelling(c)) =>
         \A t \in Tasks : status[t] \in Active /\ status'[t] \in {"failed", "cancelled"}
            => \A u \in Tasks : dep[u] = t => status'[u] # "queued"]_tableVars

\* Who cancelled a task is decided once.
AttributionIsFinal ==
    [][\A t \in Tasks : cancelledBy[t] # NoOne
         => cancelledBy'[t] = cancelledBy[t]]_tableVars

=============================================================================
