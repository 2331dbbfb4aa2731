--------------------------- MODULE GenerationWorker ---------------------------
(***************************************************************************)
(* The generation worker (lib/generation_worker.py) composed with the      *)
(* tasks table: the main loop that claims and dispatches, one asyncio task *)
(* per execution, the in-memory SlotTable, cancel signals, the shielded    *)
(* database writes that outlive a cancelled coroutine, crashes, graceful   *)
(* and forced stops and the orphan scan of the next start.                 *)
(*                                                                         *)
(* Server and worker are one process (ADR 0007), so a crash also ends the  *)
(* cancel requests in flight.  A coroutine runs without interruption from  *)
(* one await to the next: that is the grain of the steps below.            *)
(***************************************************************************)
EXTENDS TaskTable

CONSTANTS ProviderOf,    \* what _extract_provider derives for a resource
          NonResumable,  \* NON_RESUMABLE_VIDEO_PROVIDERS
          Cap,           \* CapacityTable: [Providers -> [Media -> Nat]]
          MaxRestarts,   \* bound: crashes and stops
          MaxTrips,      \* bound: times a lane's circuit opens
          MaxDbErrors    \* bound: queue calls that raise

Loop == CHOOSE w \in Claimers : TRUE
Media == {"image", "video", "audio"}

ASSUME WorkerAssumption ==
    /\ Claimers = {Loop}
    /\ ProviderOf \in [Resources -> Providers]
    /\ NonResumable \subseteq Providers
    /\ Cap \in [Providers -> [Media -> Nat]]
    /\ MaxRestarts \in Nat /\ MaxTrips \in Nat /\ MaxDbErrors \in Nat

VARIABLES mode,      \* "down", "boot", "scan", "run", "stopping", "dead" (loop),
                     \* "aborting" (the process has cancelled all it runs)
          run,       \* [Tasks -> the task's coroutine and its slot]
          deferring, \* the loop is between refreshing a provider and requeueing
          scan,      \* the orphan scan: rows read, pending fallback, collected
          job,       \* [Tasks -> provider_job_id is stored]
          paid,      \* [Tasks -> submissions the provider accepted]
          health,    \* [Providers -> [Media -> "ok", "open" or "half_open"]]
          bounds     \* counters for MaxRestarts, MaxTrips, MaxDbErrors

workerVars == <<mode, run, deferring, scan, job, paid, health, bounds>>
vars == <<tableVars, workerVars>>

ProviderOfTask(t) == ProviderOf[key[t]]
MediaOfTask(t) == MediaOf[key[t]]

\* Where a coroutine can be.  Interruptible: inside the try block.
Interruptible == {"exec", "submitted", "polling", "indexing"}
Ended == {"none", "returned", "cancelled"}
Positions == Interruptible \union Ended \union
    {"entry",                           \* before the try block
     "unstarted", "waiting", "locked",  \* a resume sub-task before its poll
     "settling",                        \* awaiting the ledger settlement
     "marking", "failing", "yielding", "stopping", "outer"} \* awaiting a write

\* The shielded write that a coroutine at this position waits for.
Awaited(at) == CASE at = "marking" -> "succeed"
                 [] at = "failing" -> "fail"
                 [] at \in {"yielding", "stopping", "outer"} -> "cancel"
                 [] OTHER -> "nothing"

NoRun == [at |-> "none", slot |-> "free", resumed |-> FALSE, signal |-> FALSE,
          inner |-> {}, count |-> "none"]
NoScan == [rows |-> [t \in Tasks |-> "absent"], fallback |-> NoTask, resume |-> {}]

WorkerTypeOK ==
    /\ mode \in {"down", "boot", "scan", "run", "stopping", "dead", "aborting"}
    /\ run \in [Tasks -> [at : Positions,
                          slot : {"free", "inflight", "pending"},
                          resumed : BOOLEAN,
                          signal : BOOLEAN,  \* a cancel() not yet delivered
                          inner : SUBSET {"succeed", "fail", "cancel"},
                          count : {"none", "zero", "one", "error"}]]
    /\ deferring \in BOOLEAN
    /\ scan \in [rows : [Tasks -> {"absent", "running", "cancelling"}],
                 fallback : Tasks \union {NoTask},
                 resume : SUBSET Tasks] \* rows read, missed row, collected
    /\ job \in [Tasks -> BOOLEAN]
    /\ paid \in [Tasks -> Nat]
    /\ health \in [Providers -> [Media -> {"ok", "open", "half_open"}]]
    /\ bounds \in [restarts : 0 .. MaxRestarts, trips : 0 .. MaxTrips,
                   dbErrors : 0 .. MaxDbErrors]

WorkerInit ==
    /\ TableInit
    /\ mode = "boot"
    /\ run = [t \in Tasks |-> NoRun]
    /\ deferring = FALSE
    /\ scan = NoScan
    /\ job = [t \in Tasks |-> FALSE]
    /\ paid = [t \in Tasks |-> 0]
    /\ health = [p \in Providers |-> [m \in Media |-> "ok"]]
    /\ bounds = [restarts |-> 0, trips |-> 0, dbErrors |-> 0]

-----------------------------------------------------------------------------
(* Capacity: the table's limit, reduced by the lane's health. *)
Occupants(p, m) == {t \in Tasks : /\ run[t].slot # "free"
                                  /\ ProviderOfTask(t) = p
                                  /\ MediaOfTask(t) = m}

EffectiveCap(p, m) == CASE health[p][m] = "open" -> 0
                        [] health[p][m] = "half_open" /\ Cap[p][m] > 0 -> 1
                        [] OTHER -> Cap[p][m]

\* Mistake: pending occupants are not counted.
RoomBesidePending(p, m) ==
    Cardinality({t \in Occupants(p, m) : run[t].slot = "inflight"}) < EffectiveCap(p, m)

HasRoom(p, m) == Cardinality(Occupants(p, m)) < EffectiveCap(p, m)

PoolFull(m) == {p \in Providers :
    /\ Cap[p][m] > 0
    /\ health[p][m] = "open" \/ (Occupants(p, m) # {} /\ ~ HasRoom(p, m))}

\* request_cancel: cancel() each of these coroutines that has not ended.
Signalled(tasks) == [t \in Tasks |->
    [run[t] EXCEPT !.signal = @ \/ /\ t \in tasks
                                   /\ run[t].slot # "free"
                                   /\ run[t].at \notin Ended]]

\* queue.mark_task_failed, mark_task_succeeded: no row unless running.
TryFail(t) == IF status[t] = "running" THEN FailRows(t) ELSE UNCHANGED rowVars

-----------------------------------------------------------------------------
(* The main loop: drain, claim, route. *)
LoopFree == mode = "run" /\ pick[Loop].at = "idle"

Claim(m) ==
    /\ LoopFree
    /\ ClaimSelect(Loop, m, PoolFull(m))
    /\ UNCHANGED workerVars

ClaimCommit ==
    /\ mode = "run"
    /\ ClaimUpdate(Loop)
    /\ UNCHANGED workerVars

\* The await of _extract_provider lies between ClaimCommit and the next three.
Routing(p, m) ==
    /\ mode = "run" /\ pick[Loop].at = "claimed" /\ ~ deferring
    /\ p = ProviderOfTask(pick[Loop].task)
    /\ m = MediaOfTask(pick[Loop].task)

\* The provider has no such lane: fail the task.  The row count is not looked at.
RejectClaimed(p, m) ==
    /\ Routing(p, m)
    /\ Cap[p][m] = 0
    /\ TryFail(pick[Loop].task)
    /\ pick' = [pick EXCEPT ![Loop] = NoPick]
    /\ UNCHANGED <<txn, workerVars>>

\* Circuit open or pool full: refresh the provider column, then requeue.
Defer(p, m) ==
    /\ Routing(p, m)
    /\ Cap[p][m] > 0 /\ ~ HasRoom(p, m)
    /\ PersistProvider(Loop, p)
    /\ deferring' = TRUE
    /\ UNCHANGED <<mode, run, scan, job, paid, health, bounds>>

Requeue ==
    /\ deferring
    /\ RequeueClaimed(Loop)
    /\ deferring' = FALSE
    /\ UNCHANGED <<mode, run, scan, job, paid, health, bounds>>

Dispatch(p, m) ==
    /\ Routing(p, m)
    /\ HasRoom(p, m)
    /\ HandOver(Loop)
    /\ run' = [run EXCEPT ![pick[Loop].task].slot = "inflight",
                          ![pick[Loop].task].at = "entry"]
    /\ UNCHANGED <<mode, deferring, scan, job, paid, health, bounds>>

\* A finished INFLIGHT occupant leaves the table; a cancelled one is marked.
Drain(t) ==
    /\ LoopFree
    /\ run[t].slot = "inflight" /\ run[t].at \in {"returned", "cancelled"}
    /\ run' = [run EXCEPT ![t] = [NoRun EXCEPT !.inner = run[t].inner]]
    /\ IF run[t].at = "cancelled" /\ Cancellable(t)
         THEN FinalizeCancelled(t)
         ELSE UNCHANGED tableVars
    /\ UNCHANGED <<mode, deferring, scan, job, paid, health, bounds>>

\* A database error in the requeue, or in the drain's mark, is logged and dropped.
DbError == /\ bounds.dbErrors < MaxDbErrors
           /\ bounds' = [bounds EXCEPT !.dbErrors = @ + 1]

RequeueFails ==
    /\ deferring
    /\ DbError
    /\ pick' = [pick EXCEPT ![Loop] = NoPick]
    /\ deferring' = FALSE
    /\ UNCHANGED <<rowVars, txn, mode, run, scan, job, paid, health>>

DrainFails(t) ==
    /\ LoopFree
    /\ run[t].slot = "inflight" /\ run[t].at = "cancelled"
    /\ DbError
    /\ run' = [run EXCEPT ![t] = [NoRun EXCEPT !.inner = run[t].inner]]
    /\ UNCHANGED <<tableVars, mode, deferring, scan, job, paid, health>>

\* An exception of any other queue call escapes _run_loop, which ends for good.
LoopDies ==
    /\ mode \in {"boot", "scan", "run"} /\ ~ deferring
    /\ DbError
    /\ mode' = "dead"
    /\ pick' = [pick EXCEPT ![Loop] = NoPick]
    /\ scan' = NoScan
    /\ UNCHANGED <<rowVars, txn, run, deferring, job, paid, health>>

\* An open lane is probed again after its cooldown.
Cooldown(p, m) ==
    /\ health[p][m] = "open"
    /\ health' = [health EXCEPT ![p][m] = "half_open"]
    /\ UNCHANGED <<tableVars, mode, run, deferring, scan, job, paid, bounds>>

-----------------------------------------------------------------------------
(* One execution: _process_task, or _run_one around _process_resume_task. *)

\* The coroutine goes on to `to`; if that awaits a shielded write, it starts it.
GoesTo(t, to) ==
    run' = [run EXCEPT ![t].at = to,
                       ![t].signal = FALSE,
                       ![t].count = "none",
                       ![t].inner = IF Awaited(to) = "nothing" THEN @
                                    ELSE @ \union {Awaited(to)}]

\* A cancelled coroutine is next resumed with CancelledError, never normally.
Proceeds(t, to) == ~ run[t].signal /\ GoesTo(t, to)

\* The coroutine ends.  _run_one releases its slot, the drain collects the rest.
Ends(t, how) ==
    run' = [run EXCEPT ![t] =
        IF @.resumed THEN [NoRun EXCEPT !.inner = run[t].inner]
        ELSE [@ EXCEPT !.at = how, !.signal = FALSE, !.count = "none"]]

Begin(t) ==
    /\ \/ run[t].at = "entry" /\ Proceeds(t, "exec")
       \/ run[t].at = "unstarted" /\ Proceeds(t, "waiting")
       \/ run[t].at = "locked" /\ Proceeds(t, "polling")
    /\ UNCHANGED <<tableVars, mode, deferring, scan, job, paid, health, bounds>>

\* sem.acquire, then promote; a stopping worker lets go at once.
Acquire(t) ==
    LET lane == {u \in Tasks : /\ run[u].resumed /\ run[u].slot = "inflight"
                               /\ ProviderOfTask(u) = ProviderOfTask(t)}
    IN
    /\ run[t].at = "waiting" /\ ~ run[t].signal
    /\ Cardinality(lane) < Cap[ProviderOfTask(t)]["video"]
    /\ IF mode = "stopping"
         THEN Ends(t, "returned")
         ELSE run' = [run EXCEPT ![t].at = "locked", ![t].slot = "inflight"]
    /\ UNCHANGED <<tableVars, mode, deferring, scan, job, paid, health, bounds>>

\* The provider accepts, and bills, the job.
Submit(t) ==
    /\ run[t].at = "exec"
    /\ Proceeds(t, IF MediaOfTask(t) = "video" THEN "submitted" ELSE "polling")
    /\ paid' = [paid EXCEPT ![t] = @ + 1]
    /\ UNCHANGED <<tableVars, mode, deferring, scan, job, health, bounds>>

PersistJobId(t) ==
    /\ run[t].at = "submitted"
    /\ Proceeds(t, "polling")
    /\ job' = [job EXCEPT ![t] = TRUE]
    /\ UNCHANGED <<tableVars, mode, deferring, scan, paid, health, bounds>>

ProviderDone(t) ==
    /\ run[t].at = "polling"
    /\ Proceeds(t, "indexing")
    /\ UNCHANGED <<tableVars, mode, deferring, scan, job, paid, health, bounds>>

SetHealth(t, value) ==
    health' = [health EXCEPT ![ProviderOfTask(t)][MediaOfTask(t)] = value]

\* Mistakes: the error is logged only; the row is requeued for another try.
FailSilently(t) ==
    /\ run[t].at \in {"exec", "submitted", "polling"} /\ ~ run[t].signal
    /\ Ends(t, "returned")
    /\ UNCHANGED <<tableVars, mode, deferring, scan, job, paid, health, bounds>>
FailAndRetry(t) ==
    /\ run[t].at \in {"exec", "submitted", "polling"} /\ status[t] = "running"
    /\ Proceeds(t, "failing")
    /\ status' = [status EXCEPT ![t] = "queued"]
    /\ UNCHANGED <<key, dep, queuedAt, provider, cancelledBy, pick, txn,
                   mode, deferring, scan, job, paid, health, bounds>>

\* Any error of the executor or the provider; a transient one may open the lane.
Fail(t) ==
    /\ run[t].at \in {"exec", "submitted", "polling"}
    /\ Proceeds(t, "failing")
    /\ \/ UNCHANGED <<health, bounds>>
       \/ /\ bounds.trips < MaxTrips
          /\ SetHealth(t, "open")
          /\ bounds' = [bounds EXCEPT !.trips = @ + 1]
    /\ UNCHANGED <<tableVars, mode, deferring, scan, job, paid>>

\* The media is indexed; the success is written.
Finish(t) ==
    /\ run[t].at = "indexing"
    /\ Proceeds(t, "marking")
    /\ IF run[t].resumed THEN UNCHANGED health ELSE SetHealth(t, "ok")
    /\ UNCHANGED <<tableVars, mode, deferring, scan, job, paid, bounds>>

\* A shielded write commits, whether or not its coroutine still waits for it.
Commit(t, write) ==
    LET hit == IF write = "cancel" THEN Cancellable(t) ELSE status[t] = "running"
        signalled == IF write = "cancel" /\ hit
                       THEN Signalled(Stopped({}, KilledWith(t), status)) ELSE run
    IN
    /\ write \in run[t].inner
    /\ run' = [signalled EXCEPT
                 ![t].inner = @ \ {write},
                 ![t].count = IF Awaited(run[t].at) # write THEN @
                              ELSE IF hit THEN "one" ELSE "zero"]
    /\ \/ hit /\ write = "succeed" /\ MarkSucceeded(t)
       \/ hit /\ write = "fail" /\ MarkFailed(t)
       \/ hit /\ write = "cancel" /\ FinalizeCancelled(t)
       \/ ~ hit /\ UNCHANGED tableVars
    /\ UNCHANGED <<mode, deferring, scan, job, paid, health, bounds>>

\* A shielded write raises instead (database locked, disk full).
CommitFails(t, write) ==
    /\ write \in run[t].inner
    /\ DbError
    /\ run' = [run EXCEPT ![t].inner = @ \ {write},
                          ![t].count = IF Awaited(run[t].at) # write THEN @ ELSE "error"]
    /\ UNCHANGED <<tableVars, mode, deferring, scan, job, paid, health>>

\* Mistake: the row count of the terminal write is not looked at.
ResumeUnheeding(t) ==
    /\ run[t].count # "none" /\ ~ run[t].signal
    /\ IF run[t].at \in {"marking", "failing", "yielding"}
         THEN Ends(t, "returned") ELSE Ends(t, "cancelled")
    /\ UNCHANGED <<tableVars, mode, deferring, scan, job, paid, health, bounds>>

\* The coroutine learns the row count it waited for: the 0-rows protocol.
Resume(t) ==
    LET at == run[t].at IN
    /\ run[t].count # "none" /\ ~ run[t].signal
    /\ \/ /\ at \in {"marking", "failing"} /\ run[t].count = "zero"
          /\ Proceeds(t, "yielding")
       \/ /\ at \in {"marking", "failing"} /\ run[t].count # "zero"
          /\ Ends(t, "returned")
       \/ at = "yielding" /\ Ends(t, "returned")
       \/ /\ at = "stopping"
          /\ IF run[t].count = "error" THEN Ends(t, "returned")
             ELSE IF run[t].resumed THEN GoesTo(t, "outer") ELSE Ends(t, "cancelled")
       \/ at = "outer" /\ Ends(t, "cancelled")
    /\ IF at = "marking" /\ run[t].count = "one" /\ run[t].resumed
         THEN SetHealth(t, "ok") ELSE UNCHANGED health
    /\ UNCHANGED <<tableVars, mode, deferring, scan, job, paid, bounds>>

\* CancelledError is raised at the await where the coroutine is.
CancelDelivered(t) ==
    LET at == run[t].at IN
    /\ run[t].signal
    /\ \/ at \in Interruptible /\ GoesTo(t, "settling")
       \/ at = "marking" /\ GoesTo(t, IF run[t].resumed THEN "settling" ELSE "stopping")
       \/ /\ at \in {"entry", "settling", "failing", "yielding", "stopping"}
          /\ IF run[t].resumed THEN GoesTo(t, "outer") ELSE Ends(t, "cancelled")
       \/ at \in {"waiting", "locked"} /\ GoesTo(t, "outer")
       \/ at = "outer" /\ Ends(t, "cancelled")
          \* Cancelled before its first step, _run_one never enters its try:
          \* the coroutine is over and the PENDING slot stays.
       \/ /\ at = "unstarted"
          /\ run' = [run EXCEPT ![t].at = "cancelled", ![t].signal = FALSE]
    /\ UNCHANGED <<tableVars, mode, deferring, scan, job, paid, health, bounds>>

\* A CancelledError raised inside session.close() is suppressed (db/engine.py).
CancelSwallowed(t) ==
    /\ run[t].signal
    /\ run[t].at \in {"exec", "submitted"}
    /\ run' = [run EXCEPT ![t].signal = FALSE]
    /\ UNCHANGED <<tableVars, mode, deferring, scan, job, paid, health, bounds>>

\* The ledger row is settled; the cancellation is written.
Settled(t) ==
    /\ run[t].at = "settling"
    /\ Proceeds(t, "stopping")
    /\ UNCHANGED <<tableVars, mode, deferring, scan, job, paid, health, bounds>>

-----------------------------------------------------------------------------
(* Start, orphan scan, stop and crash. *)
\* Mistake: the orphan scan reads every active row.
ScanSelectActive ==
    /\ mode = "boot"
    /\ mode' = "scan"
    /\ scan' = [NoScan EXCEPT !.rows = [t \in Tasks |->
                  IF status[t] \in Active THEN status[t] ELSE "absent"]]
    /\ UNCHANGED <<tableVars, run, deferring, job, paid, health, bounds>>

ScanSelect ==
    /\ mode = "boot"
    /\ mode' = "scan"
    /\ scan' = [NoScan EXCEPT !.rows = [t \in Tasks |->
                  IF status[t] \in {"running", "cancelling"} THEN status[t] ELSE "absent"]]
    /\ UNCHANGED <<tableVars, run, deferring, job, paid, health, bounds>>

Resumable(t) == /\ MediaOfTask(t) = "video"
                /\ ProviderOfTask(t) \notin NonResumable
                /\ job[t]

\* Mistake: what cannot be resumed is queued again.
ScanRowRequeues(t) ==
    /\ mode = "scan" /\ scan.fallback = NoTask
    /\ scan.rows[t] # "absent"
    /\ scan' = [scan EXCEPT !.rows[t] = "absent"]
    /\ status' = [status EXCEPT ![t] = IF @ = "running" THEN "queued" ELSE @]
    /\ UNCHANGED <<key, dep, queuedAt, provider, cancelledBy, pick, txn,
                   mode, run, deferring, job, paid, health, bounds>>

\* One orphan of the list: cancelled, failed, or collected for the dispatcher.
ScanRow(t) ==
    LET done == [scan EXCEPT !.rows[t] = "absent"] IN
    /\ mode = "scan" /\ scan.fallback = NoTask
    /\ \/ /\ scan.rows[t] = "cancelling"
          /\ IF Cancellable(t) THEN FinalizeCancelled(t) ELSE UNCHANGED tableVars
          /\ scan' = done
       \/ /\ scan.rows[t] = "running" /\ ~ Resumable(t)
          /\ IF status[t] = "running"
               THEN MarkFailed(t) /\ scan' = done
               ELSE UNCHANGED tableVars /\ scan' = [done EXCEPT !.fallback = t]
       \/ /\ scan.rows[t] = "running" /\ Resumable(t)
          /\ scan' = [done EXCEPT !.resume = @ \union {t}]
          /\ UNCHANGED tableVars
    /\ UNCHANGED <<mode, run, deferring, job, paid, health, bounds>>

ScanFallback ==
    LET t == scan.fallback IN
    /\ mode = "scan" /\ t # NoTask
    /\ IF Cancellable(t) THEN FinalizeCancelled(t) ELSE UNCHANGED tableVars
    /\ scan' = [scan EXCEPT !.fallback = NoTask]
    /\ UNCHANGED <<mode, run, deferring, job, paid, health, bounds>>

\* The dispatcher registers every collected orphan as PENDING, then the loop claims.
ScanEnd ==
    /\ mode = "scan" /\ scan.fallback = NoTask
    /\ \A t \in Tasks : scan.rows[t] = "absent"
    /\ mode' = "run"
    /\ run' = [t \in Tasks |-> IF t \in scan.resume
                 THEN [run[t] EXCEPT !.at = "unstarted", !.slot = "pending",
                                     !.resumed = TRUE]
                 ELSE run[t]]
    /\ scan' = NoScan
    /\ UNCHANGED <<tableVars, deferring, job, paid, health, bounds>>

StopRequested ==
    /\ LoopFree /\ bounds.restarts < MaxRestarts
    /\ mode' = "stopping"
    /\ UNCHANGED <<tableVars, run, deferring, scan, job, paid, health, bounds>>

Memory0 ==
    /\ mode' = "down"
    /\ run' = [t \in Tasks |-> NoRun]
    /\ pick' = [w \in Claimers |-> NoPick]
    /\ txn' = [c \in Cancellers |-> NoTxn]
    /\ deferring' = FALSE
    /\ scan' = NoScan
    /\ health' = [p \in Providers |-> [m \in Media |-> "ok"]]
    /\ bounds' = [bounds EXCEPT !.restarts = @ + 1]
    /\ UNCHANGED <<rowVars, job, paid>>

\* The event loop is closed while something still runs: a second signal to the
\* server, or a stop that raises what the loop died of.  Every coroutine is
\* cancelled, whatever the row of its task says, and every shielded write.
ProcessCancelled ==
    /\ mode \notin {"down", "aborting"}
    /\ bounds.restarts < MaxRestarts
    /\ mode' = "aborting"
    /\ run' = [t \in Tasks |-> [run[t] EXCEPT
                 !.signal = run[t].slot # "free" /\ run[t].at \notin Ended,
                 !.inner = {}]]
    /\ pick' = [w \in Claimers |-> NoPick]
    /\ txn' = [c \in Cancellers |-> NoTxn]
    /\ deferring' = FALSE
    /\ scan' = NoScan
    /\ UNCHANGED <<rowVars, job, paid, health, bounds>>

\* Every execution has ended: the process exits.
StopCompletes ==
    /\ mode \in {"stopping", "aborting"}
    /\ \A t \in Tasks : run[t].at \in Ended
    /\ Memory0

Crash == mode # "down" /\ bounds.restarts < MaxRestarts /\ Memory0

Boot ==
    /\ mode = "down"
    /\ mode' = "boot"
    /\ UNCHANGED <<tableVars, run, deferring, scan, job, paid, health, bounds>>

-----------------------------------------------------------------------------
(* The API, in the same process. *)
Serving == mode \notin {"down", "aborting"}

ApiEnqueue ==
    /\ Serving
    /\ \E n \in 1 .. MaxBatch : EnqueueBatch(n)
    /\ UNCHANGED workerVars

ApiCancel(c) ==
    /\ Serving
    /\ CancelSelect(c) \/ CancelApply(c)
    /\ UNCHANGED workerVars

\* The lease is held while the loop runs; it may have lapsed before and after.
WorkerMayBeOffline == mode \in {"boot", "stopping", "dead"}

ApiSignal(c) ==
    /\ Serving
    /\ CancelReturn(c)
    /\ ~ (txn[c].kind = "project" /\ txn[c].signal # {} /\ mode = "dead")
    /\ run' = Signalled(txn[c].signal)
    /\ UNCHANGED <<mode, deferring, scan, job, paid, health, bounds>>

ApiFinalize(c) ==
    /\ WorkerMayBeOffline
    /\ txn[c].signal # {}
    /\ FinalizeCancelling(c)
    /\ UNCHANGED workerVars

-----------------------------------------------------------------------------
LoopStep ==
    \/ ClaimCommit
    \/ \E p \in Providers, m \in Media :
         RejectClaimed(p, m) \/ Defer(p, m) \/ Dispatch(p, m)
    \/ Requeue

Execution(t) ==
    \/ Begin(t) \/ Acquire(t) \/ Submit(t) \/ PersistJobId(t)
    \/ ProviderDone(t) \/ Fail(t) \/ Finish(t) \/ Resume(t)
    \/ CancelDelivered(t) \/ Settled(t)

StartStep == ScanSelect \/ ScanFallback \/ ScanEnd \/ Boot \/ StopCompletes

Errors ==
    \/ LoopDies \/ RequeueFails
    \/ \E t \in Tasks : DrainFails(t)
    \/ \E t \in Tasks, write \in {"succeed", "fail", "cancel"} : CommitFails(t, write)

WorkerNext ==
    \/ \E m \in Media : Claim(m)
    \/ LoopStep
    \/ \E p \in Providers, m \in Media : Cooldown(p, m)
    \/ \E t \in Tasks :
         \/ Execution(t) \/ Drain(t) \/ ScanRow(t) \/ CancelSwallowed(t)
         \/ \E write \in {"succeed", "fail", "cancel"} : Commit(t, write)
    \/ StartStep \/ StopRequested \/ ProcessCancelled \/ Crash
    \/ Errors
    \/ ApiEnqueue
    \/ \E c \in Cancellers : ApiCancel(c) \/ ApiSignal(c) \/ ApiFinalize(c)

WorkerSpec == WorkerInit /\ [][WorkerNext]_vars

(***************************************************************************)
(* Fairness.  The loop and every started coroutine keep running on the     *)
(* event loop; the lanes are polled in rotation, so a claim that is        *)
(* possible again and again happens; asyncio.Semaphore is FIFO; a provider *)
(* answers or times out (every backend's poll has a max_wait); a request   *)
(* that committed its cancel goes on to signal; a service that went down   *)
(* is started again.  Nothing obliges users, forced stops, crashes, errors *)
(* or outages.                                                             *)
(***************************************************************************)
Fairness ==
    /\ WF_vars(LoopStep)
    /\ WF_vars(StartStep)
    /\ \A m \in Media : SF_vars(Claim(m))
    /\ \A p \in Providers, m \in Media : WF_vars(Cooldown(p, m))
    /\ \A t \in Tasks :
         /\ WF_vars(Execution(t)) /\ SF_vars(Acquire(t))
         /\ SF_vars(Drain(t)) /\ WF_vars(ScanRow(t))
         /\ \A write \in {"succeed", "fail", "cancel"} : WF_vars(Commit(t, write))
    /\ \A c \in Cancellers :
         /\ WF_vars(CancelApply(c) /\ UNCHANGED workerVars)
         /\ WF_vars(ApiSignal(c) \/ ApiFinalize(c))

FairWorkerSpec == WorkerSpec /\ Fairness

-----------------------------------------------------------------------------
(* Properties. *)

\* A PENDING slot whose sub-task was cancelled before its first step, in a process
\* that goes on.
Leaked(t) ==
    run[t].slot = "pending" /\ run[t].at = "cancelled" /\ mode # "aborting"

\* request_cancel: cancelling a PENDING sub-task makes sem.acquire raise and the
\* sub-task leave at once, so that it no longer occupies the lane.
NoSlotLeaks == \A t \in Tasks : ~ Leaked(t)

\* Somebody in this process will still act on the task.
Owned(t) ==
    \/ pick[Loop] = [at |-> "claimed", task |-> t]
    \/ run[t].slot # "free" /\ ~ Leaked(t)
    \/ run[t].inner # {}

\* While the loop runs and no queue call has raised, no running row is without an
\* owner: the only other cause of an orphan is a restart (ADR 0007, CONTEXT.md).
RunningIsOwned ==
    mode = "run" /\ bounds.dbErrors = 0
        => \A t \in Tasks : status[t] = "running" => Owned(t)

\* ADR 0006: a cancelling row has an owner that will move it to cancelled;
\* "otherwise the task stays in cancelling for ever".
CancellingIsOwned ==
    mode = "run" => \A t \in Tasks : status[t] = "cancelling" => Owned(t)

\* ADR 0007: whatever crashes, stops, requeues and resumes happen, a task is
\* submitted to its provider at most once.
PaidAtMostOnce == \A t \in Tasks : paid[t] <= 1

\* The worker and the queue together are one service (ADR 0007, on the lifecycle of
\* the table): one submission of what was started, never of what has failed; what
\* was submitted is not queued again, and what succeeds was submitted.
Service == INSTANCE GenerationService WITH st <- status, parent <- dep, sent <- paid
FollowsService == Service!ServiceSpec

\* A task that may be claimed has no execution, nor a write of an earlier one,
\* still under way.
QueuedHasNoExecution ==
    \A t \in Tasks : status[t] = "queued" => run[t].slot = "free" /\ run[t].inner = {}

\* Executions of a lane never exceed its capacity, dispatched and resumed ones
\* together (has_room, the dispatcher's semaphore, PENDING registration).
CapacityRespected ==
    \A p \in Providers, m \in Media :
        Cardinality({t \in Occupants(p, m) : run[t].slot = "inflight"}) <= Cap[p][m]

\* request_cancel only cancels a coroutine whose row says so already; a running row
\* is hit only by the process that ends all it runs ("SIGTERM ... hits running
\* directly", task_repo.py:753), for which the guard of finalize_cancelled is wide.
SignalFollowsRow ==
    mode # "aborting" =>
        \A t \in Tasks : run[t].signal => status[t] \in {"cancelling", "cancelled"}

\* A task that was handed to an execution reaches a terminal status, across
\* crashes and restarts, unless its resume sub-task leaked its slot.
DispatchedEnds ==
    \A t \in Tasks : run[t].at = "entry" ~> status[t] \in Terminal \/ Leaked(t)

\* Every enqueued task without a dependency ends, unless a task was stranded in
\* cancelling or a leaked slot blocks the lane.
Stranded(t) == status[t] = "cancelling" /\ ~ Owned(t)
EveryTaskEnds ==
    \A t \in Tasks : status[t] = "queued" /\ dep[t] = NoTask
        ~> \/ status[t] \in Terminal
           \/ mode = "run" /\ \E u \in Tasks : Stranded(u) \/ Leaked(u)
=============================================================================
