# Shotwise: specifications of its task queue, its workers and their neighbours

TLA+ models of the parts of Shotwise that decide whether what a user asked for is made once, paid for once,
survives a restart and can be cancelled: the generation queue, the renders, the publications, the workflow
runs, the cost rows and the assistant's sessions. TLC checks the models on small instances; TLAPS proves all
of their safety properties for any number of rows, workers, requests and crashes.

Paths below are relative to the repository (`src/` in `PROJECT.json`). Statements about the code
name the file and the function; `PROJECT.json` maps every definition to its lines.

## 1. Inventory

Shotwise is a FastAPI service with a React frontend. One process holds the HTTP routers, an
asyncio *generation worker*, a render worker, a publishing worker, a workflow executor and the sessions of the
authoring assistant. State lives in a SQL database (SQLite by default, PostgreSQL optionally)
and in project directories on disk.

### The generation queue (the core)

| Part | State | Operations |
|---|---|---|
| Tasks table (`lib/db/models/task.py`, `lib/db/repositories/task_repo.py`) | one row per task: status, dedupe columns, `dependency_task_id`, `provider_id`, `provider_job_id`, `cancelled_by`, `queued_at`; a partial unique index over active rows | enqueue, enqueue_batch, claim_next, mark_succeeded, mark_failed with its cascade, cancel_task / cancel_episode_tasks / cancel_all_active, finalize_cancelled, finalize_cancelling, requeue_running, list_orphan_tasks_on_start |
| Queue facade (`lib/generation_queue.py`) | the cancel callback of the worker | one database session per call, `_safe_commit`, dispatch of cancel signals after the commit |
| Worker (`lib/generation_worker.py`) | `SlotTable` (PENDING / INFLIGHT occupants per provider and media lane), `CapacityTable`, `_stop_event` | the loop `_run_loop`: drain finished executions, claim, route (fail / defer / dispatch); `_process_task`, `_process_resume_task`, `_run_one`; `request_cancel`; the orphan scan at start; stop |
| Provider health (`lib/provider_health.py`) | per lane: consecutive failures, `open_until`, rounds | state, capacity, record_success, record_failure |
| Safe sessions (`lib/db/engine.py`) | - | a session whose close suppresses `CancelledError` |
| Lifespan (`server/app.py`) | - | starts and stops the worker |
| Queue client, batches (`lib/generation_queue_client.py`, `lib/generation_batches.py`, its repository) | a batch row with the list of its tasks | submit, poll, cancel, retry: the row is read, changed and written back whole |
| Terminal events (`lib/task_terminal_events.py`) | events per task end | record, deliver once |

The parts interact through the table (claims, terminal writes), through one callback (the API
calls `request_cancel` after it has committed a cancellation) and through asyncio task
cancellation. What makes this hard:

* a repository call that SELECTs first and UPDATEs later acts on a status that may be stale: claims,
  cancellations and the orphan scan all do;
* a cancelled coroutine is interrupted at any of its awaits, while its *shielded* database write goes
  on; whichever write commits first wins, and the loser must notice by its row count;
* the row moves before the coroutine is signalled, so both orders of "execution ends" and "signal
  arrives" occur;
* a crash between the submission to a provider (which is billed) and the write of the job id;
* dispatched and resumed executions share a lane's capacity, but are admitted by different code;
* executions that started before an outage report their failures while the circuit is open.

Correct means: a task is submitted at most once; no work starts before its dependency has succeeded;
terminal statuses are final; two active tasks never share a dedupe key; a running or cancelling row
always has somebody who will finish it; lanes stay within their capacity; every task ends.

### The assistant's sessions

`server/agent_runtime/session_actor.py` gives each session one asyncio task that owns the SDK client.
Callers enqueue query / interrupt / disconnect commands and wait for their events; while a query's stream
is read, the actor races the next message against the next command. Hard: both may be ready at once, each
SDK call may raise, and an eviction cancels the actor wherever it is. Correct means: every command is
answered once, an interrupt need not wait for the stream, and the SDK has one query at a time.
`session_manager.py` and `event_log.py` surround it with an inbox, the event log and the session registry.

### Cost rows

`lib/ledger.py` opens a *pending* row before a provider is called and settles it afterwards. Four parties settle: the
bracket around the call (`Ledger.record`, `finish_call`, which does not look at the status), a resumed task
(`media_generator.py`), the clean-up of a cancelled task, and the worker's start-up, which fails every pending row older
than itself. Hard: calls of sessions and HTTP requests are under way while the worker starts, and the start-up resumes
tasks whose rows it is about to settle; each of these writes may raise, and is then logged and not repeated. Correct means: a
settled row is final; what a task's end says agrees with its row, unless a failure could not be written; nothing is on record as a
success that was not made; and what a crash leaves pending is settled when the process is back, unless its start-ups raise.

### Media assembly and the render worker

An assembly plan (`server/services/media_assembly.py`, `lib/media_assembly/plan.py`) has a status, a revision and two
confirmations: the user approves a rendered preview, then orders the final render. Jobs (`media_rendering.py`,
`lib/db/repositories/render_repository.py`) are claimed by one worker (`render_worker.py`) that heartbeats, reclaims
what a dead process left, and settles job and plan together. Hard: requests and the worker share rows that nobody locks
between a read and the write it leads to; a render takes minutes while the plan moves on. Correct means: no final video
of a revision without its preview, its approval and then its order; confirmations belong to the plan's revision; no job
is tried more than `max_attempts` times; no claimed job stays in flight.

### The publishing worker

`server/services/publishing_worker.py` claims a publication under a lease, submits it to the platform and polls it
(`lib/db/repositories/publishing_repository.py`). The lease is not renewed during a call, and a failed write after an
accepted post makes the post again. Correct means: the platform receives no more posts than attempts were counted; two
workers with a running lease never hold one job; a job somebody left while publishing is taken up again.

### Workflow runs

A run of a published node graph (`lib/workflow.py`, `server/services/workflows.py`) is driven by
`server/services/workflow_execution.py`: a tick takes each running run, works through rounds of ready nodes held in its
database session, commits after each node and writes the verdict. Pause, resume, cancel and retry commit in between.
Correct means: a stopped run starts at most the adapter it was about to start, a node whose success was committed is not
made again, and a run reaches a verdict.

### Other components

* **Queue client and batches** (planned): a batch row is read, changed and written back whole.
* **Terminal events**, **draft promotion**, **event log and session manager**, **project files and versions**,
  **server-sent events**: bookkeeping with smaller protocols of their own, planned in part (section 5).
* **Not worth modelling**: content transformation (script generation, episode planning), provider backends, ffmpeg
  command lines, configuration lookups, thin routers, migrations and the frontend: no concurrency or protocol of their
  own, or pure I/O. `PROJECT.json` lists each with the reason.

## 2. Modules

```
abstract      TaskLifecycle <--EXTENDS-- GenerationService    LaneCircuit      RenderApproval
                    ^                         ^                    ^                 ^
                    | refined by              | refined by         | refined by      | refined by
detailed        TaskTable <---EXTENDS--- GenerationWorker     ProviderHealth   AssemblyRender
                                                              SessionActor  Publishing  CostLedger  WorkflowRun
instances      MCTaskTable               MCGenerationWorker   MCSessionActor
                                         MCWorkerScenarios    MCServices (health, actor, publish, ledger, flow)

proofs        TaskTable_proofs <--EXTENDS-- GenerationWorker_proofs, and a *_proofs module for each other component
```

* `TaskTable`: the rows and the repository calls, with *claimers* (`pick`) and *cancel requests* (`txn`)
  whose calls are cut where the code releases the rows between a SELECT and an UPDATE. A transaction that has
  written holds the write lock, so a cascade belongs to the step of the write it follows.
* `TaskLifecycle`: the status graph that the guards of `task_repo.py` draw, with dependencies and nothing else. It is the
  graph of `docs/adr/0006` with one edge more, from `running` straight to `cancelled`, which `_mark_cancelled` admits (section 3).
  `TaskTable` implements it (`FollowsLifecycle`, an `INSTANCE` with `st <- status`, `parent <- dep`).
* `GenerationService`: the lifecycle with the submissions to the provider added, and no claims, coroutines, slots or restarts.
  `GenerationWorker` implements it (`FollowsService`, with `sent <- paid`).
* `GenerationWorker` EXTENDS `TaskTable` with the loop, one coroutine per task (`run[t]`), slots, signals,
  shielded writes, the provider's view (`paid`, `job`), lane health, start, stop and crash. It reuses the table's
  actions (`ClaimSelect`, `ClaimUpdate`, `CancelApply`, `FinalizeCancelled`, ...) inside its own.
* `ProviderHealth` and `LaneCircuit`: the account of one lane, and the three-state circuit of its docstring.
* `SessionActor`: the actor of one assistant session.
* `AssemblyRender` and `RenderApproval`: one plan with its jobs, the render worker and the requests; and the approval
  gate it implements.
* `Publishing`, `CostLedger`, `WorkflowRun`: one publication with its workers, one cost row with the call it accounts
  for, one workflow run with its executor and its requests.
* `MC*`: the small instances. `MCTaskTable`, `MCWorkerScenarios` and `MCServices` put several instances into one run:
  the initial state picks one, so that their state counts add instead of multiplying. In `MCServices` each *turn* runs
  one component while the others stay at their initial state; the components share no variable.
* `*_proofs`: the theorems.

### State and actions against the code

`TaskTable`

| Model | Code |
|---|---|
| `status`, `key`, `dep`, `provider`, `cancelledBy` | the columns of `Task`; a dedupe key (project, type, resource, script, kind) is one `Resource` |
| `queuedAt` | the time stamp, equal for the rows of one batch; only its order matters |
| `pick[w]` | the local variables of `claim_next` and of the loop up to the hand-over |
| `txn[c]` | the ORM rows a cancel request holds: `seen` is what its SELECT loaded |
| `Insert` / `EnqueueBatch` | `enqueue`, `enqueue_batch`; a duplicate is rolled back or answered with the existing row, so it is no step |
| `ClaimSelect`, `ClaimUpdate` | the SELECT and the guarded UPDATE of `claim_next` |
| `MarkFailed`, `Downstream` | `mark_failed` and `_cascade_failed_queued` |
| `CancelSelect`, `CancelApply` | the SELECTs, then `_dispatch_cancel`: `_mark_cancelled`, `_mark_cancelling`, `_cascade_cancel_dependents` |
| `FinalizeCancelled` | `finalize_cancelled`, called by executions, the drain and the orphan scan |
| `FinalizeCancelling` | `finalize_cancelling`, when `cancel_all_active` believes the worker is offline |
| `RequeueRunning` | the operator's rescue call; it has no caller in production (ADR 0007), so only the chain of `MCTaskTable` enables it |

`GenerationWorker`: `run[t].at` is the await a coroutine is at, `slot` its place in the `SlotTable`, `signal` a
`cancel()` not yet delivered, `inner` the shielded writes under way (they survive the coroutine), `count` the row
count a write has come back with. `mode` is the process and its loop: `boot` (started, orphan scan pending), `scan`,
`run`, `stopping`, `dead` (the loop ended with an exception; the process lives on), `aborting`, `down`. `ProcessCancelled` is the
end `task_repo.py:753` speaks of: the event loop closes while something runs, every coroutine is cancelled whatever the row of its
task says, and `finalize_cancelled` takes a running row straight to `cancelled`. A step runs from one
await to the next, as asyncio does; a database error (`DbError`) may strike any queue call.

`SessionActor`: `pc` is the await the actor is at, `msgTask` and `cmdTask` the two tasks of `_drive_query` with their
results, `pending` the stashed query; the events and flags of a command are membership in `sent`, `done`, `failed`,
`accepted`. Commands and messages have no contents; an exception of `on_message` has the effect of a failing stream.

`AssemblyRender`

| Model | Code |
|---|---|
| `plan`, `jobs`, `artifacts` | the rows of `assembly_plans`, `render_jobs`, `render_artifacts`; the source fingerprint is a function of the revision |
| `worker` | where `run_once` is, with the stale rows, the batch and the job it holds; `seen` is the preview revision of the plan object read before the claim, which the run keeps |
| `Ask...` and the action after it | the read with its checks, and the write by primary key, of a request: anything may happen in between |
| `ConfirmPreview`, `ConfirmRender`, `CancelRenderJob` | requests whose UPDATE repeats every check |
| `ReclaimRead` .. `RenderFails` | `reclaim_stale_jobs`, the settlement of unowned cancellations, the batch, the gate before the claim, the claim, the four ends of a render |
| `Crash`, `SettleFails`, `Lost` | the process dies; the settling write fails; a row's heartbeat stops |
| `approved`, `ordered` | history: what the user confirmed |

`Publishing`: `post` is the job's row with its lease, `hand[w]` the call worker `w` is in and whether it was overtaken
(`late`), `desk[c]` what a request has read. `ClaimNew` / `ClaimDue` are `_claim` for a queued and a due row, the answers of the
platform are external, `LeaseLapses` is time. `posted` counts what the platform accepted.

`CostLedger`: `line` is the row's status, `coro` the place of the coroutine that makes the call, `proc` the worker's start-up,
`known` whether the coroutine's task dict has the call id (only a resumed task's has), `old` whether the row was opened before this worker,
`made` whether the provider has delivered. Every write may raise: the bracket's success (`CallRaises`), its failure (`FailureIsLost`, kept in
the history `unwritten`), the opening of the row and what follows the bracket (`AroundRaises`: the version's entry, the thumbnail), the
task's status (`MarkRaises`), and the start-up's settlement (`SettleRaises`). `lapsed` says that the start-up of this process did not settle:
it raised, the loop died before (`LoopDies`) or the process was cancelled (`ProcessCancelled`).

`WorkflowRun`: `flow` and `node` are the committed rows, `engine.mem` the rows of the executor's session, `engine.todo` the rest of
the round, `asks[c]` what a request has read. A tick drives the runs in the order of their creation within one `try`: `ahead` says whether an
older run is running that raises when its turn comes, in which case `TakeRun` is not reached; `OlderRuns` changes it at any time.
`gated` is a node failed by a quality gate. `called`, `repeats`, `late` are history.
The model has the concurrency of PostgreSQL; under SQLite a flushed session holds the write lock and some of these interleavings wait.

## 3. What the runs show

| Run | Instance | Shows |
|---|---|---|
| `TaskTable` | a chain of up to 3 rows with an operator's requeues, and a race of 2 claimers over 2 rows, singly or as a batch; a cancel request in both | `UniqueActive`, `StartedAfterParent`, `ClaimsAreExclusive`, `NoChildLeftQueued`, `AttributionIsFinal` under cascades and stale reads; the table implements `TaskLifecycle` (terminal rows are final, a cancelling row only becomes cancelled) |
| `WorkerLive` | 2 clips on a video lane of one slot over 2 crashes or stops; 1 task (a clip, or a still whose lane the provider lacks) with a cancel request, an outage and a restart, by a crash, a stop or a forced one | `CapacityRespected`; every dispatched and every enqueued task ends |
| `WorkerFaults` | 2 clips that may depend on one another with cancel requests at every await; a clip made twice with a database error anywhere, a cancel request and a restart, by a crash, a stop or a forced one | `PaidAtMostOnce`, `RunningIsOwned`, `QueuedHasNoExecution`, and `request_cancel` reaches a coroutine only after its row (`SignalFollowsRow`); worker and table together implement `GenerationService` |
| `Rendering` | a plan of 2 revisions, 2 jobs of 2 attempts, one request at a time, 1 crash or failed settlement | `ApprovalsAreCurrent`; the plan, its jobs and the worker implement `RenderApproval`; no claimed job stays in flight; deadlock is checked |
| `Services`, turn *health* | a lane of 12, threshold 3, a cooldown of 3 doubled up to 11 | the account implements the documented circuit, a cooldown is never cut short, an open lane is probed again |
| `Services`, turn *actor* | 3 queries, 2 interrupts, a disconnect, all SDK failures, eviction | every command is answered save one in `cmd_task`'s hands; answers are final; control commands get through a silent stream |
| `Services`, turn *publish* | 2 workers, 2 attempts, 2 requests, a death of the process | `PostsAreCounted`, `OneCallPerLease`, and a job left while publishing is taken up |
| `Services`, turn *ledger* | a call of a task or a direct one, 2 crashes, a forced stop, a cancellation, an error in any write | `EndedIsSettled`, `SettledIsFinal`, and a restart settles what a crash left, unless the settlement raises |
| `Services`, turn *flow* | every graph of 3 nodes with every set of disabled ones, one request at a time, a tick cut short, a retry, behind an older run that may hold it up | `StopIsHeeded`, `RepeatsAreCounted`, and runs end that no older one holds up for ever |
| `WorkerStrands`, `WorkerLeaks`, `SessionHangs`, `RenderLatePreview`, `RenderStrands`, `LedgerResumed`, `FlowSkips` | violation | findings 1 to 7 |

**Findings.**

1. *Bug* (`WorkerStrands`). A cancellation that commits while the loop awaits `_extract_provider` for a claimed task finds no slot to
   signal. The loop's own write then hits no row, its count is not looked at, and the row stays `cancelling` until
   the next start.
2. *Bug* (`WorkerLeaks`). A resume sub-task cancelled before its first step never enters the `try` of `_run_one`; the `finally` that
   releases its PENDING slot never runs. The lane is one slot smaller until the next start.
3. *Bug* (`SessionHangs`). `_drive_query` holds a command in `cmd_task`'s result. If the following `client.interrupt()` raises on a disconnect,
   or the stream fails or an eviction cancels the drive when a command has just been taken, neither the drive nor the drain completes it; its caller
   waits for ever where it has no timeout (`_cleanup_on_error`).
4. *Bug* (`RenderLatePreview`). A preview job keeps the plan object it read before its claim, so the checks of `mark_preview_ready`
   run on that object and its write marks whatever revision the plan has by then as ready. `ApprovalsAreCurrent` shows how far this
   goes: the wrong revision cannot be confirmed, because the confirmations compare `preview_revision` themselves.
5. *Bug* (`RenderStrands`). After a crash during a final render the job is put back in the queue, but the plan stays in `rendering`, which the
   gate before the claim does not admit: the job is in every batch and never runs.
6. *Bug* (`LedgerResumed`). The start-up settles interrupted cost rows after it has dispatched the resumes of the orphan scan. The row of a
   resumed call is failed, and the resume's own flip to success matches no row: a delivered clip has a failed row.
7. *Documentation differs* (`FlowSkips`). A disabled node is skipped at the head of the loop before its upstream has run. What is behind it
   starts in the same round as what is before it, sees an empty input, and runs although that fails; the module's docstring says a
   failed node's downstream stays blocked.

Seen on the way, in the models, without a run of their own:

* `docs/adr/0006` has a running row reach `cancelled` only through the worker. A cancel request that read `queued`, overtaken by a claim,
  writes `cancelled` over `running` (the guard of `_mark_cancelled` admits it, `task_repo.py:769`): nobody signals the execution, it runs
  on and is billed. A request that saw `running` and meets a row put back to `queued` drops the cancellation.
* A database error makes an orphan without a restart: `RunningIsOwned` is only stated until a queue call has raised (`CONTEXT.md:83` names the restart
  as the only cause).
* The clean-up of a cancelled task looks for its cost row's id in the dict it was claimed with (`generation_worker.py:1190`), where only a
  resumed task has it. The row stays pending until the next start; the tests put the id there by hand
  (`tests/test_accounting_characterization.py:1288`). `EndedIsSettled` therefore says nothing of cancelled tasks.
* A failed task may leave two other rows than a failed one. If the bracket cannot write the failure either (`ledger.py:271-279` logs it and raises the
  first error), the row stays pending; if what follows a recorded success raises (`add_version`, `media_generator.py:862`), the row says success, which
  is what the provider will bill. `EndedIsSettled` admits both, and nothing else.
* The settlement at start-up swallows its error (`generation_worker.py:1214-1218`), and the loop then takes the start-up for settled (line 717): the
  pending rows wait for another start. `RestartSettles` excepts the processes whose start-up did not settle.
* A disabled node without upstream: `ready` to `skipped` is refused, the exception ends the tick, and the runs behind it in the tick are
  not driven either, in this tick and in the following ones: one such run starves every younger one. `RunsEnd` excludes both the run with
  the disabled root and the runs that wait behind one that never stops raising.
* A request that moves a run and the executor's verdict write over one another (`transition_workflow_run` compares the version it has
  read, and its UPDATE repeats neither). A cancelled run may end as succeeded.
* Budget reservations (`workflows.py:2105-2180`) are released by the executor, which only takes running runs: a cancel
  between two ticks releases nothing. Budgets are not modelled.
* Late failures double the cooldown of an open lane although no probe has run. `record_failure` multiplies a float with `2 ** rounds`, which
  raises `OverflowError` after 1024 openings without a success (`TripRaises`); the cooldown then stays as it was. In the worker this is one of the
  failures of a write that raises: the row is left running until the next start.
* A command put back by the actor is overtaken by
  younger ones.

**Properties that make room for a finding.** `DispatchedEnds` and `EveryTaskEnds` except tasks stranded by finding 1 and
slots leaked by finding 2; `AnsweredUnlessTaken` and `ControlIsAnswered` except the command of finding 3; `EndedIsSettled` speaks
only of rows opened in the process the task ended in, which leaves finding 6 out. `SignalFollowsRow` and `CancellingIsLostInTwoWays` say nothing of a
process that is cancelling all it runs (`aborting`): there a running row is hit directly. The violation runs
check the statements without the exception. When the code is mended the exceptions can be dropped.

### Bounds

* Rows: three make a cascade of two levels and a sibling; two are enough for every race, since each call touches a row, its
  dependency and its dependents. Requeues, deferrals and restarts make executions of one row arbitrarily long.
* Claimers: the worker has one; two in the race check that the guards, not the single loop, prevent double claims.
* Requests: a caller that has returned starts again, so one stands for any number of successive ones; two publish requests race.
  In `WorkerFaults` a request names one task or everything (`NoEpisodes`): each clip is its episode's only one, so that a third kind of
  request would repeat the other two. `TaskTable` has all three.
* Capacity one: a second task always meets a full lane. `MaxRestarts` 2: a crash during the scan that follows a crash.
* `MaxDbErrors`, `MaxTrips`, `MaxCrashes`, `MaxStops`, `MaxDeaths` 1: one fault at a time, at every place. `MaxReboots` 2: a
  resume that is itself cut short.
* `ProcessCancelled` in the worker's runs: one of the restarts of *one cancelled* and of *errors*, at any await, with a cancel request, a database
  error or an outage before it; the two other scenarios leave it out, for their two executions multiply with it.
* `MaxRevision` 2, `MaxJobs` 2, `BatchSize` 2: a preview of one revision may end in the other; a preview and a final job, or two of
  a kind, compete for the worker.
* `MaxSubmits` 2: a job that has an attempt left and one that has none. `MaxVersion` 4: a run is paused, resumed and cancelled.
* `FlowNodes`: three nodes give the chain, the fork and the join, each with a disabled node in any place.
* `FloatRounds` 3 in `ProviderHealth`: the cooldown reaches its maximum, and with twelve executions under way a lane trips four times
  in a row, once more than a float can hold the power of two for.
* Three queries in `SessionActor`: one driven, one stashed, one refused.

### Fairness

Each specification states its own; `MCServices` and `MCWorkerScenarios` repeat it for the part that runs.

* Worker: the event loop runs what is runnable (weak fairness of the loop, of started coroutines and of shielded
  writes); `asyncio.Semaphore` is first-in-first-out and lanes are polled in rotation (strong fairness of `Acquire`, `Claim` and
  `Drain`, which others may disable for a while); backends bound their polling (`max_wait`), so `ProviderDone` or `Fail`
  comes; a service that went down is started again.
* Render worker: one asyncio task of a process that is restarted; every ffmpeg run has a timeout.
* Publishing: each worker's loop goes on, and a lease that nobody renews lapses.
* Cost rows: only the start-up (a process that went down is restarted, and its worker's loop goes on until it raises); no process has to go down.
* Workflow runs: the executor's loop outlives a failed tick, and adapters have timeouts. A tick reaches a run only past the older ones, so
  `RunsEnd` is under the assumption `<>[]~ahead`, that from some time on none of them raises.
* Health: time passes. Actor: tasks run and SDK calls return; nothing is assumed of the stream, because a model
  may be silent for ever.

Users, crashes, outages, errors and lapses of a lease that somebody holds on time are not obliged to anything.

`CHECK_DEADLOCK FALSE` in the runs of the table, the worker, `MCServices`, the cost row, the actor and the workflow run: all bounded rows may have
ended, all restarts may be used, the actor may have ended. The render worker never stops, and `Rendering` checks that.

## 4. What is proved

The proofs hold for every value of the constants, from the `ASSUME` of each module alone (naturals; that markers such as `NoProvider` or
`Nothing` are not members of the sets they stand beside; finite sets of publish workers and of workflow nodes; for the worker,
that its loop is the only claimer of the table).

| Module | Invariant | Properties it gives |
|---|---|---|
| `TaskTable_proofs` | `TableInv` (`TableCorrect`); `SignalledIsCancelling` | `TypeOK`, `UniqueActive`, `StartedAfterParent`, `CascadeHasCause`, `TerminalIsFinal`, `CancellingOnlyCancels`, `AttributionIsFinal`, `NoChildLeftQueued`; `ClaimsAreExclusive` if `requeue_running` is not run; the table implements `TaskLifecycle` |
| `GenerationWorker_proofs` | `RowsInv` and `ProcessInv` (`WorkerCorrect`); `SlotInv`; `SubmissionInv`; `AttentionInv` | `WorkerTypeOK`, `PaidAtMostOnce`, `QueuedHasNoExecution`, `SignalFollowsRow`, `RunningIsOwned`, `CapacityRespected`; the table's promises under the worker (`WorkerKeepsTable`); the worker with its table implements `TaskLifecycle` and `GenerationService` |
| `ProviderHealth_proofs` | `HealthInv` (`HealthCorrect`) | `HealthTypeOK`, `CooldownIsKept`; the account implements `LaneCircuit` |
| `SessionActor_proofs` | `ActorInv` (`ActorCorrect`) | `ActorTypeOK`, `AnsweredUnlessTaken`, `DoneReleasesSent`, `OneQueryAtATime`, `AnswerIsFinal` |
| `Publishing_proofs` | `PublishInv` (`PublishCorrect`) | `PublishTypeOK`, `PostsAreCounted`, `OneCallPerLease` |
| `CostLedger_proofs` | `LedgerInv` (`LedgerCorrect`) | `LedgerTypeOK`, `EndedIsSettled`, `SettledIsFinal` |
| `AssemblyRender_proofs` | `RenderInv` (`RenderCorrect`); `RenderingInv` | `RenderTypeOK`, `ApprovalsAreCurrent`; media assembly implements `RenderApproval` |
| `WorkflowRun_proofs` | `FlowInv` (`FlowCorrect`); `FlowIsOrderly` | `FlowTypeOK`, `StopIsHeeded`, `RepeatsAreCounted` |

The findings have theorems of their own. A violation run shows that a statement fails; the theorem says that the step or steps it names are the
only way to lose it, for every instance, so that mending those mends the statement.

| Finding | Theorem | The only ways |
|---|---|---|
| 1, 2 | `CancellingIsLostInTwoWays` | the loop lets go of a claimed row that was cancelled meanwhile; a resumed execution is cancelled before its first step (and a queue call that raises) |
| 3 | `CallersHangInOneWay` | the drive is left by a failing stream, a raising interrupt for a disconnect or an eviction while `cmd_task` holds a command |
| 4 | `OnlyALatePreviewIsStale` | a preview is marked whose plan was revised while it was rendered |
| 5 | `OnlyAFaultStrands`, `StrandedForGood` | a crash or a failed settlement takes the render from a rendering plan; no step of the worker brings it back |
| 6 | `SuccessIsLostInTwoWays` | the start-up settles the row of a resumed call; a task is resumed whose failure is recorded already |
| 7 | `OnlyDisabledNodesLetThrough`, `WithoutDisabledDownstreamBlocks` | a disabled node between the failed one and what is started |

*`TableInv`.* `StartedAfterParent` is not inductive: a claim is two steps, and what the SELECT found must still hold at
the UPDATE. `ClaimsUnblocked` says so of every selected row. It survives because `succeeded` is final, which in turn is a
matter of the status graph: every step but an insertion is a `RowStep`, whose rows move along `Edge`. `SeenUnblocked` says the
same of the rows a cancel request remembers as started. It is what `NoChildLeftQueued` needs: a request skips the rows it saw as started,
and a row put back to `queued` meanwhile would stay behind its cancelled dependency; but what was started has a dependency that has
succeeded, and that one cannot be cancelled. `BlamelessWhileUncancelled` makes `cancelled_by` write-once.
`Contiguous` (rows are numbered without gaps) makes inserted ids fresh. `InsertEffect`, `ClaimEffect`, `CancelEffect` and `EndEffect` say what each
group of calls does; `RowStepKeeps` and `MemoriesKept` carry the invariant over; `DownstreamAmong` and `DownstreamClosed` are the two facts about
cascades (the least closed set is defined without recursion for that purpose). `NoDoubleClaim` rests on `ClaimedHasStarted`: what a claimer holds is not
queued, so the guard of another claim's UPDATE fails on it; an operator's `requeue_running` breaks exactly that.

*`TaskLifecycle`.* One lemma for each group of calls names the lifecycle step it is (`InsertCreates`, `ClaimStarts`, `CancelCancels`, `FailFails`,
`FinalizeCancels`). `SignalledIsCancelling`: what a cancel request remembers as stopped is still cancelling (or cancelled) when
`finalize_cancelling` ends it; `DownstreamCaused`: a cascade takes nothing that is not behind its root.

*`ProcessInv`.* None of the worker's properties is inductive alone. `RowsInv` is what the worker relies on of the table, and `TableMove` says what each of
its steps is for the table: a step of the table's own, or one that forgets what claimers and requests remembered (a crash, an exit, a session that
failed). `MovesForward`
draws from it the one fact used everywhere: a row that left the queue does not come back, unless the loop still holds the claim and returns it. There is no step of
`requeue_running` in the worker's specification, and with one, that fact would be lost.
`ExecutionInv` then says that what is in use (a slot, a shielded write, a payment, a row of the scan) left the queue for good, that an execution
before its submission
has not been paid, and that a signal stands on a row already cancelling, unless the process is `aborting`; it gives `PaidAtMostOnce`, `QueuedHasNoExecution` and `SignalFollowsRow`.
`OwnershipInv` says who answers for a running row in each mode: the scan's list, then the loop's claim, a slot or a pending write. It holds until a queue call
raises (`bounds.dbErrors = 0`), and gives `RunningIsOwned`. `GoesToEffect`, `EndsEffect` and `SignalledEffect` reduce the coroutine's positions to
three ways an execution changes;
`OneWrites`, `OneMoves` and `LoopOnly` reduce a step to the one task it is about.

*`SubmissionInv`.* The refinement of `GenerationService` asks for more than `PaidAtMostOnce`: what is submitted must still be `running`, `cancelling` or
`cancelled` when it is, and what succeeds must have been. So an execution that is yet to submit has a row that has not failed (`Early`), which no write of another
party can change while it has no write of its own under way (`RowFollowsRun`: a started row fails only by its execution's write, the scan, or the loop that
lets go of its claim); and whatever stands behind a success (a position after the submission, the shielded write, a stored job id, a resume) was paid
(`Billed`, `Backed`).

*`AttentionInv`.* While no queue call raises, a row that is running or cancelling is on the list of the scan, held by the loop, has an execution that
will end it or has a write
under way. The difficulty is the hand-over between these: an execution that awaits a shielded write has it under way or was told its count
(`AwaitInv`); a count of one, and
any count of a cancellation, means that the row has ended (`AnswerInv`); hence an execution that returns leaves no row behind. A process that is `aborting`
drops the shielded writes, so the invariant pauses there until the scan of the next start lists the rows again (`AbortingEnds`). The steps without the two of
findings 1 and 2 (`WatchfulNext`) keep it, the two would not.

*`SlotInv`.* There are two gates, and each counts something else: `has_room` at a dispatch looks at all occupants of the lane, the resume dispatcher's
semaphore at the resumed
executions in flight. Added up they could exceed the capacity. They do not because the scan registers everything it resumes as PENDING before the loop's first
dispatch: an occupant that was dispatched had all resumed ones counted before it (`DispatchFits`), and if none was, the semaphore is the limit
(`AcquireFits`, `ScanEndFits`).

*`HealthInv`.* Failures of executions that were under way go on counting while the lane is open; that they and what is in flight together stay within the lane
(`failures + inflight <= BaseCapacity`) bounds the account even after `record_failure` has raised. `CooldownIsKept` needs that a later round never has
a shorter cooldown, that
is, a fact about powers of two. `TwoTo` is a recursive function, and induction over the natural numbers is not among the provers' means:
`SetInduction` derives it from
the pigeonhole theorem of the library (a number outside the set would make the successor an injection into a smaller finite set), and `TwoToDef`
builds the function from its finite beginnings.

*`ActorInv`.* `Accounted`: a command that was asked is answered, queued, or held as `current`, `pending` or by `cmd_task`, and nothing
else is; `OnePlace`: it is in only one of these while it can still be answered, which keeps an answer from being given twice with different
outcomes; `Holding`: which of the three may be occupied at which await. `LoopInv` and `DriveInv` are the two ways a step keeps them: by returning to the
command loop, or within the drive.

*`PublishInv`.* `PostsAreCounted` is not inductive: a call that is about to be made has been counted and not yet posted. `AllCounted` adds the workers in
that place, a finite set whose cardinality the counting lemmas follow from step to step. `LeaseIsHeld` (who was not overtaken holds the row's
lease) gives `OneCallPerLease`. `ContentIsKnown` (a submitted job knows what it is called on the platform) keeps a job that is polled from being
submitted by the way.

*`LedgerInv`.* `finish_call` and the bracket write a row without looking at it, and each write may raise instead. `RowIsMine` makes that harmless: a first execution holds a pending row of its own
process until it settles it, what a bracket that was left says of the row when the task is marked, and that nothing is delivered that was not made; `DownIsQuiet`: until the start-up scan is through, only a direct call has a coroutine, so the start-up settles no row of a call under
way but a resumed one (finding 6).

*`RenderInv`.* `BatchHasAttempts`: what the worker has listed and not claimed has an attempt left, although a retry decided on an earlier read may queue
a job again that has none; hence no claim passes `max_attempts`. `PreviewWasMade`: the plan's `preview_revision` has a rendered preview, whichever revision the late
preview of finding 4 was of. With `ApprovalsAreCurrent` these map every step to a step of `RenderApproval` or a stutter: the two confirmations and the two
successes are its four steps, everything else leaves artifacts and confirmations alone. `AnswerKeeps` and `StepKeeps` reduce each action to what it does to
plan, jobs and worker.

*`RenderingInv`.* Only a claim moves a plan to `rendering`, and the worker never holds another claim or render at that time. Without a fault the run
that began there ends it.
After one, `Runnable` refuses every queued job of a plan that is rendering, which is why finding 5 is for good.

*`FlowInv`.* `SessionFollows`: the executor's session differs from the committed rows only by the nodes it has skipped since its last commit and by the one it is
running. `StopsCount` adds the called nodes whose rows still wait: each was paid for by a tick cut short, save the one being run; it gives `RepeatsAreCounted` by
counting a finite set. `LateIsAfterLook` gives `StopIsHeeded`.

TLC checked each conjunction on its instance before it was proved.

*Only model-checked.* The liveness properties, under the fairness of section 3: `DispatchedEnds`, `EveryTaskEnds`, `InFlightEnds`, `OpenLaneIsProbed`,
`ControlIsAnswered`, `PublishingIsLeft`, `RestartSettles`, `RunsEnd`. The prover has no rules for `ENABLED`, and so none for fairness. Every safety property
of a run is a theorem; `LedgerTypeOK`, `DoneReleasesSent`, `CascadeHasCause`, `TerminalIsFinal` and `CancellingOnlyCancels` are proved without a
run of their own.

## 5. Plan

Done: the table, the worker, provider health, the session actor, renders, publications, cost rows and workflow runs, with proofs of all their
safety properties and of the causes of the findings. In this order next:

1. `GenerationBatch`: submit, cancel and retry of a batch whose row is written back whole, over the abstract queue. A cancel's
   save puts back the task list it read, which a retry may have replaced: the question is what of `test_retry_failed_replaces_only_failed_task_ids` then remains.
2. The budgets of workflow runs: reservations and settlements as read-modify-write of one row; the review gate (`waiting_review`).
3. `EventLog`: sequence numbers and client keys. Capacity reload. Draft promotion, as far as it repays it.

## 6. Not modelled

*Inside the modelled parts.* Of the table: payload, prompt and identity columns and their writes (`persist_execution_identity`, `persist_effective_duration`;
`persist_api_call_id` is in `CostLedger`), task events, list queries, the worker lease (legacy scaffolding of a single-process service, ADR 0065). Of the worker: the
derivation of the provider (a constant per resource), reloading of capacities (constants), lanes configured with capacity zero by the
dispatcher. `PaidAtMostOnce` counts the submissions the worker asks for: a backend's own HTTP retries are outside
(`submit_post` in `lib/video_backends/base.py` does not retry ambiguous failures; some image and audio clients may).
A child enqueued after its dependency has ended unsuccessfully is never claimed; `EveryTaskEnds` therefore speaks of tasks without a
dependency. Of renders: the review of the final artifact, subtitles, progress and paths, a second render worker (the lifespan starts one). Of publications: accounts,
credentials and the time of the next poll. Of cost rows: prices, quantities, statistics. Of workflow runs: outputs, budgets, events, templates, patches and
the editing of revisions; runs are independent of one another save for a tick that fails.

*Other parts.* Most of the repository transforms content or talks to third parties: of its 130,000 lines the models stand for the few thousand that hold the
protocols. Batches, the queue client, terminal events, draft promotion, the event log and server-sent events have small protocols of their own and are planned or
listed with a reason in `PROJECT.json`; the authoring pipeline, backends, configuration, routers, migrations and frontend are not candidates.

## 7. Running

```
tlc -workers 2 -config Services.cfg MCServices
tlapm AssemblyRender_proofs.tla
```

`PROJECT.json` lists the module of every run and of every theorem. The longest run is `WorkerLive` (three to four minutes, for its two
liveness properties); `WorkerFaults` has the most states (0.95 million). The proofs take a few minutes together. For every property, `PROJECT.json`
names a *mutant*: a definition and its mistaken form (the operators under a
comment "Mistake") under which the run finds the property violated.
