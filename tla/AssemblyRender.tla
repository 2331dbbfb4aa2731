--------------------------- MODULE AssemblyRender ---------------------------
(***************************************************************************)
(* One media assembly plan, its render jobs and the background render      *)
(* worker (server/services/media_assembly.py, media_rendering.py and       *)
(* render_worker.py).  The plan row and the job rows are shared by HTTP    *)
(* requests and the worker; no row is locked between a read and the write  *)
(* it leads to.  A request that writes what it computed from an earlier    *)
(* read is two actions, Ask... (the reads and the checks on them) and the  *)
(* write; a request whose single UPDATE repeats every check is one.        *)
(*                                                                         *)
(* The source fingerprint is a function of the revision, so the tests on   *)
(* it are the tests on the revision.                                       *)
(***************************************************************************)
EXTENDS Naturals, Sequences, FiniteSets

CONSTANTS
    Clients,       \* requests that may be in progress at the same time
    MaxRevision,   \* bound: revisions of the plan
    MaxJobs,       \* bound: render jobs created
    MaxAttempts,   \* max_attempts of every job
    BatchSize,     \* batch_size of the worker
    MaxCrashes     \* bound: crashes, hard stops and failed settlements

ASSUME RenderAssumption ==
    /\ MaxRevision \in Nat \ {0}
    /\ MaxJobs \in Nat
    /\ MaxAttempts \in Nat \ {0}
    /\ BatchSize \in Nat \ {0}
    /\ MaxCrashes \in Nat

VARIABLES
    plan,        \* the assembly_plans row
    jobs,        \* the render_jobs rows, by creation order
    artifacts,   \* the render_artifacts rows: kind and revision
    worker,      \* the render worker's place in run_once and what it holds
    reqs,        \* what each request has read and is about to write
    approved,    \* history: revisions whose preview the user confirmed
    ordered,     \* history: revisions whose final render the user confirmed
    crashes      \* crashes so far

renderVars == <<plan, jobs, artifacts, worker, reqs, approved, ordered, crashes>>

-----------------------------------------------------------------------------
Statuses == {"draft", "confirmed", "preview_pending", "preview_ready",
             "render_pending", "rendering", "completed", "stale", "failed"}

Busy == {"preview_pending", "render_pending", "rendering"}

AllowedTransitions ==
    [s \in Statuses |->
        CASE s = "draft"           -> {"confirmed", "stale"}
          [] s = "confirmed"       -> {"draft", "preview_pending", "stale"}
          [] s = "preview_pending" -> {"preview_ready", "failed", "stale"}
          [] s = "preview_ready"   -> {"confirmed", "render_pending", "stale"}
          [] s = "render_pending"  -> {"rendering", "confirmed", "stale"}
          [] s = "rendering"       -> {"completed", "failed", "stale"}
          [] s = "completed"       -> {"draft", "stale"}
          [] s = "stale"           -> {"draft", "confirmed"}
          [] s = "failed"          -> {"draft", "confirmed", "stale"}]

ActiveJobs == {"queued", "running", "cancelling"}
InFlight == {"running", "cancelling"}
JobStatuses == ActiveJobs \cup {"succeeded", "failed", "cancelled"}

\* another row holds the place of (kind, revision) in the unique index
PlaceTaken(kind, rev, own) ==
    \E i \in DOMAIN jobs \ {own} :
        jobs[i].kind = kind /\ jobs[i].rev = rev /\ jobs[i].status \in ActiveJobs

\* the plan still is what a final render of the revision was approved for
FinalGate(rev, statuses) ==
    /\ plan.rev = rev
    /\ plan.previewRev = rev
    /\ plan.previewOk
    /\ plan.renderOk
    /\ plan.status \in statuses

RenderInit ==
    /\ plan = [status |-> "draft", rev |-> 1, previewRev |-> 0,
               previewOk |-> FALSE, renderOk |-> FALSE]
    /\ jobs = <<>>
    /\ artifacts = {}
    /\ worker = [pc |-> "idle", stale |-> {}, batch |-> {}, job |-> 0, seen |-> 0]
    /\ reqs = [c \in Clients |-> [op |-> "none"]]
    /\ approved = {}
    /\ ordered = {}
    /\ crashes = 0

-----------------------------------------------------------------------------
(* Requests *)

Ask(c, r) ==
    /\ reqs[c].op = "none"
    /\ reqs' = [reqs EXCEPT ![c] = r]
    /\ UNCHANGED <<plan, jobs, artifacts, worker, approved, ordered, crashes>>

Answered(c) ==
    /\ reqs' = [reqs EXCEPT ![c] = [op |-> "none"]]
    /\ UNCHANGED <<artifacts, worker, approved, ordered, crashes>>

AskRevision(c) ==
    /\ plan.status \notin Busy
    /\ plan.rev < MaxRevision
    /\ Ask(c, [op |-> "revise", rev |-> plan.rev])

\* Mistake: the approvals of the old revision are kept.
CreateRevisionKeeps(c) ==
    /\ reqs[c].op = "revise"
    /\ plan' = IF plan.rev = reqs[c].rev
               THEN [plan EXCEPT !.status = "draft", !.rev = @ + 1] ELSE plan
    /\ UNCHANGED jobs
    /\ Answered(c)

\* the compare-and-swap is on the revision number only
CreateRevision(c) ==
    /\ reqs[c].op = "revise"
    /\ plan' = IF plan.rev = reqs[c].rev
               THEN [status |-> "draft", rev |-> plan.rev + 1, previewRev |-> 0,
                     previewOk |-> FALSE, renderOk |-> FALSE]
               ELSE plan
    /\ UNCHANGED jobs
    /\ Answered(c)

\* check_stale is this with target "stale", which every other status allows
AskTransition(c, target) ==
    /\ target \in AllowedTransitions[plan.status]
    /\ target \notin {"preview_ready", "render_pending", "rendering"}
    /\ Ask(c, [op |-> "transition", target |-> target])

TransitionPlan(c) ==
    /\ reqs[c].op = "transition"
    /\ plan' = [plan EXCEPT !.status = reqs[c].target]
    /\ UNCHANGED jobs
    /\ Answered(c)

NewJob(kind, rev) ==
    Append(jobs, [kind |-> kind, rev |-> rev, status |-> "queued", attempt |-> 0,
                  owner |-> "none", cancel |-> FALSE])

AskPreviewJob(c) ==
    /\ plan.status = "confirmed"
    /\ ~PlaceTaken("preview", plan.rev, 0)
    /\ Len(jobs) < MaxJobs
    /\ Ask(c, [op |-> "preview", rev |-> plan.rev])

CreatePreviewJob(c) ==
    /\ reqs[c].op = "preview"
    /\ IF PlaceTaken("preview", reqs[c].rev, 0) \/ Len(jobs) = MaxJobs
       THEN UNCHANGED <<plan, jobs>>
       ELSE /\ jobs' = NewJob("preview", reqs[c].rev)
            /\ plan' = [plan EXCEPT !.status = "preview_pending"]
    /\ Answered(c)

AskFinalJob(c) ==
    /\ FinalGate(plan.rev, {"render_pending"})
    /\ ~PlaceTaken("final", plan.rev, 0)
    /\ Len(jobs) < MaxJobs
    /\ Ask(c, [op |-> "final", rev |-> plan.rev])

CreateFinalJob(c) ==
    /\ reqs[c].op = "final"
    /\ jobs' = IF PlaceTaken("final", reqs[c].rev, 0) \/ Len(jobs) = MaxJobs
               THEN jobs ELSE NewJob("final", reqs[c].rev)
    /\ UNCHANGED plan
    /\ Answered(c)

Retryable(i) ==
    /\ jobs[i].status \in {"failed", "cancelled"}
    /\ jobs[i].attempt < MaxAttempts
    /\ plan.rev = jobs[i].rev

\* only the attributes that differ from what was read are written: the owner,
\* NULL in every terminal row, never is
Requeued(c) ==
    LET i == reqs[c].job
    IN [jobs EXCEPT ![i].status = "queued",
                    ![i].cancel = @ /\ ~reqs[c].cancelled]

AskRetryPreview(c, i) ==
    /\ Retryable(i)
    /\ plan.status \in {"preview_pending", "confirmed", "failed"}
    /\ Ask(c, [op |-> "retry_preview", job |-> i, cancelled |-> jobs[i].cancel,
               waits |-> plan.status = "preview_pending"])

\* the job's kind is not looked at
RetryPreviewJob(c) ==
    /\ reqs[c].op = "retry_preview"
    /\ LET i == reqs[c].job
       IN IF PlaceTaken(jobs[i].kind, jobs[i].rev, i)
          THEN UNCHANGED <<plan, jobs>>
          ELSE /\ jobs' = Requeued(c)
               /\ plan' = IF reqs[c].waits THEN plan
                          ELSE [plan EXCEPT !.status = "preview_pending"]
    /\ Answered(c)

AskRetryFinal(c, i) ==
    /\ jobs[i].kind = "final"
    /\ Retryable(i)
    /\ FinalGate(jobs[i].rev, {"failed", "render_pending"})
    /\ Ask(c, [op |-> "retry_final", job |-> i, cancelled |-> jobs[i].cancel])

RetryFinalJob(c) ==
    /\ reqs[c].op = "retry_final"
    /\ LET i == reqs[c].job
       IN IF FinalGate(jobs[i].rev, {"failed", "render_pending"})
             /\ ~PlaceTaken("final", jobs[i].rev, i)
          THEN /\ jobs' = Requeued(c)
               /\ plan' = [plan EXCEPT !.status = "render_pending"]
          ELSE UNCHANGED <<plan, jobs>>
    /\ Answered(c)

-----------------------------------------------------------------------------
(* Requests that are one UPDATE *)

ConfirmPreview ==
    /\ plan.status = "preview_ready"
    /\ plan.previewRev = plan.rev
    /\ plan' = [plan EXCEPT !.previewOk = TRUE]
    /\ approved' = approved \cup {plan.rev}
    /\ UNCHANGED <<jobs, artifacts, worker, reqs, ordered, crashes>>

\* Mistake: the order does not ask for the approved preview.
ConfirmRenderUnseen ==
    /\ plan.status = "preview_ready"
    /\ plan' = [plan EXCEPT !.renderOk = TRUE, !.status = "render_pending"]
    /\ ordered' = ordered \cup {plan.rev}
    /\ UNCHANGED <<jobs, artifacts, worker, reqs, approved, crashes>>

ConfirmRender ==
    /\ plan.status = "preview_ready"
    /\ plan.previewRev = plan.rev
    /\ plan.previewOk
    /\ plan' = [plan EXCEPT !.renderOk = TRUE, !.status = "render_pending"]
    /\ ordered' = ordered \cup {plan.rev}
    /\ UNCHANGED <<jobs, artifacts, worker, reqs, approved, crashes>>

CancelRenderJob(i) ==
    /\ jobs[i].status \in {"queued", "running"}
    /\ jobs' = [jobs EXCEPT ![i].cancel = TRUE,
                            ![i].status = IF jobs[i].owner = "none"
                                          THEN "cancelled" ELSE "cancelling"]
    /\ UNCHANGED <<plan, artifacts, worker, reqs, approved, ordered, crashes>>

-----------------------------------------------------------------------------
(* The worker: run_once *)

WorkerAt(pc) ==
    /\ worker.pc = pc
    /\ UNCHANGED <<reqs, approved, ordered>>

\* Mistake: only running jobs are taken back.
ReclaimReadRunning ==
    /\ WorkerAt("idle")
    /\ worker' = [worker EXCEPT
                    !.pc = "reclaim",
                    !.stale = {<<i, jobs[i].status>> : i \in
                                 {k \in DOMAIN jobs : /\ jobs[k].status = "running"
                                                      /\ jobs[k].owner = "lost"}}]
    /\ UNCHANGED <<plan, jobs, artifacts, crashes>>

\* jobs whose worker stopped reporting, with the status they were read with
ReclaimRead ==
    /\ WorkerAt("idle")
    /\ worker' = [worker EXCEPT
                    !.pc = "reclaim",
                    !.stale = {<<i, jobs[i].status>> : i \in
                                 {k \in DOMAIN jobs : /\ jobs[k].status \in InFlight
                                                      /\ jobs[k].owner = "lost"}}]
    /\ UNCHANGED <<plan, jobs, artifacts, crashes>>

Reclaimed(i, status) ==
    [jobs[i] EXCEPT !.owner = "none",
                    !.status = IF status = "cancelling" THEN "cancelled"
                               ELSE IF jobs[i].attempt >= MaxAttempts THEN "failed"
                               ELSE "queued"]

ReclaimWrite ==
    /\ WorkerAt("reclaim")
    /\ jobs' = [i \in DOMAIN jobs |->
                  IF \E s \in InFlight : <<i, s>> \in worker.stale
                  THEN Reclaimed(i, CHOOSE s \in InFlight : <<i, s>> \in worker.stale)
                  ELSE jobs[i]]
    /\ worker' = [worker EXCEPT !.pc = "scan", !.stale = {}]
    /\ UNCHANGED <<plan, artifacts, crashes>>

Claimable ==
    {i \in DOMAIN jobs : /\ jobs[i].status = "queued"
                         /\ jobs[i].attempt < MaxAttempts
                         /\ jobs[i].owner = "none"}

\* cancelling rows without an owner are settled, then the oldest jobs are listed
Scan ==
    /\ WorkerAt("scan")
    /\ jobs' = [i \in DOMAIN jobs |->
                  IF jobs[i].status = "cancelling" /\ jobs[i].owner = "none"
                  THEN [jobs[i] EXCEPT !.status = "cancelled"] ELSE jobs[i]]
    /\ worker' = [worker EXCEPT
                    !.pc = "batch",
                    !.batch = {i \in Claimable :
                                 Cardinality({k \in Claimable : k < i}) < BatchSize}]
    /\ UNCHANGED <<plan, artifacts, crashes>>

Runnable(i) ==
    /\ jobs[i].status = "queued"
    /\ IF jobs[i].kind = "final"
       THEN FinalGate(jobs[i].rev, {"render_pending"})
       ELSE plan.rev = jobs[i].rev /\ plan.status = "preview_pending"

Drop(i) == [worker EXCEPT !.pc = "batch", !.batch = @ \ {i}, !.job = 0, !.seen = 0]

\* the plan the preview run keeps is the one read here, before the claim
Peek(i) ==
    /\ WorkerAt("batch")
    /\ i \in worker.batch
    /\ \A k \in worker.batch : i <= k
    /\ worker' = IF Runnable(i)
                 THEN [worker EXCEPT !.pc = "claim", !.job = i, !.seen = plan.previewRev]
                 ELSE Drop(i)
    /\ UNCHANGED <<plan, jobs, artifacts, crashes>>

BatchDone ==
    /\ WorkerAt("batch")
    /\ worker.batch = {}
    /\ worker' = [worker EXCEPT !.pc = "idle"]
    /\ UNCHANGED <<plan, jobs, artifacts, crashes>>

Claim ==
    /\ WorkerAt("claim")
    /\ LET i == worker.job
       IN IF /\ jobs[i].status = "queued"
             /\ jobs[i].kind = "final" => FinalGate(jobs[i].rev, {"render_pending"})
          THEN /\ jobs' = [jobs EXCEPT ![i].status = "running",
                                       ![i].attempt = @ + 1,
                                       ![i].owner = "live"]
               /\ plan' = IF jobs[i].kind = "final"
                          THEN [plan EXCEPT !.status = "rendering"] ELSE plan
               /\ worker' = [worker EXCEPT !.pc = "run"]
          ELSE /\ worker' = Drop(i)
               /\ UNCHANGED <<plan, jobs>>
    /\ UNCHANGED <<artifacts, crashes>>

Ends(status) ==
    jobs' = [jobs EXCEPT ![worker.job].status = status, ![worker.job].owner = "none"]

\* the plan moves only from where the job put it
PlanMoves(from, to) ==
    plan' = IF plan.status = from /\ plan.rev = jobs[worker.job].rev
            THEN [plan EXCEPT !.status = to] ELSE plan

\* mark_preview_ready checks, and writes over, the plan read before the claim
PreviewSucceeds ==
    /\ WorkerAt("run")
    /\ jobs[worker.job].kind = "preview"
    /\ LET rev == jobs[worker.job].rev
       IN /\ artifacts' = artifacts \cup {[kind |-> "preview", rev |-> rev]}
          /\ plan' = [plan EXCEPT
                        !.status = "preview_ready",
                        !.previewRev = IF worker.seen = rev THEN @ ELSE rev]
    /\ Ends("succeeded")
    /\ worker' = Drop(worker.job)
    /\ UNCHANGED crashes

FinalSucceeds ==
    /\ WorkerAt("run")
    /\ jobs[worker.job].kind = "final"
    /\ IF plan.status = "rendering" /\ plan.rev = jobs[worker.job].rev
       THEN /\ artifacts' = artifacts \cup {[kind |-> "final", rev |-> plan.rev]}
            /\ Ends("succeeded")
       ELSE UNCHANGED artifacts /\ Ends("failed")
    /\ PlanMoves("rendering", "completed")
    /\ worker' = Drop(worker.job)
    /\ UNCHANGED crashes

\* Mistake: the spelling the publish jobs use.
RenderCanceled ==
    /\ WorkerAt("run")
    /\ jobs[worker.job].cancel
    /\ Ends("canceled")
    /\ PlanMoves("rendering", "render_pending")
    /\ worker' = Drop(worker.job)
    /\ UNCHANGED <<artifacts, crashes>>

RenderCancelled ==
    /\ WorkerAt("run")
    /\ jobs[worker.job].cancel
    /\ Ends("cancelled")
    /\ IF jobs[worker.job].kind = "final"
       THEN PlanMoves("rendering", "render_pending")
       ELSE PlanMoves("preview_pending", "confirmed")
    /\ worker' = Drop(worker.job)
    /\ UNCHANGED <<artifacts, crashes>>

RenderFails ==
    /\ WorkerAt("run")
    /\ Ends("failed")
    /\ IF jobs[worker.job].kind = "final"
       THEN PlanMoves("rendering", "failed") ELSE UNCHANGED plan
    /\ worker' = Drop(worker.job)
    /\ UNCHANGED <<artifacts, crashes>>

-----------------------------------------------------------------------------
(* Faults *)

Lost ==
    [i \in DOMAIN jobs |->
        IF jobs[i].owner = "live" THEN [jobs[i] EXCEPT !.owner = "lost"] ELSE jobs[i]]

\* the process dies, or stop() runs out of time: the row stays running and its
\* heartbeat stops; the next process has a new worker id
Crash ==
    /\ crashes < MaxCrashes
    /\ worker.pc # "down"
    /\ crashes' = crashes + 1
    /\ jobs' = Lost
    /\ reqs' = [c \in Clients |-> [op |-> "none"]]
    /\ worker' = [pc |-> "down", stale |-> {}, batch |-> {}, job |-> 0, seen |-> 0]
    /\ UNCHANGED <<plan, artifacts, approved, ordered>>

Restart ==
    /\ WorkerAt("down")
    /\ worker' = [worker EXCEPT !.pc = "idle"]
    /\ UNCHANGED <<plan, jobs, artifacts, crashes>>

\* the write that settles the job fails: the exception is logged, the heartbeat
\* task ends and the worker goes on with the batch
SettleFails ==
    /\ WorkerAt("run")
    /\ crashes < MaxCrashes
    /\ crashes' = crashes + 1
    /\ jobs' = Lost
    /\ worker' = Drop(worker.job)
    /\ UNCHANGED <<plan, artifacts>>

-----------------------------------------------------------------------------
Request(c) ==
    \/ AskRevision(c) \/ CreateRevision(c)
    \/ \E t \in Statuses : AskTransition(c, t)
    \/ TransitionPlan(c)
    \/ AskPreviewJob(c) \/ CreatePreviewJob(c)
    \/ AskFinalJob(c) \/ CreateFinalJob(c)
    \/ \E i \in DOMAIN jobs : AskRetryPreview(c, i) \/ AskRetryFinal(c, i)
    \/ RetryPreviewJob(c) \/ RetryFinalJob(c)

WorkerStep ==
    \/ ReclaimRead \/ ReclaimWrite \/ Scan
    \/ \E i \in DOMAIN jobs : Peek(i)
    \/ BatchDone \/ Claim
    \/ PreviewSucceeds \/ FinalSucceeds \/ RenderCancelled \/ RenderFails
    \/ Restart

RenderNext ==
    \/ worker.pc # "down" /\ \E c \in Clients : Request(c)
    \/ worker.pc # "down" /\ (ConfirmPreview \/ ConfirmRender)
    \/ worker.pc # "down" /\ \E i \in DOMAIN jobs : CancelRenderJob(i)
    \/ WorkerStep
    \/ Crash \/ SettleFails

RenderSpec == RenderInit /\ [][RenderNext]_renderVars

\* the worker is one asyncio task of a process the deployment restarts, and a
\* render ends: every ffmpeg run has a timeout
FairRenderSpec == RenderSpec /\ WF_renderVars(WorkerStep)

-----------------------------------------------------------------------------
Revisions == 1..MaxRevision

Requests ==
    [op : {"none"}]
    \cup [op : {"revise"}, rev : 1 .. MaxRevision - 1]
    \cup [op : {"preview", "final"}, rev : Revisions]
    \cup [op : {"transition"},
          target : Statuses \ {"preview_ready", "render_pending", "rendering"}]
    \cup [op : {"retry_preview"}, job : DOMAIN jobs, cancelled : BOOLEAN, waits : BOOLEAN]
    \cup [op : {"retry_final"}, job : DOMAIN jobs, cancelled : BOOLEAN]

PlanRows == [status : Statuses, rev : Revisions, previewRev : 0..MaxRevision,
             previewOk : BOOLEAN, renderOk : BOOLEAN]

JobRows == [kind : {"preview", "final"}, rev : Revisions, status : JobStatuses,
            attempt : 0..MaxAttempts, owner : {"none", "live", "lost"}, cancel : BOOLEAN]

WorkerStates == [pc : {"idle", "reclaim", "scan", "batch", "claim", "run", "down"},
                 stale : SUBSET ((DOMAIN jobs) \X InFlight), batch : SUBSET DOMAIN jobs,
                 job : {0} \cup DOMAIN jobs, seen : 0..MaxRevision]

\* Types, the attempt limit of a job among them: no claim goes past it.
RenderTypeOK ==
    /\ plan \in PlanRows
    /\ jobs \in Seq(JobRows) /\ Len(jobs) <= MaxJobs
    /\ artifacts \subseteq [kind : {"preview", "final"}, rev : Revisions]
    /\ worker \in WorkerStates
    /\ reqs \in [Clients -> Requests]
    /\ approved \subseteq Revisions /\ ordered \subseteq Revisions
    /\ crashes \in 0..MaxCrashes

\* Confirmations belong to the plan's current revision: whatever the interleaving
\* of a new revision, a late preview and the confirmations, neither flag is
\* carried over from the revision it was given for (advance_revision,
\* create_revision, confirm_preview, confirm_render).
ApprovalsAreCurrent ==
    /\ plan.previewOk => plan.rev \in approved
    /\ plan.renderOk => plan.rev \in ordered
    /\ plan.status \in {"render_pending", "rendering"} =>
           plan.renderOk /\ plan.previewOk /\ plan.previewRev = plan.rev

Made(kind) == {r \in Revisions : [kind |-> kind, rev |-> r] \in artifacts}

Approval == INSTANCE RenderApproval
                WITH previewed <- Made("preview"), rendered <- Made("final")

\* The plan, its jobs and the worker implement the gate: no final video exists
\* of a revision whose preview was not made, approved and then ordered, with
\* retries, cancellations, stale reads and crashes at any point.
FollowsApproval == Approval!ApprovalSpec

JobIs(i, statuses) == i \in DOMAIN jobs /\ jobs[i].status \in statuses

\* A claimed job does not stay in flight: it ends, or a restarted worker takes
\* it back (reclaim_stale_jobs), however often it is cancelled or the process dies.
InFlightEnds ==
    \A i \in 1..MaxJobs : JobIs(i, InFlight) ~> ~JobIs(i, InFlight)

\* A preview is marked ready "for exactly one immutable revision"
\* (mark_preview_ready, media_assembly.py:363): the plan's ready preview is one
\* of the plan's current revision.
ReadyPreviewIsCurrent ==
    plan.status = "preview_ready" => plan.previewRev = plan.rev

\* A stale running job "returns to the queue unless it already burned every
\* attempt, in which case it fails loudly" (reclaim_stale_jobs,
\* render_repository.py:109-111): a job nobody cancels whose worker is lost is
\* run again and ends, unless the user moves the plan away from it.
ReclaimedJobEnds ==
    \A i \in 1..MaxJobs :
        (JobIs(i, InFlight) /\ jobs[i].owner = "lost" /\ ~jobs[i].cancel)
            ~> (JobIs(i, {"succeeded", "failed", "cancelled"}) \/ plan.status # "rendering")

=============================================================================
