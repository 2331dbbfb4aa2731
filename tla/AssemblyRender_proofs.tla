------------------------ MODULE AssemblyRender_proofs ------------------------
(***************************************************************************)
(* Proofs about AssemblyRender, for any number of clients, revisions, jobs *)
(* and crashes: its types, that confirmations belong to the current        *)
(* revision, that it implements RenderApproval, and what exactly is behind *)
(* a stale preview and a plan that stays in rendering.                     *)
(***************************************************************************)
EXTENDS AssemblyRender, TLAPS

\* The worker only holds jobs that exist, and each it has not claimed has an
\* attempt left: a retry decided on an earlier read may queue a job again that
\* has none, but not while the worker has it listed.
BatchHasAttempts ==
    /\ \A i \in worker.batch :
         jobs[i].attempt < MaxAttempts \/ (worker.pc = "run" /\ i = worker.job)
    /\ worker.pc \in {"claim", "run"} => worker.job \in worker.batch

\* The plan's preview has been rendered, whichever revision it is of.
PreviewWasMade ==
    plan.previewRev # 0 => [kind |-> "preview", rev |-> plan.previewRev] \in artifacts

\* The inductive invariant.
RenderInv == RenderTypeOK /\ BatchHasAttempts /\ PreviewWasMade /\ ApprovalsAreCurrent

-----------------------------------------------------------------------------
(* Sequences *)

LEMMA SeqOfValues ==
    ASSUME NEW S, NEW s \in Seq(S), NEW f, f = [i \in DOMAIN s |-> f[i]],
           \A i \in DOMAIN s : f[i] \in S
    PROVE  f \in Seq(S) /\ Len(f) = Len(s) /\ DOMAIN f = DOMAIN s
<1>1. DOMAIN s = 1 .. Len(s) /\ Len(s) \in Nat
  OBVIOUS
<1>2. f \in [1 .. Len(s) -> S]
  BY <1>1
<1> QED
  BY <1>1, <1>2

LEMMA SeqExcept ==
    ASSUME NEW S, NEW s \in Seq(S), NEW i \in DOMAIN s, NEW e \in S
    PROVE  LET f == [s EXCEPT ![i] = e]
           IN f \in Seq(S) /\ Len(f) = Len(s) /\ DOMAIN f = DOMAIN s
OBVIOUS

LEMMA JobDomain ==
    ASSUME RenderTypeOK
    PROVE  /\ DOMAIN jobs = 1 .. Len(jobs)
           /\ Len(jobs) \in Nat
           /\ \A i \in DOMAIN jobs : jobs[i] \in JobRows
BY DEF RenderTypeOK

\* Jobs are never deleted, so what refers to one goes on doing so.
LEMMA ReferencesLast ==
    ASSUME RenderTypeOK, DOMAIN jobs \subseteq DOMAIN jobs'
    PROVE  WorkerStates \subseteq WorkerStates' /\ Requests \subseteq Requests'
BY DEF WorkerStates, Requests

\* A request or a step of the worker that rewrites rows of the two tables, and
\* touches no job's attempts, keeps the types and what the worker holds.
LEMMA RowsKeep ==
    ASSUME RenderInv,
           plan' \in PlanRows,
           jobs' \in Seq(JobRows), Len(jobs') <= MaxJobs,
           DOMAIN jobs \subseteq DOMAIN jobs',
           \A i \in DOMAIN jobs : jobs'[i].attempt = jobs[i].attempt,
           reqs' \in [Clients -> Requests'],
           UNCHANGED <<artifacts, worker, crashes>>,
           approved' \subseteq Revisions, ordered' \subseteq Revisions
    PROVE  RenderTypeOK' /\ BatchHasAttempts'
<1>1. worker' \in WorkerStates'
  BY ReferencesLast DEF RenderInv, RenderTypeOK
<1>2. RenderTypeOK'
  BY <1>1 DEF RenderInv, RenderTypeOK, Revisions
<1>3. \A i \in worker.batch : i \in DOMAIN jobs
  BY DEF RenderInv, RenderTypeOK, WorkerStates
<1>4. BatchHasAttempts'
  BY <1>3 DEF RenderInv, BatchHasAttempts
<1> QED
  BY <1>2, <1>4

\* The plan moves without its revision, its preview or its confirmations, and
\* into the final render only through the gate.
LEMMA PlanMoveKeeps ==
    ASSUME RenderInv, NEW s \in Statuses,
           plan' = [plan EXCEPT !.status = s],
           s \in {"render_pending", "rendering"} => FinalGate(plan.rev, Statuses),
           approved' = approved, ordered' = ordered, artifacts \subseteq artifacts'
    PROVE  /\ plan' \in PlanRows
           /\ ApprovalsAreCurrent' /\ PreviewWasMade'
<1>1. /\ plan'.rev = plan.rev /\ plan'.previewRev = plan.previewRev
      /\ plan'.previewOk = plan.previewOk /\ plan'.renderOk = plan.renderOk
      /\ plan'.status = s /\ plan' \in PlanRows
  BY DEF RenderInv, RenderTypeOK, PlanRows
<1>2. ApprovalsAreCurrent'
  BY <1>1 DEF RenderInv, ApprovalsAreCurrent, FinalGate
<1>3. PreviewWasMade'
  BY <1>1 DEF RenderInv, PreviewWasMade
<1> QED
  BY <1>1, <1>2, <1>3

LEMMA PlanStays ==
    ASSUME RenderInv, plan' = plan,
           approved' = approved, ordered' = ordered, artifacts \subseteq artifacts'
    PROVE  plan' \in PlanRows /\ ApprovalsAreCurrent' /\ PreviewWasMade'
BY DEF RenderInv, RenderTypeOK, ApprovalsAreCurrent, PreviewWasMade

-----------------------------------------------------------------------------
(* Requests *)

LEMMA AskKeeps ==
    ASSUME RenderInv, NEW c \in Clients, NEW r \in Requests, Ask(c, r)
    PROVE  RenderInv'
<1>1. reqs' \in [Clients -> Requests'] /\ UNCHANGED <<plan, jobs, artifacts, worker, approved, ordered, crashes>>
  BY DEF Ask, RenderInv, RenderTypeOK, Requests
<1>2. RenderTypeOK' /\ BatchHasAttempts'
  BY <1>1, RowsKeep DEF RenderInv, RenderTypeOK
<1>3. ApprovalsAreCurrent' /\ PreviewWasMade'
  BY <1>1, PlanStays
<1> QED
  BY <1>2, <1>3 DEF RenderInv

\* What a request in progress has read.
LEMMA RequestIs ==
    ASSUME RenderTypeOK, NEW c \in Clients
    PROVE  /\ reqs[c].op = "revise" => reqs[c].rev \in 1 .. MaxRevision - 1
           /\ reqs[c].op \in {"preview", "final"} => reqs[c].rev \in Revisions
           /\ reqs[c].op = "transition" =>
                  /\ reqs[c].target \in Statuses
                  /\ reqs[c].target \notin {"render_pending", "rendering"}
           /\ reqs[c].op \in {"retry_preview", "retry_final"} =>
                  reqs[c].job \in DOMAIN jobs /\ reqs[c].cancelled \in BOOLEAN
BY DEF RenderTypeOK, Requests

LEMMA AnsweredRequests ==
    ASSUME RenderTypeOK, NEW c \in Clients, Answered(c), DOMAIN jobs \subseteq DOMAIN jobs'
    PROVE  /\ reqs' \in [Clients -> Requests']
           /\ UNCHANGED <<artifacts, worker, approved, ordered, crashes>>
<1>1. [op |-> "none"] \in Requests'
  BY DEF Requests
<1> QED
  BY <1>1, ReferencesLast DEF Answered, RenderTypeOK

\* An answer that leaves the jobs' attempts alone keeps the invariant if what it
\* does to the plan does.
LEMMA AnswerKeeps ==
    ASSUME RenderInv, NEW c \in Clients, Answered(c),
           jobs' \in Seq(JobRows), Len(jobs') <= MaxJobs, DOMAIN jobs \subseteq DOMAIN jobs',
           \A i \in DOMAIN jobs : jobs'[i].attempt = jobs[i].attempt,
           plan' \in PlanRows, ApprovalsAreCurrent', PreviewWasMade'
    PROVE  RenderInv'
<1>1. RenderTypeOK' /\ BatchHasAttempts'
  BY AnsweredRequests, RowsKeep DEF RenderInv, RenderTypeOK
<1> QED
  BY <1>1 DEF RenderInv

LEMMA NewJobKeeps ==
    ASSUME RenderInv, NEW kind \in {"preview", "final"}, NEW rev \in Revisions,
           Len(jobs) # MaxJobs, jobs' = NewJob(kind, rev)
    PROVE  /\ jobs' \in Seq(JobRows) /\ Len(jobs') <= MaxJobs
           /\ DOMAIN jobs \subseteq DOMAIN jobs'
           /\ \A i \in DOMAIN jobs : jobs'[i].attempt = jobs[i].attempt
<1> DEFINE row == [kind |-> kind, rev |-> rev, status |-> "queued", attempt |-> 0,
                   owner |-> "none", cancel |-> FALSE]
<1>1. row \in JobRows
  BY RenderAssumption DEF JobRows, JobStatuses, ActiveJobs
<1>2. jobs \in Seq(JobRows) /\ Len(jobs) <= MaxJobs /\ jobs' = Append(jobs, row)
  BY DEF RenderInv, RenderTypeOK, NewJob
<1> HIDE DEF row
<1>3. jobs' \in Seq(JobRows) /\ Len(jobs') = Len(jobs) + 1
      /\ \A i \in 1 .. Len(jobs) : jobs'[i] = jobs[i]
  BY <1>1, <1>2
<1> QED
  BY <1>2, <1>3, RenderAssumption

LEMMA RequeueKeeps ==
    ASSUME RenderInv, NEW c \in Clients, reqs[c].op \in {"retry_preview", "retry_final"},
           jobs' = Requeued(c)
    PROVE  /\ jobs' \in Seq(JobRows) /\ Len(jobs') <= MaxJobs
           /\ DOMAIN jobs \subseteq DOMAIN jobs'
           /\ \A i \in DOMAIN jobs : jobs'[i].attempt = jobs[i].attempt
<1> DEFINE i == reqs[c].job
           row == [jobs[i] EXCEPT !.status = "queued",
                                  !.cancel = @ /\ ~reqs[c].cancelled]
<1>1. jobs \in Seq(JobRows) /\ i \in DOMAIN jobs
  BY RequestIs DEF RenderInv, RenderTypeOK
<1>2. jobs' = [jobs EXCEPT ![i] = row]
  BY <1>1 DEF Requeued
<1>3. jobs[i] \in JobRows
  BY <1>1, JobDomain DEF RenderInv
<1>4. row \in JobRows /\ row.attempt = jobs[i].attempt
  BY <1>3 DEF JobRows, JobStatuses, ActiveJobs
<1> HIDE DEF i, row
<1>5. jobs' \in Seq(JobRows) /\ Len(jobs') = Len(jobs) /\ DOMAIN jobs' = DOMAIN jobs
  BY <1>1, <1>2, <1>4, SeqExcept
<1>6. \A k \in DOMAIN jobs : jobs'[k].attempt = jobs[k].attempt
  BY <1>1, <1>2, <1>4
<1> QED
  BY <1>5, <1>6 DEF RenderInv, RenderTypeOK

LEMMA RequestKeeps ==
    ASSUME RenderInv, NEW c \in Clients, Request(c)
    PROVE  RenderInv'
<1> USE DEF RenderInv
<1>0. plan \in PlanRows /\ plan.rev \in Revisions /\ plan.status \in Statuses
  BY DEF RenderTypeOK, PlanRows
<1>u. ASSUME Answered(c) PROVE approved' = approved /\ ordered' = ordered /\ artifacts' = artifacts
  BY <1>u DEF Answered
<1>j. ASSUME jobs' = jobs
      PROVE  /\ jobs' \in Seq(JobRows) /\ Len(jobs') <= MaxJobs
             /\ DOMAIN jobs \subseteq DOMAIN jobs'
             /\ \A i \in DOMAIN jobs : jobs'[i].attempt = jobs[i].attempt
  BY <1>j DEF RenderTypeOK
<1>1. CASE AskRevision(c) \/ AskPreviewJob(c) \/ AskFinalJob(c)
  <2>1. PICK op \in {"revise", "preview", "final"} :
          Ask(c, [op |-> op, rev |-> plan.rev]) /\ (op = "revise" => plan.rev < MaxRevision)
    BY <1>1 DEF AskRevision, AskPreviewJob, AskFinalJob
  <2>2. op = "revise" => plan.rev \in 1 .. MaxRevision - 1
    BY <1>0, <2>1, RenderAssumption DEF Revisions
  <2>3. [op |-> op, rev |-> plan.rev] \in Requests
    BY <1>0, <2>2 DEF Requests
  <2> QED
    BY <2>1, <2>3, AskKeeps
<1>2. ASSUME NEW t \in Statuses, AskTransition(c, t) PROVE RenderInv'
  <2>1. [op |-> "transition", target |-> t] \in Requests
    BY <1>2 DEF AskTransition, Requests
  <2> QED
    BY <1>2, <2>1, AskKeeps DEF AskTransition
<1>3. ASSUME NEW i \in DOMAIN jobs, AskRetryPreview(c, i) PROVE RenderInv'
  <2> DEFINE r == [op |-> "retry_preview", job |-> i, cancelled |-> jobs[i].cancel,
                   waits |-> plan.status = "preview_pending"]
  <2>1. jobs[i].cancel \in BOOLEAN /\ (plan.status = "preview_pending") \in BOOLEAN
    BY JobDomain DEF JobRows
  <2>2. r \in Requests
    BY <2>1 DEF Requests
  <2> QED
    BY <1>3, <2>2, AskKeeps DEF AskRetryPreview
<1>4. ASSUME NEW i \in DOMAIN jobs, AskRetryFinal(c, i) PROVE RenderInv'
  <2>1. jobs[i].cancel \in BOOLEAN
    BY JobDomain DEF JobRows
  <2>2. [op |-> "retry_final", job |-> i, cancelled |-> jobs[i].cancel] \in Requests
    BY <2>1 DEF Requests
  <2> QED
    BY <1>4, <2>2, AskKeeps DEF AskRetryFinal
<1>5. CASE TransitionPlan(c)
  <2>1. /\ Answered(c) /\ jobs' = jobs
        /\ reqs[c].target \in Statuses \ {"render_pending", "rendering"}
        /\ plan' = [plan EXCEPT !.status = reqs[c].target]
    BY <1>5, RequestIs DEF TransitionPlan
  <2> QED
    BY <2>1, <1>u, <1>j, PlanMoveKeeps, AnswerKeeps
<1>6. CASE CreateRevision(c)
  <2>1. Answered(c) /\ jobs' = jobs
    BY <1>6 DEF CreateRevision
  <2>2. CASE plan.rev # reqs[c].rev
    BY <2>1, <2>2, <1>6, <1>u, <1>j, PlanStays, AnswerKeeps DEF CreateRevision
  <2>3. CASE plan.rev = reqs[c].rev
    <3>1. plan.rev \in 1 .. MaxRevision - 1
      BY <1>6, <2>3, RequestIs DEF CreateRevision
    <3>2. plan' = [status |-> "draft", rev |-> plan.rev + 1, previewRev |-> 0,
                   previewOk |-> FALSE, renderOk |-> FALSE]
      BY <1>6, <2>3 DEF CreateRevision
    <3>3. plan' \in PlanRows
      BY <3>1, <3>2, RenderAssumption DEF PlanRows, Revisions, Statuses
    <3>4. ApprovalsAreCurrent' /\ PreviewWasMade'
      BY <3>2 DEF ApprovalsAreCurrent, PreviewWasMade
    <3> QED
      BY <2>1, <1>j, <3>3, <3>4, AnswerKeeps
  <2> QED
    BY <2>2, <2>3
<1>7. CASE CreatePreviewJob(c)
  <2>1. Answered(c) /\ reqs[c].rev \in Revisions
    BY <1>7, RequestIs DEF CreatePreviewJob
  <2>2. CASE UNCHANGED <<plan, jobs>>
    BY <2>1, <2>2, <1>u, <1>j, PlanStays, AnswerKeeps
  <2>3. CASE /\ Len(jobs) # MaxJobs
             /\ jobs' = NewJob("preview", reqs[c].rev)
             /\ plan' = [plan EXCEPT !.status = "preview_pending"]
    BY <2>1, <2>3, <1>u, NewJobKeeps, PlanMoveKeeps, AnswerKeeps DEF Statuses
  <2> QED
    BY <1>7, <2>2, <2>3 DEF CreatePreviewJob
<1>8. CASE CreateFinalJob(c)
  <2>1. Answered(c) /\ reqs[c].rev \in Revisions /\ plan' = plan
    BY <1>8, RequestIs DEF CreateFinalJob
  <2>2. CASE jobs' = jobs
    BY <2>1, <2>2, <1>u, <1>j, PlanStays, AnswerKeeps
  <2>3. CASE Len(jobs) # MaxJobs /\ jobs' = NewJob("final", reqs[c].rev)
    BY <2>1, <2>3, <1>u, NewJobKeeps, PlanStays, AnswerKeeps
  <2> QED
    BY <1>8, <2>2, <2>3 DEF CreateFinalJob
<1>9. CASE RetryPreviewJob(c)
  <2>1. Answered(c) /\ reqs[c].op \in {"retry_preview", "retry_final"}
    BY <1>9 DEF RetryPreviewJob
  <2>2. CASE UNCHANGED <<plan, jobs>>
    BY <2>1, <2>2, <1>u, <1>j, PlanStays, AnswerKeeps
  <2>3. CASE jobs' = Requeued(c) /\ plan' = plan
    BY <2>1, <2>3, <1>u, RequeueKeeps, PlanStays, AnswerKeeps
  <2>4. CASE jobs' = Requeued(c) /\ plan' = [plan EXCEPT !.status = "preview_pending"]
    BY <2>1, <2>4, <1>u, RequeueKeeps, PlanMoveKeeps, AnswerKeeps DEF Statuses
  <2> QED
    BY <1>9, <2>2, <2>3, <2>4 DEF RetryPreviewJob
<1>10. CASE RetryFinalJob(c)
  <2>1. Answered(c) /\ reqs[c].op \in {"retry_preview", "retry_final"}
    BY <1>10 DEF RetryFinalJob
  <2>2. CASE UNCHANGED <<plan, jobs>>
    BY <2>1, <2>2, <1>u, <1>j, PlanStays, AnswerKeeps
  <2>3. CASE /\ FinalGate(jobs[reqs[c].job].rev, {"failed", "render_pending"})
             /\ jobs' = Requeued(c)
             /\ plan' = [plan EXCEPT !.status = "render_pending"]
    <3>1. FinalGate(plan.rev, Statuses)
      BY <2>3 DEF FinalGate, Statuses
    <3> QED
      BY <2>1, <2>3, <3>1, <1>u, RequeueKeeps, PlanMoveKeeps, AnswerKeeps DEF Statuses
  <2> QED
    BY <1>10, <2>2, <2>3 DEF RetryFinalJob
<1> QED
  BY <1>1, <1>2, <1>3, <1>4, <1>5, <1>6, <1>7, <1>8, <1>9, <1>10 DEF Request

-----------------------------------------------------------------------------
(* Requests that are one UPDATE *)

LEMMA ConfirmKeeps ==
    ASSUME RenderInv, ConfirmPreview \/ ConfirmRender
    PROVE  RenderInv'
<1> USE DEF RenderInv
<1>0. plan \in PlanRows /\ plan.rev \in Revisions
  BY DEF RenderTypeOK, PlanRows
<1>1. CASE ConfirmPreview
  <2>1. UNCHANGED <<jobs, artifacts, worker, reqs, ordered, crashes>>
        /\ approved' = approved \cup {plan.rev}
        /\ plan' = [plan EXCEPT !.previewOk = TRUE]
    BY <1>1 DEF ConfirmPreview
  <2>2. plan' \in PlanRows /\ plan'.rev = plan.rev /\ plan'.previewRev = plan.previewRev
        /\ plan'.status = plan.status /\ plan'.previewOk /\ plan'.renderOk = plan.renderOk
    BY <1>0, <2>1 DEF PlanRows
  <2>3. ApprovalsAreCurrent' /\ PreviewWasMade'
    BY <2>1, <2>2 DEF ApprovalsAreCurrent, PreviewWasMade
  <2>4. RenderTypeOK' /\ BatchHasAttempts'
    BY <1>0, <2>1, <2>2, RowsKeep DEF RenderTypeOK, Requests
  <2> QED
    BY <2>3, <2>4
<1>2. CASE ConfirmRender
  <2>1. UNCHANGED <<jobs, artifacts, worker, reqs, approved, crashes>>
        /\ ordered' = ordered \cup {plan.rev}
        /\ plan' = [plan EXCEPT !.renderOk = TRUE, !.status = "render_pending"]
        /\ plan.previewOk /\ plan.previewRev = plan.rev
    BY <1>2 DEF ConfirmRender
  <2>2. plan' \in PlanRows /\ plan'.rev = plan.rev /\ plan'.previewRev = plan.previewRev
        /\ plan'.status = "render_pending" /\ plan'.renderOk /\ plan'.previewOk = plan.previewOk
    BY <1>0, <2>1 DEF PlanRows, Statuses
  <2>3. ApprovalsAreCurrent' /\ PreviewWasMade'
    BY <2>1, <2>2 DEF ApprovalsAreCurrent, PreviewWasMade
  <2>4. RenderTypeOK' /\ BatchHasAttempts'
    BY <1>0, <2>1, <2>2, RowsKeep DEF RenderTypeOK, Requests
  <2> QED
    BY <2>3, <2>4
<1> QED
  BY <1>1, <1>2

\* One row's status, owner or request to cancel is rewritten.
LEMMA RowRewritten ==
    ASSUME RenderInv, NEW i \in DOMAIN jobs, NEW status \in JobStatuses,
           NEW owner \in {"none", "live", "lost"}, NEW cancel \in BOOLEAN,
           NEW attempt \in 0..MaxAttempts,
           jobs' = [jobs EXCEPT ![i] = [@ EXCEPT !.status = status, !.owner = owner,
                                                 !.cancel = cancel, !.attempt = attempt]]
    PROVE  /\ jobs' \in Seq(JobRows) /\ Len(jobs') <= MaxJobs /\ DOMAIN jobs' = DOMAIN jobs
           /\ jobs'[i].attempt = attempt
           /\ \A k \in DOMAIN jobs \ {i} : jobs'[k] = jobs[k]
<1> DEFINE row == [jobs[i] EXCEPT !.status = status, !.owner = owner,
                                  !.cancel = cancel, !.attempt = attempt]
<1>1. jobs \in Seq(JobRows) /\ Len(jobs) <= MaxJobs /\ jobs[i] \in JobRows
  BY JobDomain DEF RenderInv, RenderTypeOK
<1>2. row \in JobRows /\ row.attempt = attempt
  BY <1>1 DEF JobRows
<1>3. jobs' = [jobs EXCEPT ![i] = row]
  OBVIOUS
<1> HIDE DEF row
<1>4. jobs' \in Seq(JobRows) /\ Len(jobs') = Len(jobs) /\ DOMAIN jobs' = DOMAIN jobs
  BY <1>1, <1>2, <1>3, SeqExcept
<1>5. jobs'[i] = row /\ \A k \in DOMAIN jobs \ {i} : jobs'[k] = jobs[k]
  BY <1>1, <1>3
<1> QED
  BY <1>1, <1>2, <1>4, <1>5

\* Rows are rewritten one by one, none of their attempts.
LEMMA RowsRewritten ==
    ASSUME RenderInv, NEW f, f = [i \in DOMAIN jobs |-> f[i]],
           \A i \in DOMAIN jobs : f[i] \in JobRows /\ f[i].attempt = jobs[i].attempt
    PROVE  /\ f \in Seq(JobRows) /\ Len(f) <= MaxJobs /\ DOMAIN f = DOMAIN jobs
           /\ \A i \in DOMAIN jobs : f[i].attempt = jobs[i].attempt
<1>1. jobs \in Seq(JobRows) /\ Len(jobs) <= MaxJobs
  BY DEF RenderInv, RenderTypeOK
<1> QED
  BY <1>1, SeqOfValues

LEMMA CancelKeeps ==
    ASSUME RenderInv, NEW i \in DOMAIN jobs, CancelRenderJob(i)
    PROVE  RenderInv'
<1> USE DEF RenderInv
<1> DEFINE s == IF jobs[i].owner = "none" THEN "cancelled" ELSE "cancelling"
<1>1. jobs[i] \in JobRows /\ UNCHANGED <<plan, artifacts, worker, reqs, approved, ordered, crashes>>
  BY JobDomain DEF CancelRenderJob
<1>2. jobs' = [jobs EXCEPT ![i] = [@ EXCEPT !.status = s, !.owner = jobs[i].owner,
                                            !.cancel = TRUE, !.attempt = jobs[i].attempt]]
  BY <1>1 DEF CancelRenderJob, JobRows, RenderTypeOK
<1>3. s \in JobStatuses
  BY DEF JobStatuses, ActiveJobs
<1> HIDE DEF s
<1>4. /\ jobs' \in Seq(JobRows) /\ Len(jobs') <= MaxJobs /\ DOMAIN jobs' = DOMAIN jobs
      /\ \A k \in DOMAIN jobs : jobs'[k].attempt = jobs[k].attempt
  BY <1>1, <1>2, <1>3, RowRewritten DEF JobRows
<1>5. reqs' \in [Clients -> Requests']
  BY <1>1, <1>4, ReferencesLast DEF RenderTypeOK
<1>6. RenderTypeOK' /\ BatchHasAttempts'
  BY <1>1, <1>4, <1>5, RowsKeep DEF RenderTypeOK
<1> QED
  BY <1>1, <1>6, PlanStays

-----------------------------------------------------------------------------
(* The worker *)

\* A step of the worker that keeps what the plan says keeps the invariant if
\* what it does to the rows and to its own state is well formed.
LEMMA StepKeeps ==
    ASSUME RenderInv,
           plan' \in PlanRows, ApprovalsAreCurrent', PreviewWasMade',
           jobs' \in Seq(JobRows), Len(jobs') <= MaxJobs, DOMAIN jobs' = DOMAIN jobs,
           worker' \in WorkerStates, BatchHasAttempts',
           artifacts' \subseteq [kind : {"preview", "final"}, rev : Revisions],
           reqs' \in [Clients -> Requests], UNCHANGED <<approved, ordered>>,
           crashes' \in 0..MaxCrashes
    PROVE  RenderInv'
<1>1. WorkerStates \subseteq WorkerStates' /\ Requests \subseteq Requests'
  BY ReferencesLast DEF RenderInv
<1>2. RenderTypeOK'
  BY <1>1 DEF RenderInv, RenderTypeOK, Revisions
<1> QED
  BY <1>2 DEF RenderInv

LEMMA WorkerIs ==
    ASSUME RenderTypeOK
    PROVE  /\ worker.stale \subseteq (DOMAIN jobs) \X InFlight
           /\ worker.batch \subseteq DOMAIN jobs
           /\ worker.job \in {0} \cup DOMAIN jobs
           /\ worker.seen \in 0..MaxRevision
BY DEF RenderTypeOK, WorkerStates

\* Putting a job aside: what is left of the batch has its attempts.
LEMMA DropKeeps ==
    ASSUME RenderInv, NEW i \in worker.batch, i = worker.job \/ worker.pc # "run",
           worker' = Drop(i),
           \A k \in DOMAIN jobs : jobs'[k].attempt = jobs[k].attempt
    PROVE  worker' \in WorkerStates /\ BatchHasAttempts'
<1>1. worker' \in WorkerStates /\ worker'.pc = "batch" /\ worker'.batch = worker.batch \ {i}
  <2> DEFINE B == worker.batch \ {i}
  <2>1. B \in SUBSET DOMAIN jobs /\ 0 \in 0..MaxRevision
    BY WorkerIs, RenderAssumption DEF RenderInv
  <2>2. worker \in WorkerStates
        /\ worker' = [worker EXCEPT !.pc = "batch", !.batch = B, !.job = 0, !.seen = 0]
    BY DEF Drop, RenderInv, RenderTypeOK, WorkerStates
  <2> HIDE DEF B
  <2>3. worker' \in WorkerStates /\ worker'.pc = "batch" /\ worker'.batch = B
    BY <2>1, <2>2 DEF WorkerStates
  <2> QED
    BY <2>3 DEF B
<1> QED
  BY <1>1, WorkerIs DEF RenderInv, BatchHasAttempts

\* Ending the job that runs.
LEMMA EndKeeps ==
    ASSUME RenderInv, worker.pc = "run", NEW status \in JobStatuses,
           Ends(status), worker' = Drop(worker.job)
    PROVE  /\ jobs' \in Seq(JobRows) /\ Len(jobs') <= MaxJobs /\ DOMAIN jobs' = DOMAIN jobs
           /\ worker' \in WorkerStates /\ BatchHasAttempts'
<1> DEFINE i == worker.job
<1>1. i \in worker.batch /\ i \in DOMAIN jobs
  BY WorkerIs DEF RenderInv, BatchHasAttempts
<1>2. jobs[i] \in JobRows
  BY <1>1, JobDomain DEF RenderInv
<1> DEFINE row == [jobs[i] EXCEPT !.status = status, !.owner = "none"]
<1>3. row \in JobRows /\ row.attempt = jobs[i].attempt
  BY <1>2 DEF JobRows
<1>4. jobs \in Seq(JobRows) /\ Len(jobs) <= MaxJobs /\ jobs' = [jobs EXCEPT ![i] = row]
  BY <1>1 DEF Ends, RenderInv, RenderTypeOK
<1> HIDE DEF row, i
<1>5. /\ jobs' \in Seq(JobRows) /\ Len(jobs') = Len(jobs) /\ DOMAIN jobs' = DOMAIN jobs
  BY <1>1, <1>3, <1>4, SeqExcept
<1>6. \A k \in DOMAIN jobs : jobs'[k].attempt = jobs[k].attempt
  BY <1>1, <1>3, <1>4
<1> QED
  BY <1>1, <1>4, <1>5, <1>6, DropKeeps DEF i

LEMMA PlanMovesKeeps ==
    ASSUME RenderInv, NEW from \in Statuses, NEW to \in Statuses, PlanMoves(from, to),
           to \in {"render_pending", "rendering"} => from = "rendering",
           UNCHANGED <<approved, ordered>>, artifacts \subseteq artifacts'
    PROVE  plan' \in PlanRows /\ ApprovalsAreCurrent' /\ PreviewWasMade'
<1>1. CASE plan' = plan
  BY <1>1, PlanStays
<1>2. CASE plan.status = from /\ plan' = [plan EXCEPT !.status = to]
  <2>1. to \in {"render_pending", "rendering"} => FinalGate(plan.rev, Statuses)
    BY <1>2 DEF RenderInv, ApprovalsAreCurrent, FinalGate, Statuses
  <2> QED
    BY <1>2, <2>1, PlanMoveKeeps
<1> QED
  BY <1>1, <1>2 DEF PlanMoves

LEMMA CollectKeeps ==
    ASSUME RenderInv, ReclaimRead \/ ReclaimWrite \/ Scan \/ BatchDone \/ Restart
           \/ \E i \in DOMAIN jobs : Peek(i)
    PROVE  RenderInv'
<1> USE DEF RenderInv
<1>1. /\ UNCHANGED <<plan, artifacts, crashes, reqs, approved, ordered>>
      /\ plan' \in PlanRows /\ ApprovalsAreCurrent' /\ PreviewWasMade'
  BY PlanStays DEF ReclaimRead, ReclaimWrite, Scan, BatchDone, Restart, Peek, WorkerAt
<1>2. ASSUME jobs' \in Seq(JobRows), Len(jobs') <= MaxJobs, DOMAIN jobs' = DOMAIN jobs,
             worker' \in WorkerStates, BatchHasAttempts'
      PROVE  RenderInv'
  BY <1>1, <1>2, StepKeeps DEF RenderTypeOK
<1>j. jobs \in Seq(JobRows) /\ Len(jobs) <= MaxJobs
  BY DEF RenderTypeOK
<1>3. CASE ReclaimRead
  <2> DEFINE S == {<<i, jobs[i].status>> : i \in {k \in DOMAIN jobs :
                      jobs[k].status \in InFlight /\ jobs[k].owner = "lost"}}
  <2>0. S \in SUBSET ((DOMAIN jobs) \X InFlight)
    OBVIOUS
  <2>1. worker' \in WorkerStates /\ worker'.batch = worker.batch
        /\ worker'.pc = "reclaim" /\ worker.pc = "idle" /\ jobs' = jobs
    <3>1. /\ worker \in WorkerStates /\ worker.pc = "idle" /\ jobs' = jobs
          /\ worker' = [worker EXCEPT !.pc = "reclaim", !.stale = S]
      BY <1>3 DEF ReclaimRead, WorkerAt, RenderTypeOK
    <3> HIDE DEF S
    <3> QED
      BY <2>0, <3>1 DEF WorkerStates
  <2>2. BatchHasAttempts'
    BY <2>1 DEF BatchHasAttempts
  <2> QED
    BY <1>2, <1>j, <2>1, <2>2
<1>4. CASE ReclaimWrite
  <2>1. worker' \in WorkerStates /\ worker'.batch = worker.batch
        /\ worker'.pc = "scan" /\ worker.pc = "reclaim"
    BY <1>4 DEF ReclaimWrite, WorkerAt, RenderTypeOK, WorkerStates
  <2>0. ASSUME NEW i \in DOMAIN jobs, NEW s
        PROVE  Reclaimed(i, s).attempt = jobs[i].attempt /\ Reclaimed(i, s) \in JobRows
    <3>1. jobs[i] \in JobRows /\ {"cancelled", "failed", "queued"} \subseteq JobStatuses
      BY JobDomain DEF JobStatuses, ActiveJobs
    <3> QED
      BY <3>1 DEF Reclaimed, JobRows
  <2>2. \A i \in DOMAIN jobs : jobs'[i].attempt = jobs[i].attempt /\ jobs'[i] \in JobRows
    BY <1>4, <2>0, JobDomain DEF ReclaimWrite
  <2>3. jobs' = [i \in DOMAIN jobs |-> jobs'[i]]
    BY <1>4 DEF ReclaimWrite
  <2>4. BatchHasAttempts'
    BY <2>1, <2>2, WorkerIs DEF BatchHasAttempts
  <2> QED
    BY <1>2, <2>1, <2>2, <2>3, <2>4, RowsRewritten
<1>5. CASE Scan
  <2>1. worker' \in WorkerStates /\ worker'.batch \subseteq Claimable
        /\ worker'.pc = "batch" /\ worker.pc = "scan"
    BY <1>5 DEF Scan, WorkerAt, RenderTypeOK, WorkerStates, Claimable
  <2>2. \A i \in DOMAIN jobs : jobs'[i].attempt = jobs[i].attempt /\ jobs'[i] \in JobRows
    BY <1>5, JobDomain DEF Scan, JobRows, JobStatuses, ActiveJobs
  <2>3. jobs' = [i \in DOMAIN jobs |-> jobs'[i]]
    BY <1>5 DEF Scan
  <2>4. BatchHasAttempts'
    BY <2>1, <2>2 DEF BatchHasAttempts, Claimable
  <2> QED
    BY <1>2, <2>1, <2>2, <2>3, <2>4, RowsRewritten
<1>6. CASE BatchDone \/ Restart
  <2>1. worker' \in WorkerStates /\ worker'.batch = worker.batch
        /\ worker'.pc = "idle" /\ worker.pc # "run" /\ jobs' = jobs
    BY <1>6 DEF BatchDone, Restart, WorkerAt, RenderTypeOK, WorkerStates
  <2>2. BatchHasAttempts'
    BY <2>1 DEF BatchHasAttempts
  <2> QED
    BY <1>2, <1>j, <2>1, <2>2
<1>7. ASSUME NEW i \in DOMAIN jobs, Peek(i) PROVE RenderInv'
  <2>1. jobs' = jobs /\ worker.pc = "batch" /\ i \in worker.batch
    BY <1>7 DEF Peek, WorkerAt
  <2>2. CASE worker' = Drop(i)
    BY <1>2, <1>j, <2>1, <2>2, DropKeeps
  <2>3. CASE worker' = [worker EXCEPT !.pc = "claim", !.job = i, !.seen = plan.previewRev]
    <3>1. worker' \in WorkerStates /\ worker'.batch = worker.batch
          /\ worker'.pc = "claim" /\ worker'.job = i
      BY <2>3 DEF RenderTypeOK, WorkerStates, PlanRows
    <3>2. BatchHasAttempts'
      BY <2>1, <3>1 DEF BatchHasAttempts
    <3> QED
      BY <1>2, <1>j, <2>1, <3>1, <3>2
  <2> QED
    BY <1>7, <2>2, <2>3 DEF Peek
<1> QED
  BY <1>3, <1>4, <1>5, <1>6, <1>7

LEMMA ClaimKeeps ==
    ASSUME RenderInv, Claim
    PROVE  RenderInv'
<1> USE DEF RenderInv
<1> DEFINE i == worker.job
<1>1. /\ worker.pc = "claim" /\ i \in worker.batch /\ i \in DOMAIN jobs
      /\ jobs[i].attempt < MaxAttempts
      /\ UNCHANGED <<artifacts, crashes, reqs, approved, ordered>>
  BY WorkerIs DEF Claim, WorkerAt, BatchHasAttempts
<1>2. jobs[i] \in JobRows
  BY <1>1, JobDomain
<1>3. CASE worker' = Drop(i) /\ UNCHANGED <<plan, jobs>>
  BY <1>1, <1>3, DropKeeps, PlanStays, StepKeeps DEF RenderTypeOK
<1>4. CASE /\ jobs' = [jobs EXCEPT ![i].status = "running", ![i].attempt = @ + 1,
                                   ![i].owner = "live"]
           /\ plan' = IF jobs[i].kind = "final"
                      THEN [plan EXCEPT !.status = "rendering"] ELSE plan
           /\ worker' = [worker EXCEPT !.pc = "run"]
           /\ jobs[i].kind = "final" => FinalGate(jobs[i].rev, {"render_pending"})
  <2>1. jobs[i].attempt + 1 \in 0..MaxAttempts /\ "running" \in JobStatuses
    BY <1>1, <1>2, RenderAssumption DEF JobRows, JobStatuses, ActiveJobs
  <2>2. jobs' = [jobs EXCEPT ![i] = [@ EXCEPT !.status = "running", !.owner = "live",
                                              !.cancel = jobs[i].cancel,
                                              !.attempt = jobs[i].attempt + 1]]
    BY <1>1, <1>2, <1>4 DEF JobRows, RenderTypeOK
  <2>3. worker' \in WorkerStates /\ worker'.pc = "run" /\ worker'.job = i
        /\ worker'.batch = worker.batch
    BY <1>4 DEF RenderTypeOK, WorkerStates
  <2>4. plan' \in PlanRows /\ ApprovalsAreCurrent' /\ PreviewWasMade'
    <3>1. CASE jobs[i].kind = "final"
      <4>1. FinalGate(plan.rev, Statuses) /\ "rendering" \in Statuses
        BY <1>4, <3>1 DEF FinalGate, Statuses
      <4> QED
        BY <1>1, <1>4, <3>1, <4>1, PlanMoveKeeps
    <3>2. CASE jobs[i].kind # "final"
      BY <1>1, <1>4, <3>2, PlanStays
    <3> QED
      BY <3>1, <3>2
  <2> HIDE DEF i
  <2>5. /\ jobs' \in Seq(JobRows) /\ Len(jobs') <= MaxJobs /\ DOMAIN jobs' = DOMAIN jobs
        /\ \A k \in DOMAIN jobs \ {i} : jobs'[k] = jobs[k]
    BY <1>1, <1>2, <2>1, <2>2, RowRewritten DEF JobRows
  <2>6. BatchHasAttempts'
    BY <1>1, <2>3, <2>5, WorkerIs DEF BatchHasAttempts, i
  <2> QED
    BY <1>1, <2>3, <2>4, <2>5, <2>6, StepKeeps DEF RenderTypeOK
<1> QED
  BY <1>3, <1>4 DEF Claim

LEMMA SuccessKeeps ==
    ASSUME RenderInv, PreviewSucceeds \/ FinalSucceeds
    PROVE  RenderInv'
<1> USE DEF RenderInv
<1> DEFINE rev == jobs[worker.job].rev
<1>1. /\ worker.pc = "run" /\ worker' = Drop(worker.job)
      /\ UNCHANGED <<crashes, reqs, approved, ordered>>
  BY DEF PreviewSucceeds, FinalSucceeds, WorkerAt
<1>2. rev \in Revisions
  BY <1>1, WorkerIs, JobDomain DEF BatchHasAttempts, JobRows
<1>3. plan \in PlanRows
  BY DEF RenderTypeOK
<1>4. "succeeded" \in JobStatuses /\ "failed" \in JobStatuses
  BY DEF JobStatuses
<1>5. CASE PreviewSucceeds
  <2>1. /\ artifacts' = artifacts \cup {[kind |-> "preview", rev |-> rev]}
        /\ plan' = [plan EXCEPT !.status = "preview_ready",
                                !.previewRev = IF worker.seen = rev THEN @ ELSE rev]
        /\ Ends("succeeded")
    BY <1>5 DEF PreviewSucceeds
  <2>2. /\ plan' \in PlanRows /\ plan'.rev = plan.rev /\ plan'.status = "preview_ready"
        /\ plan'.previewOk = plan.previewOk /\ plan'.renderOk = plan.renderOk
        /\ plan'.previewRev = plan.previewRev \/ plan'.previewRev = rev
    <3> DEFINE v == IF worker.seen = rev THEN plan.previewRev ELSE rev
    <3>1. v \in 0..MaxRevision /\ (v = plan.previewRev \/ v = rev)
      BY <1>2, <1>3, RenderAssumption DEF PlanRows, Revisions
    <3>2. plan' = [plan EXCEPT !.status = "preview_ready", !.previewRev = v]
      BY <1>3, <2>1 DEF PlanRows
    <3> HIDE DEF v, rev
    <3> QED
      BY <1>3, <3>1, <3>2 DEF PlanRows, Statuses
  <2>3. artifacts' \subseteq [kind : {"preview", "final"}, rev : Revisions]
    BY <1>2, <2>1 DEF RenderTypeOK
  <2>4. ApprovalsAreCurrent'
    BY <1>1, <2>2 DEF ApprovalsAreCurrent
  <2>5. PreviewWasMade'
    BY <2>1, <2>2 DEF PreviewWasMade
  <2> QED
    BY <1>1, <1>4, <2>1, <2>2, <2>3, <2>4, <2>5, EndKeeps, StepKeeps DEF RenderTypeOK
<1>6. CASE FinalSucceeds
  <2>1. /\ artifacts \subseteq artifacts'
        /\ artifacts' \subseteq artifacts \cup {[kind |-> "final", rev |-> plan.rev]}
        /\ PlanMoves("rendering", "completed")
    BY <1>6 DEF FinalSucceeds
  <2>2. artifacts' \subseteq [kind : {"preview", "final"}, rev : Revisions]
    BY <1>3, <2>1 DEF RenderTypeOK, PlanRows
  <2>3. plan' \in PlanRows /\ ApprovalsAreCurrent' /\ PreviewWasMade'
    BY <1>1, <2>1, PlanMovesKeeps DEF Statuses
  <2>4. Ends("succeeded") \/ Ends("failed")
    BY <1>6 DEF FinalSucceeds
  <2>5. /\ jobs' \in Seq(JobRows) /\ Len(jobs') <= MaxJobs /\ DOMAIN jobs' = DOMAIN jobs
        /\ worker' \in WorkerStates /\ BatchHasAttempts'
    BY <1>1, <1>4, <2>4, EndKeeps
  <2> QED
    BY <1>1, <2>2, <2>3, <2>5, StepKeeps DEF RenderTypeOK
<1> QED
  BY <1>5, <1>6

LEMMA FailureKeeps ==
    ASSUME RenderInv, RenderCancelled \/ RenderFails
    PROVE  RenderInv'
<1> USE DEF RenderInv
<1>1. /\ worker.pc = "run" /\ worker' = Drop(worker.job)
      /\ UNCHANGED <<artifacts, crashes, reqs, approved, ordered>>
      /\ Ends("cancelled") \/ Ends("failed")
  BY DEF RenderCancelled, RenderFails, WorkerAt
<1>2. \/ plan' = plan
      \/ PlanMoves("rendering", "render_pending")
      \/ PlanMoves("preview_pending", "confirmed")
      \/ PlanMoves("rendering", "failed")
  BY DEF RenderCancelled, RenderFails
<1>3. plan' \in PlanRows /\ ApprovalsAreCurrent' /\ PreviewWasMade'
  BY <1>1, <1>2, PlanStays, PlanMovesKeeps DEF Statuses
<1>4. "cancelled" \in JobStatuses /\ "failed" \in JobStatuses
  BY DEF JobStatuses
<1>5. /\ jobs' \in Seq(JobRows) /\ Len(jobs') <= MaxJobs /\ DOMAIN jobs' = DOMAIN jobs
      /\ worker' \in WorkerStates /\ BatchHasAttempts'
  BY <1>1, <1>4, EndKeeps
<1> QED
  BY <1>1, <1>3, <1>5, StepKeeps DEF RenderTypeOK

LEMMA FaultKeeps ==
    ASSUME RenderInv, Crash \/ SettleFails
    PROVE  RenderInv'
<1> USE DEF RenderInv
<1>1. /\ jobs' = Lost /\ crashes' = crashes + 1 /\ crashes < MaxCrashes
      /\ UNCHANGED <<plan, artifacts, approved, ordered>>
  BY DEF Crash, SettleFails, WorkerAt
<1>2. plan' \in PlanRows /\ ApprovalsAreCurrent' /\ PreviewWasMade'
  BY <1>1, PlanStays
<1>3. crashes' \in 0..MaxCrashes
  BY <1>1, RenderAssumption DEF RenderTypeOK
<1>4. \A i \in DOMAIN jobs : jobs'[i].attempt = jobs[i].attempt /\ jobs'[i] \in JobRows
  BY <1>1, JobDomain DEF Lost, JobRows
<1>5. jobs' = [i \in DOMAIN jobs |-> jobs'[i]]
  BY <1>1 DEF Lost
<1>6. /\ jobs' \in Seq(JobRows) /\ Len(jobs') <= MaxJobs /\ DOMAIN jobs' = DOMAIN jobs
  BY <1>4, <1>5, RowsRewritten
<1>7. CASE Crash
  <2>1. worker' \in WorkerStates /\ BatchHasAttempts'
    BY <1>7, RenderAssumption DEF Crash, WorkerStates, BatchHasAttempts
  <2>2. reqs' \in [Clients -> Requests]
    BY <1>7 DEF Crash, Requests
  <2> QED
    BY <1>1, <1>2, <1>3, <1>6, <2>1, <2>2, StepKeeps DEF RenderTypeOK
<1>8. CASE SettleFails
  <2>1. worker.pc = "run" /\ worker' = Drop(worker.job) /\ reqs' = reqs
    BY <1>8 DEF SettleFails, WorkerAt
  <2>2. worker' \in WorkerStates /\ BatchHasAttempts'
    BY <1>4, <2>1, DropKeeps DEF BatchHasAttempts
  <2> QED
    BY <1>1, <1>2, <1>3, <1>6, <2>1, <2>2, StepKeeps DEF RenderTypeOK
<1> QED
  BY <1>7, <1>8

-----------------------------------------------------------------------------
(* The theorems *)

LEMMA RenderInitInv == RenderInit => RenderInv
<1> SUFFICES ASSUME RenderInit
             PROVE  RenderInv
  OBVIOUS
<1>1. plan \in PlanRows
  BY RenderAssumption DEF RenderInit, PlanRows, Statuses, Revisions
<1>2. worker \in WorkerStates
  BY RenderAssumption DEF RenderInit, WorkerStates
<1>3. reqs \in [Clients -> Requests]
  BY DEF RenderInit, Requests
<1>4. RenderTypeOK
  BY <1>1, <1>2, <1>3, RenderAssumption DEF RenderInit, RenderTypeOK
<1> QED
  BY <1>4 DEF RenderInit, RenderInv, BatchHasAttempts, PreviewWasMade, ApprovalsAreCurrent

LEMMA RenderStep == RenderInv /\ [RenderNext]_renderVars => RenderInv'
<1> SUFFICES ASSUME RenderInv, [RenderNext]_renderVars
             PROVE  RenderInv'
  OBVIOUS
<1>1. CASE UNCHANGED renderVars
  <2>1. reqs' \in [Clients -> Requests]
    BY <1>1 DEF renderVars, RenderInv, RenderTypeOK
  <2> QED
    BY <1>1, <2>1, StepKeeps
       DEF renderVars, RenderInv, RenderTypeOK, WorkerStates, BatchHasAttempts,
           PreviewWasMade, ApprovalsAreCurrent
<1>2. CASE \E c \in Clients : Request(c)
  BY <1>2, RequestKeeps
<1>3. CASE ConfirmPreview \/ ConfirmRender
  BY <1>3, ConfirmKeeps
<1>4. CASE \E i \in DOMAIN jobs : CancelRenderJob(i)
  BY <1>4, CancelKeeps
<1>5. CASE WorkerStep
  BY <1>5, CollectKeeps, ClaimKeeps, SuccessKeeps, FailureKeeps DEF WorkerStep
<1>6. CASE Crash \/ SettleFails
  BY <1>6, FaultKeeps
<1> QED
  BY <1>1, <1>2, <1>3, <1>4, <1>5, <1>6 DEF RenderNext

\* The invariant the theorems below rest on, for any number of clients,
\* revisions, jobs, attempts and crashes.
THEOREM RenderCorrect == RenderSpec => []RenderInv
BY RenderInitInv, RenderStep, PTL DEF RenderSpec

\* Types, and that no claim goes past a job's attempts.
THEOREM RenderTypeCorrect == RenderSpec => []RenderTypeOK
BY RenderCorrect, PTL DEF RenderInv

\* Confirmations belong to the revision the plan is at.
THEOREM ApprovalsStayCurrent == RenderSpec => []ApprovalsAreCurrent
BY RenderCorrect, PTL DEF RenderInv

LEMMA InitImplements == RenderInit => Approval!ApprovalInit
BY DEF RenderInit, Approval!ApprovalInit, Made

\* A step that makes no artifact and takes no confirmation is a stutter.
LEMMA Stutters ==
    ASSUME UNCHANGED <<artifacts, approved, ordered>>
    PROVE  UNCHANGED Approval!approval
BY DEF Approval!approval, Made, Revisions

\* The two confirmations and the two successes are the four steps of the gate.
LEMMA StepImplements ==
    ASSUME RenderInv, [RenderNext]_renderVars
    PROVE  [Approval!ApprovalNext]_Approval!approval
<1> USE DEF RenderInv
<1>0. plan \in PlanRows /\ plan.rev \in Revisions
  BY DEF RenderTypeOK, PlanRows
<1>1. CASE UNCHANGED <<artifacts, approved, ordered>>
  BY <1>1, Stutters
<1>2. CASE ConfirmPreview
  <2>1. [kind |-> "preview", rev |-> plan.rev] \in artifacts
    BY <1>0, <1>2 DEF ConfirmPreview, PreviewWasMade, Revisions
  <2>2. plan.rev \in Made("preview")
    BY <1>0, <2>1 DEF Made
  <2>3. Made("preview")' = Made("preview") /\ Made("final")' = Made("final")
    BY <1>2 DEF ConfirmPreview, Made, Revisions
  <2>4. Approval!Approve(plan.rev)
    BY <1>2, <2>2, <2>3 DEF ConfirmPreview, Approval!Approve
  <2> QED
    BY <1>0, <2>4 DEF Approval!ApprovalNext
<1>3. CASE ConfirmRender
  <2>1. plan.rev \in approved
    BY <1>3 DEF ConfirmRender, ApprovalsAreCurrent
  <2>2. Made("preview")' = Made("preview") /\ Made("final")' = Made("final")
    BY <1>3 DEF ConfirmRender, Made, Revisions
  <2>3. Approval!Order(plan.rev)
    BY <1>3, <2>1, <2>2 DEF ConfirmRender, Approval!Order
  <2> QED
    BY <1>0, <2>3 DEF Approval!ApprovalNext
<1>4. CASE PreviewSucceeds
  <2> DEFINE rev == jobs[worker.job].rev
  <2>1. rev \in Revisions
    BY <1>4, WorkerIs, JobDomain DEF PreviewSucceeds, WorkerAt, BatchHasAttempts, JobRows
  <2>2. /\ artifacts' = artifacts \cup {[kind |-> "preview", rev |-> rev]}
        /\ UNCHANGED <<approved, ordered>>
    BY <1>4 DEF PreviewSucceeds, WorkerAt
  <2> HIDE DEF rev
  <2>3. Made("preview")' = Made("preview") \cup {rev} /\ Made("final")' = Made("final")
    BY <2>1, <2>2 DEF Made, Revisions
  <2>4. Approval!MakePreview(rev)
    BY <2>2, <2>3 DEF Approval!MakePreview
  <2> QED
    BY <2>1, <2>4 DEF Approval!ApprovalNext
<1>5. CASE FinalSucceeds
  <2>1. UNCHANGED <<approved, ordered>>
    BY <1>5 DEF FinalSucceeds, WorkerAt
  <2>2. CASE artifacts' = artifacts
    BY <2>1, <2>2, Stutters
  <2>3. CASE /\ plan.status = "rendering"
             /\ artifacts' = artifacts \cup {[kind |-> "final", rev |-> plan.rev]}
    <3>1. plan.rev \in ordered
      BY <2>3 DEF ApprovalsAreCurrent
    <3>2. Made("final")' = Made("final") \cup {plan.rev} /\ Made("preview")' = Made("preview")
      BY <1>0, <2>3 DEF Made, Revisions
    <3>3. Approval!MakeFinal(plan.rev)
      BY <2>1, <3>1, <3>2 DEF Approval!MakeFinal
    <3> QED
      BY <1>0, <3>3 DEF Approval!ApprovalNext
  <2> QED
    BY <1>5, <2>2, <2>3 DEF FinalSucceeds
<1>6. CASE UNCHANGED renderVars
  BY <1>6, Stutters DEF renderVars
<1>7. ASSUME NEW c \in Clients, Request(c) PROVE UNCHANGED <<artifacts, approved, ordered>>
  BY <1>7 DEF Request, AskRevision, CreateRevision, AskTransition, TransitionPlan,
     AskPreviewJob, CreatePreviewJob, AskFinalJob, CreateFinalJob, AskRetryPreview,
     AskRetryFinal, RetryPreviewJob, RetryFinalJob, Ask, Answered
<1>8. ASSUME NEW i \in DOMAIN jobs, CancelRenderJob(i)
      PROVE  UNCHANGED <<artifacts, approved, ordered>>
  BY <1>8 DEF CancelRenderJob
<1>9. ASSUME \/ ReclaimRead \/ ReclaimWrite \/ Scan \/ BatchDone \/ Claim \/ RenderCancelled
             \/ RenderFails \/ Restart \/ Crash \/ SettleFails
             \/ \E i \in DOMAIN jobs : Peek(i)
      PROVE  UNCHANGED <<artifacts, approved, ordered>>
  BY <1>9 DEF ReclaimRead, ReclaimWrite, Scan, BatchDone, Claim, RenderCancelled,
     RenderFails, Restart, Crash, SettleFails, Peek, WorkerAt
<1> QED
  BY <1>1, <1>2, <1>3, <1>4, <1>5, <1>6, <1>7, <1>8, <1>9 DEF RenderNext, WorkerStep

\* Media assembly implements the gate: no final video of a revision without a
\* preview of it, an approval of that preview and then an order, whatever the
\* requests, the worker and the crashes do in between.
THEOREM RenderImplementsApproval == RenderSpec => FollowsApproval
<1>1. RenderInv /\ [RenderNext]_renderVars => [Approval!ApprovalNext]_Approval!approval
  BY StepImplements
<1> QED
  BY <1>1, InitImplements, RenderCorrect, PTL
     DEF RenderSpec, FollowsApproval, Approval!ApprovalSpec
-----------------------------------------------------------------------------
(* How a preview of an old revision is marked ready.  ReadyPreviewIsCurrent *)
(* does not hold of the code; one step is all there is to it.               *)

\* A preview whose plan has been revised since the worker read it is marked.
LatePreview == PreviewSucceeds /\ plan.rev # jobs[worker.job].rev

PunctualNext == RenderNext /\ ~ LatePreview

\* What the worker has seen of the plan is a preview of this revision or of an
\* earlier one, and in the first case the plan still says so.
SeenIsCurrent ==
    /\ plan.previewRev <= plan.rev
    /\ worker.seen <= plan.rev
    /\ worker.seen = plan.rev => plan.previewRev = plan.rev
    /\ ReadyPreviewIsCurrent

LEMMA SeenStays ==
    ASSUME RenderTypeOK, SeenIsCurrent,
           plan'.rev = plan.rev, plan'.previewRev = plan.previewRev,
           plan'.status = "preview_ready" => plan.status = "preview_ready",
           worker'.seen \in {worker.seen, 0, plan.previewRev}
    PROVE  SeenIsCurrent'
<1>1. plan.rev \in Nat \ {0} /\ plan.previewRev \in Nat
  BY RenderAssumption DEF RenderTypeOK, PlanRows, Revisions
<1> QED
  BY <1>1 DEF SeenIsCurrent, ReadyPreviewIsCurrent

LEMMA RequestSeen ==
    ASSUME RenderInv, SeenIsCurrent, NEW c \in Clients, Request(c)
    PROVE  SeenIsCurrent'
<1> USE DEF RenderInv
<1>1. plan \in PlanRows /\ worker.seen \in 0 .. MaxRevision
  BY DEF RenderTypeOK, WorkerStates
<1>2. worker' = worker
  BY DEF Request, Ask, Answered, AskRevision, CreateRevision, AskTransition, TransitionPlan,
         AskPreviewJob, CreatePreviewJob, AskFinalJob, CreateFinalJob, AskRetryPreview,
         AskRetryFinal, RetryPreviewJob, RetryFinalJob
<1>3. CASE plan' = plan
  BY <1>2, <1>3, SeenStays
<1>4. ASSUME NEW s \in Statuses \ {"preview_ready"}, plan' = [plan EXCEPT !.status = s]
      PROVE  SeenIsCurrent'
  <2>1. plan'.rev = plan.rev /\ plan'.previewRev = plan.previewRev /\ plan'.status = s
    BY <1>1, <1>4 DEF PlanRows
  <2> QED
    BY <1>2, <2>1, SeenStays
<1>5. CASE CreateRevision(c)
  <2>1. CASE plan' = [status |-> "draft", rev |-> plan.rev + 1, previewRev |-> 0,
                      previewOk |-> FALSE, renderOk |-> FALSE]
    <3>1. plan'.status = "draft" /\ plan'.rev = plan.rev + 1 /\ plan'.previewRev = 0
      BY <2>1
    <3>2. plan.rev \in Nat /\ worker.seen \in Nat
      BY <1>1, RenderAssumption DEF PlanRows, Revisions
    <3> QED
      BY <1>2, <3>1, <3>2 DEF SeenIsCurrent, ReadyPreviewIsCurrent
  <2> QED
    BY <1>3, <1>5, <2>1 DEF CreateRevision
<1>6. CASE TransitionPlan(c)
  <2>1. reqs[c].op = "transition" /\ plan' = [plan EXCEPT !.status = reqs[c].target]
    BY <1>6 DEF TransitionPlan
  <2>2. reqs[c].target \in Statuses \ {"preview_ready"}
    BY <2>1 DEF RenderTypeOK, Requests
  <2> QED
    BY <1>4, <2>1, <2>2
<1>7. CASE CreatePreviewJob(c) \/ RetryPreviewJob(c)
  <2>1. plan' = plan \/ plan' = [plan EXCEPT !.status = "preview_pending"]
    BY <1>7 DEF CreatePreviewJob, RetryPreviewJob
  <2> QED
    BY <1>3, <1>4, <2>1 DEF Statuses
<1>8. CASE RetryFinalJob(c)
  <2>1. plan' = plan \/ plan' = [plan EXCEPT !.status = "render_pending"]
    BY <1>8 DEF RetryFinalJob
  <2> QED
    BY <1>3, <1>4, <2>1 DEF Statuses
<1> QED
  BY <1>3, <1>5, <1>6, <1>7, <1>8
     DEF Request, Ask, AskRevision, AskTransition, AskPreviewJob, AskFinalJob, CreateFinalJob,
         AskRetryPreview, AskRetryFinal

LEMMA PunctualStep ==
    ASSUME RenderInv, SeenIsCurrent, [PunctualNext]_renderVars
    PROVE  SeenIsCurrent'
<1> USE DEF RenderInv
<1>1. plan \in PlanRows /\ worker \in WorkerStates
  BY DEF RenderTypeOK
<1>2. ASSUME plan' = plan \/ \E s \in Statuses \ {"preview_ready"} : plan' = [plan EXCEPT !.status = s],
             worker'.seen \in {worker.seen, 0, plan.previewRev}
      PROVE  SeenIsCurrent'
  <2>1. /\ plan'.rev = plan.rev /\ plan'.previewRev = plan.previewRev
        /\ plan'.status = "preview_ready" => plan.status = "preview_ready"
    BY <1>1, <1>2 DEF PlanRows
  <2> QED
    BY <1>2, <2>1, SeenStays
<1>d. \A i : Drop(i).seen = 0
  BY <1>1 DEF Drop, WorkerStates
<1>3. CASE ConfirmPreview \/ ConfirmRender
  <2>1. /\ plan'.rev = plan.rev /\ plan'.previewRev = plan.previewRev
        /\ plan'.status = "preview_ready" => plan.status = "preview_ready"
        /\ worker' = worker
    BY <1>1, <1>3 DEF ConfirmPreview, ConfirmRender, PlanRows
  <2> QED
    BY <2>1, SeenStays
<1>4. ASSUME NEW i \in DOMAIN jobs, CancelRenderJob(i) \/ Peek(i)
      PROVE  SeenIsCurrent'
  <2>1. plan' = plan
    BY <1>4 DEF CancelRenderJob, Peek
  <2>2. worker'.seen \in {worker.seen, 0, plan.previewRev}
    BY <1>1, <1>4, <1>d DEF CancelRenderJob, Peek, WorkerStates
  <2> QED
    BY <1>2, <2>1, <2>2
<1>5. CASE ReclaimRead \/ ReclaimWrite \/ Scan \/ BatchDone \/ Restart
  <2>1. plan' = plan /\ worker'.seen = worker.seen
    BY <1>1, <1>5 DEF ReclaimRead, ReclaimWrite, Scan, BatchDone, Restart, WorkerStates
  <2> QED
    BY <1>2, <2>1
<1>6. CASE Claim
  <2>1. plan' = plan \/ plan' = [plan EXCEPT !.status = "rendering"]
    BY <1>6 DEF Claim
  <2>2. worker'.seen \in {worker.seen, 0}
    BY <1>1, <1>6, <1>d DEF Claim, WorkerStates
  <2> QED
    BY <1>2, <2>1, <2>2 DEF Statuses
<1>7. CASE FinalSucceeds \/ RenderCancelled \/ RenderFails \/ SettleFails
  <2>1. \/ plan' = plan
        \/ \E s \in {"completed", "render_pending", "confirmed", "failed"} :
             plan' = [plan EXCEPT !.status = s]
    BY <1>7 DEF FinalSucceeds, RenderCancelled, RenderFails, SettleFails, PlanMoves
  <2>2. worker'.seen = 0
    BY <1>7, <1>d DEF FinalSucceeds, RenderCancelled, RenderFails, SettleFails
  <2> QED
    BY <1>2, <2>1, <2>2 DEF Statuses
<1>8. CASE PreviewSucceeds /\ plan.rev = jobs[worker.job].rev
  <2>1. /\ plan'.rev = plan.rev /\ plan'.status = "preview_ready"
        /\ plan'.previewRev = IF worker.seen = plan.rev THEN plan.previewRev ELSE plan.rev
    BY <1>1, <1>8 DEF PreviewSucceeds, PlanRows
  <2>2. worker'.seen = 0 /\ plan.rev \in Nat \ {0}
    BY <1>1, <1>8, <1>d, RenderAssumption DEF PreviewSucceeds, PlanRows, Revisions
  <2> QED
    BY <2>1, <2>2 DEF SeenIsCurrent, ReadyPreviewIsCurrent
<1>9. CASE Crash \/ UNCHANGED renderVars
  <2>1. plan' = plan /\ worker'.seen \in {worker.seen, 0}
    BY <1>9 DEF Crash, renderVars
  <2> QED
    BY <1>2, <2>1
<1> QED
  BY <1>3, <1>4, <1>5, <1>6, <1>7, <1>8, <1>9, RequestSeen
     DEF PunctualNext, LatePreview, RenderNext, WorkerStep

\* The ready preview is one of the plan's current revision unless a preview is
\* marked whose plan was revised while it was rendered: mark_preview_ready
\* compares the fingerprint of the plan the worker read before it claimed the job.
THEOREM OnlyALatePreviewIsStale ==
    RenderInit /\ [][PunctualNext]_renderVars => []ReadyPreviewIsCurrent
<1>1. RenderInit => RenderInv /\ SeenIsCurrent
  BY RenderInitInv DEF RenderInit, SeenIsCurrent, ReadyPreviewIsCurrent
<1>2. RenderInv /\ SeenIsCurrent /\ [PunctualNext]_renderVars => RenderInv' /\ SeenIsCurrent'
  BY PunctualStep, RenderStep DEF PunctualNext
<1>3. SeenIsCurrent => ReadyPreviewIsCurrent
  BY DEF SeenIsCurrent
<1> QED
  BY <1>1, <1>2, <1>3, PTL

-----------------------------------------------------------------------------
(* How a plan stays in rendering without a render.  ReclaimedJobEnds does not hold   *)
(* of the code: what is proved here is where the plan is lost, and that no step of   *)
(* the worker brings it back.                                                        *)

\* A plan that is rendering is being rendered.
RenderingIsRendered ==
    plan.status = "rendering" =>
        /\ worker.pc = "run" /\ worker.job \in DOMAIN jobs
        /\ jobs[worker.job].kind = "final" /\ jobs[worker.job].rev = plan.rev

\* A plan that is rendering while the worker is at something else.
Stranded == plan.status = "rendering" /\ worker.pc # "run"

\* What the worker peeked at was not for a rendering plan, and while nothing has failed
\* the one job that put the plan there is in its hands.
RenderingInv ==
    plan.status = "rendering" =>
        /\ worker.pc # "claim"
        /\ worker.pc = "run" => jobs[worker.job].kind = "final" /\ jobs[worker.job].rev = plan.rev
        /\ crashes = 0 => worker.pc = "run"

\* Requests and cancellations leave the kind and the revision of a job, and move no
\* plan to rendering or, while it is there, to another revision.
LEMMA RequestRendering ==
    ASSUME RenderInv, \/ \E c \in Clients : Request(c)
                      \/ \E i \in DOMAIN jobs : CancelRenderJob(i)
    PROVE  /\ worker' = worker /\ crashes' = crashes
           /\ \A i \in DOMAIN jobs : jobs'[i].kind = jobs[i].kind /\ jobs'[i].rev = jobs[i].rev
           /\ plan'.status = "rendering" => plan.status = "rendering" /\ plan'.rev = plan.rev
<1> USE DEF RenderInv
<1>0. plan \in PlanRows /\ jobs \in Seq(JobRows) /\ \A i \in DOMAIN jobs : jobs[i] \in JobRows
  BY JobDomain DEF RenderTypeOK
<1>1. worker' = worker /\ crashes' = crashes
  BY DEF Request, Ask, Answered, AskRevision, CreateRevision, AskTransition, TransitionPlan,
         AskPreviewJob, CreatePreviewJob, AskFinalJob, CreateFinalJob, AskRetryPreview,
         AskRetryFinal, RetryPreviewJob, RetryFinalJob, CancelRenderJob
<1>2. ASSUME NEW kind, NEW rev, jobs' = NewJob(kind, rev)
      PROVE  \A i \in DOMAIN jobs : jobs'[i] = jobs[i]
  <2>1. jobs' = Append(jobs, jobs'[Len(jobs) + 1])
    BY <1>0, <1>2 DEF NewJob
  <2> QED
    BY <1>0, <2>1
<1>3. ASSUME NEW c \in Clients, jobs' = Requeued(c)
      PROVE  \A i \in DOMAIN jobs : jobs'[i].kind = jobs[i].kind /\ jobs'[i].rev = jobs[i].rev
  BY <1>0, <1>3 DEF Requeued, JobRows
<1>4. ASSUME NEW s \in Statuses \ {"rendering"}, plan' = [plan EXCEPT !.status = s]
      PROVE  plan'.status # "rendering"
  BY <1>0, <1>4 DEF PlanRows
<1>5. CASE UNCHANGED <<plan, jobs>>
  BY <1>1, <1>5
<1>6. ASSUME NEW c \in Clients, CreateRevision(c)
      PROVE  jobs' = jobs /\ (plan' = plan \/ plan'.status # "rendering")
  BY <1>6 DEF CreateRevision
<1>7. ASSUME NEW c \in Clients, TransitionPlan(c)
      PROVE  jobs' = jobs /\ plan'.status # "rendering"
  <2>1. jobs' = jobs /\ reqs[c].op = "transition" /\ plan' = [plan EXCEPT !.status = reqs[c].target]
    BY <1>7 DEF TransitionPlan
  <2>2. reqs[c].target \in Statuses \ {"rendering"}
    BY <2>1, RequestIs
  <2> QED
    BY <1>4, <2>1, <2>2
<1>8. ASSUME NEW c \in Clients, CreatePreviewJob(c) \/ RetryPreviewJob(c) \/ RetryFinalJob(c)
      PROVE  plan' = plan \/ plan'.status # "rendering"
  <2>1. \/ plan' = plan
        \/ plan' = [plan EXCEPT !.status = "preview_pending"]
        \/ plan' = [plan EXCEPT !.status = "render_pending"]
    BY <1>8 DEF CreatePreviewJob, RetryPreviewJob, RetryFinalJob
  <2> QED
    BY <1>4, <2>1 DEF Statuses
<1>9. ASSUME NEW c \in Clients, CreatePreviewJob(c) \/ CreateFinalJob(c)
      PROVE  jobs' = jobs \/ \E kind, rev : jobs' = NewJob(kind, rev)
  BY <1>9 DEF CreatePreviewJob, CreateFinalJob
<1>10. ASSUME NEW c \in Clients, RetryPreviewJob(c) \/ RetryFinalJob(c)
       PROVE  jobs' = jobs \/ jobs' = Requeued(c)
  BY <1>10 DEF RetryPreviewJob, RetryFinalJob
<1>11. ASSUME NEW c \in Clients, CreateFinalJob(c)
       PROVE  plan' = plan
  BY <1>11 DEF CreateFinalJob
<1>12. ASSUME NEW i \in DOMAIN jobs, CancelRenderJob(i)
       PROVE  /\ plan' = plan
              /\ \A k \in DOMAIN jobs : jobs'[k].kind = jobs[k].kind /\ jobs'[k].rev = jobs[k].rev
  <2>1. PICK cancel, status :
          jobs' = [jobs EXCEPT ![i].cancel = cancel, ![i].status = status]
    BY <1>12 DEF CancelRenderJob
  <2>2. ASSUME NEW k \in DOMAIN jobs
        PROVE  jobs'[k].kind = jobs[k].kind /\ jobs'[k].rev = jobs[k].rev
    BY <1>0, <2>1 DEF JobRows
  <2> QED
    BY <1>12, <2>2 DEF CancelRenderJob
<1>13. ASSUME NEW c \in Clients, Request(c)
       PROVE  \/ UNCHANGED <<plan, jobs>>
              \/ CreateRevision(c) \/ TransitionPlan(c) \/ CreatePreviewJob(c)
              \/ CreateFinalJob(c) \/ RetryPreviewJob(c) \/ RetryFinalJob(c)
  BY <1>13 DEF Request, Ask, AskRevision, AskTransition, AskPreviewJob, AskFinalJob,
              AskRetryPreview, AskRetryFinal
<1>14. ASSUME NEW c \in Clients, Request(c)
       PROVE  /\ \A i \in DOMAIN jobs : jobs'[i].kind = jobs[i].kind /\ jobs'[i].rev = jobs[i].rev
              /\ plan'.status = "rendering" => plan.status = "rendering" /\ plan'.rev = plan.rev
  <2>1. CASE CreateRevision(c) \/ TransitionPlan(c)
    BY <1>6, <1>7, <2>1
  <2>2. CASE CreatePreviewJob(c)
    BY <1>2, <1>8, <1>9, <2>2
  <2>3. CASE CreateFinalJob(c)
    BY <1>2, <1>9, <1>11, <2>3
  <2>4. CASE RetryPreviewJob(c) \/ RetryFinalJob(c)
    BY <1>3, <1>8, <1>10, <2>4
  <2> QED
    BY <1>5, <1>13, <1>14, <2>1, <2>2, <2>3, <2>4
<1> QED
  BY <1>1, <1>12, <1>14

\* The worker's job is there when the worker runs it or is about to claim it.
LEMMA JobAtHand ==
    ASSUME RenderInv, worker.pc \in {"claim", "run"}
    PROVE  worker.job \in DOMAIN jobs /\ jobs[worker.job] \in JobRows
  BY WorkerIs, JobDomain DEF RenderInv, BatchHasAttempts

LEMMA RenderingStep ==
    ASSUME RenderInv, RenderingInv, [RenderNext]_renderVars
    PROVE  RenderingInv'
<1> USE DEF RenderInv
<1>0. plan \in PlanRows /\ worker \in WorkerStates /\ crashes \in Nat
  BY RenderAssumption DEF RenderTypeOK
<1>1. CASE (\E c \in Clients : Request(c)) \/ (\E i \in DOMAIN jobs : CancelRenderJob(i))
  BY <1>1, RequestRendering, JobAtHand DEF RenderingInv
<1>2. CASE ConfirmPreview \/ ConfirmRender
  BY <1>0, <1>2 DEF ConfirmPreview, ConfirmRender, RenderingInv, PlanRows
<1>3. CASE ReclaimRead \/ ReclaimWrite \/ Scan \/ BatchDone \/ Restart
  BY <1>0, <1>3
     DEF ReclaimRead, ReclaimWrite, Scan, BatchDone, Restart, WorkerAt, WorkerStates, RenderingInv
<1>4. ASSUME NEW i \in DOMAIN jobs, Peek(i)
      PROVE  RenderingInv'
  <2>1. plan' = plan /\ crashes' = crashes /\ worker.pc = "batch"
    BY <1>4 DEF Peek, WorkerAt
  <2>2. plan.status = "rendering" => worker' = Drop(i)
    BY <1>4 DEF Peek, Runnable, FinalGate
  <2>3. Drop(i).pc = "batch"
    BY <1>0 DEF Drop, WorkerStates
  <2> QED
    BY <2>1, <2>2, <2>3 DEF RenderingInv
<1>5. CASE Claim
  <2> DEFINE i == worker.job
  <2>1. worker.pc = "claim" /\ i \in DOMAIN jobs /\ jobs[i] \in JobRows
    BY <1>5, JobAtHand DEF Claim, WorkerAt
  <2>2. plan.status # "rendering" /\ crashes' = crashes
    BY <1>5, <2>1 DEF RenderingInv, Claim
  <2>3. plan'.status = "rendering" =>
          /\ jobs[i].kind = "final" /\ plan.rev = jobs[i].rev /\ plan'.rev = plan.rev
          /\ worker'.pc = "run" /\ worker'.job = i
          /\ jobs'[i].kind = jobs[i].kind /\ jobs'[i].rev = jobs[i].rev
    BY <1>0, <1>5, <2>1, <2>2 DEF Claim, FinalGate, PlanRows, WorkerStates, JobRows
  <2> HIDE DEF i
  <2> QED
    BY <2>2, <2>3 DEF RenderingInv
<1>6. CASE PreviewSucceeds \/ FinalSucceeds \/ RenderCancelled \/ RenderFails
  <2>1. worker.pc = "run" /\ jobs[worker.job] \in JobRows
    BY <1>6, JobAtHand DEF PreviewSucceeds, FinalSucceeds, RenderCancelled, RenderFails, WorkerAt
  <2>2. plan'.status # "rendering"
    BY <1>0, <1>6, <2>1
       DEF PreviewSucceeds, FinalSucceeds, RenderCancelled, RenderFails, PlanMoves, RenderingInv,
           PlanRows, JobRows
  <2> QED
    BY <2>2 DEF RenderingInv
<1>7. CASE Crash \/ SettleFails
  <2>1. plan' = plan /\ crashes' = crashes + 1 /\ worker'.pc \in {"down", "batch"}
    <3>1. CASE Crash
      BY <3>1 DEF Crash
    <3>2. CASE SettleFails
      <4>1. plan' = plan /\ crashes' = crashes + 1 /\ worker' = Drop(worker.job)
        BY <3>2 DEF SettleFails
      <4> QED
        BY <1>0, <4>1 DEF Drop, WorkerStates
    <3> QED
      BY <1>7, <3>1, <3>2
  <2> QED
    BY <1>0, <2>1 DEF RenderingInv
<1>8. CASE UNCHANGED renderVars
  BY <1>8 DEF renderVars, RenderingInv
<1> QED
  BY <1>1, <1>2, <1>3, <1>4, <1>5, <1>6, <1>7, <1>8 DEF RenderNext, WorkerStep

\* claim_next_render_job is the one place that sets a plan to rendering, and the run it
\* begins is the one that moves it on: until a process dies or a settling write fails, a
\* plan that is rendering has its final render under way.
THEOREM OnlyAFaultStrands == RenderSpec => [](crashes = 0 => RenderingIsRendered)
<1>1. RenderInit => RenderInv /\ RenderingInv
  BY RenderInitInv DEF RenderInit, RenderingInv
<1>2. RenderInv /\ RenderingInv /\ [RenderNext]_renderVars => RenderInv' /\ RenderingInv'
  BY RenderingStep, RenderStep
<1>3. RenderInv /\ RenderingInv => (crashes = 0 => RenderingIsRendered)
  BY JobAtHand DEF RenderingInv, RenderingIsRendered
<1> QED
  BY <1>1, <1>2, <1>3, PTL DEF RenderSpec

\* Once lost it stays so: whatever reclaim_stale_jobs put back in the queue, neither the
\* worker nor another crash moves the plan out of rendering, and no final job of it is
\* claimed again.  Only a user's request does.
THEOREM StrandedForGood ==
    RenderSpec => [][Stranded /\ (WorkerStep \/ Crash \/ SettleFails) => Stranded']_renderVars
<1>1. RenderInit => RenderInv /\ RenderingInv
  BY RenderInitInv DEF RenderInit, RenderingInv
<1>2. RenderInv /\ RenderingInv /\ [RenderNext]_renderVars => RenderInv' /\ RenderingInv'
  BY RenderingStep, RenderStep
<1>3. RenderInv /\ RenderingInv /\ Stranded /\ (WorkerStep \/ Crash \/ SettleFails) => Stranded'
  <2> SUFFICES ASSUME RenderInv, RenderingInv, Stranded, WorkerStep \/ Crash \/ SettleFails
               PROVE  Stranded'
    OBVIOUS
  <2>0. worker \in WorkerStates /\ worker.pc \notin {"claim", "run"} /\ plan.status = "rendering"
    BY DEF RenderInv, RenderTypeOK, RenderingInv, Stranded
  <2>1. CASE ReclaimRead \/ ReclaimWrite \/ Scan \/ BatchDone \/ Restart
    BY <2>0, <2>1
       DEF ReclaimRead, ReclaimWrite, Scan, BatchDone, Restart, WorkerStates, Stranded
  <2>2. ASSUME NEW i \in DOMAIN jobs, Peek(i)
        PROVE  Stranded'
    <3>1. worker' = Drop(i) /\ plan' = plan
      BY <2>0, <2>2 DEF Peek, Runnable, FinalGate
    <3> QED
      BY <2>0, <3>1 DEF Drop, WorkerStates, Stranded
  <2>3. CASE Crash
    BY <2>0, <2>3 DEF Crash, Stranded
  <2> QED
    BY <2>0, <2>1, <2>2, <2>3
       DEF WorkerStep, Claim, PreviewSucceeds, FinalSucceeds, RenderCancelled, RenderFails,
           SettleFails, WorkerAt
<1> QED
  BY <1>1, <1>2, <1>3, PTL DEF RenderSpec
=============================================================================
