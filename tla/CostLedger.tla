----------------------------- MODULE CostLedger -----------------------------
(***************************************************************************)
(* One cost row of the ledger and the call it accounts for (lib/ledger.py, *)
(* lib/db/repositories/usage_repo.py, the calls of lib/media_generator.py  *)
(* and the accounting of lib/generation_worker.py).  The call is made by a *)
(* task of the generation worker, or directly by a session or a request,   *)
(* which the worker knows nothing of.                                      *)
(*                                                                         *)
(* A row is opened as pending, and settled by whoever made the call, by a  *)
(* resumed task, by the clean-up of a cancelled task, or by the worker     *)
(* when its process starts.  Each of these writes may raise, and so may    *)
(* what runs before the bracket and after it.  A crash ends every          *)
(* coroutine and keeps the rows.  The provider is external; so is the      *)
(* task's own row, of which only the status, the anchor and the job id     *)
(* occur (TaskTable has it).                                               *)
(***************************************************************************)
EXTENDS Naturals

CONSTANT MaxReboots   \* bound: crashes of the process

ASSUME LedgerAssumption == MaxReboots \in Nat

VARIABLES task,    \* status of the task; "direct" if the call has none
          line,    \* status of the api_calls row
          old,     \* the row was opened before this process's worker was built
          anchor,  \* api_call_id is in the task's payload in the database
          job,     \* provider_job_id is in the task's row
          known,   \* api_call_id is in the task dict the coroutine holds
          made,    \* the provider has made what was asked for
          coro,    \* where the coroutine that makes the call is
          proc,    \* what the worker of the process is at; "ending": the
                   \* process has cancelled all it runs
          lapsed,  \* the start-up of this process did not settle
          unwritten, \* history: a failure that could not be recorded
          reboots  \* crashes so far

process == <<proc, lapsed, unwritten, reboots>>
ledgerVars == <<task, line, old, anchor, job, known, made, coro, process>>

Ended == {"succeeded", "failed", "cancelled"}
Calling == {"start", "open", "anchored", "submitted", "delivered", "failing", "resuming"}

LedgerInit ==
    /\ task \in {"queued", "direct"}
    /\ line = "none"
    /\ old = FALSE /\ anchor = FALSE /\ job = FALSE /\ known = FALSE /\ made = FALSE
    /\ lapsed = FALSE /\ unwritten = FALSE
    /\ coro = "none"
    /\ proc = "scan"
    /\ reboots = 0

\* the row is written only if it still is pending
Settled(status) == IF line = "pending" THEN status ELSE line

-----------------------------------------------------------------------------
(* The first execution: generate inside the accounting bracket. *)

Goes(from, to) == coro = from /\ coro' = to

Serving == proc \notin {"down", "ending"}

\* the dict is the row as it was claimed, before there was a call id
StartCall ==
    /\ Goes("none", "start")
    /\ line = "none"
    /\ \/ task = "queued" /\ proc = "run" /\ task' = "running"
       \/ task = "direct" /\ Serving /\ task' = task
    /\ UNCHANGED <<line, old, anchor, job, known, made, process>>

OpenRow ==
    /\ Goes("start", "open")
    /\ line' = "pending"
    /\ UNCHANGED <<task, old, anchor, job, known, made, process>>

PersistCallId ==
    /\ Goes("open", "anchored")
    /\ anchor' = (task # "direct")
    /\ UNCHANGED <<task, line, old, job, known, made, process>>

CallSubmitted ==
    /\ Goes("anchored", "submitted")
    /\ job' = (task # "direct")
    /\ UNCHANGED <<task, line, old, anchor, known, made, process>>

CallDelivers ==
    /\ Goes("submitted", "delivered")
    /\ made' = TRUE
    /\ UNCHANGED <<task, line, old, anchor, job, known, process>>

\* the id cannot be persisted, the provider fails, or the success cannot be recorded
CallRaises ==
    /\ coro \in {"open", "anchored", "submitted", "delivered"}
    /\ coro' = "failing"
    /\ UNCHANGED <<task, line, old, anchor, job, known, made, process>>

\* finish_call asks for no status
RecordSuccessful ==
    /\ Goes("delivered", "done")
    /\ line' = "success"
    /\ UNCHANGED <<task, old, anchor, job, known, made, process>>

\* Mistake: the bracket lets errors through as it does cancellations.
LeaveFailed ==
    /\ Goes("failing", "failed")
    /\ UNCHANGED <<task, line, old, anchor, job, known, made, process>>

RecordFailed ==
    /\ Goes("failing", "failed")
    /\ line' = "failed"
    /\ UNCHANGED <<task, old, anchor, job, known, made, process>>

\* the write raises: that is logged, and the first error goes on
FailureIsLost ==
    /\ Goes("failing", "failed")
    /\ unwritten' = TRUE
    /\ UNCHANGED <<task, line, old, anchor, job, known, made, proc, lapsed, reboots>>

\* the row cannot be opened, or what follows the recorded success raises: the
\* version's entry, the thumbnail, the project file
AroundRaises ==
    /\ Goes("start", "failed") \/ Goes("done", "failed")
    /\ UNCHANGED <<task, line, old, anchor, job, known, made, process>>

Verdict(status) == CASE task = "direct"  -> "direct"
                     [] task = "running" -> status
                     [] OTHER            -> "cancelled"

\* mark_task_succeeded and mark_task_failed; no row means a cancel was first
MarkTask ==
    /\ \/ Goes("done", "none") /\ task' = Verdict("succeeded")
       \/ Goes("failed", "none") /\ task' = Verdict("failed")
    /\ known' = FALSE
    /\ UNCHANGED <<line, old, anchor, job, made, process>>

\* the write of the task's status raises, and the coroutine is over
MarkRaises ==
    /\ Goes("done", "none") \/ Goes("failed", "none") \/ Goes("closing", "none")
    /\ known' = FALSE
    /\ UNCHANGED <<task, line, old, anchor, job, made, process>>

-----------------------------------------------------------------------------
(* Cancellation. *)

\* cancel_task and its signal, or whoever waits for a direct call gives up
CancelCall ==
    /\ Serving
    /\ \/ task = "queued" /\ task' = "cancelled"
       \/ task = "running" /\ task' = "cancelling"
       \/ task = "direct" /\ coro \in Calling /\ task' = task
    /\ coro' = IF coro \in Calling THEN "unwinding" ELSE coro
    /\ UNCHANGED <<line, old, anchor, job, known, made, process>>

\* _settle_cancelled_ledger_call: the id is looked for in the coroutine's dict; a
\* write that raises is logged
SettleCancelled ==
    /\ Goes("unwinding", "closing")
    /\ line' \in {line, IF known THEN Settled("failed") ELSE line}
    /\ UNCHANGED <<task, old, anchor, job, known, made, process>>

MarkCancelled ==
    /\ Goes("closing", "none")
    /\ task' = IF task = "direct" THEN task ELSE "cancelled"
    /\ known' = FALSE
    /\ UNCHANGED <<line, old, anchor, job, made, process>>

-----------------------------------------------------------------------------
(* Crash and restart. *)

\* a forced exit cancels the loop and every coroutine, whatever the task's row
\* says; a write of the task's status is then rolled back, or was through
ProcessCancelled ==
    /\ proc # "down"
    /\ proc' = "ending"
    /\ lapsed' = (lapsed \/ proc \in {"scan", "settle"})
    /\ coro' \in IF coro \in Calling THEN {"unwinding"}
                 ELSE IF coro \in {"done", "failed"} THEN {coro, "closing"} ELSE {coro}
    /\ UNCHANGED <<task, line, old, anchor, job, known, made, unwritten, reboots>>

ProcessDies ==
    /\ proc # "down"
    /\ reboots < MaxReboots
    /\ reboots' = reboots + 1
    /\ proc' = "down"
    /\ coro' = "none"
    /\ known' = FALSE
    /\ UNCHANGED <<task, line, old, anchor, job, made, lapsed, unwritten>>

\* the worker is built: every row there is was opened before
Boot ==
    /\ proc = "down"
    /\ proc' = "scan"
    /\ old' = (line # "none")
    /\ lapsed' = FALSE
    /\ UNCHANGED <<task, line, anchor, job, known, made, coro, unwritten, reboots>>

Resumable == task = "running" /\ coro = "none" /\ job

\* Mistake: without an orphan there is nothing to settle.
ScanOrSkip ==
    /\ proc = "scan"
    /\ task \in {"running", "cancelling"} /\ coro = "none"
    /\ task' = IF task = "running" THEN "failed" ELSE "cancelled"
    /\ proc' = "settle"
    /\ UNCHANGED <<line, old, anchor, job, known, made, coro, lapsed, unwritten, reboots>>

\* the rest of the scan: tasks that are not, or cannot be, resumed
ScanOrphans ==
    /\ proc = "scan"
    /\ task' = CASE task = "running"    -> "failed"
                 [] task = "cancelling" -> "cancelled"
                 [] OTHER               -> task
    /\ proc' = "settle"
    /\ UNCHANGED <<line, old, anchor, job, known, made, coro, lapsed, unwritten, reboots>>

\* the resumed task starts from the row as it is now; it runs in the background
ScanResumes ==
    /\ proc = "scan"
    /\ Resumable
    /\ coro' = "resuming"
    /\ known' = anchor
    /\ proc' = "settle"
    /\ UNCHANGED <<task, line, old, anchor, job, made, lapsed, unwritten, reboots>>

\* Mistake: every pending row is settled, the calls of this process included.
SettleAll ==
    /\ proc = "settle"
    /\ line' = Settled("failed")
    /\ proc' = "run"
    /\ UNCHANGED <<task, old, anchor, job, known, made, coro, lapsed, unwritten, reboots>>

\* Mistake: a status of its own.
SettleAsInterrupted ==
    /\ proc = "settle"
    /\ line' = IF old THEN Settled("interrupted") ELSE line
    /\ proc' = "run"
    /\ UNCHANGED <<task, old, anchor, job, known, made, coro, lapsed, unwritten, reboots>>

SettleInterrupted ==
    /\ proc = "settle"
    /\ line' = IF old THEN Settled("failed") ELSE line
    /\ proc' = "run"
    /\ UNCHANGED <<task, old, anchor, job, known, made, coro, lapsed, unwritten, reboots>>

\* the settlement raises: that is logged, and not tried again in this process
SettleRaises ==
    /\ proc = "settle"
    /\ proc' = "run"
    /\ lapsed' = TRUE
    /\ UNCHANGED <<task, line, old, anchor, job, known, made, coro, unwritten, reboots>>

\* the scan, or a later queue call of the loop, raises: the loop ends for good
LoopDies ==
    /\ proc \in {"scan", "run"}
    /\ proc' = "dead"
    /\ lapsed' = (lapsed \/ proc = "scan")
    /\ UNCHANGED <<task, line, old, anchor, job, known, made, coro, unwritten, reboots>>

ResumeDelivers ==
    /\ Goes("resuming", "done")
    /\ made' = TRUE
    /\ line' = IF known THEN Settled("success") ELSE line
    /\ UNCHANGED <<task, old, anchor, job, known, process>>

ResumeExpires ==
    /\ Goes("resuming", "failed")
    /\ line' = IF known THEN Settled("failed") ELSE line
    /\ UNCHANGED <<task, old, anchor, job, known, made, process>>

\* any other error, and that of resume_success, leaves the row as it is
ResumeRaises ==
    /\ Goes("resuming", "failed")
    /\ made' \in {made, TRUE}
    /\ UNCHANGED <<task, line, old, anchor, job, known, process>>

-----------------------------------------------------------------------------
Execution == \/ StartCall \/ OpenRow \/ PersistCallId \/ CallSubmitted \/ CallDelivers
             \/ CallRaises \/ RecordSuccessful \/ RecordFailed \/ FailureIsLost
             \/ AroundRaises \/ MarkTask \/ MarkRaises \/ SettleCancelled
             \/ MarkCancelled \/ ResumeDelivers \/ ResumeExpires \/ ResumeRaises

Startup == Boot \/ ScanOrphans \/ ScanResumes \/ SettleInterrupted

Disturbance == ProcessCancelled \/ ProcessDies \/ SettleRaises \/ LoopDies

LedgerNext == Execution \/ CancelCall \/ Startup \/ Disturbance

LedgerSpec == LedgerInit /\ [][LedgerNext]_ledgerVars

\* the deployment restarts the process, and the worker's loop goes on until it raises
FairLedgerSpec == LedgerSpec /\ WF_ledgerVars(Startup)

-----------------------------------------------------------------------------
\* Types; a call id is persisted only of a row that exists, and a job id only
\* after the call id.
LedgerTypeOK ==
    /\ task \in {"queued", "running", "cancelling", "direct"} \union Ended
    /\ line \in {"none", "pending", "success", "failed"}
    /\ old \in BOOLEAN /\ anchor \in BOOLEAN /\ job \in BOOLEAN
    /\ known \in BOOLEAN /\ made \in BOOLEAN
    /\ lapsed \in BOOLEAN /\ unwritten \in BOOLEAN
    /\ coro \in Calling \union {"none", "done", "failed", "unwinding", "closing"}
    /\ proc \in {"scan", "settle", "run", "dead", "ending", "down"}
    /\ reboots \in 0 .. MaxReboots
    /\ anchor => line # "none"
    /\ job => anchor

\* A settled row is never settled again, nor to something else: not by the
\* start-up of a worker while a session's call is under way, nor by a resumed or
\* a cancelled task (finalize_pending_by_call_id and
\* settle_interrupted_pending_calls guard it, finish_call does not).
SettledIsFinal == [][(line \in {"success", "failed"}) => line' = line]_ledgerVars

\* What the end of a task says of its row, in the process that opened it: a success
\* is on record as one; a failure leaves the row pending only if the bracket could
\* not write it (Ledger.record; it must be through before the worker marks the
\* task).  Nothing is on record as a success that the provider did not make.
EndedIsSettled ==
    /\ line = "success" => made
    /\ ~ old /\ task = "succeeded" => line = "success"
    /\ ~ old /\ task = "failed" /\ line = "pending" => unwritten

\* A row a crash leaves pending is settled once the process is back, unless from
\* some start on no start-up gets to settle it: it raised, or was cut short.
RestartSettles == line = "pending" /\ old ~> (line # "pending" \/ []lapsed)

\* A resumed call that succeeds is recorded as a success ("flip pending -> success
\* exactly", media_generator.py:959): a succeeded task has no failed row.
SuccessIsRecorded == task = "succeeded" => line = "success"

=============================================================================
