------------------------ MODULE GenerationWorker_proofs ------------------------
(***************************************************************************)
(* What is proved of the generation worker together with the tasks table,  *)
(* for any number of tasks, cancel requests, lanes and slots, and across   *)
(* any crashes, stops, forced stops, restarts, outages and database        *)
(* errors.                                                                 *)
(***************************************************************************)
EXTENDS GenerationWorker, TaskTable_proofs

\* The loop has claimed the task and has not passed it on.
Holds(t) == pick[Loop].at = "claimed" /\ pick[Loop].task = t

Late == {"cancelling", "cancelled"}
Runs == [at : Positions, slot : {"free", "inflight", "pending"},
         resumed : BOOLEAN, signal : BOOLEAN,
         inner : SUBSET {"succeed", "fail", "cancel"},
         count : {"none", "zero", "one", "error"}]
Scans == [rows : [Tasks -> {"absent", "running", "cancelling"}],
          fallback : Tasks \union {NoTask}, resume : SUBSET Tasks]

\* The task has, had or is about to have an execution.
InUse(t) ==
    \/ run[t].slot # "free" \/ run[t].inner # {} \/ paid[t] # 0
    \/ scan.rows[t] # "absent" \/ t \in scan.resume

\* An execution only exists of a task that left the queue for good: requeues are
\* the loop's own, of what it still holds.
ExecutionInv(t) ==
    /\ run[t].slot = "free" =>
         run[t].at = "none" /\ ~ run[t].signal /\ run[t].count = "none"
    /\ InUse(t) => status[t] \notin {"absent", "queued"} /\ ~ Holds(t)
    /\ run[t].at \in {"entry", "exec"} => paid[t] = 0
    /\ paid[t] <= 1
    /\ run[t].signal => status[t] \in Late \/ mode = "aborting"

\* Nobody lets go of a running row, except when a queue call raised.
OwnershipInv(t) ==
    bounds.dbErrors = 0 =>
    /\ run[t].count # "none" => status[t] # "running"
    /\ run[t].at \in {"returned", "cancelled"} /\ mode \notin {"stopping", "aborting"}
         => status[t] # "running"
    /\ mode = "scan" /\ status[t] = "running"
         => scan.rows[t] = "running" \/ t \in scan.resume
    /\ mode = "run" /\ status[t] = "running"
         => Holds(t) \/ run[t].slot # "free" \/ run[t].inner # {}

\* Only a running loop claims; a process is ended while another restart is allowed.
LoopInv ==
    /\ pick[Loop].at # "idle" => mode = "run"
    /\ mode \in {"stopping", "aborting"} => bounds.restarts < MaxRestarts

\* What the worker relies on of the table.
RowsInv ==
    /\ TableInv
    /\ SignalledIsCancelling
    /\ ClaimedHasStarted
    /\ ClaimsAreExclusive

-----------------------------------------------------------------------------
(* What a step of the worker is for the table. *)

\* The loop, or the whole process, forgets what it was doing.
Forgets ==
    /\ pick' = [w \in Claimers |-> NoPick]
    /\ txn' = txn \/ txn' = [c \in Cancellers |-> NoTxn]

TableMove ==
    \/ \E n \in 1 .. MaxBatch : EnqueueBatch(n)
    \/ ClaimStep(Loop)
    \/ \E c \in Cancellers : CancelStep(c)
    \/ \E t \in Tasks : MarkSucceeded(t) \/ MarkFailed(t) \/ FinalizeCancelled(t)
    \/ UNCHANGED tableVars
    \/ Forgets /\ UNCHANGED rowVars
    \/ Forgets /\ \E t \in Tasks : FailRows(t)

\* The loop's actions on the table are those of the table's claimer.
LEMMA LoopMoves ==
    ASSUME TypeOK, ClaimedHasStarted,
           \/ \E m \in Media : Claim(m)
           \/ LoopStep
    PROVE  TableMove
<1>1. Loop \in Claimers /\ Claimers = {Loop}
  BY WorkerAssumption
<1>2. ASSUME NEW m \in Media, Claim(m)
      PROVE  TableMove
  <2>1. PoolFull(m) \in SUBSET Providers
    BY DEF PoolFull
  <2> QED
    BY <1>2, <2>1 DEF Claim, Media, ClaimStep, TableMove
<1>3. ASSUME NEW p \in Providers, NEW m \in Media, RejectClaimed(p, m)
      PROVE  TableMove
  <2> DEFINE t == pick[Loop].task
  <2>1. /\ pick[Loop].at = "claimed"
        /\ FailRows(t) \/ UNCHANGED rowVars
        /\ pick' = [pick EXCEPT ![Loop] = NoPick]
        /\ txn' = txn
    BY <1>3 DEF RejectClaimed, Routing, TryFail
  <2>2. t \in Tasks
    BY <1>1, <2>1 DEF ClaimedHasStarted
  <2>3. Forgets
    BY <1>1, <2>1 DEF TypeOK, Forgets
  <2> QED
    BY <2>1, <2>2, <2>3 DEF TableMove
<1>4. CASE ClaimCommit
  BY <1>4 DEF ClaimCommit, ClaimStep, TableMove
<1>5. ASSUME NEW p \in Providers, NEW m \in Media, Defer(p, m) \/ Dispatch(p, m)
      PROVE  TableMove
  BY <1>5 DEF Defer, Dispatch, ClaimStep, TableMove
<1>6. CASE Requeue
  BY <1>6 DEF Requeue, ClaimStep, TableMove
<1> QED
  BY <1>2, <1>3, <1>4, <1>5, <1>6 DEF LoopStep

\* Executions, the drain and the scan write rows or leave the table alone.
LEMMA ExecutionMoves ==
    ASSUME NEW t \in Tasks,
           \/ Execution(t) \/ Drain(t) \/ ScanRow(t) \/ CancelSwallowed(t)
           \/ \E write \in {"succeed", "fail", "cancel"} : Commit(t, write)
    PROVE  TableMove
<1>1. CASE Execution(t)
  BY <1>1 DEF Execution, Begin, Acquire, Submit, PersistJobId, ProviderDone, Fail,
              Finish, Resume, CancelDelivered, Settled, TableMove
<1>2. CASE Drain(t)
  BY <1>2 DEF Drain, TableMove
<1>3. CASE ScanRow(t)
  BY <1>3 DEF ScanRow, TableMove
<1>4. CASE CancelSwallowed(t)
  BY <1>4 DEF CancelSwallowed, TableMove
<1>5. CASE \E write \in {"succeed", "fail", "cancel"} : Commit(t, write)
  <2>1. \/ MarkSucceeded(t) \/ MarkFailed(t) \/ FinalizeCancelled(t)
        \/ UNCHANGED tableVars
    BY <1>5 DEF Commit
  <2> QED
    BY <2>1 DEF TableMove
<1> QED
  BY <1>1, <1>2, <1>3, <1>4, <1>5

\* The start, the exit and the errors forget or leave the table alone.
LEMMA ProcessMoves ==
    ASSUME TypeOK, WorkerTypeOK,
           StartStep \/ StopRequested \/ ProcessCancelled \/ Crash \/ Errors
    PROVE  TableMove
<1>1. Loop \in Claimers /\ Claimers = {Loop}
  BY WorkerAssumption
<1>2. CASE ScanSelect \/ ScanEnd \/ Boot \/ StopRequested
  BY <1>2 DEF ScanSelect, ScanEnd, Boot, StopRequested, TableMove
<1>3. CASE ScanFallback
  <2>1. /\ scan.fallback # NoTask
        /\ FinalizeCancelled(scan.fallback) \/ UNCHANGED tableVars
    BY <1>3 DEF ScanFallback
  <2>2. scan.fallback \in Tasks
    BY <2>1 DEF WorkerTypeOK
  <2> QED
    BY <2>1, <2>2 DEF TableMove
<1>4. CASE StopCompletes \/ ProcessCancelled \/ Crash
  BY <1>4 DEF StopCompletes, ProcessCancelled, Crash, Memory0, Forgets, TableMove
<1>5. CASE LoopDies \/ RequeueFails
  <2>1. /\ pick' = [pick EXCEPT ![Loop] = NoPick]
        /\ UNCHANGED <<rowVars, txn>>
    BY <1>5 DEF LoopDies, RequeueFails
  <2>2. Forgets
    BY <1>1, <2>1 DEF TypeOK, Forgets
  <2> QED
    BY <2>1, <2>2 DEF TableMove
<1>6. CASE \/ \E t \in Tasks : DrainFails(t)
           \/ \E t \in Tasks, write \in {"succeed", "fail", "cancel"} : CommitFails(t, write)
  BY <1>6 DEF DrainFails, CommitFails, TableMove
<1> QED
  BY <1>2, <1>3, <1>4, <1>5, <1>6 DEF StartStep, Errors

\* The requests and the enqueue are the table's own steps.
LEMMA ApiMoves ==
    ASSUME \/ ApiEnqueue
           \/ \E c \in Cancellers : ApiCancel(c) \/ ApiSignal(c) \/ ApiFinalize(c)
    PROVE  TableMove
<1>1. CASE ApiEnqueue
  BY <1>1 DEF ApiEnqueue, TableMove
<1>2. ASSUME NEW c \in Cancellers, ApiCancel(c) \/ ApiSignal(c) \/ ApiFinalize(c)
      PROVE  TableMove
  BY <1>2 DEF ApiCancel, ApiSignal, ApiFinalize, CancelStep, TableMove
<1> QED
  BY <1>1, <1>2

\* The worker does to the table what the table allows, and forgets.
LEMMA WorkerMoves ==
    ASSUME TypeOK, WorkerTypeOK, ClaimedHasStarted, WorkerNext
    PROVE  TableMove
<1>1. CASE \E p \in Providers, m \in Media : Cooldown(p, m)
  BY <1>1 DEF Cooldown, TableMove
<1>2. CASE \E t \in Tasks :
             \/ Execution(t) \/ Drain(t) \/ ScanRow(t) \/ CancelSwallowed(t)
             \/ \E write \in {"succeed", "fail", "cancel"} : Commit(t, write)
  BY <1>2, ExecutionMoves
<1> QED
  BY <1>1, <1>2, LoopMoves, ProcessMoves, ApiMoves DEF WorkerNext

-----------------------------------------------------------------------------
(* What the table keeps, and how far a step moves a row. *)

\* Either the table's own step or one that forgets: the rows' part is the same.
LEMMA MoveKinds ==
    ASSUME TableMove
    PROVE  \/ CallersNext \/ UNCHANGED tableVars
           \/ Forgets /\ (UNCHANGED rowVars \/ \E t \in Tasks : FailRows(t))
  BY WorkerAssumption DEF TableMove, CallersNext

\* What forgets may still fail rows that were running.
LEMMA ForgettingRows ==
    ASSUME TableInv, Forgets, UNCHANGED rowVars \/ \E t \in Tasks : FailRows(t)
    PROVE  TypeOK' /\ RowStep /\ SoundBlame
<1> USE DEF TableInv
<1>1. CASE UNCHANGED rowVars
  <2>1. RowStep
    BY <1>1 DEF rowVars, RowStep, Edge
  <2>2. TypeOK'
    BY <1>1 DEF rowVars, Forgets, TypeOK, NoPick, NoTxn, Status
  <2> QED
    BY <1>1, <2>1, <2>2, UntouchedBlame DEF rowVars
<1>2. ASSUME NEW t \in Tasks, FailRows(t)
      PROVE  TypeOK' /\ RowStep /\ SoundBlame
  <2>1. status' \in [Tasks -> Status] /\ UNCHANGED <<key, dep, queuedAt, provider, cancelledBy>>
    BY <1>2 DEF FailRows, TypeOK, Status, Terminal
  <2>2. TypeOK'
    BY <2>1 DEF Forgets, TypeOK, NoPick, NoTxn, Status
  <2> QED
    BY <1>2, <2>2, FailRowsEffect
<1> QED
  BY <1>1, <1>2

\* What the worker relies on of the table survives all its moves.
LEMMA RowsKept ==
    ASSUME RowsInv, TableMove
    PROVE  RowsInv'
<1> USE DEF RowsInv
<1>1. CASE CallersNext \/ UNCHANGED tableVars
  BY <1>1, NextInv, SignalledNext, CallersKeepExclusive DEF CallersNext, TableNext
<1>2. CASE Forgets /\ (UNCHANGED rowVars \/ \E t \in Tasks : FailRows(t))
  <2>1. TypeOK' /\ RowStep /\ SoundBlame
    BY <1>2, ForgettingRows
  <2>2. TableInv'
    BY <1>2, <2>1, ForgettingInv DEF Forgets
  <2>3. SignalledIsCancelling'
    BY <1>2, <2>1 DEF Forgets, NoTxn, RowStep, Edge, SignalledIsCancelling, TableInv, TypeOK
  <2>4. ClaimedHasStarted' /\ ClaimsAreExclusive'
    BY <1>2 DEF Forgets, NoPick, ClaimedHasStarted, ClaimsAreExclusive
  <2> QED
    BY <2>2, <2>3, <2>4
<1> QED
  BY <1>1, <1>2, MoveKinds

\* What any step may do to the row of a task: only the loop moves it into or out
\* of "running", and only between "queued" and the loop's own claim.
Forward(t) ==
    /\ status[t] \notin {"absent", "queued"} /\ ~ Holds(t)
         => status'[t] \notin {"absent", "queued"}
    /\ status[t] \in Late => status'[t] \in Late
    /\ status'[t] = "running" => status[t] = "running" \/ (status[t] = "queued" /\ Holds(t)')
    /\ Holds(t)' => Holds(t) \/ status[t] = "queued"
    /\ status[t] # "absent" => key'[t] = key[t]

\* The loop requeues nothing but its own claim.
LEMMA ClaimsForward ==
    ASSUME RowsInv, ClaimStep(Loop), NEW t \in Tasks
    PROVE  Forward(t)
<1> USE DEF RowsInv, TableInv
<1>1. Loop \in Claimers
  BY WorkerAssumption
<1>2. CASE UNCHANGED <<status, key>> /\ (Holds(t)' => Holds(t))
  BY <1>2 DEF Forward, Late
<1>3. CASE \E m \in {"image", "video", "audio"}, full \in SUBSET Providers :
             ClaimSelect(Loop, m, full)
  BY <1>1, <1>2, <1>3 DEF ClaimSelect, rowVars, Holds, TypeOK
<1>4. CASE ClaimUpdate(Loop)
  <2> DEFINE c == pick[Loop].task
  <2>1. c \in Tasks /\ pick[Loop].at = "selected"
    BY <1>1, <1>4 DEF ClaimUpdate, ClaimsUnblocked
  <2>2. CASE status[c] = "queued"
    <3>1. /\ \A u \in Tasks : status'[u] = IF u = c THEN "running" ELSE status[u]
          /\ pick'[Loop].at = "claimed" /\ pick'[Loop].task = c
          /\ UNCHANGED key
      BY <1>1, <1>4, <2>1, <2>2 DEF ClaimUpdate, TypeOK
    <3> QED
      BY <2>2, <3>1 DEF Forward, Late, Holds
  <2>3. CASE status[c] # "queued"
    BY <1>1, <1>2, <1>4, <2>3 DEF ClaimUpdate, Holds, TypeOK, NoPick
  <2> QED
    BY <2>2, <2>3
<1>5. CASE HandOver(Loop)
  BY <1>1, <1>2, <1>5 DEF HandOver, rowVars, Holds, TypeOK, NoPick
<1>6. CASE \E p \in Providers : PersistProvider(Loop, p)
  BY <1>1, <1>2, <1>6 DEF PersistProvider, Holds
<1>7. CASE RequeueClaimed(Loop)
  <2>1. /\ \A u \in Tasks : status'[u] = IF Holds(u) /\ status[u] = "running"
                                           THEN "queued" ELSE status[u]
        /\ ~ Holds(t)' /\ UNCHANGED key
    BY <1>1, <1>7 DEF RequeueClaimed, Holds, TypeOK, NoPick
  <2> QED
    BY <2>1 DEF Forward, Late
<1> QED
  BY <1>3, <1>4, <1>5, <1>6, <1>7 DEF ClaimStep

\* The same for every step on the table.
LEMMA MovesForward ==
    ASSUME RowsInv, TableMove, NEW t \in Tasks
    PROVE  Forward(t)
<1> USE DEF RowsInv, TableInv
<1> DEFINE Onward(u) == (status[u] = "running" => status'[u] # "queued")
                          /\ (status'[u] = "running" => status[u] = "running")
<1>1. CASE \E n \in 1 .. MaxBatch : EnqueueBatch(n)
  BY <1>1, InsertEffect DEF Forward, Late, Holds
<1>2. CASE ClaimStep(Loop)
  BY <1>2, ClaimsForward
<1>3. CASE /\ RowStep /\ (Holds(t)' => Holds(t))
           /\ \A u \in Tasks : Onward(u)
  BY <1>3 DEF RowStep, Edge, Forward, Late
<1>4. ASSUME NEW c \in Cancellers, CancelStep(c)
      PROVE  Forward(t)
  <2>1. RowStep /\ UNCHANGED pick
    BY <1>4, CancelEffect
  <2>2. \A u \in Tasks : Onward(u)
    BY <1>4 DEF CancelStep, CancelSelect, CancelApply, FinalizeCancelling,
                CancelReturn, CancelRows, rowVars
  <2> QED
    BY <1>3, <2>1, <2>2 DEF Holds
<1>5. ASSUME NEW u \in Tasks, MarkSucceeded(u) \/ MarkFailed(u) \/ FinalizeCancelled(u)
      PROVE  Forward(t)
  <2>1. RowStep /\ UNCHANGED pick
    BY <1>5, EndEffect
  <2>2. \A v \in Tasks : Onward(v)
    <3>1. CASE MarkSucceeded(u)
      BY <3>1 DEF MarkSucceeded, TypeOK
    <3>2. CASE MarkFailed(u)
      BY <3>2 DEF MarkFailed, FailRows, CancelRows, TypeOK
    <3>3. CASE FinalizeCancelled(u)
      BY <3>3 DEF FinalizeCancelled, CancelRows, TypeOK
    <3> QED
      BY <1>5, <3>1, <3>2, <3>3
  <2> QED
    BY <1>3, <2>1, <2>2 DEF Holds
<1>6. CASE UNCHANGED tableVars
  BY <1>6 DEF tableVars, rowVars, Forward, Late, Holds
<1>7. CASE Forgets /\ (UNCHANGED rowVars \/ \E u \in Tasks : FailRows(u))
  <2>1. RowStep
    BY <1>7, ForgettingRows
  <2>2. ~ Holds(t)'
    BY <1>7, WorkerAssumption DEF Forgets, Holds, NoPick
  <2>3. \A v \in Tasks : Onward(v)
    BY <1>7 DEF FailRows, rowVars
  <2> QED
    BY <1>3, <2>1, <2>2, <2>3
<1> QED
  BY <1>1, <1>2, <1>4, <1>5, <1>6, <1>7 DEF TableMove

-----------------------------------------------------------------------------
(* The executions: one coroutine moves, the others stay where they are. *)

ProcessInv ==
    /\ WorkerTypeOK
    /\ LoopInv
    /\ \A t \in Tasks : ExecutionInv(t) /\ OwnershipInv(t)

WorkerInv == RowsInv /\ ProcessInv

\* The type of the slot table, apart from that of the other variables.
LEMMA RunType == WorkerTypeOK => run \in [Tasks -> Runs]
  BY DEF WorkerTypeOK, Runs

\* One entry of the table is replaced.
LEMMA OneRewritten ==
    ASSUME run \in [Tasks -> Runs], NEW t \in Tasks, NEW after \in Runs,
           run' = [run EXCEPT ![t] = after]
    PROVE  /\ run' \in [Tasks -> Runs] /\ run'[t] = after
           /\ \A u \in Tasks \ {t} : run'[u] = run[u]
  OBVIOUS

\* Every coroutine is told to stop where it is, and its writes are dropped.
LEMMA CancelledEffect ==
    ASSUME WorkerTypeOK, ProcessCancelled
    PROVE  /\ run' \in [Tasks -> Runs]
           /\ \A u \in Tasks :
                /\ run'[u].at = run[u].at /\ run'[u].slot = run[u].slot
                /\ run'[u].resumed = run[u].resumed /\ run'[u].count = run[u].count
                /\ run'[u].inner = {}
                /\ run'[u].signal => run[u].slot # "free"
<1>1. run \in [Tasks -> Runs]
  BY RunType
<1>2. ASSUME NEW u \in Tasks
      PROVE  /\ run'[u] \in Runs
             /\ run'[u].at = run[u].at /\ run'[u].slot = run[u].slot
             /\ run'[u].resumed = run[u].resumed /\ run'[u].count = run[u].count
             /\ run'[u].inner = {}
             /\ run'[u].signal => run[u].slot # "free"
  <2> DEFINE told == run[u].slot # "free" /\ run[u].at \notin Ended
             after == [run[u] EXCEPT !.signal = told, !.inner = {}]
  <2>1. run'[u] = after
    BY DEF ProcessCancelled
  <2>2. run[u] \in Runs
    BY <1>1
  <2>3. told \in BOOLEAN /\ (told => run[u].slot # "free")
    OBVIOUS
  <2> HIDE DEF told
  <2> QED
    BY <2>1, <2>2, <2>3 DEF Runs
<1>3. run' = [u \in Tasks |-> run'[u]]
  BY DEF ProcessCancelled
<1> HIDE DEF Runs
<1> QED
  BY <1>2, <1>3

\* What a position awaits, if anything, is one of the three writes.
LEMMA AwaitedWrites ==
    \A at : Awaited(at) # "nothing" => Awaited(at) \in {"succeed", "fail", "cancel"}
  BY DEF Awaited

\* A task that may be claimed has nothing in this process.
LEMMA QueuedIsIdle ==
    ASSUME ProcessInv, NEW t \in Tasks, status[t] = "queued"
    PROVE  /\ ~ InUse(t) /\ run[t].slot = "free" /\ run[t].inner = {}
           /\ run[t].at = "none" /\ ~ run[t].signal /\ run[t].count = "none"
  BY DEF ProcessInv, ExecutionInv, InUse

\* An execution that does not move; it may be signalled, if its row is late.
Still(t) ==
    /\ run'[t].at = run[t].at /\ run'[t].slot = run[t].slot
    /\ run'[t].inner = run[t].inner /\ run'[t].count = run[t].count
    /\ run'[t].resumed = run[t].resumed
    /\ run'[t].signal =>
         run[t].signal \/ (run[t].slot # "free" /\ status'[t] \in Late)

\* An execution that is left alone, or lets go, keeps its invariant ...
LEMMA StillExecution ==
    ASSUME ProcessInv, NEW t \in Tasks, Forward(t),
           Still(t), paid'[t] = paid[t], InUse(t)' => InUse(t), UNCHANGED mode
    PROVE  ExecutionInv(t)'
<1>1. run[t].signal => status[t] \in Late \/ mode = "aborting"
  BY DEF ProcessInv, ExecutionInv
<1> QED
  BY <1>1, QueuedIsIdle DEF Still, ProcessInv, ExecutionInv, Forward

\* ... and its row its owner.
LEMMA StillOwned ==
    ASSUME ProcessInv, LoopInv', NEW t \in Tasks, Forward(t), UNCHANGED <<mode, scan>>,
           Still(t), bounds'.dbErrors = 0 => bounds.dbErrors = 0,
           bounds'.dbErrors = 0 /\ status'[t] = "running" /\ Holds(t) => Holds(t)'
    PROVE  OwnershipInv(t)'
<1>1. CASE status[t] = "queued" /\ Holds(t)' /\ status'[t] = "running"
  <2>1. /\ run[t].count = "none" /\ run[t].at = "none" /\ mode = "run"
    BY <1>1, QueuedIsIdle DEF LoopInv, Holds
  <2> QED
    BY <1>1, <2>1 DEF OwnershipInv, Still
<1>2. CASE status'[t] = "running" => status[t] = "running"
  BY <1>2 DEF ProcessInv, OwnershipInv, Still
<1> QED
  BY <1>1, <1>2 DEF Forward

\* The variables of the process but `run` and `paid` keep their types.
SettingsKept ==
    /\ UNCHANGED <<mode, deferring, scan, pick>>
    /\ job' \in [Tasks -> BOOLEAN]
    /\ health' \in [Providers -> [Media -> {"ok", "open", "half_open"}]]
    /\ bounds' \in [restarts : 0 .. MaxRestarts, trips : 0 .. MaxTrips,
                    dbErrors : 0 .. MaxDbErrors]
    /\ bounds'.restarts = bounds.restarts
    /\ bounds'.dbErrors = 0 => bounds.dbErrors = 0

\* If one task's part of the process is right after a step, all of it is.
LEMMA OneWrites ==
    ASSUME ProcessInv, \A u \in Tasks : Forward(u), SettingsKept, NEW t \in Tasks,
           run' \in [Tasks -> Runs], paid' \in [Tasks -> Nat],
           \A u \in Tasks \ {t} : Still(u) /\ paid'[u] = paid[u],
           ExecutionInv(t)', OwnershipInv(t)'
    PROVE  ProcessInv'
<1>1. WorkerTypeOK'
  BY DEF ProcessInv, WorkerTypeOK, SettingsKept, Runs
<1>2. LoopInv'
  BY DEF ProcessInv, LoopInv, SettingsKept
<1>3. ASSUME NEW u \in Tasks \ {t}
      PROVE  ExecutionInv(u)' /\ OwnershipInv(u)'
  <2>1. InUse(u)' => InUse(u)
    BY <1>3 DEF InUse, SettingsKept, Still
  <2>2. Holds(u)' = Holds(u)
    BY DEF Holds, SettingsKept
  <2> QED
    BY <1>2, <1>3, <2>1, <2>2, StillExecution, StillOwned DEF SettingsKept
<1> QED
  BY <1>1, <1>2, <1>3 DEF ProcessInv

\* The same where the other tasks' executions are untouched.
LEMMA OneMoves ==
    ASSUME ProcessInv, \A u \in Tasks : Forward(u), SettingsKept, NEW t \in Tasks,
           run' \in [Tasks -> Runs], paid' \in [Tasks -> Nat],
           \A u \in Tasks \ {t} : run'[u] = run[u] /\ paid'[u] = paid[u],
           ExecutionInv(t)', OwnershipInv(t)'
    PROVE  ProcessInv'
<1>1. \A u \in Tasks \ {t} : Still(u)
  BY DEF Still
<1> QED
  BY <1>1, OneWrites

\* The coroutine goes on.
LEMMA GoesToEffect ==
    ASSUME WorkerTypeOK, NEW t \in Tasks, NEW to \in Positions, GoesTo(t, to)
    PROVE  /\ run' \in [Tasks -> Runs]
           /\ \A u \in Tasks \ {t} : run'[u] = run[u]
           /\ run'[t].at = to /\ run'[t].slot = run[t].slot
           /\ ~ run'[t].signal /\ run'[t].count = "none"
           /\ run'[t].resumed = run[t].resumed
           /\ run'[t].inner = IF Awaited(to) = "nothing" THEN run[t].inner
                              ELSE run[t].inner \union {Awaited(to)}
<1>1. run \in [Tasks -> Runs]
  BY RunType
<1> DEFINE inner == IF Awaited(to) = "nothing" THEN run[t].inner
                    ELSE run[t].inner \union {Awaited(to)}
<1>2. inner \in SUBSET {"succeed", "fail", "cancel"}
  BY <1>1, AwaitedWrites DEF Runs
<1> DEFINE after == [run[t] EXCEPT !.at = to, !.signal = FALSE, !.count = "none",
                                   !.inner = inner]
<1>3. run' = [run EXCEPT ![t] = after]
  BY <1>1 DEF GoesTo, Runs
<1>4. inner = IF Awaited(to) = "nothing" THEN run[t].inner
              ELSE run[t].inner \union {Awaited(to)}
  OBVIOUS
<1> HIDE DEF inner
<1>5. run[t] \in Runs
  BY <1>1
<1>6. /\ after \in Runs /\ after.at = to /\ after.slot = run[t].slot
      /\ ~ after.signal /\ after.count = "none"
      /\ after.resumed = run[t].resumed /\ after.inner = inner
  BY <1>2, <1>5 DEF Runs
<1> HIDE DEF after
<1> QED
  BY <1>1, <1>3, <1>4, <1>6, OneRewritten

\* A coroutine that goes on keeps the invariant if it has not paid twice.
LEMMA GoesOn ==
    ASSUME ProcessInv, \A u \in Tasks : Forward(u), NEW t \in Tasks,
           run[t].at # "none", SettingsKept,
           NEW to \in Positions \ (Ended \union {"entry"}), GoesTo(t, to),
           paid' \in [Tasks -> Nat], paid'[t] <= 1, to = "exec" => paid'[t] = 0,
           \A u \in Tasks \ {t} : paid'[u] = paid[u]
    PROVE  ProcessInv'
<1>1. /\ run' \in [Tasks -> Runs]
      /\ \A u \in Tasks \ {t} : run'[u] = run[u]
      /\ run'[t].at = to /\ run'[t].slot = run[t].slot
      /\ ~ run'[t].signal /\ run'[t].count = "none"
  BY GoesToEffect DEF ProcessInv
<1>2. run[t].slot # "free" /\ InUse(t)
  BY DEF ProcessInv, ExecutionInv, InUse
<1>3. status[t] \notin {"absent", "queued"} /\ ~ Holds(t)
  BY <1>2 DEF ProcessInv, ExecutionInv
<1>4. ExecutionInv(t)'
  BY <1>1, <1>2, <1>3 DEF ExecutionInv, Forward
<1>5. OwnershipInv(t)'
  <2>1. mode = "scan" /\ bounds.dbErrors = 0 /\ status[t] = "running"
          => scan.rows[t] = "running" \/ t \in scan.resume
    BY DEF ProcessInv, OwnershipInv
  <2> QED
    BY <1>1, <1>2, <1>3, <2>1 DEF OwnershipInv, Ended, Forward, SettingsKept
<1> QED
  BY <1>1, <1>4, <1>5, OneMoves

\* The coroutine ends: only when its row is no longer running, or when the
\* worker stops.
LEMMA EndsEffect ==
    ASSUME WorkerTypeOK, NEW t \in Tasks, NEW how \in {"returned", "cancelled"},
           Ends(t, how)
    PROVE  /\ run' \in [Tasks -> Runs]
           /\ \A u \in Tasks \ {t} : run'[u] = run[u]
           /\ ~ run'[t].signal /\ run'[t].count = "none"
           /\ run'[t].inner = run[t].inner
           /\ \/ run'[t].slot = "free" /\ run'[t].at = "none" /\ ~ run'[t].resumed
              \/ run'[t].slot = run[t].slot /\ run'[t].at = how
                 /\ run'[t].resumed = run[t].resumed
<1>1. run \in [Tasks -> Runs]
  BY RunType
<1>2. CASE run[t].resumed
  <2> DEFINE after == [NoRun EXCEPT !.inner = run[t].inner]
  <2>1. run' = [run EXCEPT ![t] = after]
    BY <1>1, <1>2 DEF Ends
  <2>2. run[t].inner \in SUBSET {"succeed", "fail", "cancel"}
    BY <1>1 DEF Runs
  <2>3. /\ after \in Runs /\ after.slot = "free" /\ after.at = "none"
        /\ ~ after.resumed /\ ~ after.signal /\ after.count = "none"
        /\ after.inner = run[t].inner
    BY <2>2 DEF NoRun, Runs, Positions, Ended
  <2> HIDE DEF after
  <2> QED
    BY <1>1, <2>1, <2>3, OneRewritten
<1>3. CASE ~ run[t].resumed
  <2> DEFINE after == [run[t] EXCEPT !.at = how, !.signal = FALSE, !.count = "none"]
  <2>1. run' = [run EXCEPT ![t] = after]
    BY <1>1, <1>3 DEF Ends
  <2>2. run[t] \in Runs /\ how \in Positions
    BY <1>1 DEF Positions, Ended
  <2>3. /\ after \in Runs /\ after.slot = run[t].slot /\ after.at = how
        /\ after.resumed = run[t].resumed /\ ~ after.signal /\ after.count = "none"
        /\ after.inner = run[t].inner
    BY <2>2 DEF Runs
  <2> HIDE DEF after
  <2> QED
    BY <1>1, <2>1, <2>3, OneRewritten
<1> QED
  BY <1>2, <1>3

\* One that ends keeps it if its row is not running, or the process ends.
LEMMA EndsWell ==
    ASSUME ProcessInv, \A u \in Tasks : Forward(u), NEW t \in Tasks,
           run[t].at # "none", SettingsKept, UNCHANGED paid,
           NEW how \in {"returned", "cancelled"}, Ends(t, how),
           \/ mode \in {"stopping", "aborting"}
           \/ bounds.dbErrors = 0 => status[t] # "running"
    PROVE  ProcessInv'
<1>1. /\ run' \in [Tasks -> Runs]
      /\ \A u \in Tasks \ {t} : run'[u] = run[u]
      /\ ~ run'[t].signal /\ run'[t].count = "none"
      /\ \/ run'[t].slot = "free" /\ run'[t].at = "none"
         \/ run'[t].slot = run[t].slot /\ run'[t].at = how
  BY EndsEffect DEF ProcessInv
<1>2. run[t].slot # "free" /\ InUse(t)
  BY DEF ProcessInv, ExecutionInv, InUse
<1>3. status[t] \notin {"absent", "queued"} /\ ~ Holds(t) /\ paid[t] <= 1
  BY <1>2 DEF ProcessInv, ExecutionInv
<1>4. ExecutionInv(t)'
  BY <1>1, <1>2, <1>3 DEF ExecutionInv, Forward
<1>5. OwnershipInv(t)'
  BY <1>1, <1>3 DEF OwnershipInv, Forward, SettingsKept
<1>6. paid' \in [Tasks -> Nat]
  BY DEF ProcessInv, WorkerTypeOK
<1> QED
  BY <1>1, <1>4, <1>5, <1>6, OneMoves

-----------------------------------------------------------------------------
(* The steps of an execution. *)

Healths == [Providers -> [Media -> {"ok", "open", "half_open"}]]

\* The probe's verdict is a verdict.
LEMMA HealthSet ==
    ASSUME health \in Healths, NEW p, NEW m, NEW value \in {"ok", "open", "half_open"},
           health' = [health EXCEPT ![p][m] = value]
    PROVE  health' \in Healths
<1>1. ASSUME NEW q \in Providers
      PROVE  health'[q] \in [Media -> {"ok", "open", "half_open"}]
  <2>1. health[q] \in [Media -> {"ok", "open", "half_open"}]
    BY DEF Healths
  <2>2. CASE q # p
    BY <2>1, <2>2 DEF Healths
  <2>3. CASE q = p
    <3>1. health'[q] = [health[q] EXCEPT ![m] = value]
      BY <2>3 DEF Healths
    <3> QED
      BY <2>1, <3>1
  <2> QED
    BY <2>2, <2>3
<1>2. health' = [q \in Providers |-> health'[q]]
  BY DEF Healths
<1> QED
  BY <1>1, <1>2 DEF Healths

\* In all of them the table, and the settings that they do not name, stay.
LEMMA ExecutionSettings ==
    ASSUME WorkerTypeOK,
           UNCHANGED <<tableVars, mode, deferring, scan>>,
           job' = job \/ \E t \in Tasks : job' = [job EXCEPT ![t] = TRUE],
           health' = health \/ \E t \in Tasks, value \in {"ok", "open"} : SetHealth(t, value),
           bounds' = bounds \/ (bounds.trips < MaxTrips
                                /\ bounds' = [bounds EXCEPT !.trips = @ + 1])
    PROVE  SettingsKept
<1>1. job' \in [Tasks -> BOOLEAN]
  BY DEF WorkerTypeOK
<1>2. health' \in Healths
  BY HealthSet DEF WorkerTypeOK, Healths, SetHealth
<1>3. /\ bounds' \in [restarts : 0 .. MaxRestarts, trips : 0 .. MaxTrips,
                      dbErrors : 0 .. MaxDbErrors]
      /\ bounds'.restarts = bounds.restarts
      /\ bounds'.dbErrors = bounds.dbErrors
  BY WorkerAssumption DEF WorkerTypeOK
<1> QED
  BY <1>1, <1>2, <1>3 DEF SettingsKept, Healths, tableVars

\* What was paid for a task is zero or one.
LEMMA PaidType == ProcessInv => /\ paid \in [Tasks -> Nat]
                                /\ \A t \in Tasks : paid[t] <= 1
  BY DEF ProcessInv, WorkerTypeOK, ExecutionInv

\* The steps of an execution that neither pay nor write a row.
LEMMA MovesOn ==
    ASSUME ProcessInv, \A u \in Tasks : Forward(u), NEW t \in Tasks,
           \/ Begin(t) \/ PersistJobId(t) \/ ProviderDone(t) \/ Fail(t)
           \/ Finish(t) \/ Settled(t)
    PROVE  ProcessInv'
<1> USE DEF Proceeds
<1>1. WorkerTypeOK /\ paid \in [Tasks -> Nat] /\ paid[t] <= 1
  BY PaidType DEF ProcessInv
<1>2. SettingsKept
  BY <1>1, ExecutionSettings
     DEF Begin, PersistJobId, ProviderDone, Fail, Finish, Settled
<1>3. /\ UNCHANGED paid
      /\ run[t].at # "none"
      /\ \E to \in Positions \ (Ended \union {"entry"}) :
            GoesTo(t, to) /\ (to = "exec" => run[t].at = "entry")
  BY DEF Begin, PersistJobId, ProviderDone, Fail, Finish, Settled,
         Positions, Ended, Interruptible
<1>4. run[t].at = "entry" => paid[t] = 0
  BY DEF ProcessInv, ExecutionInv
<1> QED
  BY <1>1, <1>2, <1>3, <1>4, GoesOn

\* The one step that pays: from "exec", where nothing has been paid.
LEMMA SubmitsOnce ==
    ASSUME ProcessInv, \A u \in Tasks : Forward(u), NEW t \in Tasks, Submit(t)
    PROVE  ProcessInv'
<1>1. WorkerTypeOK /\ paid \in [Tasks -> Nat]
  BY PaidType DEF ProcessInv
<1>2. SettingsKept
  BY <1>1, ExecutionSettings DEF Submit
<1>3. paid[t] = 0
  BY DEF ProcessInv, ExecutionInv, Submit
<1>4. /\ paid' \in [Tasks -> Nat] /\ paid'[t] = 1
      /\ \A u \in Tasks \ {t} : paid'[u] = paid[u]
  BY <1>1, <1>3 DEF Submit
<1>5. /\ run[t].at # "none"
      /\ \E to \in {"submitted", "polling"} : GoesTo(t, to)
  BY DEF Submit, Proceeds
<1>6. {"submitted", "polling"} \subseteq Positions \ (Ended \union {"entry", "exec"})
  BY DEF Positions, Ended, Interruptible
<1> QED
  BY <1>2, <1>4, <1>5, <1>6, GoesOn

\* A count of rows is only awaited by a coroutine whose row has moved on.
LEMMA Resumes ==
    ASSUME ProcessInv, \A u \in Tasks : Forward(u), NEW t \in Tasks, Resume(t)
    PROVE  ProcessInv'
<1> USE DEF Proceeds
<1>1. WorkerTypeOK /\ paid \in [Tasks -> Nat] /\ paid[t] <= 1
  BY PaidType DEF ProcessInv
<1>2. SettingsKept
  BY <1>1, ExecutionSettings DEF Resume
<1>3. UNCHANGED paid /\ run[t].at # "none" /\ run[t].count # "none"
  BY DEF Resume
<1>4. bounds.dbErrors = 0 => status[t] # "running"
  BY <1>3 DEF ProcessInv, OwnershipInv
<1>5. \/ \E to \in {"yielding", "outer"} : GoesTo(t, to)
      \/ \E how \in {"returned", "cancelled"} : Ends(t, how)
  BY DEF Resume
<1>6. {"yielding", "outer"} \subseteq Positions \ (Ended \union {"entry", "exec"})
  BY DEF Positions, Ended, Interruptible
<1> QED
  BY <1>1, <1>2, <1>3, <1>4, <1>5, <1>6, GoesOn, EndsWell

\* So is a CancelledError delivered: the row is being cancelled, or the process is.
LEMMA DeliversCancel ==
    ASSUME ProcessInv, \A u \in Tasks : Forward(u), NEW t \in Tasks, CancelDelivered(t)
    PROVE  ProcessInv'
<1>1. WorkerTypeOK /\ paid \in [Tasks -> Nat] /\ paid[t] <= 1 /\ run \in [Tasks -> Runs]
  BY PaidType, RunType DEF ProcessInv
<1>2. SettingsKept
  BY <1>1, ExecutionSettings DEF CancelDelivered
<1>3. UNCHANGED paid /\ run[t].at # "none" /\ run[t].signal
  BY DEF CancelDelivered, Interruptible
<1>4. mode \in {"stopping", "aborting"} \/ status[t] # "running"
  BY <1>3 DEF ProcessInv, ExecutionInv, Late
<1>5. \/ \E to \in {"settling", "stopping", "outer"} : GoesTo(t, to)
      \/ Ends(t, "cancelled")
      \/ run' = [run EXCEPT ![t].at = "cancelled", ![t].signal = FALSE]
  BY DEF CancelDelivered
<1>6. {"settling", "stopping", "outer"} \subseteq Positions \ (Ended \union {"entry", "exec"})
  BY DEF Positions, Ended, Interruptible
<1>7. CASE run' = [run EXCEPT ![t].at = "cancelled", ![t].signal = FALSE]
  <2> DEFINE after == [run[t] EXCEPT !.at = "cancelled", !.signal = FALSE]
  <2>1. run' = [run EXCEPT ![t] = after]
    BY <1>1, <1>7 DEF Runs
  <2>7. run[t] \in Runs /\ "cancelled" \in Positions
    BY <1>1 DEF Positions, Ended
  <2>8. /\ after \in Runs /\ after.at = "cancelled" /\ ~ after.signal
        /\ after.slot = run[t].slot /\ after.inner = run[t].inner
        /\ after.count = run[t].count
    BY <2>7 DEF Runs
  <2> HIDE DEF after
  <2>2. /\ run' \in [Tasks -> Runs]
        /\ \A u \in Tasks \ {t} : run'[u] = run[u]
        /\ run'[t].at = "cancelled" /\ ~ run'[t].signal
        /\ run'[t].slot = run[t].slot /\ run'[t].inner = run[t].inner
        /\ run'[t].count = run[t].count
    BY <1>1, <2>1, <2>8, OneRewritten
  <2>3. run[t].slot # "free" /\ InUse(t)
    BY <1>3 DEF ProcessInv, ExecutionInv, InUse
  <2>4. status[t] \notin {"absent", "queued"} /\ ~ Holds(t)
    BY <2>3 DEF ProcessInv, ExecutionInv
  <2>5. ExecutionInv(t)'
    BY <1>1, <1>3, <2>2, <2>3, <2>4 DEF ExecutionInv, Forward
  <2>6. OwnershipInv(t)'
    <3>1. bounds'.dbErrors = 0 /\ run'[t].count # "none" => status'[t] # "running"
      BY <1>1, <1>2, <2>2, <2>3, <2>4 DEF ProcessInv, OwnershipInv, Forward, SettingsKept
    <3> QED
      BY <1>2, <1>4, <2>2, <2>3, <2>4, <3>1 DEF OwnershipInv, Forward, SettingsKept
  <2> QED
    BY <1>1, <1>2, <1>3, <2>2, <2>5, <2>6, OneMoves
<1> QED
  BY <1>1, <1>2, <1>3, <1>4, <1>5, <1>6, <1>7, GoesOn, EndsWell

\* A step of the coroutine that keeps its position in use: a promotion, a
\* cancellation swallowed, a write that raised.
LEMMA AcquiresOrSwallows ==
    ASSUME ProcessInv, \A u \in Tasks : Forward(u), NEW t \in Tasks,
           Acquire(t) \/ CancelSwallowed(t)
    PROVE  ProcessInv'
<1>1. WorkerTypeOK /\ paid \in [Tasks -> Nat] /\ paid[t] <= 1 /\ run \in [Tasks -> Runs]
  BY PaidType, RunType DEF ProcessInv
<1>2. SettingsKept
  BY <1>1, ExecutionSettings DEF Acquire, CancelSwallowed
<1>3. UNCHANGED <<paid, status>> /\ run[t].at \notin Ended
  BY DEF Acquire, CancelSwallowed, tableVars, rowVars, Ended
<1>4. CASE mode = "stopping" /\ Ends(t, "returned")
  BY <1>2, <1>3, <1>4, EndsWell DEF Ended
<1>5. CASE \/ /\ run[t].at = "waiting"
              /\ run' = [run EXCEPT ![t].at = "locked", ![t].slot = "inflight"]
           \/ run' = [run EXCEPT ![t].signal = FALSE]
  <2>1. /\ run' \in [Tasks -> Runs]
        /\ \A u \in Tasks \ {t} : run'[u] = run[u]
        /\ run'[t].at \in {run[t].at, "locked"}
        /\ run'[t].signal => run[t].signal
        /\ run'[t].slot \in {run[t].slot, "inflight"}
        /\ run'[t].inner = run[t].inner /\ run'[t].count = run[t].count
    <3> DEFINE locked == [run[t] EXCEPT !.at = "locked", !.slot = "inflight"]
               deaf == [run[t] EXCEPT !.signal = FALSE]
    <3>1. run' = [run EXCEPT ![t] = locked] \/ run' = [run EXCEPT ![t] = deaf]
      BY <1>1, <1>5 DEF Runs
    <3>2. run[t] \in Runs /\ "locked" \in Positions
      BY <1>1 DEF Positions
    <3>3. /\ locked \in Runs /\ locked.at = "locked" /\ locked.signal = run[t].signal
          /\ locked.slot = "inflight" /\ locked.inner = run[t].inner
          /\ locked.count = run[t].count
      BY <3>2 DEF Runs
    <3>4. /\ deaf \in Runs /\ deaf.at = run[t].at /\ ~ deaf.signal
          /\ deaf.slot = run[t].slot /\ deaf.inner = run[t].inner
          /\ deaf.count = run[t].count
      BY <3>2 DEF Runs
    <3> HIDE DEF locked, deaf
    <3>5. CASE run' = [run EXCEPT ![t] = locked]
      BY <1>1, <3>3, <3>5, OneRewritten
    <3>6. CASE run' = [run EXCEPT ![t] = deaf]
      BY <1>1, <3>4, <3>6, OneRewritten
    <3> QED
      BY <3>1, <3>5, <3>6
  <2>2. run[t].slot # "free" /\ InUse(t)
    BY <1>3 DEF ProcessInv, ExecutionInv, InUse, Ended
  <2>3. status[t] \notin {"absent", "queued"} /\ ~ Holds(t)
    BY <2>2 DEF ProcessInv, ExecutionInv
  <2>4. ExecutionInv(t)'
    <3>1. /\ run[t].at \in {"entry", "exec"} => paid[t] = 0
          /\ run[t].signal => status[t] \in Late \/ mode = "aborting"
      BY DEF ProcessInv, ExecutionInv
    <3>2. ~ Holds(t)'
      BY <2>3 DEF Forward
    <3>3. run'[t].slot # "free"
      BY <2>1, <2>2
    <3> QED
      BY <1>1, <1>2, <1>3, <2>1, <2>3, <3>1, <3>2, <3>3 DEF ExecutionInv, SettingsKept
  <2>5. OwnershipInv(t)'
    BY <1>2, <1>3, <2>1, <2>2 DEF ProcessInv, OwnershipInv, SettingsKept, Ended
  <2> QED
    BY <1>1, <1>2, <1>3, <2>1, <2>4, <2>5, OneMoves
<1> QED
  BY <1>4, <1>5 DEF Acquire, CancelSwallowed

\* Every step of an execution keeps the invariant.
LEMMA ExecutionKeeps ==
    ASSUME ProcessInv, \A u \in Tasks : Forward(u), NEW t \in Tasks,
           Execution(t) \/ CancelSwallowed(t)
    PROVE  ProcessInv'
  BY MovesOn, SubmitsOnce, Resumes, DeliversCancel, AcquiresOrSwallows DEF Execution

-----------------------------------------------------------------------------
(* The writes that end an execution, and the requests that cancel one. *)

\* A cancel request changes nothing but signals, of rows that have a slot.
LEMMA SignalledEffect ==
    ASSUME WorkerTypeOK, NEW tasks
    PROVE  /\ Signalled(tasks) \in [Tasks -> Runs]
           /\ \A u \in Tasks :
                LET was == run[u]  now == Signalled(tasks)[u] IN
                /\ now.at = was.at /\ now.slot = was.slot /\ now.inner = was.inner
                /\ now.count = was.count /\ now.resumed = was.resumed
                /\ now.signal => was.signal \/ (u \in tasks /\ was.slot # "free")
<1>1. run \in [Tasks -> Runs]
  BY RunType
<1> SUFFICES ASSUME NEW u \in Tasks
             PROVE  LET was == run[u]  now == Signalled(tasks)[u] IN
                /\ now \in Runs
                /\ now.at = was.at /\ now.slot = was.slot /\ now.inner = was.inner
                /\ now.count = was.count /\ now.resumed = was.resumed
                /\ now.signal => was.signal \/ (u \in tasks /\ was.slot # "free")
  BY DEF Signalled
<1> DEFINE hit == run[u].signal \/ (u \in tasks /\ run[u].slot # "free"
                                     /\ run[u].at \notin Ended)
<1>2. Signalled(tasks)[u] = [run[u] EXCEPT !.signal = hit]
  BY <1>1 DEF Signalled, Runs
<1>3. hit \in BOOLEAN
  BY <1>1 DEF Runs
<1>4. hit => run[u].signal \/ (u \in tasks /\ run[u].slot # "free")
  OBVIOUS
<1> HIDE DEF hit
<1> QED
  BY <1>1, <1>2, <1>3, <1>4 DEF Runs

\* What finalize_cancelled leaves of the rows it signals.
LEMMA FinalizedLate ==
    ASSUME NEW t \in Tasks, FinalizeCancelled(t)
    PROVE  /\ status'[t] = "cancelled"
           /\ \A u \in Stopped({}, KilledWith(t), status) : status'[u] \in Late
<1> DEFINE killed  == KilledWith(t)
           stopped == Stopped({}, killed, status)
<1>1. \A u \in Tasks : status'[u] = IF u \in killed THEN "cancelled"
                                    ELSE IF u \in stopped THEN "cancelling"
                                    ELSE status[u]
  BY DEF FinalizeCancelled, CancelRows
<1>2. t \in killed /\ stopped \subseteq Tasks
  BY DEF KilledWith, Stopped
<1> HIDE DEF killed, stopped
<1>3. status'[t] = "cancelled" /\ \A u \in stopped : status'[u] \in Late
  BY <1>1, <1>2 DEF Late
<1> QED
  BY <1>3 DEF killed, stopped

\* An awaited count and the writes left do not change an entry's type.
LEMMA WithCount ==
    ASSUME NEW r \in Runs, NEW inner \in SUBSET {"succeed", "fail", "cancel"},
           NEW count \in {"none", "zero", "one", "error"}
    PROVE  [r EXCEPT !.inner = inner, !.count = count] \in Runs
  BY DEF Runs

\* A shielded write commits: afterwards the row is not running, whoever waits.
LEMMA Commits ==
    ASSUME ProcessInv, \A u \in Tasks : Forward(u), NEW t \in Tasks,
           NEW write \in {"succeed", "fail", "cancel"}, Commit(t, write),
           status \in [Tasks -> Status]
    PROVE  ProcessInv'
<1> DEFINE hit == IF write = "cancel" THEN Cancellable(t) ELSE status[t] = "running"
           signalled == IF write = "cancel" /\ hit
                          THEN Signalled(Stopped({}, KilledWith(t), status)) ELSE run
           count == IF Awaited(run[t].at) # write THEN signalled[t].count
                    ELSE IF hit THEN "one" ELSE "zero"
<1>1. WorkerTypeOK /\ paid \in [Tasks -> Nat] /\ paid[t] <= 1 /\ run \in [Tasks -> Runs]
  BY PaidType, RunType DEF ProcessInv
<1>2. write \in run[t].inner
  BY DEF Commit
<1>3. status'[t] # "running"
  <2>1. CASE hit /\ write = "cancel" /\ FinalizeCancelled(t)
    BY <2>1, FinalizedLate
  <2>2. CASE MarkSucceeded(t) \/ MarkFailed(t)
    BY <2>2 DEF MarkSucceeded, MarkFailed, FailRows
  <2>3. CASE ~ hit /\ UNCHANGED tableVars
    BY <2>3 DEF Cancellable, Active, tableVars, rowVars
  <2> QED
    BY <2>1, <2>2, <2>3 DEF Commit
<1>4. /\ signalled \in [Tasks -> Runs]
      /\ \A u \in Tasks :
           /\ signalled[u].at = run[u].at /\ signalled[u].slot = run[u].slot
           /\ signalled[u].inner = run[u].inner /\ signalled[u].count = run[u].count
           /\ signalled[u].resumed = run[u].resumed
           /\ signalled[u].signal =>
                run[u].signal \/ (run[u].slot # "free" /\ status'[u] \in Late)
  <2>1. CASE write = "cancel" /\ hit
    <3>1. FinalizeCancelled(t)
      BY <2>1 DEF Commit
    <3>2. signalled = Signalled(Stopped({}, KilledWith(t), status))
      BY <2>1
    <3> HIDE DEF signalled, hit
    <3> QED
      BY <1>1, <3>1, <3>2, SignalledEffect, FinalizedLate
  <2>2. CASE ~ (write = "cancel" /\ hit)
    BY <1>1, <2>2
  <2> QED
    BY <2>1, <2>2
<1>5. run' = [signalled EXCEPT ![t].inner = @ \ {write},
                               ![t].count = IF Awaited(run[t].at) # write THEN @
                                            ELSE IF hit THEN "one" ELSE "zero"]
  BY DEF Commit
<1>6. run' = [signalled EXCEPT ![t] = [signalled[t] EXCEPT !.inner = run[t].inner \ {write},
                                                           !.count = count]]
  <2> HIDE DEF signalled, hit
  <2> QED
    BY <1>4, <1>5 DEF Runs
<1>7. count \in {"none", "zero", "one", "error"}
  <2> HIDE DEF signalled, hit
  <2> QED
    BY <1>4 DEF Runs
<1>8. run[t].at = "none" => count = run[t].count
  <2> HIDE DEF signalled, hit
  <2> QED
    BY <1>4 DEF Awaited
<1> HIDE DEF signalled, hit, count
<1>9. /\ run' \in [Tasks -> Runs]
      /\ \A u \in Tasks \ {t} : Still(u)
      /\ run'[t].at = run[t].at /\ run'[t].slot = run[t].slot
      /\ run'[t].count = count
      /\ run'[t].signal => run[t].signal \/ (run[t].slot # "free" /\ status'[t] \in Late)
  <2> DEFINE after == [signalled[t] EXCEPT !.inner = run[t].inner \ {write}, !.count = count]
  <2>1. run[t].inner \ {write} \in SUBSET {"succeed", "fail", "cancel"}
    BY <1>1 DEF Runs
  <2>2. signalled[t] \in Runs /\ after \in Runs
    BY <1>4, <1>7, <2>1, WithCount
  <2>3. /\ run' \in [Tasks -> Runs]
        /\ \A u \in Tasks \ {t} : run'[u] = signalled[u]
    <3> HIDE DEF after, Runs
    <3>1. run' = [signalled EXCEPT ![t] = after]
      BY <1>6 DEF after
    <3> QED
      BY <1>4, <2>2, <3>1
  <2>4. /\ run'[t].at = signalled[t].at /\ run'[t].slot = signalled[t].slot
        /\ run'[t].count = count /\ run'[t].signal = signalled[t].signal
    BY <1>4, <1>6, <1>7 DEF Runs
  <2> QED
    BY <1>4, <2>3, <2>4 DEF Still
<1>10. SettingsKept
  <2>1. pick' = pick
    BY DEF Commit, MarkSucceeded, MarkFailed, FinalizeCancelled, tableVars
  <2> QED
    BY <1>1, <2>1 DEF Commit, WorkerTypeOK, SettingsKept
<1>11. InUse(t) /\ status[t] \notin {"absent", "queued"} /\ ~ Holds(t)
  BY <1>2 DEF ProcessInv, ExecutionInv, InUse
<1>12. UNCHANGED paid
  BY DEF Commit
<1>13. ExecutionInv(t)'
  <2>1. /\ run[t].slot = "free" => run[t].at = "none" /\ ~ run[t].signal
                                    /\ run[t].count = "none"
        /\ run[t].at \in {"entry", "exec"} => paid[t] = 0
        /\ run[t].signal => status[t] \in Late \/ mode = "aborting"
    BY DEF ProcessInv, ExecutionInv
  <2> QED
    BY <1>1, <1>8, <1>9, <1>10, <1>11, <1>12, <2>1 DEF ExecutionInv, Forward, SettingsKept
<1>14. OwnershipInv(t)'
  BY <1>3 DEF OwnershipInv
<1> QED
  BY <1>1, <1>9, <1>10, <1>12, <1>13, <1>14, OneWrites

\* A database error is counted.
LEMMA ErrorCounted ==
    ASSUME WorkerTypeOK, DbError
    PROVE  /\ bounds' \in [restarts : 0 .. MaxRestarts, trips : 0 .. MaxTrips,
                           dbErrors : 0 .. MaxDbErrors]
           /\ bounds'.restarts = bounds.restarts /\ bounds'.dbErrors # 0
<1>1. bounds \in [restarts : 0 .. MaxRestarts, trips : 0 .. MaxTrips,
                  dbErrors : 0 .. MaxDbErrors]
  BY DEF WorkerTypeOK
<1>2. bounds.dbErrors + 1 \in 0 .. MaxDbErrors /\ bounds.dbErrors + 1 # 0
  BY <1>1, WorkerAssumption DEF DbError
<1>3. bounds' = [bounds EXCEPT !.dbErrors = @ + 1]
  BY DEF DbError
<1> QED
  BY <1>1, <1>2, <1>3

\* A write that raises is counted, and leaves its row to nobody.
LEMMA CommitsNot ==
    ASSUME ProcessInv, \A u \in Tasks : Forward(u), NEW t \in Tasks,
           NEW write \in {"succeed", "fail", "cancel"}, CommitFails(t, write)
    PROVE  ProcessInv'
<1> DEFINE count == IF Awaited(run[t].at) # write THEN run[t].count ELSE "error"
           after == [run[t] EXCEPT !.inner = run[t].inner \ {write}, !.count = count]
<1>1. WorkerTypeOK /\ paid \in [Tasks -> Nat] /\ paid[t] <= 1 /\ run \in [Tasks -> Runs]
  BY PaidType, RunType DEF ProcessInv
<1>2. write \in run[t].inner /\ UNCHANGED <<paid, tableVars>>
  BY DEF CommitFails
<1>3. run' = [run EXCEPT ![t] = after]
  BY <1>1 DEF CommitFails, Runs
<1>4. run[t].inner \ {write} \in SUBSET {"succeed", "fail", "cancel"}
      /\ count \in {"none", "zero", "one", "error"}
  BY <1>1 DEF Runs
<1>5. run[t].at = "none" => count = run[t].count
  BY <1>4 DEF Awaited
<1> HIDE DEF count
<1>6. after \in Runs
  BY <1>1, <1>4, WithCount
<1>7. /\ after.at = run[t].at /\ after.slot = run[t].slot
      /\ after.count = count /\ after.signal = run[t].signal
  BY <1>1, <1>4 DEF Runs
<1> HIDE DEF after
<1>8. /\ run' \in [Tasks -> Runs] /\ run'[t] = after
      /\ \A u \in Tasks \ {t} : run'[u] = run[u]
  BY <1>1, <1>3, <1>6
<1>9. SettingsKept /\ bounds'.dbErrors # 0
  BY <1>1, ErrorCounted DEF CommitFails, WorkerTypeOK, SettingsKept, tableVars
<1>10. InUse(t) /\ status[t] \notin {"absent", "queued"} /\ ~ Holds(t)
  BY <1>2 DEF ProcessInv, ExecutionInv, InUse
<1>11. ExecutionInv(t)'
  <2>1. /\ run[t].slot = "free" => run[t].at = "none" /\ ~ run[t].signal
                                    /\ run[t].count = "none"
        /\ run[t].at \in {"entry", "exec"} => paid[t] = 0
        /\ run[t].signal => status[t] \in Late \/ mode = "aborting"
    BY DEF ProcessInv, ExecutionInv
  <2> QED
    BY <1>1, <1>2, <1>5, <1>7, <1>8, <1>9, <1>10, <2>1
       DEF ExecutionInv, Forward, SettingsKept
<1>12. OwnershipInv(t)'
  BY <1>9 DEF OwnershipInv
<1> QED
  BY <1>1, <1>2, <1>8, <1>9, <1>11, <1>12, OneMoves

\* The loop takes an ended execution off the table.
LEMMA Drains ==
    ASSUME ProcessInv, \A u \in Tasks : Forward(u), NEW t \in Tasks,
           Drain(t) \/ DrainFails(t)
    PROVE  ProcessInv'
<1> DEFINE after == [NoRun EXCEPT !.inner = run[t].inner]
<1>1. WorkerTypeOK /\ paid \in [Tasks -> Nat] /\ paid[t] <= 1 /\ run \in [Tasks -> Runs]
  BY PaidType, RunType DEF ProcessInv
<1>2. /\ mode = "run" /\ run[t].slot = "inflight" /\ run[t].at \in {"returned", "cancelled"}
      /\ run' = [run EXCEPT ![t] = after] /\ UNCHANGED paid
  BY DEF Drain, DrainFails, LoopFree
<1>3. /\ after \in Runs /\ after.slot = "free" /\ after.at = "none"
      /\ ~ after.signal /\ after.count = "none"
  BY <1>1 DEF NoRun, Runs, Positions, Ended
<1> HIDE DEF after
<1>4. /\ run' \in [Tasks -> Runs] /\ run'[t] = after
      /\ \A u \in Tasks \ {t} : run'[u] = run[u]
  BY <1>1, <1>2, <1>3
<1>5. SettingsKept
  <2>1. pick' = pick
    BY DEF Drain, DrainFails, FinalizeCancelled, tableVars
  <2>2. CASE Drain(t)
    BY <1>1, <2>1, <2>2 DEF Drain, WorkerTypeOK, SettingsKept
  <2>3. CASE DrainFails(t)
    BY <1>1, <2>1, <2>3, ErrorCounted DEF DrainFails, WorkerTypeOK, SettingsKept
  <2> QED
    BY <2>2, <2>3
<1>6. InUse(t) /\ status[t] \notin {"absent", "queued"} /\ ~ Holds(t)
  BY <1>2 DEF ProcessInv, ExecutionInv, InUse
<1>7. ExecutionInv(t)'
  BY <1>1, <1>2, <1>3, <1>4, <1>6 DEF ExecutionInv, Forward
<1>8. OwnershipInv(t)'
  <2>1. bounds'.dbErrors = 0 => status'[t] # "running"
    BY <1>2, <1>5, <1>6 DEF ProcessInv, OwnershipInv, Forward, SettingsKept
  <2> QED
    BY <2>1 DEF OwnershipInv
<1> QED
  BY <1>1, <1>2, <1>4, <1>5, <1>7, <1>8, OneMoves

\* A request signals the coroutines of the rows it moved or found cancelling.
LEMMA Signals ==
    ASSUME RowsInv, ProcessInv, \A u \in Tasks : Forward(u),
           NEW c \in Cancellers, ApiSignal(c)
    PROVE  ProcessInv'
<1>1. WorkerTypeOK
  BY DEF ProcessInv
<1>2. /\ run' = Signalled(txn[c].signal) /\ UNCHANGED <<status, pick>>
      /\ UNCHANGED <<mode, deferring, scan, job, paid, health, bounds>>
  BY DEF ApiSignal, CancelReturn, rowVars
<1>3. \A u \in txn[c].signal : status[u] \in Late
  BY DEF RowsInv, SignalledIsCancelling, Late
<1>4. run' \in [Tasks -> Runs] /\ \A u \in Tasks : Still(u)
  BY <1>1, <1>2, <1>3, SignalledEffect DEF Still
<1>5. WorkerTypeOK' /\ LoopInv'
  BY <1>2, <1>4 DEF ProcessInv, WorkerTypeOK, LoopInv, Runs
<1>6. ASSUME NEW u \in Tasks
      PROVE  ExecutionInv(u)' /\ OwnershipInv(u)'
  <2>1. (InUse(u)' => InUse(u)) /\ (Holds(u)' <=> Holds(u))
    BY <1>2, <1>4 DEF InUse, Still, Holds
  <2> QED
    BY <1>2, <1>4, <1>5, <2>1, StillExecution, StillOwned
<1> QED
  BY <1>5, <1>6 DEF ProcessInv

-----------------------------------------------------------------------------
(* The steps of the loop. *)

\* A step that moves no execution: what matters is what becomes of the claim.
LEMMA LoopOnly ==
    ASSUME ProcessInv, \A u \in Tasks : Forward(u), LoopInv',
           UNCHANGED <<mode, run, scan, job, paid>>,
           deferring' \in BOOLEAN, health' \in Healths,
           bounds' \in [restarts : 0 .. MaxRestarts, trips : 0 .. MaxTrips,
                        dbErrors : 0 .. MaxDbErrors],
           bounds'.dbErrors = 0 => bounds.dbErrors = 0,
           \A u \in Tasks : bounds'.dbErrors = 0 /\ status'[u] = "running" /\ Holds(u)
                              => Holds(u)'
    PROVE  ProcessInv'
<1>1. WorkerTypeOK'
  BY DEF ProcessInv, WorkerTypeOK, Healths
<1>2. ASSUME NEW u \in Tasks
      PROVE  ExecutionInv(u)' /\ OwnershipInv(u)'
  <2>1. Still(u) /\ (InUse(u)' => InUse(u))
    BY DEF Still, InUse
  <2> QED
    BY <1>2, <2>1, StillExecution, StillOwned
<1> QED
  BY <1>1, <1>2 DEF ProcessInv

\* What a step of the loop may change of the settings.
LEMMA LoopSettings ==
    ASSUME ProcessInv,
           UNCHANGED <<mode, run, scan, job, paid>>,
           \/ health' = health /\ bounds' = bounds
           \/ health' = health /\ DbError
           \/ bounds' = bounds /\ \E p \in Providers, m \in Media : Cooldown(p, m)
    PROVE  /\ health' \in Healths
           /\ bounds' \in [restarts : 0 .. MaxRestarts, trips : 0 .. MaxTrips,
                           dbErrors : 0 .. MaxDbErrors]
           /\ bounds'.dbErrors = 0 => bounds.dbErrors = 0
           /\ bounds'.restarts = bounds.restarts
<1>1. WorkerTypeOK /\ health \in Healths
  BY DEF ProcessInv, WorkerTypeOK, Healths
<1>2. health' \in Healths
  BY <1>1, HealthSet DEF Cooldown
<1> QED
  BY <1>1, <1>2, ErrorCounted DEF WorkerTypeOK

\* Claiming, passing over and handing back: the claim is all that changes.
LEMMA Claims ==
    ASSUME RowsInv, ProcessInv, \A u \in Tasks : Forward(u),
           \/ \E m \in Media : Claim(m)
           \/ ClaimCommit
           \/ \E p \in Providers, m \in Media : RejectClaimed(p, m) \/ Defer(p, m)
           \/ Requeue
    PROVE  ProcessInv'
<1>1. /\ UNCHANGED <<mode, run, scan, job, paid, health, bounds>>
      /\ deferring' \in BOOLEAN
  BY DEF ProcessInv, WorkerTypeOK, Claim, ClaimCommit, RejectClaimed, Defer, Requeue,
         workerVars
<1>2. mode = "run"
  BY DEF ProcessInv, LoopInv, Claim, LoopFree, ClaimCommit, RejectClaimed, Defer,
         Routing, Requeue, RequeueClaimed
<1>3. LoopInv'
  BY <1>1, <1>2 DEF LoopInv
<1>4. ASSUME NEW u \in Tasks, status'[u] = "running", Holds(u)
      PROVE  Holds(u)'
  <2>1. pick[Loop].at = "claimed" /\ pick[Loop].task = u
    BY <1>4 DEF Holds
  <2>2. CASE \/ \E m \in Media : Claim(m)
             \/ ClaimCommit
    BY <2>1, <2>2 DEF Claim, LoopFree, ClaimCommit, ClaimUpdate
  <2>3. CASE \E p \in Providers, m \in Media : RejectClaimed(p, m)
    <3>1. FailRows(u) \/ (status[u] # "running" /\ UNCHANGED status)
      BY <2>1, <2>3 DEF RejectClaimed, TryFail, rowVars
    <3> QED
      BY <1>4, <3>1 DEF FailRows
  <2>4. CASE \E p \in Providers, m \in Media : Defer(p, m)
    BY <1>4, <2>4 DEF Defer, PersistProvider, Holds
  <2>5. CASE Requeue
    BY <1>4, <2>1, <2>5 DEF Requeue, RequeueClaimed, RowsInv, TableInv, TypeOK
  <2> QED
    BY <2>2, <2>3, <2>4, <2>5
<1>5. /\ health' \in Healths
      /\ bounds' \in [restarts : 0 .. MaxRestarts, trips : 0 .. MaxTrips,
                      dbErrors : 0 .. MaxDbErrors]
      /\ bounds'.dbErrors = 0 => bounds.dbErrors = 0
  BY <1>1, LoopSettings
<1> QED
  BY <1>1, <1>3, <1>4, <1>5, LoopOnly

\* A claim is lost by an error only; a cooldown touches no row.
LEMMA LosesClaimOrCools ==
    ASSUME RowsInv, ProcessInv, \A u \in Tasks : Forward(u),
           \/ RequeueFails
           \/ \E p \in Providers, m \in Media : Cooldown(p, m)
    PROVE  ProcessInv'
<1>1. /\ UNCHANGED <<mode, run, scan, job, paid>> /\ deferring' \in BOOLEAN
      /\ \/ health' = health /\ DbError
         \/ bounds' = bounds /\ \E p \in Providers, m \in Media : Cooldown(p, m)
  BY DEF ProcessInv, WorkerTypeOK, RequeueFails, Cooldown
<1>2. /\ UNCHANGED pick \/ (bounds'.dbErrors # 0 /\ pick'[Loop].at = "idle")
  BY WorkerAssumption, ErrorCounted
     DEF ProcessInv, RequeueFails, Cooldown, tableVars, RowsInv, TableInv, TypeOK, NoPick
<1>3. /\ health' \in Healths
      /\ bounds' \in [restarts : 0 .. MaxRestarts, trips : 0 .. MaxTrips,
                      dbErrors : 0 .. MaxDbErrors]
      /\ bounds'.dbErrors = 0 => bounds.dbErrors = 0
      /\ bounds'.restarts = bounds.restarts
  BY <1>1, LoopSettings
<1>4. LoopInv'
  BY <1>1, <1>2, <1>3 DEF ProcessInv, LoopInv
<1> QED
  BY <1>1, <1>2, <1>3, <1>4, LoopOnly DEF Holds

\* A registration gives an entry of the table.
LEMMA WithSlot ==
    ASSUME NEW r \in Runs, NEW at \in Positions,
           NEW slot \in {"free", "inflight", "pending"}, NEW resumed \in BOOLEAN
    PROVE  /\ [r EXCEPT !.slot = slot, !.at = at] \in Runs
           /\ [r EXCEPT !.at = at, !.slot = slot, !.resumed = resumed] \in Runs
<1>1. [r EXCEPT !.slot = slot, !.at = at] \in Runs
  BY DEF Runs
<1>2. [r EXCEPT !.at = at, !.slot = slot, !.resumed = resumed] \in Runs
  BY DEF Runs
<1> QED
  BY <1>1, <1>2

\* A claim becomes an execution: the row stays owned.
LEMMA Dispatches ==
    ASSUME RowsInv, ProcessInv, \A u \in Tasks : Forward(u),
           NEW p \in Providers, NEW m \in Media, Dispatch(p, m)
    PROVE  ProcessInv'
<1> PICK t \in Tasks : t = pick[Loop].task
  BY WorkerAssumption DEF Dispatch, Routing, RowsInv, ClaimedHasStarted
<1> DEFINE after == [run[t] EXCEPT !.slot = "inflight", !.at = "entry"]
<1>1. WorkerTypeOK /\ paid \in [Tasks -> Nat] /\ run \in [Tasks -> Runs]
  BY PaidType, RunType DEF ProcessInv
<1>2. Holds(t) /\ status[t] \notin {"absent", "queued"} /\ mode = "run"
  BY WorkerAssumption DEF Dispatch, Routing, Holds, RowsInv, ClaimedHasStarted
<1>3. /\ UNCHANGED <<status, mode, deferring, scan, job, paid, health, bounds>>
      /\ pick'[Loop].at = "idle"
  BY WorkerAssumption
     DEF Dispatch, HandOver, rowVars, RowsInv, TableInv, TypeOK, NoPick
<1>4. ~ InUse(t) /\ run[t].slot = "free" /\ paid[t] = 0 /\ ~ run[t].signal
      /\ run[t].count = "none"
  BY <1>2 DEF ProcessInv, ExecutionInv, InUse
<1>5. run' = [run EXCEPT ![t] = after]
  BY <1>1, <1>2 DEF Dispatch, Runs
<1>6. /\ after \in Runs /\ after.at = "entry" /\ after.slot = "inflight"
      /\ ~ after.signal /\ after.count = "none"
  <2>1. "entry" \in Positions
    BY DEF Positions
  <2>2. after \in Runs
    BY <1>1, <2>1, WithSlot
  <2>3. /\ after.at = "entry" /\ after.slot = "inflight"
        /\ after.signal = run[t].signal /\ after.count = run[t].count
    BY <1>1 DEF Runs
  <2> QED
    BY <1>4, <2>2, <2>3
<1> HIDE DEF after
<1>7. /\ run' \in [Tasks -> Runs] /\ run'[t] = after
      /\ \A u \in Tasks \ {t} : run'[u] = run[u]
  BY <1>1, <1>2, <1>5, <1>6
<1>8. WorkerTypeOK' /\ LoopInv'
  BY <1>1, <1>2, <1>3, <1>7 DEF WorkerTypeOK, LoopInv, Runs
<1>9. ExecutionInv(t)' /\ OwnershipInv(t)'
  <2>1. ExecutionInv(t)'
    BY <1>2, <1>3, <1>4, <1>6, <1>7 DEF ExecutionInv, Holds
  <2>2. OwnershipInv(t)'
    BY <1>2, <1>3, <1>6, <1>7 DEF OwnershipInv
  <2> QED
    BY <2>1, <2>2
<1>10. ASSUME NEW u \in Tasks \ {t}
       PROVE  ExecutionInv(u)' /\ OwnershipInv(u)'
  <2>1. Still(u) /\ (InUse(u)' => InUse(u))
    BY <1>3, <1>7 DEF Still, InUse
  <2>2. ~ Holds(u)
    BY <1>2 DEF Holds
  <2> QED
    BY <1>3, <1>8, <2>1, <2>2, StillExecution, StillOwned
<1> QED
  BY <1>8, <1>9, <1>10 DEF ProcessInv

\* Requests that signal nobody leave the executions alone.
LEMMA ApiLeavesProcess ==
    ASSUME RowsInv, ProcessInv, \A u \in Tasks : Forward(u),
           ApiEnqueue \/ \E c \in Cancellers : ApiCancel(c) \/ ApiFinalize(c)
    PROVE  ProcessInv'
<1>1. UNCHANGED <<mode, run, scan, job, paid, health, bounds, deferring, pick>>
  <2>1. CASE ApiEnqueue
    BY <2>1, InsertEffect DEF ApiEnqueue, workerVars, RowsInv, TableInv
  <2>2. CASE \E c \in Cancellers : ApiCancel(c) \/ ApiFinalize(c)
    BY <2>2 DEF ApiCancel, ApiFinalize, CancelSelect, CancelApply, FinalizeCancelling, workerVars
  <2> QED
    BY <2>1, <2>2
<1>2. deferring' \in BOOLEAN /\ LoopInv'
  BY <1>1 DEF ProcessInv, WorkerTypeOK, LoopInv
<1>3. /\ health' \in Healths
      /\ bounds' \in [restarts : 0 .. MaxRestarts, trips : 0 .. MaxTrips,
                      dbErrors : 0 .. MaxDbErrors]
      /\ bounds'.dbErrors = 0 => bounds.dbErrors = 0
  BY <1>1, LoopSettings
<1> QED
  BY <1>1, <1>2, <1>3, LoopOnly DEF Holds

-----------------------------------------------------------------------------
(* Starts, scans, stops and crashes. *)

\* What the process does apart from its executions: nobody holds a claim.
LEMMA NoClaim ==
    ASSUME ProcessInv, mode # "run", NEW t
    PROVE  ~ Holds(t)
  BY DEF ProcessInv, LoopInv, Holds

\* The scan starts when no row has an execution.
LEMMA ScanStarts ==
    ASSUME ProcessInv, \A u \in Tasks : Forward(u), ScanSelect
    PROVE  ProcessInv'
<1>1. /\ mode = "boot" /\ mode' = "scan"
      /\ UNCHANGED <<status, pick, run, deferring, job, paid, health, bounds>>
  BY DEF ScanSelect, tableVars, rowVars
<1> DEFINE rows == [t \in Tasks |-> IF status[t] \in {"running", "cancelling"}
                                      THEN status[t] ELSE "absent"]
<1>2. scan' = [rows |-> rows, fallback |-> NoTask, resume |-> {}]
  BY DEF ScanSelect, NoScan
<1>3. rows \in [Tasks -> {"absent", "running", "cancelling"}]
  OBVIOUS
<1>4. scan' \in Scans
  BY <1>2, <1>3 DEF Scans
<1>5. WorkerTypeOK' /\ LoopInv'
  BY <1>1, <1>4 DEF ProcessInv, WorkerTypeOK, Scans, LoopInv
<1>6. ASSUME NEW u \in Tasks
      PROVE  ExecutionInv(u)' /\ OwnershipInv(u)'
  <2>1. ~ Holds(u) /\ ~ Holds(u)'
    BY <1>1, NoClaim DEF Holds
  <2>2. InUse(u)' => InUse(u) \/ status[u] \in {"running", "cancelling"}
    BY <1>1, <1>2 DEF InUse
  <2>3. ExecutionInv(u)'
    BY <1>1, <2>1, <2>2 DEF ProcessInv, ExecutionInv
  <2>4. OwnershipInv(u)'
    BY <1>1, <1>2 DEF ProcessInv, OwnershipInv
  <2> QED
    BY <2>3, <2>4
<1> QED
  BY <1>5, <1>6 DEF ProcessInv

\* A step of the scan: it deals with one row, t, and leaves the others.
LEMMA ScanMoves ==
    ASSUME ProcessInv, \A u \in Tasks : Forward(u), NEW t \in Tasks,
           mode = "scan", UNCHANGED <<mode, run, deferring, job, paid, health, bounds, pick>>,
           scan' \in Scans,
           \A u \in Tasks : scan'.rows[u] # "absent" => scan.rows[u] # "absent",
           \A u \in scan'.resume : scan.rows[u] # "absent" \/ u \in scan.resume,
           \A u \in Tasks \ {t} : /\ scan'.rows[u] = scan.rows[u]
                                  /\ u \in scan'.resume <=> u \in scan.resume,
           \/ bounds.dbErrors = 0 => status'[t] # "running"
           \/ t \in scan'.resume
           \/ scan'.rows[t] = scan.rows[t] /\ (t \in scan.resume => t \in scan'.resume)
    PROVE  ProcessInv'
<1>1. WorkerTypeOK' /\ LoopInv'
  BY DEF ProcessInv, WorkerTypeOK, LoopInv, Scans
<1>2. ASSUME NEW u \in Tasks
      PROVE  ExecutionInv(u)' /\ OwnershipInv(u)'
  <2>1. Still(u) /\ (InUse(u)' => InUse(u))
    BY DEF Still, InUse
  <2>2. ~ Holds(u) /\ ~ Holds(u)'
    BY NoClaim DEF Holds
  <2>3. ExecutionInv(u)'
    BY <2>1, StillExecution
  <2>4. status'[u] = "running" => status[u] = "running"
    BY <2>2 DEF Forward
  <2>5. OwnershipInv(u)'
    BY <2>2, <2>4 DEF ProcessInv, OwnershipInv
  <2> QED
    BY <2>3, <2>5
<1> QED
  BY <1>1, <1>2 DEF ProcessInv

\* A row of the scan is resumed, or leaves it failed or cancelled.
LEMMA ScansRow ==
    ASSUME RowsInv, ProcessInv, \A u \in Tasks : Forward(u), NEW t \in Tasks, ScanRow(t)
    PROVE  ProcessInv'
<1> DEFINE rows == [scan.rows EXCEPT ![t] = "absent"]
<1>1. scan \in Scans
  BY DEF ProcessInv, WorkerTypeOK, Scans
<1>2. /\ mode = "scan" /\ scan.rows[t] # "absent"
      /\ UNCHANGED <<mode, run, deferring, job, paid, health, bounds>>
      /\ pick' = pick
  BY DEF ScanRow, FinalizeCancelled, MarkFailed, tableVars
<1>3. /\ rows \in [Tasks -> {"absent", "running", "cancelling"}]
      /\ rows[t] = "absent" /\ \A u \in Tasks \ {t} : rows[u] = scan.rows[u]
  BY <1>1 DEF Scans
<1>4. /\ scan' \in Scans /\ scan'.rows = rows
      /\ \/ scan'.resume = scan.resume
            /\ (scan.rows[t] = "running" => status'[t] # "running")
         \/ scan'.resume = scan.resume \union {t}
  <2> DEFINE done == [scan EXCEPT !.rows[t] = "absent"]
  <2>1. done = [rows |-> rows, fallback |-> scan.fallback, resume |-> scan.resume]
    BY <1>1 DEF Scans
  <2>2. \/ scan' = done /\ (scan.rows[t] = "running" => status'[t] # "running")
        \/ scan' = [done EXCEPT !.fallback = t] /\ status'[t] # "running"
        \/ scan' = [done EXCEPT !.resume = @ \union {t}]
    BY DEF ScanRow, MarkFailed, FailRows, tableVars, rowVars
  <2> HIDE DEF done, rows
  <2> QED
    BY <1>1, <1>3, <2>1, <2>2 DEF Scans
<1> HIDE DEF rows
<1>5. \/ bounds.dbErrors = 0 => status'[t] # "running"
      \/ t \in scan'.resume
  <2>1. bounds.dbErrors = 0 /\ status[t] = "running"
          => scan.rows[t] = "running" \/ t \in scan.resume
    BY <1>2 DEF ProcessInv, OwnershipInv
  <2>2. status'[t] = "running" => status[t] = "running"
    BY <1>2, NoClaim DEF Forward, Holds
  <2> QED
    BY <1>4, <2>1, <2>2
<1> QED
  BY <1>2, <1>3, <1>4, <1>5, ScanMoves

\* So does one whose resume is impossible.
LEMMA ScansFallback ==
    ASSUME RowsInv, ProcessInv, \A u \in Tasks : Forward(u), ScanFallback
    PROVE  ProcessInv'
<1> PICK t \in Tasks : t = scan.fallback
  BY DEF ScanFallback, ProcessInv, WorkerTypeOK
<1>1. scan \in Scans
  BY DEF ProcessInv, WorkerTypeOK, Scans
<1>2. /\ mode = "scan"
      /\ UNCHANGED <<mode, run, deferring, job, paid, health, bounds>>
      /\ pick' = pick /\ scan' = [scan EXCEPT !.fallback = NoTask]
  BY DEF ScanFallback, FinalizeCancelled, tableVars
<1>3. scan' \in Scans /\ scan'.rows = scan.rows /\ scan'.resume = scan.resume
  BY <1>1, <1>2 DEF Scans
<1> QED
  BY <1>2, <1>3, ScanMoves

\* The loop starts with every orphan it found still running as its own.
LEMMA ScanEnds ==
    ASSUME ProcessInv, \A u \in Tasks : Forward(u), ScanEnd
    PROVE  ProcessInv'
<1>1. WorkerTypeOK /\ paid \in [Tasks -> Nat] /\ run \in [Tasks -> Runs]
  BY PaidType, RunType DEF ProcessInv
<1>2. /\ mode = "scan" /\ mode' = "run" /\ \A t \in Tasks : scan.rows[t] = "absent"
      /\ UNCHANGED <<status, pick, deferring, job, paid, health, bounds>>
      /\ scan' = NoScan
  BY DEF ScanEnd, tableVars, rowVars
<1>3. ASSUME NEW u \in Tasks
      PROVE  /\ run'[u] \in Runs /\ run'[u].signal = run[u].signal
             /\ run'[u].inner = run[u].inner /\ run'[u].count = run[u].count
             /\ IF u \in scan.resume
                  THEN run'[u].at = "unstarted" /\ run'[u].slot = "pending"
                  ELSE run'[u].at = run[u].at /\ run'[u].slot = run[u].slot
  <2> DEFINE after == [run[u] EXCEPT !.at = "unstarted", !.slot = "pending", !.resumed = TRUE]
  <2>1. run'[u] = IF u \in scan.resume THEN after ELSE run[u]
    BY DEF ScanEnd
  <2>2. "unstarted" \in Positions
    BY DEF Positions
  <2>3. after \in Runs
    BY <1>1, <2>2, WithSlot
  <2>4. /\ after.signal = run[u].signal /\ after.inner = run[u].inner
        /\ after.count = run[u].count /\ after.at = "unstarted" /\ after.slot = "pending"
    BY <1>1 DEF Runs
  <2> HIDE DEF after
  <2> QED
    BY <1>1, <2>1, <2>3, <2>4
<1>4. run' \in [Tasks -> Runs]
  BY <1>3 DEF ScanEnd
<1>5. scan' \in Scans /\ scan'.resume = {} /\ \A u \in Tasks : scan'.rows[u] = "absent"
  BY <1>2 DEF NoScan, Scans
<1>6. WorkerTypeOK' /\ LoopInv'
  BY <1>1, <1>2, <1>4, <1>5 DEF WorkerTypeOK, LoopInv, Runs, Scans
<1>7. ASSUME NEW u \in Tasks
      PROVE  ExecutionInv(u)' /\ OwnershipInv(u)'
  <2>1. ~ Holds(u)'
    BY <1>2, NoClaim DEF Holds
  <2>2. InUse(u)' => InUse(u)
    BY <1>2, <1>3, <1>5 DEF InUse
  <2>3. ExecutionInv(u)'
    BY <1>2, <1>3, <2>1, <2>2 DEF ProcessInv, ExecutionInv, InUse
  <2>4. OwnershipInv(u)'
    BY <1>2, <1>3 DEF ProcessInv, OwnershipInv
  <2> QED
    BY <2>3, <2>4
<1> QED
  BY <1>6, <1>7 DEF ProcessInv

\* A step of the process that moves no execution and reads no row.
LEMMA ModeChanges ==
    ASSUME RowsInv, ProcessInv, \A u \in Tasks : Forward(u),
           StopRequested \/ Boot \/ LoopDies
    PROVE  ProcessInv'
<1>1. /\ UNCHANGED <<status, run, deferring, job, paid, health>>
      /\ mode' \in {"stopping", "boot", "dead"} /\ pick'[Loop].at = "idle"
  <2>1. CASE StopRequested
    BY <2>1 DEF StopRequested, LoopFree, tableVars, rowVars
  <2>2. CASE Boot
    BY <2>2 DEF ProcessInv, LoopInv, Boot, tableVars, rowVars
  <2>3. CASE LoopDies
    BY <2>3, WorkerAssumption DEF LoopDies, rowVars, NoPick, RowsInv, TableInv, TypeOK
  <2> QED
    BY <2>1, <2>2, <2>3
<1>2. /\ bounds' \in [restarts : 0 .. MaxRestarts, trips : 0 .. MaxTrips,
                      dbErrors : 0 .. MaxDbErrors]
      /\ bounds' = bounds \/ bounds'.dbErrors # 0
      /\ mode' \in {"stopping", "aborting"} => bounds'.restarts < MaxRestarts
  BY ErrorCounted DEF StopRequested, Boot, LoopDies, ProcessInv, WorkerTypeOK
<1>3. scan' = scan \/ (scan' = NoScan /\ NoScan \in Scans)
  BY DEF StopRequested, Boot, LoopDies, NoScan, Scans
<1>4. scan' \in Scans
  BY <1>3 DEF ProcessInv, WorkerTypeOK, Scans
<1>5. WorkerTypeOK' /\ LoopInv'
  BY <1>1, <1>2, <1>4 DEF ProcessInv, WorkerTypeOK, LoopInv, Scans
<1>6. mode # "aborting" /\ (mode' = "stopping" \/ mode # "stopping")
  BY DEF StopRequested, Boot, LoopDies, LoopFree
<1>7. ASSUME NEW u \in Tasks
      PROVE  ExecutionInv(u)' /\ OwnershipInv(u)'
  <2>1. InUse(u)' => InUse(u)
    BY <1>1, <1>3 DEF InUse, NoScan
  <2>2. ExecutionInv(u)'
    BY <1>1, <1>6, <2>1 DEF ProcessInv, ExecutionInv, Holds
  <2>3. OwnershipInv(u)'
    BY <1>1, <1>2, <1>6 DEF ProcessInv, OwnershipInv
  <2> QED
    BY <2>2, <2>3
<1> QED
  BY <1>5, <1>7 DEF ProcessInv

\* A crash or an exit leaves the rows, the job ids and what was paid.
LEMMA Forgetting ==
    ASSUME ProcessInv, \A u \in Tasks : Forward(u), StopCompletes \/ Crash
    PROVE  ProcessInv'
<1>1. /\ UNCHANGED <<status, job, paid>> /\ mode' = "down" /\ deferring' = FALSE
      /\ run' = [t \in Tasks |-> NoRun] /\ scan' = NoScan
      /\ pick' = [w \in Claimers |-> NoPick]
      /\ health' = [p \in Providers |-> [m \in Media |-> "ok"]]
      /\ bounds' = [bounds EXCEPT !.restarts = @ + 1]
      /\ bounds.restarts < MaxRestarts
  BY DEF ProcessInv, LoopInv, StopCompletes, Crash, Memory0, rowVars
<1>2. /\ bounds' \in [restarts : 0 .. MaxRestarts, trips : 0 .. MaxTrips,
                      dbErrors : 0 .. MaxDbErrors]
  <2>1. bounds \in [restarts : 0 .. MaxRestarts, trips : 0 .. MaxTrips,
                    dbErrors : 0 .. MaxDbErrors]
    BY DEF ProcessInv, WorkerTypeOK
  <2>2. bounds.restarts + 1 \in 0 .. MaxRestarts
    BY <1>1, <2>1, WorkerAssumption
  <2> QED
    BY <1>1, <2>1, <2>2
<1>3. NoRun \in Runs /\ NoScan \in Scans
  BY DEF NoRun, Runs, Positions, Ended, NoScan, Scans
<1>4. run' \in [Tasks -> Runs] /\ health' \in Healths
  BY <1>1, <1>3 DEF Healths
<1>5. WorkerTypeOK'
  BY <1>1, <1>2, <1>3, <1>4 DEF ProcessInv, WorkerTypeOK, Runs, Scans, Healths
<1>6. LoopInv'
  BY <1>1, WorkerAssumption DEF LoopInv, NoPick
<1>7. ASSUME NEW u \in Tasks
      PROVE  ExecutionInv(u)' /\ OwnershipInv(u)'
  <2>1. ~ Holds(u)' /\ run'[u] = NoRun
    BY <1>1, WorkerAssumption DEF Holds, NoPick
  <2>2. InUse(u)' => InUse(u)
    BY <1>1, <2>1 DEF InUse, NoRun, NoScan
  <2>3. ExecutionInv(u)'
    BY <1>1, <2>1, <2>2 DEF ProcessInv, ExecutionInv, NoRun
  <2>4. OwnershipInv(u)'
    BY <1>1, <2>1 DEF OwnershipInv, NoRun
  <2> QED
    BY <2>3, <2>4
<1> QED
  BY <1>5, <1>6, <1>7 DEF ProcessInv

\* A process that is ended cancels its executions and forgets the rest; what was
\* in use of a task stays in use at most.
LEMMA Aborting ==
    ASSUME ProcessInv, \A u \in Tasks : Forward(u), ProcessCancelled
    PROVE  ProcessInv'
<1>1. /\ UNCHANGED <<status, job, paid, health, bounds>> /\ mode' = "aborting"
      /\ bounds.restarts < MaxRestarts /\ deferring' = FALSE /\ scan' = NoScan
      /\ pick' = [w \in Claimers |-> NoPick]
  BY DEF ProcessCancelled, rowVars
<1>2. /\ run' \in [Tasks -> Runs]
      /\ \A u \in Tasks :
           /\ run'[u].at = run[u].at /\ run'[u].slot = run[u].slot
           /\ run'[u].count = run[u].count /\ run'[u].inner = {}
           /\ run'[u].signal => run[u].slot # "free"
  BY CancelledEffect DEF ProcessInv
<1>3. NoScan \in Scans
  BY DEF NoScan, Scans
<1>4. WorkerTypeOK'
  BY <1>1, <1>2, <1>3 DEF ProcessInv, WorkerTypeOK, Runs, Scans
<1>5. LoopInv'
  BY <1>1, WorkerAssumption DEF LoopInv, NoPick
<1>6. ASSUME NEW u \in Tasks
      PROVE  ExecutionInv(u)' /\ OwnershipInv(u)'
  <2>1. ~ Holds(u)'
    BY <1>1, WorkerAssumption DEF Holds, NoPick
  <2>2. InUse(u)' => InUse(u)
    BY <1>1, <1>2 DEF InUse, NoScan
  <2>3. ExecutionInv(u)'
    BY <1>1, <1>2, <2>1, <2>2 DEF ProcessInv, ExecutionInv
  <2>4. OwnershipInv(u)'
    BY <1>1, <1>2 DEF ProcessInv, OwnershipInv
  <2> QED
    BY <2>3, <2>4
<1> QED
  BY <1>4, <1>5, <1>6 DEF ProcessInv

-----------------------------------------------------------------------------
(* The invariant is inductive. *)

\* The empty table and the stopped process satisfy it.
LEMMA WorkerStarts == WorkerInit => WorkerInv
<1> SUFFICES ASSUME WorkerInit PROVE WorkerInv
  OBVIOUS
<1>1. TableInv /\ SignalledIsCancelling
  BY InitInv, SignalledInit DEF WorkerInit
<1>2. ClaimedHasStarted /\ ClaimsAreExclusive /\ pick[Loop].at = "idle"
  BY WorkerAssumption
     DEF WorkerInit, TableInit, ClaimedHasStarted, ClaimsAreExclusive, NoPick
<1>3. NoRun \in Runs /\ NoScan \in Scans
  BY DEF NoRun, Runs, Positions, Ended, NoScan, Scans
<1>4. WorkerTypeOK
  <2>1. bounds \in [restarts : 0 .. MaxRestarts, trips : 0 .. MaxTrips,
                    dbErrors : 0 .. MaxDbErrors]
    BY WorkerAssumption DEF WorkerInit
  <2>2. run \in [Tasks -> Runs] /\ scan \in Scans
    BY <1>3 DEF WorkerInit
  <2>3. health \in [Providers -> [Media -> {"ok", "open", "half_open"}]]
    BY DEF WorkerInit
  <2> QED
    BY <2>1, <2>2, <2>3 DEF WorkerInit, WorkerTypeOK, Runs, Scans
<1>5. LoopInv
  BY <1>2 DEF WorkerInit, LoopInv
<1>6. \A t \in Tasks : ExecutionInv(t) /\ OwnershipInv(t)
  BY <1>2 DEF WorkerInit, ExecutionInv, OwnershipInv, InUse, NoRun, NoScan
<1> QED
  BY <1>1, <1>2, <1>4, <1>5, <1>6 DEF WorkerInv, RowsInv, ProcessInv

\* One step per group of actions.
LEMMA WorkerStepsKeep ==
    ASSUME WorkerInv, WorkerNext
    PROVE  WorkerInv'
<1> USE DEF WorkerInv
<1>1. TableMove
  BY WorkerMoves DEF RowsInv, TableInv, ProcessInv
<1>2. RowsInv' /\ \A u \in Tasks : Forward(u)
  BY <1>1, RowsKept, MovesForward
<1>3. CASE LoopStep \/ \E m \in Media : Claim(m)
  BY <1>2, <1>3, Claims, Dispatches DEF LoopStep
<1>4. CASE \E p \in Providers, m \in Media : Cooldown(p, m)
  BY <1>2, <1>4, LosesClaimOrCools
<1>5. CASE \E t \in Tasks :
             \/ Execution(t) \/ Drain(t) \/ ScanRow(t) \/ CancelSwallowed(t)
             \/ \E write \in {"succeed", "fail", "cancel"} : Commit(t, write)
  BY <1>2, <1>5, ExecutionKeeps, Drains, ScansRow, Commits DEF RowsInv, TableInv, TypeOK
<1>6. CASE StartStep \/ StopRequested \/ ProcessCancelled \/ Crash
  BY <1>2, <1>6, ScanStarts, ScansFallback, ScanEnds, ModeChanges, Forgetting, Aborting
     DEF StartStep
<1>7. CASE Errors
  BY <1>2, <1>7, ModeChanges, LosesClaimOrCools, Drains, CommitsNot DEF Errors
<1>8. CASE ApiEnqueue \/ \E c \in Cancellers : ApiCancel(c) \/ ApiSignal(c) \/ ApiFinalize(c)
  BY <1>2, <1>8, ApiLeavesProcess, Signals
<1> QED
  BY <1>3, <1>4, <1>5, <1>6, <1>7, <1>8 DEF WorkerNext

\* It is about the variables only.
LEMMA WorkerStutters == WorkerInv /\ UNCHANGED vars => WorkerInv'
<1> SUFFICES ASSUME WorkerInv, UNCHANGED vars PROVE WorkerInv'
  OBVIOUS
<1> USE DEF WorkerInv
<1>1. UNCHANGED tableVars /\ UNCHANGED workerVars
  BY DEF vars
<1>2. RowsInv' /\ \A u \in Tasks : Forward(u)
  <2>1. TableInv' /\ UNCHANGED <<status, pick, txn, key>>
    BY <1>1, StutterInv DEF RowsInv, tableVars, rowVars
  <2> QED
    BY <2>1 DEF RowsInv, SignalledIsCancelling, ClaimedHasStarted, ClaimsAreExclusive,
                Forward, Late, Holds
<1>3. ProcessInv'
  <2>1. LoopInv' /\ UNCHANGED <<mode, run, scan, job, paid, health, bounds, deferring, pick>>
    BY <1>1 DEF ProcessInv, LoopInv, tableVars, workerVars
  <2>2. deferring' \in BOOLEAN /\ health' \in Healths
        /\ bounds' \in [restarts : 0 .. MaxRestarts, trips : 0 .. MaxTrips,
                        dbErrors : 0 .. MaxDbErrors]
    BY <2>1 DEF ProcessInv, WorkerTypeOK, Healths
  <2> QED
    BY <1>2, <2>1, <2>2, LoopOnly DEF Holds
<1> QED
  BY <1>2, <1>3

\* The conjunction of the table's invariant and the process's is inductive, through
\* crashes, stops, resumes, outages and database errors.  WorkerNext has no step of
\* the operator's requeue_running, which puts rows back under their executions.
THEOREM WorkerCorrect == WorkerSpec => []WorkerInv
<1>1. WorkerInit => WorkerInv
  BY WorkerStarts
<1>2. WorkerInv /\ [WorkerNext]_vars => WorkerInv'
  BY WorkerStepsKeep, WorkerStutters
<1> QED
  BY <1>1, <1>2, PTL DEF WorkerSpec

\* Every variable of the worker keeps its type (generation_worker.py, SlotTable).
THEOREM WorkerTypes == WorkerSpec => []WorkerTypeOK
  BY WorkerCorrect, PTL DEF WorkerInv, ProcessInv

\* ADR 0007: a task is submitted to its provider at most once.  Whatever was
\* dispatched never goes back to the queue, and a resume never submits.
THEOREM PaysOnce == WorkerSpec => []PaidAtMostOnce
<1>1. WorkerInv => PaidAtMostOnce
  BY DEF WorkerInv, ProcessInv, ExecutionInv, PaidAtMostOnce
<1> QED
  BY <1>1, WorkerCorrect, PTL

\* A row that may be claimed has neither an execution nor a shielded write of an
\* earlier one under way (_process_task, mark_task_* in generation_queue.py).
THEOREM QueuedIsUntouched == WorkerSpec => []QueuedHasNoExecution
<1>1. WorkerInv => QueuedHasNoExecution
  BY QueuedIsIdle DEF WorkerInv, QueuedHasNoExecution
<1> QED
  BY <1>1, WorkerCorrect, PTL

\* request_cancel is called after the row is cancelling, and the row never leaves
\* that: until a forced stop cancels everything (task_repo.py:753), a CancelledError
\* is of a row that is cancelling or cancelled.
THEOREM RowBeforeSignal == WorkerSpec => []SignalFollowsRow
<1>1. WorkerInv => SignalFollowsRow
  BY DEF WorkerInv, ProcessInv, ExecutionInv, SignalFollowsRow, Late
<1> QED
  BY <1>1, WorkerCorrect, PTL

\* While the loop runs and no queue call has raised, every running row is the
\* loop's claim, occupies a slot or waits for its last write: nothing but a restart
\* makes an orphan (ADR 0007).
THEOREM NoOrphanWithoutRestart == WorkerSpec => []RunningIsOwned
<1>1. ASSUME WorkerInv
      PROVE  RunningIsOwned
  <2> SUFFICES ASSUME mode = "run", bounds.dbErrors = 0, NEW t \in Tasks,
                      status[t] = "running"
               PROVE  Owned(t)
    BY DEF RunningIsOwned
  <2>1. OwnershipInv(t)
    BY <1>1 DEF WorkerInv, ProcessInv
  <2>2. ~ Leaked(t)
    BY <2>1 DEF OwnershipInv, Leaked
  <2>3. Holds(t) => pick[Loop] = [at |-> "claimed", task |-> t]
    BY <1>1, WorkerAssumption DEF Holds, WorkerInv, RowsInv, TableInv, TypeOK
  <2> QED
    BY <2>1, <2>2, <2>3 DEF OwnershipInv, Owned
<1> QED
  BY <1>1, WorkerCorrect, PTL

-----------------------------------------------------------------------------
(* The worker's rows behave as the lifecycle says. *)

\* A step of the worker, or what it forgets, is a step of the lifecycle.
LEMMA WorkerStepIsLifecycle ==
    ASSUME WorkerInv, [WorkerNext]_vars
    PROVE  [Lifecycle!LifecycleNext]_(Lifecycle!lifecycleVars)
<1> USE DEF WorkerInv, RowsInv
<1>1. TableMove
  <2>1. CASE UNCHANGED vars
    BY <2>1 DEF vars, TableMove
  <2> QED
    BY <2>1, WorkerMoves DEF ProcessInv, TableInv
<1>2. CASE CallersNext \/ UNCHANGED tableVars
  BY <1>2, StepIsLifecycle DEF CallersNext, TableNext
<1>3. CASE UNCHANGED rowVars
  BY <1>3 DEF rowVars, Lifecycle!lifecycleVars
<1>4. ASSUME NEW t \in Tasks, FailRows(t)
      PROVE  Lifecycle!LifecycleNext
  BY <1>4, FailFails DEF Lifecycle!LifecycleNext
<1> QED
  BY <1>1, <1>2, <1>3, <1>4, MoveKinds

\* Under the worker, with its crashes, forced stops and two-step claims, the rows
\* still move along the graph of the repository's guards, with its cascades: the
\* composed system implements TaskLifecycle.
THEOREM WorkerImplementsLifecycle == WorkerSpec => FollowsLifecycle
<1>1. WorkerInit => Lifecycle!LifecycleInit
  BY DEF WorkerInit, TableInit, Lifecycle!LifecycleInit
<1>2. WorkerInv /\ [WorkerNext]_vars
        => [Lifecycle!LifecycleNext]_(Lifecycle!lifecycleVars)
  BY WorkerStepIsLifecycle
<1> QED
  BY <1>1, <1>2, WorkerCorrect, PTL
     DEF WorkerSpec, FollowsLifecycle, Lifecycle!LifecycleSpec

-----------------------------------------------------------------------------
(* Capacity. *)

Polls(p, m) == {t \in Occupants(p, m) : run[t].slot = "inflight" /\ run[t].resumed}

\* Two ways to take a slot, each with its own limit: a dispatch looks at all
\* occupants of the lane, a resumed execution at the resumed ones in flight.  They
\* do not add up, since what is resumed is registered before the first dispatch.
SlotInv ==
    /\ \A t \in Tasks :
         /\ run[t].slot = "pending" => run[t].resumed
         /\ run[t].resumed => run[t].slot # "free" /\ MediaOfTask(t) = "video"
         /\ mode \in {"down", "boot", "scan"} => run[t].slot = "free"
         /\ t \in scan.resume => MediaOfTask(t) = "video"
    /\ \A p \in Providers, m \in Media :
         /\ \A t \in Occupants(p, m) :
              run[t].resumed \/ Cardinality(Occupants(p, m)) <= Cap[p][m]
         /\ Cardinality(Polls(p, m)) <= Cap[p][m]

\* The execution keeps its slot, or gives it up.
SlotKept(t) ==
    \/ run'[t].slot = run[t].slot /\ run'[t].resumed = run[t].resumed
    \/ run'[t].slot = "free" /\ ~ run'[t].resumed

\* Sets of tasks can be counted ...
LEMMA TasksFinite == IsFiniteSet(Tasks)
  BY TableAssumption, FS_Interval DEF Tasks

\* ... a part is no larger than the whole ...
LEMMA Smaller ==
    ASSUME NEW T \in SUBSET Tasks, NEW S \in SUBSET T
    PROVE  /\ Cardinality(S) \in Nat /\ Cardinality(T) \in Nat
           /\ Cardinality(S) <= Cardinality(T)
  BY TasksFinite, FS_Subset, FS_CardinalityType

\* ... and one task adds at most one.
LEMMA OneMore ==
    ASSUME NEW S \in SUBSET Tasks, NEW t \in Tasks
    PROVE  Cardinality(S \union {t}) <= Cardinality(S) + 1
<1>1. IsFiniteSet(S) /\ Cardinality(S) \in Nat
  BY TasksFinite, FS_Subset, FS_CardinalityType
<1>2. CASE t \in S
  <2>1. S \union {t} = S
    BY <1>2
  <2>2. Cardinality(S \union {t}) = Cardinality(S)
    BY <2>1, Zenon
  <2> QED
    BY <1>1, <2>2
<1>3. CASE t \notin S
  <2>1. Cardinality(S \union {t}) = Cardinality(S) + 1
    BY <1>1, <1>3, FS_AddElement
  <2> QED
    BY <1>1, <2>1
<1> QED
  BY <1>2, <1>3

\* The row of an occupant keeps its lane.
LEMMA LaneKept ==
    ASSUME ProcessInv, NEW t \in Tasks, Forward(t), InUse(t)
    PROVE  /\ ProviderOfTask(t)' = ProviderOfTask(t)
           /\ MediaOfTask(t)' = MediaOfTask(t)
  BY DEF ProcessInv, ExecutionInv, Forward, ProviderOfTask, MediaOfTask

\* Slots that are only kept or given up do not exceed anything.
LEMMA FewerSlots ==
    ASSUME ProcessInv, \A u \in Tasks : Forward(u), SlotInv,
           \A t \in Tasks : SlotKept(t),
           mode' \in {"down", "boot", "scan"} =>
              \/ mode \in {"down", "boot", "scan"}
              \/ \A t \in Tasks : run'[t].slot = "free",
           \A t \in Tasks : t \in scan'.resume => t \in scan.resume \/ MediaOfTask(t)' = "video"
    PROVE  SlotInv'
<1>1. ASSUME NEW t \in Tasks
      PROVE  /\ run'[t].slot = "pending" => run'[t].resumed
             /\ run'[t].resumed => run'[t].slot # "free" /\ MediaOfTask(t)' = "video"
             /\ mode' \in {"down", "boot", "scan"} => run'[t].slot = "free"
             /\ t \in scan'.resume => MediaOfTask(t)' = "video"
  <2>1. /\ run[t].slot = "pending" => run[t].resumed
        /\ run[t].resumed => run[t].slot # "free" /\ MediaOfTask(t) = "video"
        /\ mode \in {"down", "boot", "scan"} => run[t].slot = "free"
        /\ t \in scan.resume => MediaOfTask(t) = "video"
    BY DEF SlotInv
  <2>2. run[t].slot # "free" \/ t \in scan.resume => MediaOfTask(t)' = MediaOfTask(t)
    BY LaneKept DEF InUse
  <2>3. SlotKept(t)
    OBVIOUS
  <2> QED
    BY <2>1, <2>2, <2>3 DEF SlotKept
<1>2. ASSUME NEW p \in Providers, NEW m \in Media
      PROVE  /\ \A t \in Occupants(p, m)' :
                  run'[t].resumed \/ Cardinality(Occupants(p, m)') <= Cap[p][m]
             /\ Cardinality(Polls(p, m)') <= Cap[p][m]
  <2>1. ASSUME NEW t \in Occupants(p, m)'
        PROVE  /\ t \in Occupants(p, m) /\ run'[t].resumed = run[t].resumed
               /\ run'[t].slot = run[t].slot
    <3>1. t \in Tasks /\ run'[t].slot # "free" /\ ProviderOfTask(t)' = p /\ MediaOfTask(t)' = m
      BY <2>1 DEF Occupants
    <3>2. run[t].slot = run'[t].slot /\ run[t].resumed = run'[t].resumed
      BY <3>1 DEF SlotKept
    <3> QED
      BY <3>1, <3>2, LaneKept DEF Occupants, InUse
  <2>2. Occupants(p, m)' \subseteq Occupants(p, m) /\ Polls(p, m)' \subseteq Polls(p, m)
    BY <2>1 DEF Polls
  <2>3. Occupants(p, m) \subseteq Tasks /\ Polls(p, m) \subseteq Tasks /\ Cap[p][m] \in Nat
    BY WorkerAssumption DEF Occupants, Polls
  <2>4. /\ Cardinality(Occupants(p, m)') <= Cardinality(Occupants(p, m))
        /\ Cardinality(Polls(p, m)') <= Cardinality(Polls(p, m))
        /\ Cardinality(Occupants(p, m)') \in Nat /\ Cardinality(Occupants(p, m)) \in Nat
        /\ Cardinality(Polls(p, m)') \in Nat /\ Cardinality(Polls(p, m)) \in Nat
    BY <2>2, <2>3, Smaller
  <2> QED
    BY <2>1, <2>3, <2>4 DEF SlotInv
<1> QED
  BY <1>1, <1>2 DEF SlotInv

\* The steps that take no slot.
LEMMA ExecutionSlots ==
    ASSUME WorkerTypeOK, NEW t \in Tasks, NEW u \in Tasks,
           \/ \E to \in Positions : GoesTo(t, to)
           \/ \E how \in {"returned", "cancelled"} : Ends(t, how)
    PROVE  SlotKept(u)
  BY GoesToEffect, EndsEffect DEF SlotKept

\* An execution takes a slot only where it acquires one.
LEMMA ExecutionKeepsSlots ==
    ASSUME WorkerTypeOK, NEW t \in Tasks, NEW u \in Tasks, Execution(t),
           Acquire(t) => mode = "stopping"
    PROVE  SlotKept(u)
<1> USE DEF Proceeds
<1>1. run \in [Tasks -> Runs]
  BY RunType
<1>2. CASE Begin(t) \/ PersistJobId(t) \/ ProviderDone(t) \/ Fail(t) \/ Finish(t) \/ Settled(t)
  BY <1>2, ExecutionSlots
     DEF Begin, PersistJobId, ProviderDone, Fail, Finish, Settled, Positions, Interruptible
<1>3. CASE Submit(t)
  <2>1. \E to \in {"submitted", "polling"} : GoesTo(t, to)
    BY <1>3 DEF Submit
  <2> QED
    BY <2>1, ExecutionSlots DEF Positions, Interruptible
<1>4. CASE Resume(t)
  <2>1. \/ \E to \in {"yielding", "outer"} : GoesTo(t, to)
        \/ \E how \in {"returned", "cancelled"} : Ends(t, how)
    BY <1>4 DEF Resume
  <2> QED
    BY <2>1, ExecutionSlots DEF Positions
<1>5. CASE CancelDelivered(t)
  <2>1. \/ \E to \in {"settling", "stopping", "outer"} : GoesTo(t, to)
        \/ Ends(t, "cancelled")
        \/ run' = [run EXCEPT ![t].at = "cancelled", ![t].signal = FALSE]
    BY <1>5 DEF CancelDelivered
  <2>2. CASE run' = [run EXCEPT ![t].at = "cancelled", ![t].signal = FALSE]
    BY <1>1, <2>2 DEF Runs, SlotKept
  <2> QED
    BY <2>1, <2>2, ExecutionSlots DEF Positions
<1>6. CASE Acquire(t)
  <2>1. Ends(t, "returned")
    BY <1>6 DEF Acquire
  <2> QED
    BY <2>1, ExecutionSlots
<1> QED
  BY <1>2, <1>3, <1>4, <1>5, <1>6 DEF Execution

\* Nor do the writes, the drain and the swallowed cancellation take one.
LEMMA WritesKeepSlots ==
    ASSUME WorkerTypeOK, NEW t \in Tasks, NEW u \in Tasks,
           \/ CancelSwallowed(t) \/ Drain(t) \/ DrainFails(t)
           \/ \E write \in {"succeed", "fail", "cancel"} : Commit(t, write) \/ CommitFails(t, write)
    PROVE  SlotKept(u)
<1>1. run \in [Tasks -> Runs]
  BY RunType
<1>2. CASE CancelSwallowed(t)
  BY <1>1, <1>2 DEF CancelSwallowed, Runs, SlotKept
<1>3. CASE Drain(t) \/ DrainFails(t)
  BY <1>1, <1>3 DEF Drain, DrainFails, NoRun, SlotKept
<1>4. ASSUME NEW write \in {"succeed", "fail", "cancel"}, CommitFails(t, write)
      PROVE  SlotKept(u)
  BY <1>1, <1>4 DEF CommitFails, Runs, SlotKept
<1>5. ASSUME NEW write \in {"succeed", "fail", "cancel"}, Commit(t, write)
      PROVE  SlotKept(u)
  <2> DEFINE hit == IF write = "cancel" THEN Cancellable(t) ELSE status[t] = "running"
             signalled == IF write = "cancel" /\ hit
                            THEN Signalled(Stopped({}, KilledWith(t), status)) ELSE run
  <2>1. /\ signalled \in [Tasks -> Runs]
        /\ \A v \in Tasks : /\ signalled[v].slot = run[v].slot
                            /\ signalled[v].resumed = run[v].resumed
    BY <1>1, SignalledEffect
  <2>2. run' = [signalled EXCEPT ![t].inner = @ \ {write},
                                 ![t].count = IF Awaited(run[t].at) # write THEN @
                                              ELSE IF hit THEN "one" ELSE "zero"]
    BY <1>5 DEF Commit
  <2> HIDE DEF signalled, hit
  <2> QED
    BY <2>1, <2>2 DEF Runs, SlotKept
<1> QED
  BY <1>2, <1>3, <1>4, <1>5

\* The steps of the loop and of the process that take no slot.
LEMMA ProcessKeepsSlots ==
    ASSUME WorkerTypeOK, NEW u \in Tasks,
           \/ \E m \in Media : Claim(m)
           \/ ClaimCommit \/ Requeue \/ RequeueFails
           \/ \E p \in Providers, m \in Media :
                RejectClaimed(p, m) \/ Defer(p, m) \/ Cooldown(p, m)
           \/ ScanSelect \/ ScanFallback \/ ScanRow(u) \/ Boot
           \/ StopRequested \/ StopCompletes \/ ProcessCancelled \/ Crash \/ LoopDies
           \/ ApiEnqueue
           \/ \E c \in Cancellers : ApiCancel(c) \/ ApiSignal(c) \/ ApiFinalize(c)
    PROVE  SlotKept(u)
<1>1. CASE run' = run
  BY <1>1 DEF SlotKept
<1>2. CASE StopCompletes \/ Crash
  BY <1>2 DEF StopCompletes, Crash, Memory0, NoRun, SlotKept
<1>3. CASE ProcessCancelled \/ \E c \in Cancellers : ApiSignal(c)
  BY <1>3, SignalledEffect, CancelledEffect DEF ApiSignal, SlotKept
<1> QED
  BY <1>1, <1>2, <1>3
     DEF Claim, ClaimCommit, Requeue, RequeueFails, RejectClaimed, Defer, Cooldown,
         ScanSelect, ScanFallback, ScanRow, Boot, StopRequested, LoopDies,
         ApiEnqueue, ApiCancel, ApiFinalize, workerVars

-----------------------------------------------------------------------------
(* The three steps that take a slot. *)

\* A dispatch looks at every occupant of the lane, whatever its kind.
LEMMA DispatchFits ==
    ASSUME RowsInv, ProcessInv, SlotInv,
           NEW p \in Providers, NEW m \in Media, Dispatch(p, m)
    PROVE  SlotInv'
<1> PICK t \in Tasks : t = pick[Loop].task
  BY WorkerAssumption DEF Dispatch, Routing, RowsInv, ClaimedHasStarted
<1> DEFINE after == [run[t] EXCEPT !.slot = "inflight", !.at = "entry"]
<1>1. run \in [Tasks -> Runs]
  BY RunType DEF ProcessInv
<1>2. /\ UNCHANGED <<key, mode, scan>> /\ mode = "run"
      /\ p = ProviderOfTask(t) /\ m = MediaOfTask(t) /\ HasRoom(p, m)
  BY DEF Dispatch, Routing, HandOver, rowVars
<1>3. run[t].slot = "free" /\ ~ run[t].resumed
  <2>1. ~ InUse(t)
    BY DEF Dispatch, Routing, ProcessInv, ExecutionInv, Holds
  <2> QED
    BY <1>1, <2>1 DEF InUse, SlotInv, Runs
<1>4. run' = [run EXCEPT ![t] = after]
  BY <1>1 DEF Dispatch, Runs
<1>5. after.slot = "inflight" /\ after.resumed = run[t].resumed
  BY <1>1 DEF Runs
<1> HIDE DEF after
<1>6. run'[t] = after /\ \A u \in Tasks \ {t} : run'[u] = run[u]
  BY <1>1, <1>4
<1>7. \A u \in Tasks : /\ ProviderOfTask(u)' = ProviderOfTask(u)
                       /\ MediaOfTask(u)' = MediaOfTask(u)
  BY <1>2 DEF ProviderOfTask, MediaOfTask
<1>8. ASSUME NEW u \in Tasks
      PROVE  /\ run'[u].slot = "pending" => run'[u].resumed
             /\ run'[u].resumed => run'[u].slot # "free" /\ MediaOfTask(u)' = "video"
             /\ mode' \in {"down", "boot", "scan"} => run'[u].slot = "free"
             /\ u \in scan'.resume => MediaOfTask(u)' = "video"
  BY <1>2, <1>3, <1>5, <1>6, <1>7 DEF SlotInv
<1>9. ASSUME NEW q \in Providers, NEW n \in Media
      PROVE  /\ \A u \in Occupants(q, n)' :
                  run'[u].resumed \/ Cardinality(Occupants(q, n)') <= Cap[q][n]
             /\ Cardinality(Polls(q, n)') <= Cap[q][n]
  <2>1. Polls(q, n)' = Polls(q, n)
    BY <1>3, <1>5, <1>6, <1>7 DEF Polls, Occupants
  <2>2. CASE q = p /\ n = m
    <3>1. Occupants(q, n)' = Occupants(p, m) \union {t}
      BY <1>2, <1>5, <1>6, <1>7, <2>2 DEF Occupants
    <3>2. Occupants(p, m) \subseteq Tasks /\ Cap[p][m] \in Nat
      BY WorkerAssumption DEF Occupants
    <3>3. EffectiveCap(p, m) \in Nat /\ EffectiveCap(p, m) <= Cap[p][m]
      BY <3>2 DEF EffectiveCap
    <3>4. Cardinality(Occupants(p, m)) \in Nat
      BY <3>2, Smaller
    <3>5. Cardinality(Occupants(p, m)) + 1 <= Cap[p][m]
      BY <1>2, <3>2, <3>3, <3>4 DEF HasRoom
    <3>6. Cardinality(Occupants(p, m) \union {t}) <= Cardinality(Occupants(p, m)) + 1
      BY <3>2, OneMore
    <3>7. Cardinality(Occupants(p, m) \union {t}) \in Nat
      BY <3>2, Smaller
    <3>8. Cardinality(Occupants(q, n)') <= Cap[q][n]
      BY <2>2, <3>1, <3>2, <3>4, <3>5, <3>6, <3>7
    <3> QED
      BY <2>1, <3>8 DEF SlotInv
  <2>3. CASE ~ (q = p /\ n = m)
    <3>1. Occupants(q, n)' = Occupants(q, n) /\ t \notin Occupants(q, n)
      BY <1>2, <1>3, <1>5, <1>6, <1>7, <2>3 DEF Occupants
    <3>2. \A u \in Occupants(q, n) : run'[u] = run[u]
      BY <1>6, <3>1 DEF Occupants
    <3> QED
      BY <2>1, <3>1, <3>2 DEF SlotInv
  <2> QED
    BY <2>2, <2>3
<1> QED
  BY <1>8, <1>9 DEF SlotInv

\* A promotion looks at the resumed executions of the provider in flight.
LEMMA AcquireFits ==
    ASSUME ProcessInv, \A u \in Tasks : Forward(u), SlotInv,
           NEW t \in Tasks, Acquire(t), mode # "stopping"
    PROVE  SlotInv'
<1> DEFINE after == [run[t] EXCEPT !.at = "locked", !.slot = "inflight"]
           q == ProviderOfTask(t)
           lane == {u \in Tasks : /\ run[u].resumed /\ run[u].slot = "inflight"
                                  /\ ProviderOfTask(u) = q}
<1>1. run \in [Tasks -> Runs] /\ run[t].at = "waiting"
  BY RunType DEF ProcessInv, Acquire
<1>2. UNCHANGED <<key, mode, scan>>
  BY DEF Acquire, tableVars, rowVars
<1>3. run' = [run EXCEPT ![t] = after]
  BY <1>1 DEF Acquire, Runs
<1>4. after.slot = "inflight" /\ after.resumed = run[t].resumed
  BY <1>1 DEF Runs
<1> HIDE DEF after
<1>5. run'[t] = after /\ \A u \in Tasks \ {t} : run'[u] = run[u]
  BY <1>1, <1>3
<1>6. CASE run[t].slot # "pending"
  <2>1. run[t].slot = "inflight"
    BY <1>1, <1>6 DEF ProcessInv, ExecutionInv, Runs
  <2>2. \A u \in Tasks : SlotKept(u)
    BY <1>4, <1>5, <2>1 DEF SlotKept
  <2> QED
    BY <1>2, <2>2, FewerSlots
<1>7. CASE run[t].slot = "pending"
  <2>1. run[t].resumed /\ MediaOfTask(t) = "video"
    BY <1>7 DEF SlotInv
  <2>2. Cardinality(lane) < Cap[q]["video"]
    BY DEF Acquire
  <2>3. \A u \in Tasks : /\ ProviderOfTask(u)' = ProviderOfTask(u)
                         /\ MediaOfTask(u)' = MediaOfTask(u)
    BY <1>2 DEF ProviderOfTask, MediaOfTask
  <2>4. \A u \in Tasks : /\ run'[u].resumed = run[u].resumed
                         /\ run'[u].slot = "free" <=> run[u].slot = "free"
                         /\ run'[u].slot = IF u = t THEN "inflight" ELSE run[u].slot
    BY <1>4, <1>5, <1>7
  <2>5. ASSUME NEW u \in Tasks
        PROVE  /\ run'[u].slot = "pending" => run'[u].resumed
               /\ run'[u].resumed => run'[u].slot # "free" /\ MediaOfTask(u)' = "video"
               /\ mode' \in {"down", "boot", "scan"} => run'[u].slot = "free"
               /\ u \in scan'.resume => MediaOfTask(u)' = "video"
    BY <1>2, <2>3, <2>4 DEF SlotInv
  <2>6. ASSUME NEW p \in Providers, NEW m \in Media
        PROVE  /\ \A u \in Occupants(p, m)' :
                    run'[u].resumed \/ Cardinality(Occupants(p, m)') <= Cap[p][m]
               /\ Cardinality(Polls(p, m)') <= Cap[p][m]
    <3>1. Occupants(p, m)' = Occupants(p, m)
      BY <2>3, <2>4 DEF Occupants
    <3>2. \A u \in Occupants(p, m)' :
             run'[u].resumed \/ Cardinality(Occupants(p, m)') <= Cap[p][m]
      BY <2>4, <3>1 DEF SlotInv, Occupants
    <3>3. CASE p = q /\ m = "video"
      <4>1. Polls(p, m)' \subseteq lane \union {t}
        BY <2>3, <2>4, <3>1, <3>3 DEF Polls, Occupants
      <4>2. lane \union {t} \in SUBSET Tasks /\ Cap[p][m] \in Nat
        BY WorkerAssumption
      <4>3. Cardinality(lane \union {t}) <= Cardinality(lane) + 1
        BY OneMore
      <4>4. Cardinality(lane) \in Nat
        BY Smaller
      <4>5. /\ Cardinality(Polls(p, m)') <= Cardinality(lane \union {t})
            /\ Cardinality(Polls(p, m)') \in Nat /\ Cardinality(lane \union {t}) \in Nat
        BY <4>1, <4>2, Smaller
      <4>6. Cardinality(lane) + 1 <= Cap[p][m]
        BY <2>2, <3>3, <4>2, <4>4
      <4> HIDE DEF lane
      <4>7. Cardinality(Polls(p, m)') <= Cap[p][m]
        BY <4>2, <4>3, <4>4, <4>5, <4>6
      <4> QED
        BY <3>2, <4>7
    <3>4. CASE ~ (p = q /\ m = "video")
      <4>1. Polls(p, m)' = Polls(p, m)
        BY <2>1, <2>3, <2>4, <3>1, <3>4 DEF Polls, Occupants
      <4> QED
        BY <3>2, <4>1 DEF SlotInv
    <3> QED
      BY <3>3, <3>4
  <2> QED
    BY <2>5, <2>6 DEF SlotInv
<1> QED
  BY <1>6, <1>7

\* What the scan collected is registered when nothing is dispatched yet.
LEMMA ScanEndFits ==
    ASSUME ProcessInv, SlotInv, ScanEnd
    PROVE  SlotInv'
<1>1. run \in [Tasks -> Runs]
  BY RunType DEF ProcessInv
<1>2. /\ UNCHANGED key /\ mode = "scan" /\ mode' = "run" /\ scan' = NoScan
  BY DEF ScanEnd, tableVars, rowVars
<1>3. ASSUME NEW u \in Tasks
      PROVE  /\ MediaOfTask(u)' = MediaOfTask(u)
             /\ run'[u].slot # "inflight"
             /\ run'[u].slot # "free" => run'[u].resumed
             /\ run'[u].resumed => run'[u].slot # "free" /\ u \in scan.resume
  <2> DEFINE after == [run[u] EXCEPT !.at = "unstarted", !.slot = "pending", !.resumed = TRUE]
  <2>1. run'[u] = IF u \in scan.resume THEN after ELSE run[u]
    BY DEF ScanEnd
  <2>2. after.slot = "pending" /\ after.resumed = TRUE
    BY <1>1 DEF Runs
  <2>3. run[u].slot = "free" /\ ~ run[u].resumed
    BY <1>2 DEF SlotInv
  <2>4. MediaOfTask(u)' = MediaOfTask(u)
    BY <1>2 DEF MediaOfTask
  <2> HIDE DEF after
  <2> QED
    BY <2>1, <2>2, <2>3, <2>4
<1>4. ASSUME NEW u \in Tasks
      PROVE  /\ run'[u].slot = "pending" => run'[u].resumed
             /\ run'[u].resumed => run'[u].slot # "free" /\ MediaOfTask(u)' = "video"
             /\ mode' \in {"down", "boot", "scan"} => run'[u].slot = "free"
             /\ u \in scan'.resume => MediaOfTask(u)' = "video"
  BY <1>2, <1>3 DEF SlotInv, NoScan
<1>5. ASSUME NEW p \in Providers, NEW m \in Media
      PROVE  /\ \A u \in Occupants(p, m)' :
                  run'[u].resumed \/ Cardinality(Occupants(p, m)') <= Cap[p][m]
             /\ Cardinality(Polls(p, m)') <= Cap[p][m]
  <2>1. Polls(p, m)' = {}
    BY <1>3 DEF Polls, Occupants
  <2>2. Cardinality({}) = 0 /\ Cap[p][m] \in Nat
    BY FS_EmptySet, WorkerAssumption
  <2>3. \A u \in Occupants(p, m)' : run'[u].resumed
    BY <1>3 DEF Occupants
  <2> QED
    BY <2>1, <2>2, <2>3
<1> QED
  BY <1>4, <1>5 DEF SlotInv

LEMMA SlotsKept ==
    ASSUME WorkerInv, SlotInv, WorkerNext
    PROVE  SlotInv'
<1> USE DEF WorkerInv
<1>1. TableMove
  BY WorkerMoves DEF RowsInv, TableInv, ProcessInv
<1>2. \A u \in Tasks : Forward(u)
  BY <1>1, MovesForward
<1>3. WorkerTypeOK
  BY DEF ProcessInv
<1>4. ASSUME \A u \in Tasks : SlotKept(u), UNCHANGED <<mode, scan>>
      PROVE  SlotInv'
  BY <1>2, <1>4, FewerSlots
<1>5. ASSUME NEW t \in Tasks, Execution(t)
      PROVE  SlotInv'
  <2>1. UNCHANGED <<mode, scan>>
    BY <1>5 DEF Execution, Begin, Acquire, Submit, PersistJobId, ProviderDone, Fail,
                Finish, Resume, CancelDelivered, Settled
  <2>2. CASE Acquire(t) /\ mode # "stopping"
    BY <1>2, <2>2, AcquireFits
  <2>3. CASE Acquire(t) => mode = "stopping"
    BY <1>3, <1>4, <1>5, <2>1, <2>3, ExecutionKeepsSlots
  <2> QED
    BY <2>2, <2>3
<1>6. ASSUME NEW t \in Tasks,
             \/ CancelSwallowed(t) \/ Drain(t) \/ DrainFails(t)
             \/ \E write \in {"succeed", "fail", "cancel"} :
                  Commit(t, write) \/ CommitFails(t, write)
      PROVE  SlotInv'
  <2>1. UNCHANGED <<mode, scan>>
    BY <1>6 DEF CancelSwallowed, Drain, DrainFails, Commit, CommitFails
  <2> QED
    BY <1>3, <1>4, <1>6, <2>1, WritesKeepSlots
<1>7. CASE \/ \E m \in Media : Claim(m)
           \/ ClaimCommit \/ Requeue \/ RequeueFails
           \/ \E p \in Providers, m \in Media :
                RejectClaimed(p, m) \/ Defer(p, m) \/ Cooldown(p, m)
           \/ ApiEnqueue
           \/ \E c \in Cancellers : ApiCancel(c) \/ ApiSignal(c) \/ ApiFinalize(c)
  <2>1. UNCHANGED <<mode, scan>>
    BY <1>7 DEF Claim, ClaimCommit, Requeue, RequeueFails, RejectClaimed, Defer,
                Cooldown, ApiEnqueue, ApiCancel, ApiSignal, ApiFinalize, workerVars
  <2>2. \A u \in Tasks : SlotKept(u)
    BY <1>3, <1>7, ProcessKeepsSlots
  <2> QED
    BY <1>4, <2>1, <2>2
<1>8. CASE ScanSelect \/ ScanFallback \/ Boot \/ StopRequested \/ StopCompletes
           \/ ProcessCancelled \/ Crash \/ LoopDies
  <2>1. \A u \in Tasks : SlotKept(u)
    BY <1>3, <1>8, ProcessKeepsSlots
  <2>2. /\ scan'.resume \subseteq scan.resume
        /\ \/ mode' \notin {"down", "boot", "scan"}
           \/ mode \in {"down", "boot", "scan"}
           \/ \A u \in Tasks : run'[u].slot = "free"
    <3>1. scan \in Scans
      BY <1>3 DEF WorkerTypeOK, Scans
    <3>2. CASE ProcessCancelled
      BY <3>2 DEF ProcessCancelled, NoScan
    <3>3. CASE ~ ProcessCancelled
      BY <1>8, <3>1, <3>3 DEF ScanSelect, ScanFallback, Boot, StopRequested, StopCompletes,
                              Crash, Memory0, LoopDies, NoScan, NoRun, Scans
    <3> QED
      BY <3>2, <3>3
  <2> QED
    BY <1>2, <2>1, <2>2, FewerSlots
<1>9. ASSUME NEW t \in Tasks, ScanRow(t)
      PROVE  SlotInv'
  <2>1. UNCHANGED <<mode, run>>
    BY <1>9 DEF ScanRow
  <2>2. \A u \in Tasks : SlotKept(u)
    BY <2>1 DEF SlotKept
  <2>3. ASSUME NEW u \in scan'.resume
        PROVE  u \in scan.resume \/ (u = t /\ Resumable(t) /\ UNCHANGED tableVars)
    <3>1. scan \in Scans
      BY <1>3 DEF WorkerTypeOK, Scans
    <3> DEFINE done == [scan EXCEPT !.rows[t] = "absent"]
    <3>2. done.resume = scan.resume
          /\ done = [rows |-> done.rows, fallback |-> done.fallback, resume |-> done.resume]
      BY <3>1 DEF Scans
    <3>3. \/ scan' = done \/ scan' = [done EXCEPT !.fallback = t]
          \/ /\ scan' = [done EXCEPT !.resume = @ \union {t}]
             /\ Resumable(t) /\ UNCHANGED tableVars
      BY <1>9 DEF ScanRow
    <3> HIDE DEF done
    <3>4. \/ scan'.resume = scan.resume
          \/ scan'.resume = scan.resume \union {t} /\ Resumable(t) /\ UNCHANGED tableVars
      BY <3>2, <3>3
    <3> QED
      BY <2>3, <3>4
  <2>4. \A u \in scan'.resume : u \in scan.resume \/ MediaOfTask(u)' = "video"
    BY <2>3 DEF Resumable, tableVars, rowVars, MediaOfTask
  <2> QED
    BY <1>2, <2>1, <2>2, <2>4, FewerSlots
<1>10. CASE \E p \in Providers, m \in Media : Dispatch(p, m)
  BY <1>10, DispatchFits
<1>11. CASE ScanEnd
  BY <1>11, ScanEndFits
<1> QED
  BY <1>5, <1>6, <1>7, <1>8, <1>9, <1>10, <1>11
     DEF WorkerNext, LoopStep, StartStep, Errors

\* No lane has anybody at first.
LEMMA SlotsStart == WorkerInit => SlotInv
<1> SUFFICES ASSUME WorkerInit PROVE SlotInv
  OBVIOUS
<1>1. \A t \in Tasks : run[t] = NoRun /\ scan.resume = {}
  BY DEF WorkerInit, NoScan
<1>2. \A p \in Providers, m \in Media : Occupants(p, m) = {} /\ Polls(p, m) = {}
  BY <1>1 DEF Occupants, Polls, NoRun
<1>3. Cardinality({}) = 0 /\ \A p \in Providers, m \in Media : Cap[p][m] \in Nat
  BY FS_EmptySet, WorkerAssumption
<1>4. \A p \in Providers, m \in Media : Cardinality(Polls(p, m)) <= Cap[p][m]
  BY <1>2, <1>3
<1> QED
  BY <1>1, <1>2, <1>4 DEF SlotInv, NoRun

LEMMA SlotsStutter == SlotInv /\ UNCHANGED vars => SlotInv'
<1> SUFFICES ASSUME SlotInv, UNCHANGED vars PROVE SlotInv'
  OBVIOUS
<1>1. UNCHANGED <<run, mode, scan, key>>
  BY DEF vars, workerVars, tableVars, rowVars
<1> QED
  BY <1>1 DEF SlotInv, Occupants, Polls, ProviderOfTask, MediaOfTask

\* The two limits together hold in every state.
LEMMA SlotsCorrect == WorkerSpec => []SlotInv
<1>1. WorkerInv /\ SlotInv /\ [WorkerNext]_vars => SlotInv'
  BY SlotsKept, SlotsStutter
<1> QED
  BY <1>1, SlotsStart, WorkerCorrect, PTL DEF WorkerSpec

\* has_room, the PENDING registration of the resume dispatcher and its semaphore
\* together: a lane never has more executions in flight than its capacity.
THEOREM LanesHaveRoom == WorkerSpec => []CapacityRespected
<1>1. ASSUME WorkerInv, SlotInv
      PROVE  CapacityRespected
  <2> SUFFICES ASSUME NEW p \in Providers, NEW m \in Media
               PROVE  Cardinality({t \in Occupants(p, m) : run[t].slot = "inflight"})
                        <= Cap[p][m]
    BY DEF CapacityRespected
  <2> DEFINE inflight == {t \in Occupants(p, m) : run[t].slot = "inflight"}
  <2>1. CASE \A t \in Occupants(p, m) : run[t].resumed
    <3>1. inflight = Polls(p, m)
      BY <2>1 DEF Polls
    <3> QED
      BY <1>1, <3>1 DEF SlotInv
  <2>2. CASE \E t \in Occupants(p, m) : ~ run[t].resumed
    <3>1. Cardinality(Occupants(p, m)) <= Cap[p][m]
      BY <1>1, <2>2 DEF SlotInv
    <3>2. /\ Cardinality(inflight) <= Cardinality(Occupants(p, m))
          /\ Cardinality(inflight) \in Nat /\ Cardinality(Occupants(p, m)) \in Nat
      BY Smaller DEF Occupants
    <3>3. Cap[p][m] \in Nat
      BY WorkerAssumption
    <3> HIDE DEF inflight
    <3>4. Cardinality(inflight) <= Cap[p][m]
      BY <3>1, <3>2, <3>3
    <3> QED
      BY <3>4 DEF inflight
  <2> QED
    BY <2>1, <2>2
<1> QED
  BY <1>1, WorkerCorrect, SlotsCorrect, PTL
-----------------------------------------------------------------------------
(* The worker and the table are the service of GenerationService. *)

\* Statuses a task may be submitted in, and where a coroutine has not submitted.
Startable == {"running", "cancelling", "cancelled"}
Early == {"entry", "exec"}

\* Where it is known that the provider was paid, but for the row itself, and where
\* an execution lives off a stored job id.
Billed(t) ==
    \/ run[t].at \in {"submitted", "polling", "indexing", "marking"}
    \/ "succeed" \in run[t].inner
    \/ job[t]
Backed(t) == run[t].at \in {"unstarted", "waiting", "locked"} \/ t \in scan.resume

\* An execution that is yet to submit belongs to a row that was started and has not
\* failed; whatever succeeds, or is resumed, was submitted.
SubmissionInv(t) ==
    /\ Holds(t) => status[t] \in Startable
    /\ run[t].at \in Early => status[t] \in Startable /\ run[t].inner = {}
    /\ Billed(t) \/ status[t] = "succeeded" => paid[t] = 1
    /\ Backed(t) => job[t]

SubmissionsInv == \A t \in Tasks : SubmissionInv(t)

\* A row succeeds by its execution's write; one that was started fails, or goes
\* back, by such a write, by the scan or by the loop that lets go of it.
RowFollowsRun(t) ==
    /\ status'[t] = "succeeded" => status[t] = "succeeded" \/ "succeed" \in run[t].inner
    /\ status[t] \in Startable =>
         \/ status'[t] \in Startable
         \/ run[t].inner # {} \/ mode = "scan"
         \/ Holds(t) /\ ~ Holds(t)'
    /\ Holds(t)' => Holds(t) \/ status'[t] = "running"

\* A failure is of the row it names, and of what is queued behind it.
LEMMA FailsQueued ==
    ASSUME NEW u \in Tasks, FailRows(u), NEW t \in Tasks
    PROVE  /\ status'[t] = "succeeded" => status[t] = "succeeded"
           /\ status[t] \in Startable /\ t # u => status'[t] \in Startable
<1> DEFINE blocked == Downstream({u}, {v \in Tasks : status[v] = "queued"})
<1>1. status'[t] = IF t = u \/ t \in blocked THEN "failed" ELSE status[t]
  BY DEF FailRows
<1>2. t \in blocked => status[t] = "queued"
  BY DownstreamAmong
<1> HIDE DEF blocked
<1> QED
  BY <1>1, <1>2 DEF Startable

\* A cancellation leaves a started row cancelling or cancelled.
LEMMA CancelsStarted ==
    ASSUME NEW killed, NEW stopped, NEW by, CancelRows(killed, stopped, by),
           NEW t \in Tasks
    PROVE  /\ status'[t] = "succeeded" => status[t] = "succeeded"
           /\ status[t] \in Startable => status'[t] \in Startable
<1>1. status'[t] = IF t \in killed THEN "cancelled"
                   ELSE IF t \in stopped THEN "cancelling" ELSE status[t]
  BY DEF CancelRows
<1> QED
  BY <1>1 DEF Startable

\* The claims, the requeue and the rejection.
LEMMA LoopFollowsRun ==
    ASSUME RowsInv, NEW t \in Tasks,
           \/ \E m \in Media : Claim(m)
           \/ LoopStep
    PROVE  RowFollowsRun(t)
<1> USE DEF RowsInv, TableInv
<1>1. pick[Loop].task \in Tasks \/ pick[Loop].at = "idle"
  BY WorkerAssumption DEF ClaimedHasStarted, ClaimsUnblocked, TypeOK
<1>2. CASE UNCHANGED status /\ (Holds(t)' => Holds(t))
  BY <1>2 DEF RowFollowsRun
<1>3. CASE \E m \in Media : Claim(m)
  BY <1>2, <1>3, WorkerAssumption DEF Claim, ClaimSelect, rowVars, Holds, TypeOK
<1>4. CASE ClaimCommit
  <2>1. CASE status[pick[Loop].task] = "queued"
    <3>1. /\ pick'[Loop].at = "claimed" /\ pick'[Loop].task = pick[Loop].task
          /\ status' = [status EXCEPT ![pick[Loop].task] = "running"]
          /\ pick[Loop].at = "selected"
      BY <1>4, <2>1, WorkerAssumption DEF ClaimCommit, ClaimUpdate, TypeOK
    <3>2. /\ status'[t] = IF t = pick[Loop].task THEN "running" ELSE status[t]
          /\ Holds(t)' => t = pick[Loop].task
      BY <3>1 DEF TypeOK, Holds
    <3> QED
      BY <3>2 DEF RowFollowsRun, Startable
  <2>2. CASE status[pick[Loop].task] # "queued"
    BY <1>2, <1>4, <2>2, WorkerAssumption DEF ClaimCommit, ClaimUpdate, Holds, TypeOK, NoPick
  <2> QED
    BY <2>1, <2>2
<1>5. ASSUME NEW p \in Providers, NEW m \in Media, RejectClaimed(p, m)
      PROVE  RowFollowsRun(t)
  <2>1. /\ FailRows(pick[Loop].task) \/ UNCHANGED status
        /\ ~ Holds(t)' /\ pick[Loop].at = "claimed"
    BY <1>5, WorkerAssumption
       DEF RejectClaimed, Routing, TryFail, rowVars, Holds, TypeOK, NoPick
  <2>2. CASE UNCHANGED status
    BY <1>2, <2>1, <2>2
  <2>3. CASE FailRows(pick[Loop].task)
    <3>1. pick[Loop].task \in Tasks
      BY <1>1, <2>1
    <3>2. t = pick[Loop].task => Holds(t)
      BY <2>1 DEF Holds
    <3> QED
      BY <2>1, <2>3, <3>1, <3>2, FailsQueued DEF RowFollowsRun
  <2> QED
    BY <2>1, <2>2, <2>3
<1>6. CASE \E p \in Providers, m \in Media : Defer(p, m) \/ Dispatch(p, m)
  BY <1>2, <1>6, WorkerAssumption
     DEF Defer, Dispatch, PersistProvider, HandOver, rowVars, Holds, TypeOK, NoPick
<1>7. CASE Requeue
  <2>1. /\ status'[t] = IF Holds(t) /\ status[t] = "running" THEN "queued" ELSE status[t]
        /\ ~ Holds(t)'
    BY <1>7, WorkerAssumption DEF Requeue, RequeueClaimed, Holds, TypeOK, NoPick
  <2> QED
    BY <2>1 DEF RowFollowsRun
<1> QED
  BY <1>3, <1>4, <1>5, <1>6, <1>7 DEF LoopStep

\* The writes of executions, of the drain and of the scan.
LEMMA WritesFollowRun ==
    ASSUME RowsInv, NEW t \in Tasks, NEW u \in Tasks,
           \/ Execution(u) \/ Drain(u) \/ ScanRow(u) \/ CancelSwallowed(u)
           \/ \E write \in {"succeed", "fail", "cancel"} : Commit(u, write)
    PROVE  RowFollowsRun(t)
<1>1. CASE UNCHANGED tableVars
  BY <1>1 DEF RowFollowsRun, tableVars, rowVars, Holds
<1>2. CASE FinalizeCancelled(u)
  BY <1>2, CancelsStarted DEF FinalizeCancelled, RowFollowsRun, Holds
<1>3. CASE MarkSucceeded(u) /\ "succeed" \in run[u].inner
  <2>1. status'[t] = (IF t = u THEN "succeeded" ELSE status[t]) /\ UNCHANGED pick
    BY <1>3 DEF MarkSucceeded, RowsInv, TableInv, TypeOK
  <2> QED
    BY <1>3, <2>1 DEF RowFollowsRun, Holds
<1>4. CASE MarkFailed(u) /\ (run[u].inner # {} \/ mode = "scan")
  BY <1>4, FailsQueued DEF MarkFailed, RowFollowsRun, Holds
<1>5. \/ UNCHANGED tableVars
      \/ FinalizeCancelled(u)
      \/ MarkSucceeded(u) /\ "succeed" \in run[u].inner
      \/ MarkFailed(u) /\ (run[u].inner # {} \/ mode = "scan")
  <2>1. CASE Execution(u)
    BY <2>1 DEF Execution, Begin, Acquire, Submit, PersistJobId, ProviderDone, Fail,
                Finish, Resume, CancelDelivered, Settled
  <2>2. CASE Drain(u) \/ CancelSwallowed(u)
    BY <2>2 DEF Drain, CancelSwallowed
  <2>3. CASE ScanRow(u)
    BY <2>3 DEF ScanRow
  <2>4. CASE \E write \in {"succeed", "fail", "cancel"} : Commit(u, write)
    BY <2>4 DEF Commit
  <2> QED
    BY <2>1, <2>2, <2>3, <2>4
<1> QED
  BY <1>1, <1>2, <1>3, <1>4, <1>5

\* Every step of the worker.
LEMMA RowsFollowRuns ==
    ASSUME WorkerInv, WorkerNext, NEW t \in Tasks
    PROVE  RowFollowsRun(t)
<1> USE DEF WorkerInv
<1>1. CASE UNCHANGED <<status, pick>>
  BY <1>1 DEF RowFollowsRun, Holds
<1>2. CASE \/ \E p \in Providers, m \in Media : Cooldown(p, m)
           \/ ScanSelect \/ ScanEnd \/ Boot \/ StopCompletes
           \/ StopRequested \/ ProcessCancelled \/ Crash
           \/ \E c \in Cancellers : ApiSignal(c)
           \/ Errors
  <2>1. pick \in [Claimers -> [at : {"idle", "selected", "claimed"},
                               task : Tasks \union {NoTask}]]
    BY DEF RowsInv, TableInv, TypeOK
  <2>2. \/ UNCHANGED <<status, pick>>
        \/ UNCHANGED status /\ pick' = [w \in Claimers |-> NoPick]
        \/ UNCHANGED status /\ pick' = [pick EXCEPT ![Loop] = NoPick]
    <3>1. CASE \/ \E p \in Providers, m \in Media : Cooldown(p, m)
               \/ ScanSelect \/ ScanEnd \/ Boot \/ StopRequested
               \/ \E c \in Cancellers : ApiSignal(c)
      <4>1. UNCHANGED tableVars \/ \E c \in Cancellers : CancelReturn(c)
        BY <3>1, Zenon DEF Cooldown, ScanSelect, ScanEnd, Boot, StopRequested, ApiSignal
      <4> QED
        BY <4>1 DEF CancelReturn, tableVars, rowVars
    <3>2. CASE StopCompletes \/ ProcessCancelled \/ Crash
      BY <3>2 DEF StopCompletes, ProcessCancelled, Crash, Memory0, rowVars
    <3>3. CASE Errors
      BY <3>3 DEF Errors, LoopDies, RequeueFails, DrainFails, CommitFails,
                  tableVars, rowVars
    <3> QED
      BY <1>2, <3>1, <3>2, <3>3
  <2>3. UNCHANGED status /\ (Holds(t)' => Holds(t))
    BY <2>1, <2>2, WorkerAssumption DEF Holds, NoPick
  <2> QED
    BY <2>3 DEF RowFollowsRun
<1>3. CASE ScanFallback
  <2>1. scan.fallback \in Tasks
    BY <1>3 DEF ScanFallback, ProcessInv, WorkerTypeOK
  <2>2. FinalizeCancelled(scan.fallback) \/ UNCHANGED tableVars
    BY <1>3 DEF ScanFallback
  <2>3. CASE UNCHANGED tableVars
    BY <1>1, <2>3 DEF tableVars, rowVars
  <2>4. CASE FinalizeCancelled(scan.fallback)
    BY <2>1, <2>4, CancelsStarted DEF FinalizeCancelled, RowFollowsRun, Holds
  <2> QED
    BY <2>2, <2>3, <2>4
<1>4. CASE ApiEnqueue
  <2>1. \E n \in 1 .. MaxBatch : EnqueueBatch(n)
    BY <1>4 DEF ApiEnqueue
  <2> QED
    BY <2>1, InsertEffect DEF RowsInv, TableInv, RowFollowsRun, Startable, Holds
<1>5. ASSUME NEW c \in Cancellers, ApiCancel(c) \/ ApiFinalize(c)
      PROVE  RowFollowsRun(t)
  <2>1. CASE CancelSelect(c)
    BY <1>1, <2>1 DEF CancelSelect, rowVars
  <2>2. CASE CancelApply(c) \/ FinalizeCancelling(c)
    BY <2>2, CancelsStarted DEF CancelApply, FinalizeCancelling, RowFollowsRun, Holds
  <2> QED
    BY <1>5, <2>1, <2>2 DEF ApiCancel, ApiFinalize
<1>6. CASE LoopStep \/ \E m \in Media : Claim(m)
  BY <1>6, LoopFollowsRun
<1>7. CASE \E u \in Tasks :
             \/ Execution(u) \/ Drain(u) \/ ScanRow(u) \/ CancelSwallowed(u)
             \/ \E write \in {"succeed", "fail", "cancel"} : Commit(u, write)
  BY <1>7, WritesFollowRun
<1>8. CASE StartStep
  BY <1>2, <1>3, <1>8 DEF StartStep
<1>9. CASE \E c \in Cancellers : ApiCancel(c) \/ ApiSignal(c) \/ ApiFinalize(c)
  BY <1>2, <1>5, <1>9
<1> QED
  BY <1>2, <1>4, <1>6, <1>7, <1>8, <1>9 DEF WorkerNext
-----------------------------------------------------------------------------
(* How far a step takes one execution. *)

\* Only a dispatch starts an execution, only a submission is paid, and only what
\* was submitted is polled, stored as a job, resumed or written a success.
Advances(t) ==
    /\ run'[t].at \in Early =>
         /\ run[t].at \in Early \/ (Holds(t) /\ UNCHANGED status)
         /\ run'[t].inner \subseteq run[t].inner
    /\ Billed(t)' => Billed(t) \/ run[t].at = "locked" \/ paid'[t] = 1
    /\ paid[t] = 1 => paid'[t] = 1
    /\ Backed(t)' => Backed(t) \/ job[t]
    /\ job[t] => job'[t]

\* Positions from which nothing follows about the provider.
Neutral == Ended \union {"settling", "failing", "yielding", "stopping", "outer"}

\* An execution that stays where it is, or leaves for such a position.
LEMMA Coasts ==
    ASSUME NEW t \in Tasks, paid'[t] = paid[t], job'[t] = job[t],
           t \in scan'.resume => t \in scan.resume \/ job[t],
           \/ run'[t].at = run[t].at /\ run'[t].inner \subseteq run[t].inner
           \/ /\ run'[t].at \in Neutral
              /\ "succeed" \in run'[t].inner => "succeed" \in run[t].inner
    PROVE  Advances(t)
<1>1. Billed(t)' => Billed(t)
  BY DEF Billed, Neutral, Ended
<1>2. Backed(t)' => Backed(t) \/ job[t]
  BY DEF Backed, Neutral, Ended
<1>3. run'[t].at \in Early => run[t].at \in Early /\ run'[t].inner \subseteq run[t].inner
  BY DEF Early, Neutral, Ended
<1> QED
  BY <1>1, <1>2, <1>3 DEF Advances

\* The same for one that goes on or ends there.
LEMMA GoesNeutral ==
    ASSUME WorkerTypeOK, NEW t \in Tasks, UNCHANGED <<paid, job, scan>>,
           \/ \E to \in Neutral \ Ended : GoesTo(t, to)
           \/ \E how \in {"returned", "cancelled"} : Ends(t, how)
    PROVE  Advances(t)
<1>1. ASSUME NEW to \in Neutral \ Ended, GoesTo(t, to)
      PROVE  Advances(t)
  <2>1. to \in Positions /\ to \in Neutral /\ Awaited(to) # "succeed"
    BY DEF Neutral, Positions, Awaited, Ended
  <2>2. /\ run'[t].at = to
        /\ "succeed" \in run'[t].inner => "succeed" \in run[t].inner
    <3>1. /\ run'[t].at = to
          /\ run'[t].inner = IF Awaited(to) = "nothing" THEN run[t].inner
                             ELSE run[t].inner \union {Awaited(to)}
      BY <1>1, <2>1, GoesToEffect
    <3> QED
      BY <2>1, <3>1
  <2> QED
    BY <2>1, <2>2, Coasts
<1>2. ASSUME NEW how \in {"returned", "cancelled"}, Ends(t, how)
      PROVE  Advances(t)
  BY <1>2, EndsEffect, Coasts DEF Neutral, Ended
<1> QED
  BY <1>1, <1>2

\* The steps of an execution, for its own task.
LEMMA ExecutionAdvances ==
    ASSUME WorkerTypeOK, NEW t \in Tasks, ExecutionInv(t), Execution(t)
    PROVE  Advances(t)
<1> USE DEF Proceeds
<1>1. run \in [Tasks -> Runs]
  BY RunType
<1>2. ASSUME NEW to \in {"exec", "waiting", "polling", "submitted", "indexing", "marking"},
             GoesTo(t, to)
      PROVE  /\ run'[t].at = to
             /\ to # "marking" => run'[t].inner = run[t].inner
             /\ "succeed" \in run'[t].inner => "succeed" \in run[t].inner \/ to = "marking"
  BY <1>2, GoesToEffect DEF Positions, Interruptible, Awaited
<1>3. CASE Begin(t)
  <2>1. UNCHANGED <<paid, job, scan>>
    BY <1>3 DEF Begin
  <2>2. CASE run[t].at = "entry" /\ GoesTo(t, "exec")
    BY <1>2, <2>1, <2>2 DEF Advances, Early, Billed, Backed
  <2>3. CASE run[t].at = "unstarted" /\ GoesTo(t, "waiting")
    BY <1>2, <2>1, <2>3 DEF Advances, Early, Billed, Backed
  <2>4. CASE run[t].at = "locked" /\ GoesTo(t, "polling")
    BY <1>2, <2>1, <2>4 DEF Advances, Early, Billed, Backed
  <2> QED
    BY <1>3, <2>2, <2>3, <2>4 DEF Begin
<1>4. CASE Submit(t)
  <2>1. paid'[t] = 1 /\ UNCHANGED <<job, scan>>
    BY <1>4 DEF Submit, ExecutionInv, WorkerTypeOK
  <2>2. \E to \in {"submitted", "polling"} : GoesTo(t, to)
    BY <1>4 DEF Submit
  <2> QED
    BY <1>2, <2>1, <2>2 DEF Advances, Early, Billed, Backed
<1>5. CASE PersistJobId(t)
  <2>1. /\ UNCHANGED <<paid, scan>> /\ job'[t] /\ run[t].at = "submitted"
        /\ GoesTo(t, "polling")
    BY <1>5 DEF PersistJobId, WorkerTypeOK
  <2> QED
    BY <1>2, <2>1 DEF Advances, Early, Billed, Backed
<1>6. CASE ProviderDone(t)
  <2>1. /\ UNCHANGED <<paid, job, scan>> /\ run[t].at = "polling"
        /\ GoesTo(t, "indexing")
    BY <1>6 DEF ProviderDone
  <2> QED
    BY <1>2, <2>1 DEF Advances, Early, Billed, Backed
<1>7. CASE Finish(t)
  <2>1. /\ UNCHANGED <<paid, job, scan>> /\ run[t].at = "indexing"
        /\ GoesTo(t, "marking")
    BY <1>7 DEF Finish
  <2> QED
    BY <1>2, <2>1 DEF Advances, Early, Billed, Backed
<1>8. CASE Acquire(t)
  <2>1. UNCHANGED <<paid, job, scan>>
    BY <1>8 DEF Acquire
  <2>2. CASE Ends(t, "returned")
    BY <2>1, <2>2, GoesNeutral
  <2>3. CASE /\ run[t].at = "waiting"
             /\ run' = [run EXCEPT ![t].at = "locked", ![t].slot = "inflight"]
    <3>1. run'[t].at = "locked" /\ run'[t].inner = run[t].inner
      BY <1>1, <2>3 DEF Runs
    <3> QED
      BY <2>1, <2>3, <3>1 DEF Advances, Early, Billed, Backed
  <2> QED
    BY <1>8, <2>2, <2>3 DEF Acquire
<1>9. CASE Fail(t) \/ Settled(t) \/ Resume(t)
  <2>1. UNCHANGED <<paid, job, scan>>
    BY <1>9 DEF Fail, Settled, Resume
  <2>2. \/ \E to \in {"failing", "stopping", "yielding", "outer"} : GoesTo(t, to)
        \/ \E how \in {"returned", "cancelled"} : Ends(t, how)
    BY <1>9 DEF Fail, Settled, Resume
  <2>3. {"failing", "stopping", "yielding", "outer"} \subseteq Neutral \ Ended
    BY DEF Neutral, Ended
  <2> QED
    BY <2>1, <2>2, <2>3, GoesNeutral
<1>10. CASE CancelDelivered(t)
  <2>1. UNCHANGED <<paid, job, scan>>
    BY <1>10 DEF CancelDelivered
  <2>2. \/ \E to \in {"settling", "stopping", "outer"} : GoesTo(t, to)
        \/ Ends(t, "cancelled")
        \/ run' = [run EXCEPT ![t].at = "cancelled", ![t].signal = FALSE]
    BY <1>10 DEF CancelDelivered
  <2>3. {"settling", "stopping", "outer"} \subseteq Neutral \ Ended
    BY DEF Neutral, Ended
  <2>4. CASE run' = [run EXCEPT ![t].at = "cancelled", ![t].signal = FALSE]
    <3>1. run'[t].at = "cancelled" /\ run'[t].inner = run[t].inner
      BY <1>1, <2>4 DEF Runs
    <3> QED
      BY <2>1, <3>1, Coasts DEF Neutral, Ended
  <2> QED
    BY <2>1, <2>2, <2>3, <2>4, GoesNeutral
<1> QED
  BY <1>3, <1>4, <1>5, <1>6, <1>7, <1>8, <1>9, <1>10 DEF Execution

\* The writes, the drain and the swallowed cancellation.
LEMMA WritesAdvance ==
    ASSUME WorkerTypeOK, NEW t \in Tasks, NEW u \in Tasks,
           \/ CancelSwallowed(u) \/ Drain(u) \/ DrainFails(u)
           \/ \E write \in {"succeed", "fail", "cancel"} : Commit(u, write) \/ CommitFails(u, write)
    PROVE  Advances(t)
<1>1. run \in [Tasks -> Runs]
  BY RunType
<1>2. UNCHANGED <<paid, job, scan>>
  BY DEF CancelSwallowed, Drain, DrainFails, Commit, CommitFails
<1>3. CASE CancelSwallowed(u)
  <2>1. run'[t].at = run[t].at /\ run'[t].inner = run[t].inner
    BY <1>1, <1>3 DEF CancelSwallowed, Runs
  <2> QED
    BY <1>2, <2>1, Coasts
<1>4. CASE Drain(u) \/ DrainFails(u)
  <2>1. /\ run'[t].at = run[t].at \/ run'[t].at = "none"
        /\ run'[t].inner = run[t].inner
    BY <1>1, <1>4 DEF Drain, DrainFails, NoRun
  <2> QED
    BY <1>2, <2>1, Coasts DEF Neutral, Ended
<1>5. ASSUME NEW write \in {"succeed", "fail", "cancel"}, CommitFails(u, write)
      PROVE  Advances(t)
  <2>1. run'[t].at = run[t].at /\ run'[t].inner \subseteq run[t].inner
    BY <1>1, <1>5 DEF CommitFails, Runs
  <2> QED
    BY <1>2, <2>1, Coasts
<1>6. ASSUME NEW write \in {"succeed", "fail", "cancel"}, Commit(u, write)
      PROVE  Advances(t)
  <2> DEFINE hit == IF write = "cancel" THEN Cancellable(u) ELSE status[u] = "running"
             signalled == IF write = "cancel" /\ hit
                            THEN Signalled(Stopped({}, KilledWith(u), status)) ELSE run
  <2>1. /\ signalled \in [Tasks -> Runs]
        /\ \A v \in Tasks : /\ signalled[v].at = run[v].at
                            /\ signalled[v].inner = run[v].inner
    BY <1>1, SignalledEffect
  <2>2. run' = [signalled EXCEPT ![u].inner = @ \ {write},
                                 ![u].count = IF Awaited(run[u].at) # write THEN @
                                              ELSE IF hit THEN "one" ELSE "zero"]
    BY <1>6 DEF Commit
  <2> HIDE DEF signalled, hit
  <2>3. run'[t].at = run[t].at /\ run'[t].inner \subseteq run[t].inner
    BY <2>1, <2>2 DEF Runs
  <2> QED
    BY <1>2, <2>3, Coasts
<1> QED
  BY <1>3, <1>4, <1>5, <1>6

\* The resume dispatcher registers what the scan collected.
LEMMA ScanEndAdvances ==
    ASSUME WorkerTypeOK, ScanEnd, NEW t \in Tasks
    PROVE  Advances(t)
<1>1. run[t] \in Runs
  BY RunType
<1>2. UNCHANGED <<paid, job>> /\ scan' = NoScan
  BY Zenon DEF ScanEnd
<1>3. scan'.resume = {}
  BY <1>2 DEF NoScan
<1> DEFINE after == [run[t] EXCEPT !.at = "unstarted", !.slot = "pending", !.resumed = TRUE]
<1>4. run'[t] = IF t \in scan.resume THEN after ELSE run[t]
  BY Zenon DEF ScanEnd
<1>5. after.at = "unstarted" /\ after.inner = run[t].inner
  BY <1>1 DEF Runs
<1> HIDE DEF after
<1>6. CASE t \in scan.resume
  BY <1>2, <1>3, <1>4, <1>5, <1>6 DEF Advances, Early, Billed, Backed
<1>7. CASE t \notin scan.resume
  BY <1>2, <1>3, <1>4, <1>7, Coasts
<1> QED
  BY <1>6, <1>7

\* The loop, the start, the exit and the requests.
LEMMA ProcessAdvances ==
    ASSUME WorkerInv, NEW t \in Tasks,
           \/ \E m \in Media : Claim(m)
           \/ LoopStep \/ StartStep \/ StopRequested \/ ProcessCancelled \/ Crash
           \/ LoopDies \/ RequeueFails
           \/ \E p \in Providers, m \in Media : Cooldown(p, m)
           \/ \E u \in Tasks : ScanRow(u)
           \/ ApiEnqueue
           \/ \E c \in Cancellers : ApiCancel(c) \/ ApiSignal(c) \/ ApiFinalize(c)
    PROVE  Advances(t)
<1> USE DEF WorkerInv
<1>1. WorkerTypeOK /\ run \in [Tasks -> Runs] /\ scan \in Scans
  BY RunType DEF ProcessInv, WorkerTypeOK, Scans
<1>2. CASE UNCHANGED <<run, paid, job, scan>>
  BY <1>2, Coasts
<1>3. CASE \/ \E m \in Media : Claim(m)
           \/ ClaimCommit \/ Requeue \/ RequeueFails
           \/ \E p \in Providers, m \in Media :
                RejectClaimed(p, m) \/ Defer(p, m) \/ Cooldown(p, m)
           \/ Boot \/ StopRequested \/ ApiEnqueue
           \/ \E c \in Cancellers : ApiCancel(c) \/ ApiFinalize(c)
  BY <1>2, <1>3 DEF Claim, ClaimCommit, Requeue, RequeueFails, RejectClaimed, Defer,
       Cooldown, Boot, StopRequested, ApiEnqueue, ApiCancel, ApiFinalize, workerVars
<1>4. CASE ScanSelect \/ LoopDies \/ ScanFallback
  <2>1. UNCHANGED <<run, paid, job>>
    BY <1>4 DEF ScanSelect, LoopDies, ScanFallback
  <2>2. scan'.resume \subseteq scan.resume
    BY <1>1, <1>4 DEF ScanSelect, LoopDies, ScanFallback, NoScan, Scans
  <2> QED
    BY <2>1, <2>2, Coasts
<1>5. ASSUME NEW u \in Tasks, ScanRow(u)
      PROVE  Advances(t)
  <2>1. UNCHANGED <<run, paid, job>>
    BY <1>5 DEF ScanRow
  <2> DEFINE done == [scan EXCEPT !.rows[u] = "absent"]
  <2>2. done.resume = scan.resume
        /\ done = [rows |-> done.rows, fallback |-> done.fallback, resume |-> done.resume]
    BY <1>1 DEF Scans
  <2>3. \/ scan' = done \/ scan' = [done EXCEPT !.fallback = u]
        \/ scan' = [done EXCEPT !.resume = @ \union {u}] /\ job[u]
    BY <1>5 DEF ScanRow, Resumable
  <2> HIDE DEF done
  <2>4. \/ scan'.resume = scan.resume
        \/ scan'.resume = scan.resume \union {u} /\ job[u]
    BY <2>2, <2>3
  <2> QED
    BY <2>1, <2>4, Coasts
<1>6. CASE ScanEnd
  BY <1>1, <1>6, ScanEndAdvances
<1>7. CASE StopCompletes \/ Crash
  <2>1. UNCHANGED <<paid, job>> /\ scan'.resume = {}
        /\ run'[t].at = "none" /\ run'[t].inner = {}
    BY <1>7 DEF StopCompletes, Crash, Memory0, NoScan, NoRun
  <2> QED
    BY <2>1, Coasts DEF Neutral, Ended
<1>13. CASE ProcessCancelled
  <2>1. UNCHANGED <<paid, job>> /\ scan'.resume = {}
    BY <1>13 DEF ProcessCancelled, NoScan
  <2>2. run'[t].at = run[t].at /\ run'[t].inner = {}
    BY <1>1, <1>13, CancelledEffect
  <2> QED
    BY <2>1, <2>2, Coasts
<1>8. CASE \E c \in Cancellers : ApiSignal(c)
  <2>1. UNCHANGED <<paid, job, scan>> /\ \E tasks : run' = Signalled(tasks)
    BY <1>8 DEF ApiSignal
  <2>2. run'[t].at = run[t].at /\ run'[t].inner = run[t].inner
    BY <1>1, <2>1, SignalledEffect
  <2> QED
    BY <2>1, <2>2, Coasts
<1>9. ASSUME NEW p \in Providers, NEW m \in Media, Dispatch(p, m)
      PROVE  Advances(t)
  <2>1. /\ UNCHANGED <<status, paid, job, scan>> /\ pick[Loop].at = "claimed"
        /\ run' = [run EXCEPT ![pick[Loop].task].slot = "inflight",
                              ![pick[Loop].task].at = "entry"]
    BY <1>9 DEF Dispatch, HandOver, Routing, rowVars
  <2>2. /\ run'[t].inner = run[t].inner
        /\ run'[t].at = IF Holds(t) THEN "entry" ELSE run[t].at
    BY <1>1, <2>1 DEF Runs, Holds
  <2>3. CASE Holds(t)
    <3>1. (Billed(t)' => Billed(t)) /\ (Backed(t)' => Backed(t))
      BY <2>1, <2>2, <2>3 DEF Billed, Backed
    <3> QED
      BY <2>1, <2>2, <2>3, <3>1 DEF Advances
  <2>4. CASE ~ Holds(t)
    BY <2>1, <2>2, <2>4, Coasts
  <2> QED
    BY <2>3, <2>4
<1>10. CASE LoopStep
  BY <1>3, <1>9, <1>10 DEF LoopStep
<1>11. CASE StartStep
  BY <1>3, <1>4, <1>6, <1>7, <1>11 DEF StartStep
<1>12. CASE \E c \in Cancellers : ApiCancel(c) \/ ApiSignal(c) \/ ApiFinalize(c)
  BY <1>3, <1>8, <1>12
<1> QED
  BY <1>3, <1>4, <1>5, <1>7, <1>10, <1>11, <1>12, <1>13

-----------------------------------------------------------------------------
(* What was submitted, and the service the worker gives. *)

\* A step of one execution leaves the others alone.
LEMMA OthersStay ==
    ASSUME WorkerTypeOK, NEW u \in Tasks, Execution(u), NEW t \in Tasks, t # u
    PROVE  paid'[t] = paid[t] /\ job'[t] = job[t] /\ scan' = scan /\ run'[t] = run[t]
<1>1. /\ run \in [Tasks -> Runs] /\ paid \in [Tasks -> Nat] /\ job \in [Tasks -> BOOLEAN]
  BY RunType DEF WorkerTypeOK
<1>2. /\ scan' = scan
      /\ paid' = paid \/ paid' = [paid EXCEPT ![u] = @ + 1]
      /\ job' = job \/ job' = [job EXCEPT ![u] = TRUE]
  BY Zenon DEF Execution, Begin, Acquire, Submit, PersistJobId, ProviderDone, Fail,
               Finish, Resume, CancelDelivered, Settled
<1>3. run'[t] = run[t]
  <2>1. CASE \E to : GoesTo(u, to)
    BY <1>1, <2>1 DEF GoesTo
  <2>2. CASE \E how : Ends(u, how)
    BY <1>1, <2>2 DEF Ends
  <2>3. CASE \/ run' = [run EXCEPT ![u].at = "locked", ![u].slot = "inflight"]
             \/ run' = [run EXCEPT ![u].at = "cancelled", ![u].signal = FALSE]
    BY <1>1, <2>3
  <2>4. \/ \E to : GoesTo(u, to)
        \/ \E how : Ends(u, how)
        \/ run' = [run EXCEPT ![u].at = "locked", ![u].slot = "inflight"]
        \/ run' = [run EXCEPT ![u].at = "cancelled", ![u].signal = FALSE]
    <3>1. CASE Begin(u) \/ Submit(u) \/ PersistJobId(u) \/ ProviderDone(u) \/ Fail(u)
               \/ Finish(u) \/ Settled(u)
      BY <3>1, Zenon DEF Begin, Submit, PersistJobId, ProviderDone, Fail, Finish,
                         Settled, Proceeds
    <3>2. CASE Acquire(u)
      BY <3>2, Zenon DEF Acquire
    <3>3. CASE Resume(u)
      BY <3>3, Zenon DEF Resume, Proceeds
    <3>4. CASE CancelDelivered(u)
      BY <3>4, Zenon DEF CancelDelivered
    <3> QED
      BY <3>1, <3>2, <3>3, <3>4 DEF Execution
  <2> QED
    BY <2>1, <2>2, <2>3, <2>4
<1> QED
  BY <1>1, <1>2, <1>3

\* Nothing else is paid for.
LEMMA OnlySubmitPays ==
    ASSUME [WorkerNext]_vars
    PROVE  UNCHANGED paid \/ \E t \in Tasks : Submit(t)
<1>1. CASE \E t \in Tasks : Execution(t)
  BY <1>1 DEF Execution, Begin, Acquire, PersistJobId, ProviderDone, Fail, Finish,
              Resume, CancelDelivered, Settled
<1>2. CASE LoopStep \/ \E m \in Media : Claim(m)
  BY <1>2 DEF LoopStep, Claim, ClaimCommit, RejectClaimed, Defer, Dispatch, Requeue,
              workerVars
<1>3. CASE \E t \in Tasks :
             \/ Drain(t) \/ ScanRow(t) \/ CancelSwallowed(t)
             \/ \E write \in {"succeed", "fail", "cancel"} : Commit(t, write)
  <2>1. ASSUME NEW t \in Tasks, Drain(t) \/ CancelSwallowed(t)
        PROVE  UNCHANGED paid
    BY <2>1, Zenon DEF Drain, CancelSwallowed
  <2>2. ASSUME NEW t \in Tasks, ScanRow(t)
        PROVE  UNCHANGED paid
    BY <2>2, Zenon DEF ScanRow
  <2>3. ASSUME NEW t \in Tasks, NEW write \in {"succeed", "fail", "cancel"},
               Commit(t, write)
        PROVE  UNCHANGED paid
    BY <2>3, Zenon DEF Commit
  <2> QED
    BY <1>3, <2>1, <2>2, <2>3, Zenon
<1>4. CASE StartStep \/ StopRequested \/ ProcessCancelled \/ Crash
  BY <1>4, Zenon DEF StartStep, ScanSelect, ScanFallback, ScanEnd, Boot, StopCompletes,
                     StopRequested, ProcessCancelled, Crash, Memory0
<1>5. CASE Errors
  BY <1>5, Zenon DEF Errors, LoopDies, RequeueFails, DrainFails, CommitFails
<1>6. CASE ApiEnqueue \/ \E c \in Cancellers : ApiCancel(c) \/ ApiSignal(c) \/ ApiFinalize(c)
  BY <1>6 DEF ApiEnqueue, ApiCancel, ApiSignal, ApiFinalize, workerVars
<1>7. CASE \E p \in Providers, m \in Media : Cooldown(p, m)
  BY <1>7, Zenon DEF Cooldown
<1>8. CASE UNCHANGED vars
  BY <1>8 DEF vars, workerVars
<1> QED
  BY <1>1, <1>2, <1>3, <1>4, <1>5, <1>6, <1>7, <1>8 DEF WorkerNext

\* What a step does to another task's execution.
LEMMA ExecutionsAdvance ==
    ASSUME WorkerInv, WorkerNext, NEW t \in Tasks
    PROVE  Advances(t)
<1> USE DEF WorkerInv
<1>1. WorkerTypeOK /\ ExecutionInv(t)
  BY DEF ProcessInv
<1>2. ASSUME NEW u \in Tasks, Execution(u)
      PROVE  Advances(t)
  <2>1. CASE t = u
    BY <1>1, <1>2, <2>1, ExecutionAdvances
  <2>2. CASE t # u
    <3>1. /\ paid'[t] = paid[t] /\ job'[t] = job[t] /\ scan' = scan
          /\ run'[t] = run[t]
      BY <1>1, <1>2, <2>2, OthersStay
    <3> QED
      BY <3>1, Coasts
  <2> QED
    BY <2>1, <2>2
<1>3. CASE \E u \in Tasks :
             \/ Drain(u) \/ CancelSwallowed(u) \/ DrainFails(u)
             \/ \E write \in {"succeed", "fail", "cancel"} : Commit(u, write) \/ CommitFails(u, write)
  BY <1>1, <1>3, WritesAdvance
<1>4. CASE \/ \E m \in Media : Claim(m)
           \/ LoopStep \/ StartStep \/ StopRequested \/ ProcessCancelled \/ Crash
           \/ LoopDies \/ RequeueFails
           \/ \E p \in Providers, m \in Media : Cooldown(p, m)
           \/ \E u \in Tasks : ScanRow(u)
           \/ ApiEnqueue
           \/ \E c \in Cancellers : ApiCancel(c) \/ ApiSignal(c) \/ ApiFinalize(c)
  BY <1>4, ProcessAdvances
<1>5. CASE Errors
  BY <1>3, <1>4, <1>5 DEF Errors
<1>6. CASE \E u \in Tasks :
             \/ Execution(u) \/ Drain(u) \/ ScanRow(u) \/ CancelSwallowed(u)
             \/ \E write \in {"succeed", "fail", "cancel"} : Commit(u, write)
  BY <1>2, <1>3, <1>4, <1>6
<1> QED
  BY <1>4, <1>5, <1>6 DEF WorkerNext

\* The invariant of what was submitted is inductive, given the worker's own.
LEMMA SubmissionKept ==
    ASSUME WorkerInv, WorkerInv', SlotInv, NEW t \in Tasks, SubmissionInv(t), WorkerNext
    PROVE  SubmissionInv(t)'
<1> USE DEF WorkerInv
<1>1. RowFollowsRun(t) /\ Advances(t) /\ SubmissionInv(t)
  BY RowsFollowRuns, ExecutionsAdvance
<1>2. /\ ExecutionInv(t) /\ ExecutionInv(t)'
      /\ paid[t] \in Nat /\ paid'[t] \in Nat
  BY DEF ProcessInv, WorkerTypeOK
<1>3. Holds(t) => run[t].inner = {} /\ mode = "run"
  BY <1>2 DEF ExecutionInv, InUse, ProcessInv, LoopInv, Holds
<1>4. Holds(t)' => status'[t] \in Startable
  BY <1>1, <1>3 DEF RowFollowsRun, SubmissionInv, Startable
<1>5. ASSUME run'[t].at \in Early
      PROVE  status'[t] \in Startable /\ run'[t].inner = {}
  <2>1. CASE run[t].at \in Early
    <3>1. run[t].slot # "free" /\ mode # "scan" /\ ~ Holds(t)
      BY <1>2, <2>1 DEF ExecutionInv, InUse, SlotInv, Early
    <3>2. run'[t].inner \subseteq run[t].inner
      BY <1>1, <1>5 DEF Advances
    <3> QED
      BY <1>1, <2>1, <3>1, <3>2 DEF SubmissionInv, RowFollowsRun
  <2>2. CASE Holds(t) /\ UNCHANGED status
    <3>1. run'[t].inner \subseteq run[t].inner
      BY <1>1, <1>5 DEF Advances
    <3> QED
      BY <1>1, <1>3, <2>2, <3>1 DEF SubmissionInv
  <2> QED
    BY <1>1, <1>5, <2>1, <2>2 DEF Advances
<1>6. ASSUME Billed(t)' \/ status'[t] = "succeeded"
      PROVE  paid'[t] = 1
  <2>1. run[t].at = "locked" => job[t]
    BY <1>1 DEF SubmissionInv, Backed
  <2>2. "succeed" \in run[t].inner \/ job[t] => Billed(t)
    BY DEF Billed
  <2>3. Billed(t) \/ status[t] = "succeeded" \/ paid'[t] = 1
    BY <1>1, <1>6, <2>1, <2>2 DEF Advances, RowFollowsRun
  <2> QED
    BY <1>1, <2>3 DEF SubmissionInv, Advances
<1>7. Backed(t)' => job'[t]
  BY <1>1 DEF SubmissionInv, Advances
<1> QED
  BY <1>4, <1>5, <1>6, <1>7 DEF SubmissionInv

LEMMA SubmissionsKept ==
    ASSUME WorkerInv, WorkerInv', SlotInv, SubmissionsInv, [WorkerNext]_vars
    PROVE  SubmissionsInv'
<1> SUFFICES ASSUME NEW t \in Tasks PROVE SubmissionInv(t)'
  BY DEF SubmissionsInv
<1>1. SubmissionInv(t)
  BY DEF SubmissionsInv
<1>2. CASE UNCHANGED vars
  <2>1. UNCHANGED <<status, pick, run, job, paid, scan>>
    BY <1>2 DEF vars, tableVars, rowVars, workerVars
  <2> QED
    BY <1>1, <2>1 DEF SubmissionInv, Billed, Backed, Holds
<1> QED
  BY <1>1, <1>2, SubmissionKept

\* The service's lifecycle is the table's.
LEMMA SameLifecycle ==
    ASSUME [Lifecycle!LifecycleNext]_(Lifecycle!lifecycleVars)
    PROVE  [Service!LifecycleNext]_(Service!lifecycleVars)
  BY DEF Lifecycle!LifecycleNext, Lifecycle!lifecycleVars, Lifecycle!Create, Lifecycle!Start,
         Lifecycle!PutBack, Lifecycle!Succeed, Lifecycle!Fail, Lifecycle!Cancel,
         Lifecycle!GiveUp, Lifecycle!InState, Lifecycle!Queued, Lifecycle!Unfinished,
         Lifecycle!MoveTo,
         Service!LifecycleNext, Service!lifecycleVars, Service!Create, Service!Start,
         Service!PutBack, Service!Succeed, Service!Fail, Service!Cancel,
         Service!GiveUp, Service!InState, Service!Queued, Service!Unfinished,
         Service!MoveTo

\* The step a step of the worker is for the service.
LEMMA StepIsService ==
    ASSUME WorkerInv, WorkerInv', SubmissionsInv, SubmissionsInv', [WorkerNext]_vars
    PROVE  [Service!ServiceNext]_(Service!serviceVars)
<1> USE DEF WorkerInv
<1>1. [Service!LifecycleNext]_(Service!lifecycleVars)
  BY WorkerStepIsLifecycle, SameLifecycle
<1>2. CASE \E t \in Tasks : Submit(t)
  <2>1. PICK t \in Tasks : Submit(t)
    BY <1>2
  <2>2. /\ status[t] \in {"running", "cancelling", "cancelled"} /\ paid[t] = 0
        /\ paid' = [paid EXCEPT ![t] = @ + 1] /\ UNCHANGED <<status, dep>>
    BY <2>1 DEF Submit, SubmissionsInv, SubmissionInv, Early, Startable, ProcessInv, ExecutionInv,
                tableVars, rowVars
  <2>3. Service!Submit(t)
    BY <2>2 DEF Service!Submit, Service!lifecycleVars
  <2> QED
    BY <2>3 DEF Service!ServiceNext
<1>3. CASE UNCHANGED paid
  <2>1. \A t \in Tasks : /\ status'[t] = "queued" => paid[t] = 0
                         /\ status'[t] = "succeeded" => paid[t] = 1
    BY <1>3 DEF ProcessInv, ExecutionInv, InUse, SubmissionsInv, SubmissionInv
  <2>2. Service!Honoured
    BY <2>1 DEF Service!Honoured
  <2> QED
    BY <1>1, <1>3, <2>2 DEF Service!ServiceNext, Service!Move, Service!serviceVars,
                            Service!lifecycleVars
<1> QED
  BY <1>2, <1>3, OnlySubmitPays

\* ADR 0007 over the table's lifecycle, for any number of tasks, lanes, requests,
\* crashes, forced stops and errors: the worker over the table implements the service.  In particular a task
\* is submitted at most once and never after it failed, a success was submitted, and
\* what was submitted is never queued again.
THEOREM WorkerImplementsService == WorkerSpec => FollowsService
<1>1. WorkerInit => Service!ServiceInit
  BY DEF WorkerInit, TableInit, Service!ServiceInit, Service!LifecycleInit
<1>2. WorkerInit => SubmissionsInv
  BY WorkerAssumption DEF WorkerInit, TableInit, SubmissionsInv, SubmissionInv, Billed,
                          Backed, Early, Holds, NoPick, NoRun, NoScan
<1>3. WorkerInv /\ WorkerInv' /\ SlotInv /\ SubmissionsInv /\ [WorkerNext]_vars
        => SubmissionsInv'
  BY SubmissionsKept
<1>4. WorkerInv /\ WorkerInv' /\ SubmissionsInv /\ SubmissionsInv' /\ [WorkerNext]_vars
        => [Service!ServiceNext]_(Service!serviceVars)
  BY StepIsService
<1> QED
  BY <1>1, <1>2, <1>3, <1>4, WorkerCorrect, SlotsCorrect, PTL
     DEF WorkerSpec, FollowsService, Service!ServiceSpec

-----------------------------------------------------------------------------
(* Who ends a cancelling row.  CancellingIsOwned does not hold of the code:    *)
(* there are two ways to leave such a row to nobody, and these are all.        *)

Unsettled == {"running", "cancelling"}

\* The loop lets go of a claimed task that was cancelled since the claim.
LetsGoOfCancelled ==
    /\ pick[Loop].at = "claimed" /\ status[pick[Loop].task] = "cancelling"
    /\ Requeue \/ \E p \in Providers, m \in Media : RejectClaimed(p, m)

\* A resumed execution is cancelled before its first step, in a process that goes on.
CancelledUnstarted ==
    mode # "aborting" /\ \E t \in Tasks : run[t].at = "unstarted" /\ CancelDelivered(t)

WatchfulNext == WorkerNext /\ ~ LetsGoOfCancelled /\ ~ CancelledUnstarted

\* An awaited write is under way or was answered, and what is registered for a
\* resume has not ended ...
AwaitInv(t) ==
    /\ run[t].slot = "pending" => run[t].at \notin Ended
    /\ Awaited(run[t].at) # "nothing" =>
         Awaited(run[t].at) \in run[t].inner \/ run[t].count # "none"
    /\ run[t].count # "none" => Awaited(run[t].at) # "nothing"

\* ... the answer to a write that hit, to a cancellation in any case, is of a row
\* that has ended, and so does an execution only return ...
AnswerInv(t) ==
    /\ run[t].count # "error"
    /\ run[t].count = "one" => status[t] \in Terminal
    /\ run[t].count # "none" /\ Awaited(run[t].at) = "cancel" => status[t] \in Terminal
    /\ run[t].at = "returned" /\ mode # "stopping" => status[t] \in Terminal

\* ... and a row that has not ended is on the list of the scan, the loop, an
\* execution or a write of its cancellation.
AttendedInv(t) ==
    status[t] \in Unsettled =>
    /\ mode = "scan" => scan.rows[t] # "absent" \/ scan.fallback = t \/ t \in scan.resume
    /\ mode = "run" => Holds(t) \/ run[t].slot # "free" \/ "cancel" \in run[t].inner

AttentionInv(t) ==
    AwaitInv(t) /\ (bounds.dbErrors = 0 => AnswerInv(t) /\ AttendedInv(t))

\* No step brings a terminal row back, and only the loop's claim starts one.
RowSettles(t) ==
    /\ status[t] \in Terminal => status'[t] \in Terminal
    /\ status'[t] \in Unsettled => status[t] \in Unsettled \/ Holds(t)'

LEMMA RowsSettle ==
    ASSUME RowsInv, TableMove, NEW t \in Tasks
    PROVE  RowSettles(t)
<1> USE DEF RowsInv, TableInv
<1>1. Forward(t) /\ Loop \in Claimers
  BY MovesForward, WorkerAssumption
<1>2. CASE \E n \in 1 .. MaxBatch : EnqueueBatch(n)
  BY <1>2, InsertEffect DEF RowSettles, Unsettled, Terminal
<1>3. CASE RowStep
  BY <1>1, <1>3 DEF RowStep, Edge, Forward, RowSettles, Unsettled, Terminal
<1>4. CASE ClaimStep(Loop)
  BY <1>1, <1>3, <1>4, ClaimEffect
<1>5. CASE \E c \in Cancellers : CancelStep(c)
  BY <1>3, <1>5, CancelEffect
<1>6. CASE \E u \in Tasks : MarkSucceeded(u) \/ MarkFailed(u) \/ FinalizeCancelled(u)
  BY <1>3, <1>6, EndEffect
<1>7. CASE UNCHANGED tableVars
  BY <1>3, <1>7 DEF tableVars, rowVars, RowStep, Edge
<1>8. CASE Forgets /\ (UNCHANGED rowVars \/ \E u \in Tasks : FailRows(u))
  BY <1>3, <1>8, ForgettingRows
<1> QED
  BY <1>2, <1>4, <1>5, <1>6, <1>7, <1>8 DEF TableMove

\* What does not move stays attended, if the loop does not let go of it.
LEMMA StillAttended ==
    ASSUME WorkerInv', NEW t \in Tasks, AttentionInv(t), RowSettles(t),
           UNCHANGED <<mode, scan>>,
           run'[t].at = run[t].at, run'[t].slot = run[t].slot,
           run'[t].inner = run[t].inner, run'[t].count = run[t].count,
           bounds'.dbErrors = 0 => bounds.dbErrors = 0,
           bounds'.dbErrors = 0 /\ status'[t] \in Unsettled /\ Holds(t) => Holds(t)'
    PROVE  AttentionInv(t)'
<1>1. Holds(t)' => mode = "run"
  BY DEF WorkerInv, ProcessInv, LoopInv, Holds
<1>2. AwaitInv(t)'
  BY DEF AttentionInv, AwaitInv
<1>3. ASSUME bounds'.dbErrors = 0
      PROVE  AnswerInv(t)'
  BY <1>3 DEF AttentionInv, AnswerInv, RowSettles
<1>4. ASSUME bounds'.dbErrors = 0
      PROVE  AttendedInv(t)'
  BY <1>1, <1>4 DEF AttentionInv, AttendedInv, RowSettles
<1> QED
  BY <1>2, <1>3, <1>4 DEF AttentionInv

\* A coroutine that goes on holds its slot, and has started the write it awaits.
LEMMA GoesAttended ==
    ASSUME WorkerInv, NEW t \in Tasks, AttentionInv(t),
           UNCHANGED <<tableVars, mode, scan>>, bounds'.dbErrors = bounds.dbErrors,
           run[t].at \notin Ended, NEW to \in Positions \ Ended, GoesTo(t, to)
    PROVE  AttentionInv(t)'
<1>1. /\ run'[t].at = to /\ run'[t].slot = run[t].slot /\ run'[t].count = "none"
      /\ run'[t].inner = IF Awaited(to) = "nothing" THEN run[t].inner
                         ELSE run[t].inner \union {Awaited(to)}
  BY GoesToEffect DEF WorkerInv, ProcessInv
<1>2. run[t].slot # "free"
  BY DEF WorkerInv, ProcessInv, ExecutionInv, Ended
<1>3. AwaitInv(t)'
  BY <1>1 DEF AwaitInv
<1>4. AnswerInv(t)'
  BY <1>1 DEF AnswerInv, Ended
<1>5. bounds.dbErrors = 0 => AttendedInv(t)'
  BY <1>1, <1>2 DEF AttentionInv, AttendedInv, tableVars, rowVars
<1> QED
  BY <1>3, <1>4, <1>5 DEF AttentionInv

\* A resumed execution that ends gives its slot up, another one keeps it.
LEMMA EndsOrLetsGo ==
    ASSUME WorkerTypeOK, NEW t \in Tasks, NEW how, Ends(t, how)
    PROVE  /\ run[t].resumed => run'[t].slot = "free" /\ run'[t].at = "none"
           /\ ~ run[t].resumed => run'[t].slot = run[t].slot /\ run'[t].at = how
<1>1. run \in [Tasks -> Runs]
  BY RunType
<1>2. CASE run[t].resumed
  <2>1. run'[t] = [NoRun EXCEPT !.inner = run[t].inner]
    BY <1>1, <1>2 DEF Ends
  <2> QED
    BY <1>2, <2>1 DEF NoRun
<1>3. CASE ~ run[t].resumed
  <2>1. run'[t] = [run[t] EXCEPT !.at = how, !.signal = FALSE, !.count = "none"]
    BY <1>1, <1>3 DEF Ends
  <2>2. run[t] \in Runs
    BY <1>1
  <2> QED
    BY <1>3, <2>1, <2>2 DEF Runs
<1> QED
  BY <1>2, <1>3

\* A coroutine ends when its row has, when its slot is left to the drain, which
\* marks it, or while a write of the cancellation goes on.
LEMMA EndsAttended ==
    ASSUME WorkerInv, SlotInv, NEW t \in Tasks, AttentionInv(t),
           UNCHANGED <<tableVars, mode, scan>>, bounds'.dbErrors = bounds.dbErrors,
           run[t].at \notin Ended, NEW how \in {"returned", "cancelled"}, Ends(t, how),
           \/ mode = "stopping"
           \/ bounds.dbErrors = 0 => status[t] \in Terminal
           \/ how = "cancelled" /\ (~ run[t].resumed \/ "cancel" \in run[t].inner)
    PROVE  AttentionInv(t)'
<1>1. WorkerTypeOK
  BY DEF WorkerInv, ProcessInv
<1>2. /\ run'[t].count = "none" /\ run'[t].inner = run[t].inner
      /\ run[t].resumed => run'[t].slot = "free" /\ run'[t].at = "none"
      /\ ~ run[t].resumed => run'[t].slot = run[t].slot /\ run'[t].at = how
  BY <1>1, EndsEffect, EndsOrLetsGo
<1>3. run[t].slot # "free" /\ (run[t].slot = "pending" => run[t].resumed)
  BY DEF WorkerInv, ProcessInv, ExecutionInv, Ended, SlotInv
<1>4. UNCHANGED status
  BY DEF tableVars, rowVars
<1>5. Awaited("none") = "nothing" /\ Awaited(how) = "nothing"
  BY DEF Awaited
<1>6. AwaitInv(t)'
  BY <1>2, <1>3, <1>5 DEF AwaitInv
<1>7. ASSUME bounds.dbErrors = 0
      PROVE  AnswerInv(t)' /\ AttendedInv(t)'
  <2>1. CASE ~ run[t].resumed
    <3>1. AttendedInv(t)'
      BY <1>2, <1>3, <1>4, <1>7, <2>1 DEF AttentionInv, AttendedInv
    <3> QED
      BY <1>2, <1>4, <1>5, <1>7, <2>1, <3>1 DEF AnswerInv
  <2>2. CASE run[t].resumed
    <3>1. AnswerInv(t)'
      BY <1>2, <1>4, <1>5, <2>2 DEF AnswerInv
    <3> QED
      BY <1>2, <1>4, <1>7, <2>2, <3>1 DEF AttentionInv, AttendedInv, Unsettled, Terminal
  <2> QED
    BY <2>1, <2>2
<1> QED
  BY <1>6, <1>7 DEF AttentionInv


\* The coroutine that is told the count of rows it waited for.
LEMMA ResumesAttended ==
    ASSUME WorkerInv, SlotInv, NEW t \in Tasks, AttentionInv(t), Resume(t)
    PROVE  AttentionInv(t)'
<1>1. /\ UNCHANGED <<tableVars, mode, scan>> /\ bounds'.dbErrors = bounds.dbErrors
      /\ run[t].count # "none"
  BY DEF Resume
<1>2. run[t].at \in {"marking", "failing", "yielding", "stopping", "outer"}
  BY DEF Resume
<1>3. run[t].at \notin Ended /\ {"yielding", "outer"} \subseteq Positions \ Ended
  BY <1>2 DEF Positions, Ended
<1>4. ASSUME NEW to \in {"yielding", "outer"}, GoesTo(t, to)
      PROVE  AttentionInv(t)'
  BY <1>1, <1>3, <1>4, GoesAttended
<1>5. ASSUME NEW how \in {"returned", "cancelled"}, Ends(t, how),
             bounds.dbErrors = 0 => status[t] \in Terminal
      PROVE  AttentionInv(t)'
  BY <1>1, <1>3, <1>5, EndsAttended
<1>6. WorkerTypeOK /\ run[t] \in Runs
  BY RunType DEF WorkerInv, ProcessInv
<1>7. bounds.dbErrors = 0 /\ run[t].at \in {"marking", "failing"} /\ run[t].count # "zero"
        => status[t] \in Terminal
  BY <1>1, <1>6 DEF AttentionInv, AnswerInv, Runs
<1>8. bounds.dbErrors = 0 /\ run[t].at \in {"yielding", "stopping", "outer"}
        => status[t] \in Terminal
  BY <1>1 DEF AttentionInv, AnswerInv, Awaited
<1>9. \/ \E to \in {"yielding", "outer"} : GoesTo(t, to)
      \/ \E how \in {"returned", "cancelled"} :
           /\ Ends(t, how)
           /\ \/ run[t].at \in {"marking", "failing"} /\ run[t].count # "zero"
              \/ run[t].at \in {"yielding", "stopping", "outer"}
  BY Zenon DEF Resume, Proceeds
<1> QED
  BY <1>4, <1>5, <1>7, <1>8, <1>9

\* A CancelledError, at any await but the first.
LEMMA DeliveryAttended ==
    ASSUME WorkerInv, SlotInv, NEW t \in Tasks, AttentionInv(t), CancelDelivered(t),
           run[t].at # "unstarted"
    PROVE  AttentionInv(t)'
<1>1. /\ UNCHANGED <<tableVars, mode, scan>> /\ bounds'.dbErrors = bounds.dbErrors
      /\ run[t].at \notin Ended
  BY DEF CancelDelivered, Interruptible, Ended
<1>2. {"settling", "stopping", "outer"} \subseteq Positions \ Ended
  BY DEF Positions, Ended
<1>3. \/ \E to \in {"settling", "stopping", "outer"} : GoesTo(t, to)
      \/ Ends(t, "cancelled") /\ (~ run[t].resumed \/ run[t].at = "outer")
  BY DEF CancelDelivered
<1>4. CASE Ends(t, "cancelled") /\ ~ run[t].resumed
  BY <1>1, <1>4, EndsAttended
<1>5. CASE Ends(t, "cancelled") /\ run[t].at = "outer"
  <2>1. "cancel" \in run[t].inner \/ (bounds.dbErrors = 0 => status[t] \in Terminal)
    BY <1>5 DEF AttentionInv, AwaitInv, AnswerInv, Awaited
  <2> QED
    BY <1>1, <1>5, <2>1, EndsAttended
<1> QED
  BY <1>1, <1>2, <1>3, <1>4, <1>5, GoesAttended

\* A resumed execution that has its turn is promoted, or lets go at a stop.
LEMMA AcquireAttended ==
    ASSUME WorkerInv, SlotInv, NEW t \in Tasks, AttentionInv(t), Acquire(t)
    PROVE  AttentionInv(t)'
<1>1. /\ UNCHANGED <<tableVars, mode, scan>> /\ bounds'.dbErrors = bounds.dbErrors
      /\ run[t].at = "waiting"
  BY DEF Acquire
<1>2. CASE mode = "stopping" /\ Ends(t, "returned")
  BY <1>1, <1>2, EndsAttended DEF Ended
<1>3. CASE run' = [run EXCEPT ![t].at = "locked", ![t].slot = "inflight"]
  <2>1. run \in [Tasks -> Runs]
    BY RunType DEF WorkerInv, ProcessInv
  <2>2. /\ run'[t].at = "locked" /\ run'[t].slot = "inflight"
        /\ run'[t].inner = run[t].inner /\ run'[t].count = run[t].count
    BY <1>3, <2>1 DEF Runs
  <2>3. run[t].count = "none" /\ run[t].slot # "free"
    BY <1>1 DEF AttentionInv, AwaitInv, Awaited, WorkerInv, ProcessInv, ExecutionInv
  <2>4. AwaitInv(t)' /\ AnswerInv(t)'
    BY <2>2, <2>3 DEF AwaitInv, AnswerInv, Awaited
  <2>5. bounds.dbErrors = 0 => AttendedInv(t)'
    BY <1>1, <2>2, <2>3 DEF AttentionInv, AttendedInv, tableVars, rowVars
  <2> QED
    BY <1>1, <2>4, <2>5 DEF AttentionInv
<1> QED
  BY <1>2, <1>3 DEF Acquire

\* Every step of its own execution keeps a task attended, but the excluded one.
LEMMA ExecutionAttended ==
    ASSUME WorkerInv, SlotInv, NEW t \in Tasks, AttentionInv(t), Execution(t),
           ~ (run[t].at = "unstarted" /\ CancelDelivered(t))
    PROVE  AttentionInv(t)'
<1> USE DEF Proceeds
<1>1. CASE \/ Begin(t) \/ Submit(t) \/ PersistJobId(t) \/ ProviderDone(t) \/ Fail(t)
           \/ Finish(t) \/ Settled(t)
  <2> DEFINE onward == {"exec", "waiting", "polling", "submitted", "indexing",
                        "failing", "marking", "stopping"}
  <2>1. /\ UNCHANGED <<tableVars, mode, scan>>
        /\ run[t].at \notin Ended
        /\ bounds' = bounds \/ bounds' = [bounds EXCEPT !.trips = @ + 1]
    BY <1>1 DEF Begin, Submit, PersistJobId, ProviderDone, Fail, Finish, Settled, Ended
  <2>2. bounds'.dbErrors = bounds.dbErrors
    BY <2>1 DEF WorkerInv, ProcessInv, WorkerTypeOK
  <2>3. \E to \in onward : GoesTo(t, to)
    BY <1>1 DEF Begin, Submit, PersistJobId, ProviderDone, Fail, Finish, Settled
  <2>4. onward \subseteq Positions \ Ended
    BY DEF Positions, Ended, Interruptible
  <2> HIDE DEF onward
  <2> QED
    BY <2>1, <2>2, <2>3, <2>4, GoesAttended
<1> QED
  BY <1>1, AcquireAttended, ResumesAttended, DeliveryAttended DEF Execution


\* What a write that commits does to its own row and execution.
LEMMA CommitEffect ==
    ASSUME WorkerInv, NEW t \in Tasks, NEW write \in {"succeed", "fail", "cancel"},
           Commit(t, write)
    PROVE  /\ run'[t].at = run[t].at /\ run'[t].slot = run[t].slot
           /\ run'[t].inner = run[t].inner \ {write}
           /\ Awaited(run[t].at) # write => run'[t].count = run[t].count
           /\ Awaited(run[t].at) = write => run'[t].count \in {"zero", "one"}
           /\ write = "cancel" => status'[t] \in Terminal
           /\ Awaited(run[t].at) = write /\ run'[t].count = "one" => status'[t] \in Terminal
           /\ \A u \in Tasks \ {t} :
                /\ run'[u].at = run[u].at /\ run'[u].slot = run[u].slot
                /\ run'[u].inner = run[u].inner /\ run'[u].count = run[u].count
<1> DEFINE hit == IF write = "cancel" THEN Cancellable(t) ELSE status[t] = "running"
           signalled == IF write = "cancel" /\ hit
                          THEN Signalled(Stopped({}, KilledWith(t), status)) ELSE run
<1>1. WorkerTypeOK /\ run \in [Tasks -> Runs] /\ status \in [Tasks -> Status]
  BY RunType DEF WorkerInv, ProcessInv, RowsInv, TableInv, TypeOK
<1>2. /\ signalled \in [Tasks -> Runs]
      /\ \A u \in Tasks :
           /\ signalled[u].at = run[u].at /\ signalled[u].slot = run[u].slot
           /\ signalled[u].inner = run[u].inner /\ signalled[u].count = run[u].count
  BY <1>1, SignalledEffect
<1>3. run' = [signalled EXCEPT ![t].inner = @ \ {write},
                               ![t].count = IF Awaited(run[t].at) # write THEN @
                                            ELSE IF hit THEN "one" ELSE "zero"]
  BY DEF Commit
<1>4. status[t] # "absent"
  BY DEF Commit, WorkerInv, ProcessInv, ExecutionInv, InUse
<1>5. hit => status'[t] \in Terminal
  <2>1. ASSUME hit, write = "cancel"
        PROVE  status'[t] = "cancelled"
    BY <2>1, FinalizedLate DEF Commit
  <2>2. ASSUME hit, write # "cancel"
        PROVE  status'[t] \in {"succeeded", "failed"}
    BY <1>1, <2>2 DEF Commit, MarkSucceeded, MarkFailed, FailRows
  <2> QED
    BY <2>1, <2>2 DEF Terminal
<1>6. write = "cancel" /\ ~ hit => status'[t] \in Terminal
  <2> SUFFICES ASSUME write = "cancel", ~ Cancellable(t), UNCHANGED status
               PROVE  status'[t] \in Terminal
    BY DEF Commit, tableVars, rowVars
  <2> QED
    BY <1>1, <1>4 DEF Cancellable, Status
<1> HIDE DEF hit, signalled
<1>7. /\ run'[t].at = run[t].at /\ run'[t].slot = run[t].slot
      /\ run'[t].inner = run[t].inner \ {write}
      /\ run'[t].count = IF Awaited(run[t].at) # write THEN run[t].count
                         ELSE IF hit THEN "one" ELSE "zero"
      /\ \A u \in Tasks \ {t} : run'[u] = signalled[u]
  BY <1>2, <1>3 DEF Runs
<1> QED
  BY <1>2, <1>5, <1>6, <1>7

\* A write that commits answers whoever awaits it, and is the last of its kind.
LEMMA CommitAttended ==
    ASSUME WorkerInv, WorkerInv', NEW t \in Tasks, NEW u \in Tasks, AttentionInv(t),
           RowSettles(t), NEW write \in {"succeed", "fail", "cancel"}, Commit(u, write)
    PROVE  AttentionInv(t)'
<1>1. UNCHANGED <<mode, scan, bounds, pick>>
  BY DEF Commit, MarkSucceeded, MarkFailed, FinalizeCancelled, tableVars
<1>2. CASE t # u
  BY <1>1, <1>2, CommitEffect, StillAttended DEF Holds
<1>3. CASE t = u
  <2>1. /\ run'[t].at = run[t].at /\ run'[t].slot = run[t].slot
        /\ run'[t].inner = run[t].inner \ {write}
        /\ Awaited(run[t].at) # write => run'[t].count = run[t].count
        /\ Awaited(run[t].at) = write => run'[t].count \in {"zero", "one"}
        /\ write = "cancel" => status'[t] \in Terminal
        /\ Awaited(run[t].at) = write /\ run'[t].count = "one" => status'[t] \in Terminal
    BY <1>3, CommitEffect
  <2>2. AwaitInv(t)'
    BY <2>1 DEF AttentionInv, AwaitInv
  <2>3. ASSUME bounds.dbErrors = 0
        PROVE  AnswerInv(t)'
    BY <1>1, <2>1, <2>3 DEF AttentionInv, AnswerInv, RowSettles
  <2>4. ASSUME bounds.dbErrors = 0
        PROVE  AttendedInv(t)'
    <3>1. CASE write = "cancel"
      BY <2>1, <3>1 DEF AttendedInv, Unsettled, Terminal
    <3>2. CASE write # "cancel"
      <4>1. (Holds(t)' => Holds(t)) /\ (Holds(t) => Holds(t)' /\ mode = "run")
        BY <1>1 DEF WorkerInv, ProcessInv, LoopInv, Holds
      <4>2. "cancel" \in run[t].inner => "cancel" \in run'[t].inner
        BY <2>1, <3>2
      <4> QED
        BY <1>1, <2>1, <2>4, <4>1, <4>2 DEF AttentionInv, AttendedInv, RowSettles
    <3> QED
      BY <3>1, <3>2
  <2> QED
    BY <1>1, <2>2, <2>3, <2>4 DEF AttentionInv
<1> QED
  BY <1>2, <1>3

\* The drain marks what was cancelled; what returned had ended.
LEMMA DrainAttended ==
    ASSUME WorkerInv, WorkerInv', NEW t \in Tasks, NEW u \in Tasks, AttentionInv(t),
           RowSettles(t), Drain(u)
    PROVE  AttentionInv(t)'
<1>1. /\ UNCHANGED <<mode, scan, bounds, pick>> /\ mode = "run"
      /\ run[u].at \in {"returned", "cancelled"}
      /\ run' = [run EXCEPT ![u] = [NoRun EXCEPT !.inner = run[u].inner]]
  BY Zenon DEF Drain, LoopFree, FinalizeCancelled, tableVars
<1>2. run \in [Tasks -> Runs]
  BY RunType DEF WorkerInv, ProcessInv
<1>3. CASE t # u
  BY <1>1, <1>2, <1>3, StillAttended DEF Holds
<1>4. CASE t = u
  <2>1. /\ run'[t].slot = "free" /\ run'[t].at = "none" /\ run'[t].count = "none"
        /\ run'[t].inner = run[t].inner
    BY <1>1, <1>2, <1>4 DEF NoRun
  <2>2. AwaitInv(t)' /\ AnswerInv(t)'
    BY <2>1 DEF AwaitInv, AnswerInv, Awaited
  <2>3. ASSUME bounds.dbErrors = 0
        PROVE  status'[t] \notin Unsettled
    <3>1. CASE run[t].at = "returned"
      BY <1>1, <2>3, <3>1 DEF AttentionInv, AnswerInv, RowSettles, Unsettled, Terminal
    <3>2. CASE run[t].at = "cancelled" /\ Cancellable(t)
      BY <1>4, <3>2, FinalizedLate DEF Drain, Unsettled
    <3>3. CASE run[t].at = "cancelled" /\ ~ Cancellable(t)
      BY <1>4, <3>3 DEF Drain, tableVars, rowVars, Cancellable, Active, Unsettled
    <3> QED
      BY <1>1, <1>4, <3>1, <3>2, <3>3
  <2> QED
    BY <1>1, <2>2, <2>3 DEF AttentionInv, AttendedInv
<1> QED
  BY <1>3, <1>4

\* A call that raises is counted, and takes no answer that was awaited.
LEMMA ErrorsAttended ==
    ASSUME WorkerInv, NEW t \in Tasks, AttentionInv(t), Errors
    PROVE  AttentionInv(t)'
<1>1. WorkerTypeOK /\ run \in [Tasks -> Runs]
  BY RunType DEF WorkerInv, ProcessInv
<1>2. bounds'.dbErrors # 0
  <2>1. DbError
    BY Zenon DEF Errors, LoopDies, RequeueFails, DrainFails, CommitFails
  <2> QED
    BY <1>1, <2>1, ErrorCounted
<1>3. AwaitInv(t)'
  <2>1. CASE UNCHANGED run
    BY <2>1 DEF AttentionInv, AwaitInv
  <2>2. ASSUME NEW u \in Tasks, DrainFails(u)
        PROVE  AwaitInv(t)'
    <3>1. run'[t] = run[t] \/ (run'[t].slot = "free" /\ run'[t].at = "none"
                               /\ run'[t].count = "none")
      BY <1>1, <2>2 DEF DrainFails, NoRun
    <3> QED
      BY <3>1 DEF AttentionInv, AwaitInv, Awaited
  <2>3. ASSUME NEW u \in Tasks, NEW write \in {"succeed", "fail", "cancel"},
               CommitFails(u, write)
        PROVE  AwaitInv(t)'
    <3>1. CASE t # u
      <4>1. run'[t] = run[t]
        BY <1>1, <2>3, <3>1 DEF CommitFails
      <4> QED
        BY <4>1 DEF AttentionInv, AwaitInv
    <3>2. CASE t = u
      <4>1. /\ run'[t].at = run[t].at /\ run'[t].slot = run[t].slot
            /\ run'[t].inner = run[t].inner \ {write}
            /\ run'[t].count = IF Awaited(run[t].at) # write THEN run[t].count ELSE "error"
        BY <1>1, <2>3, <3>2 DEF CommitFails, Runs
      <4> QED
        BY <4>1 DEF AttentionInv, AwaitInv
    <3> QED
      BY <3>1, <3>2
  <2> QED
    BY <2>1, <2>2, <2>3 DEF Errors, LoopDies, RequeueFails
<1> QED
  BY <1>2, <1>3 DEF AttentionInv


\* What leaves the executions alone: the loop only passes on what it holds.
LEMMA LoopAttended ==
    ASSUME WorkerInv, WorkerInv', NEW t \in Tasks, AttentionInv(t), RowSettles(t),
           \/ \E m \in Media : Claim(m)
           \/ ClaimCommit \/ Requeue
           \/ \E p \in Providers, m \in Media :
                RejectClaimed(p, m) \/ Defer(p, m) \/ Cooldown(p, m)
           \/ ApiEnqueue
           \/ \E c \in Cancellers : ApiCancel(c) \/ ApiSignal(c) \/ ApiFinalize(c),
           ~ LetsGoOfCancelled
    PROVE  AttentionInv(t)'
<1>1. UNCHANGED <<mode, scan, bounds>>
  BY DEF Claim, ClaimCommit, Requeue, RejectClaimed, Defer, Cooldown, ApiEnqueue,
         ApiCancel, ApiSignal, ApiFinalize, workerVars
<1>2. /\ run'[t].at = run[t].at /\ run'[t].slot = run[t].slot
      /\ run'[t].inner = run[t].inner /\ run'[t].count = run[t].count
  <2>1. CASE UNCHANGED run
    BY <2>1
  <2>2. CASE \E c \in Cancellers : ApiSignal(c)
    BY <2>2, SignalledEffect DEF ApiSignal, WorkerInv, ProcessInv
  <2> QED
    BY <2>1, <2>2 DEF Claim, ClaimCommit, Requeue, RejectClaimed, Defer, Cooldown,
                      ApiEnqueue, ApiCancel, ApiFinalize, workerVars
<1>3. Loop \in Claimers /\ pick \in [Claimers -> [at : {"idle", "selected", "claimed"},
                                                   task : Tasks \union {NoTask}]]
  BY WorkerAssumption DEF WorkerInv, RowsInv, TableInv, TypeOK
<1>4. ASSUME status'[t] \in Unsettled, Holds(t)
      PROVE  Holds(t)'
  <2>1. CASE UNCHANGED pick
    BY <1>4, <2>1 DEF Holds
  <2>2. CASE ClaimCommit \/ \E m \in Media : Claim(m)
    BY <1>4, <2>2 DEF Claim, LoopFree, ClaimCommit, ClaimUpdate, Holds
  <2>3. CASE Requeue
    <3>1. status'[t] = IF status[t] = "running" THEN "queued" ELSE status[t]
      BY <1>3, <1>4, <2>3 DEF Requeue, RequeueClaimed, Holds, WorkerInv, RowsInv, TableInv, TypeOK
    <3> QED
      BY <1>4, <2>3, <3>1 DEF LetsGoOfCancelled, Holds, Unsettled
  <2>4. ASSUME NEW p \in Providers, NEW m \in Media, RejectClaimed(p, m)
        PROVE  FALSE
    <3>1. /\ status[t] # "cancelling"
          /\ FailRows(t) \/ (status[t] # "running" /\ UNCHANGED status)
      BY <1>4, <2>4 DEF LetsGoOfCancelled, RejectClaimed, TryFail, Holds, rowVars
    <3>2. FailRows(t) => status'[t] = "failed"
      BY DEF FailRows
    <3> QED
      BY <1>4, <3>1, <3>2 DEF Unsettled
  <2>5. CASE \/ \E p \in Providers, m \in Media : Defer(p, m) \/ Cooldown(p, m)
             \/ ApiEnqueue
             \/ \E c \in Cancellers : ApiCancel(c) \/ ApiSignal(c) \/ ApiFinalize(c)
    <3>1. CASE \E p \in Providers, m \in Media : Defer(p, m) \/ Cooldown(p, m)
      BY <2>1, <3>1 DEF Defer, PersistProvider, Cooldown, tableVars
    <3>2. CASE ApiEnqueue
      BY <2>1, <3>2, InsertEffect DEF ApiEnqueue, WorkerInv, RowsInv, TableInv
    <3>3. CASE \E c \in Cancellers : ApiCancel(c) \/ ApiSignal(c) \/ ApiFinalize(c)
      BY <2>1, <3>3, CancelEffect
         DEF ApiCancel, ApiSignal, ApiFinalize, CancelStep, WorkerInv, RowsInv, TableInv
    <3> QED
      BY <2>5, <3>1, <3>2, <3>3
  <2> QED
    BY <2>2, <2>3, <2>4, <2>5
<1> QED
  BY <1>1, <1>2, <1>4, StillAttended

\* The loop hands a task over to its execution.
LEMMA DispatchAttended ==
    ASSUME WorkerInv, WorkerInv', NEW t \in Tasks, AttentionInv(t), RowSettles(t),
           NEW p \in Providers, NEW m \in Media, Dispatch(p, m)
    PROVE  AttentionInv(t)'
<1>1. /\ UNCHANGED <<mode, scan, bounds>> /\ pick[Loop].at = "claimed"
      /\ run' = [run EXCEPT ![pick[Loop].task].slot = "inflight",
                            ![pick[Loop].task].at = "entry"]
  BY Zenon DEF Dispatch, Routing
<1>2. run \in [Tasks -> Runs]
  BY RunType DEF WorkerInv, ProcessInv
<1>3. CASE Holds(t)
  <2>1. /\ run'[t].at = "entry" /\ run'[t].slot = "inflight"
        /\ run'[t].count = run[t].count
    BY <1>1, <1>2, <1>3 DEF Holds, Runs
  <2>2. run[t].count = "none"
    BY <1>3 DEF WorkerInv, ProcessInv, ExecutionInv, InUse
  <2>3. AwaitInv(t)' /\ AnswerInv(t)'
    BY <2>1, <2>2 DEF AwaitInv, AnswerInv, Awaited
  <2>4. mode = "run" => AttendedInv(t)'
    BY <1>1, <2>1 DEF AttendedInv
  <2>5. mode = "run"
    BY <1>1 DEF WorkerInv, ProcessInv, LoopInv
  <2> QED
    BY <2>3, <2>4, <2>5 DEF AttentionInv
<1>4. CASE ~ Holds(t)
  <2>1. run'[t] = run[t]
    BY <1>1, <1>2, <1>4 DEF Holds
  <2> QED
    BY <1>1, <1>4, <2>1, StillAttended
<1> QED
  BY <1>3, <1>4

\* The start lists what has not ended, and ends or collects all of it.
LEMMA ScanAttended ==
    ASSUME WorkerInv, WorkerInv', SlotInv, NEW t \in Tasks, AttentionInv(t), RowSettles(t),
           ScanSelect \/ ScanFallback \/ ScanEnd \/ \E u \in Tasks : ScanRow(u)
    PROVE  AttentionInv(t)'
<1>1. /\ run \in [Tasks -> Runs] /\ scan \in Scans
      /\ bounds' = bounds /\ mode \in {"boot", "scan"}
  <2>1. run \in [Tasks -> Runs] /\ scan \in Scans
    BY RunType DEF WorkerInv, ProcessInv, WorkerTypeOK, Scans
  <2>2. bounds' = bounds /\ mode \in {"boot", "scan"}
    BY Zenon DEF ScanSelect, ScanFallback, ScanEnd, ScanRow
  <2> QED
    BY <2>1, <2>2
<1>2. /\ run[t].slot = "free" /\ run[t].at = "none" /\ run[t].count = "none"
      /\ ~ Holds(t) /\ (mode' # "run" => ~ Holds(t)')
  BY <1>1 DEF SlotInv, WorkerInv, ProcessInv, ExecutionInv, LoopInv, Holds
<1>3. CASE ~ ScanEnd /\ UNCHANGED run
  <2>1. AwaitInv(t)' /\ AnswerInv(t)'
    BY <1>2, <1>3 DEF AwaitInv, AnswerInv, Awaited
  <2>2. ASSUME bounds.dbErrors = 0, status'[t] \in Unsettled
        PROVE  mode' = "scan" /\ (scan'.rows[t] # "absent" \/ scan'.fallback = t
                                  \/ t \in scan'.resume)
    <3>0. mode' = "scan"
      BY <1>3, Zenon DEF ScanSelect, ScanFallback, ScanRow
    <3>1. status[t] \in Unsettled /\ mode' = "scan"
      BY <1>2, <2>2, <3>0 DEF RowSettles
    <3>2. CASE ScanSelect
      <4>1. UNCHANGED status
        BY <3>2 DEF ScanSelect, tableVars, rowVars
      <4>2. scan'.rows[t] = status[t]
        BY <3>1, <3>2 DEF ScanSelect, NoScan, Unsettled
      <4> QED
        BY <3>1, <4>2 DEF Unsettled
    <3>3. mode = "scan" => scan.rows[t] # "absent" \/ scan.fallback = t \/ t \in scan.resume
      BY <2>2, <3>1 DEF AttentionInv, AttendedInv
    <3>4. CASE ScanFallback
      <4>1. /\ scan.fallback = t => status'[t] = "cancelled"
            /\ mode = "scan"
            /\ scan' = [scan EXCEPT !.fallback = NoTask]
        BY <3>1, <3>4, FinalizedLate DEF ScanFallback, Cancellable, Active, Unsettled
      <4>2. scan'.rows = scan.rows /\ scan'.resume = scan.resume
        BY <1>1, <4>1 DEF Scans
      <4> QED
        BY <2>2, <3>1, <3>3, <4>1, <4>2 DEF Unsettled
    <3>5. ASSUME NEW u \in Tasks, ScanRow(u)
          PROVE  scan'.rows[t] # "absent" \/ scan'.fallback = t \/ t \in scan'.resume
      <4> DEFINE done == [scan EXCEPT !.rows[u] = "absent"]
      <4>1. /\ done.resume = scan.resume /\ done.fallback = scan.fallback
            /\ \A v \in Tasks \ {u} : done.rows[v] = scan.rows[v]
            /\ done = [rows |-> done.rows, fallback |-> done.fallback, resume |-> done.resume]
        BY <1>1 DEF Scans
      <4>2. /\ mode = "scan" /\ scan.fallback = NoTask
            /\ \/ scan' = done /\ (t = u => status'[t] \notin Unsettled)
               \/ scan' = [done EXCEPT !.fallback = u]
               \/ scan' = [done EXCEPT !.resume = @ \union {u}]
        <5>1. FinalizeCancelled(t) => status'[t] \notin Unsettled
          BY FinalizedLate DEF Unsettled
        <5>2. MarkFailed(t) => status'[t] \notin Unsettled
          BY DEF MarkFailed, FailRows, Unsettled
        <5>3. Cancellable(t)
          BY <3>1 DEF Cancellable, Active, Unsettled
        <5>4. /\ mode = "scan" /\ scan.fallback = NoTask
              /\ \/ scan' = done /\ (Cancellable(u) => FinalizeCancelled(u))
                 \/ scan' = done /\ MarkFailed(u)
                 \/ scan' = [done EXCEPT !.fallback = u]
                 \/ scan' = [done EXCEPT !.resume = @ \union {u}]
          BY <3>5, Zenon DEF ScanRow
        <5> HIDE DEF done
        <5> QED
          BY <5>1, <5>2, <5>3, <5>4
      <4> HIDE DEF done
      <4>3. CASE t = u
        BY <2>2, <4>1, <4>2, <4>3
      <4>4. CASE t # u
        <5>1. /\ scan'.rows[t] = scan.rows[t]
              /\ t \in scan.resume => t \in scan'.resume
          BY <4>1, <4>2, <4>4
        <5>2. scan.fallback # t
          BY <4>2 DEF NoTask, Tasks
        <5> QED
          BY <3>3, <4>2, <5>1, <5>2
      <4> QED
        BY <4>3, <4>4
    <3>6. ScanSelect \/ ScanFallback \/ \E u \in Tasks : ScanRow(u)
      BY <1>3
    <3> QED
      BY <3>1, <3>2, <3>4, <3>5, <3>6
  <2> QED
    BY <1>1, <2>1, <2>2 DEF AttentionInv, AttendedInv
<1>4. CASE ScanEnd
  <2> DEFINE after == [run[t] EXCEPT !.at = "unstarted", !.slot = "pending", !.resumed = TRUE]
  <2>1. /\ run'[t] = IF t \in scan.resume THEN after ELSE run[t]
        /\ mode' = "run" /\ UNCHANGED tableVars
        /\ mode = "scan" /\ scan.fallback = NoTask /\ scan.rows[t] = "absent"
    BY <1>4, Zenon DEF ScanEnd
  <2>2. after.at = "unstarted" /\ after.slot = "pending" /\ after.count = run[t].count
    BY <1>1 DEF Runs
  <2> HIDE DEF after
  <2>3. AwaitInv(t)' /\ AnswerInv(t)'
    BY <1>2, <2>1, <2>2 DEF AwaitInv, AnswerInv, Awaited, Ended
  <2>4. ASSUME bounds.dbErrors = 0, status'[t] \in Unsettled
        PROVE  run'[t].slot # "free"
    <3>1. scan.fallback # t /\ status'[t] = status[t]
      BY <2>1 DEF NoTask, Tasks, tableVars, rowVars
    <3>2. t \in scan.resume
      BY <2>1, <2>4, <3>1 DEF AttentionInv, AttendedInv
    <3> QED
      BY <2>1, <2>2, <3>2
  <2> QED
    BY <1>1, <2>1, <2>3, <2>4 DEF AttentionInv, AttendedInv
<1>5. ScanEnd \/ UNCHANGED run
  BY Zenon DEF ScanSelect, ScanFallback, ScanRow
<1> QED
  BY <1>3, <1>4, <1>5

\* A stop, a crash and the next start forget all executions.
LEMMA RestartAttended ==
    ASSUME WorkerInv, NEW t \in Tasks, AttentionInv(t), RowSettles(t),
           Boot \/ StopRequested \/ StopCompletes \/ Crash
    PROVE  AttentionInv(t)'
<1>1. bounds'.dbErrors = bounds.dbErrors /\ mode' \notin {"scan", "run"}
  BY DEF Boot, StopRequested, StopCompletes, Crash, Memory0, WorkerInv, ProcessInv,
         WorkerTypeOK
<1>2. mode' = "stopping" \/ mode # "stopping" \/ run'[t].at = "none"
  BY DEF Boot, StopRequested, StopCompletes, Crash, Memory0, NoRun
<1>3. CASE UNCHANGED run
  <2>1. AwaitInv(t)'
    BY <1>3 DEF AttentionInv, AwaitInv
  <2>2. bounds.dbErrors = 0 => AnswerInv(t)'
    BY <1>2, <1>3 DEF AttentionInv, AnswerInv, RowSettles
  <2> QED
    BY <1>1, <2>1, <2>2 DEF AttentionInv, AttendedInv
<1>4. CASE run' = [u \in Tasks |-> NoRun]
  <2>1. run'[t].slot = "free" /\ run'[t].at = "none" /\ run'[t].count = "none"
    BY <1>4 DEF NoRun
  <2>2. AwaitInv(t)' /\ AnswerInv(t)'
    BY <2>1 DEF AwaitInv, AnswerInv, Awaited
  <2> QED
    BY <1>1, <2>2 DEF AttentionInv, AttendedInv
<1> QED
  BY <1>3, <1>4 DEF Boot, StopRequested, StopCompletes, Crash, Memory0

\* A process that has cancelled everything only ends.
LEMMA AbortingEnds ==
    ASSUME WorkerNext, mode = "aborting"
    PROVE  UNCHANGED mode \/ StopCompletes \/ Crash
<1>1. CASE \E t \in Tasks : Execution(t)
  BY <1>1, Zenon DEF Execution, Begin, Acquire, Submit, PersistJobId, ProviderDone, Fail,
                     Finish, Resume, CancelDelivered, Settled
<1>2. CASE LoopStep \/ \E m \in Media : Claim(m)
  BY <1>2, Zenon DEF LoopStep, Claim, ClaimCommit, RejectClaimed, Defer, Dispatch, Requeue,
                     workerVars
<1>3. CASE \E t \in Tasks : Drain(t) \/ ScanRow(t) \/ CancelSwallowed(t)
  BY <1>3, Zenon DEF Drain, ScanRow, CancelSwallowed
<1>4. CASE \E t \in Tasks, write \in {"succeed", "fail", "cancel"} : Commit(t, write)
  BY <1>4, Zenon DEF Commit
<1>5. CASE StartStep \/ StopRequested \/ ProcessCancelled \/ Crash
  BY <1>5 DEF StartStep, ScanSelect, ScanFallback, ScanEnd, Boot, StopRequested,
              LoopFree, ProcessCancelled
<1>6. CASE Errors
  BY <1>6 DEF Errors, LoopDies, RequeueFails, DrainFails, CommitFails
<1>7. CASE ApiEnqueue \/ \E c \in Cancellers : ApiCancel(c) \/ ApiSignal(c) \/ ApiFinalize(c)
  BY <1>7 DEF ApiEnqueue, ApiCancel, ApiSignal, ApiFinalize, workerVars
<1>8. CASE \E p \in Providers, m \in Media : Cooldown(p, m)
  BY <1>8, Zenon DEF Cooldown
<1> QED
  BY <1>1, <1>2, <1>3, <1>4, <1>5, <1>6, <1>7, <1>8 DEF WorkerNext

\* Every step but the excluded two keeps every task attended, in a process that goes
\* on; the next one starts with no execution.
LEMMA AttentionKept ==
    ASSUME WorkerInv, WorkerInv', SlotInv, NEW t \in Tasks,
           mode # "aborting" => AttentionInv(t), mode' # "aborting",
           [WatchfulNext]_vars
    PROVE  AttentionInv(t)'
<1>1. CASE UNCHANGED vars
  <2>1. UNCHANGED <<status, pick, mode, run, scan, bounds>>
    BY <1>1 DEF vars, tableVars, rowVars, workerVars
  <2> QED
    BY <2>1 DEF AttentionInv, AwaitInv, AnswerInv, AttendedInv, Holds
<1>14. CASE mode = "aborting" /\ WorkerNext
  <2>1. Memory0
    BY <1>14, AbortingEnds DEF StopCompletes, Crash
  <2>2. mode' = "down" /\ run'[t] = NoRun
    BY <2>1 DEF Memory0
  <2>3. run'[t].slot = "free" /\ run'[t].at = "none" /\ run'[t].count = "none"
    BY <2>2 DEF NoRun
  <2> QED
    BY <2>2, <2>3 DEF AttentionInv, AwaitInv, AnswerInv, AttendedInv, Awaited
<1> SUFFICES ASSUME WorkerNext, ~ LetsGoOfCancelled, ~ CancelledUnstarted,
                    mode # "aborting", AttentionInv(t)
             PROVE  AttentionInv(t)'
  BY <1>1, <1>14 DEF WatchfulNext
<1>2. WorkerTypeOK /\ RowSettles(t)
  BY WorkerMoves, RowsSettle DEF WorkerInv, ProcessInv, RowsInv, TableInv
<1>3. ASSUME NEW u \in Tasks, Execution(u)
      PROVE  AttentionInv(t)'
  <2>1. CASE t = u
    BY <1>3, <2>1, ExecutionAttended DEF CancelledUnstarted
  <2>2. CASE t # u
    <3>1. run'[t] = run[t]
      BY <1>2, <1>3, <2>2, OthersStay
    <3>2. /\ UNCHANGED <<mode, scan, tableVars>>
          /\ bounds' = bounds \/ bounds' = [bounds EXCEPT !.trips = @ + 1]
      BY <1>3, Zenon DEF Execution, Begin, Acquire, Submit, PersistJobId, ProviderDone,
                         Fail, Finish, Resume, CancelDelivered, Settled
    <3>3. bounds'.dbErrors = bounds.dbErrors /\ UNCHANGED pick
      BY <1>2, <3>2 DEF WorkerTypeOK, tableVars
    <3> QED
      BY <1>2, <3>1, <3>2, <3>3, StillAttended DEF Holds
  <2> QED
    BY <2>1, <2>2
<1>4. ASSUME NEW u \in Tasks, CancelSwallowed(u)
      PROVE  AttentionInv(t)'
  <2>1. /\ UNCHANGED <<mode, scan, bounds, pick>>
        /\ run' = [run EXCEPT ![u].signal = FALSE]
    BY <1>4, Zenon DEF CancelSwallowed, tableVars
  <2>2. run \in [Tasks -> Runs]
    BY <1>2, RunType
  <2>3. /\ run'[t].at = run[t].at /\ run'[t].slot = run[t].slot
        /\ run'[t].inner = run[t].inner /\ run'[t].count = run[t].count
    BY <2>1, <2>2 DEF Runs
  <2> QED
    BY <1>2, <2>1, <2>3, StillAttended DEF Holds
<1>5. CASE \E u \in Tasks : \/ Drain(u)
                            \/ \E write \in {"succeed", "fail", "cancel"} : Commit(u, write)
  BY <1>2, <1>5, DrainAttended, CommitAttended
<1>6. CASE \/ \E m \in Media : Claim(m)
           \/ ClaimCommit \/ Requeue
           \/ \E p \in Providers, m \in Media :
                RejectClaimed(p, m) \/ Defer(p, m) \/ Cooldown(p, m)
           \/ ApiEnqueue
           \/ \E c \in Cancellers : ApiCancel(c) \/ ApiSignal(c) \/ ApiFinalize(c)
  BY <1>2, <1>6, LoopAttended
<1>7. CASE \E p \in Providers, m \in Media : Dispatch(p, m)
  BY <1>2, <1>7, DispatchAttended
<1>8. CASE ScanSelect \/ ScanFallback \/ ScanEnd \/ \E u \in Tasks : ScanRow(u)
  BY <1>2, <1>8, ScanAttended
<1>9. CASE Boot \/ StopRequested \/ StopCompletes \/ Crash
  BY <1>2, <1>9, RestartAttended
<1>10. CASE Errors
  BY <1>10, ErrorsAttended
<1>11. CASE LoopStep
  BY <1>6, <1>7, <1>11 DEF LoopStep
<1>12. CASE \E u \in Tasks :
              \/ Execution(u) \/ Drain(u) \/ ScanRow(u) \/ CancelSwallowed(u)
              \/ \E write \in {"succeed", "fail", "cancel"} : Commit(u, write)
  BY <1>3, <1>4, <1>5, <1>8, <1>12
<1>13. ~ ProcessCancelled
  BY DEF ProcessCancelled
<1> QED
  BY <1>6, <1>8, <1>9, <1>10, <1>11, <1>12, <1>13 DEF WorkerNext, StartStep

\* ADR 0006 wants an owner for every cancelling row.  While no queue call raises, it
\* has one unless the loop let go of a claimed task that was cancelled since
\* (requeue_claimed and mark_task_failed match running rows only), or a resumed
\* execution was cancelled before its first step (_run_one's finally never runs):
\* for any number of tasks and requests, across crashes, stops, forced stops and
\* resumes.
THEOREM CancellingIsLostInTwoWays ==
    WorkerInit /\ [][WatchfulNext]_vars
      => [](bounds.dbErrors = 0 => CancellingIsOwned /\ NoSlotLeaks)
<1> DEFINE Attention == mode # "aborting" => \A t \in Tasks : AttentionInv(t)
<1>1. WorkerInit => WorkerInv /\ SlotInv
  BY WorkerStarts, SlotsStart
<1>2. WorkerInit => Attention
  BY DEF WorkerInit, AttentionInv, AwaitInv, AnswerInv, AttendedInv, NoRun, Awaited
<1>3. WorkerInv /\ SlotInv /\ [WatchfulNext]_vars => WorkerInv' /\ SlotInv'
  BY WorkerStepsKeep, WorkerStutters, SlotsKept, SlotsStutter DEF WatchfulNext
<1>4. WorkerInv /\ WorkerInv' /\ SlotInv /\ Attention /\ [WatchfulNext]_vars => Attention'
  BY AttentionKept
<1>5. WorkerInv /\ Attention => (bounds.dbErrors = 0 => CancellingIsOwned /\ NoSlotLeaks)
  <2> SUFFICES ASSUME WorkerInv, Attention, bounds.dbErrors = 0
               PROVE  CancellingIsOwned /\ NoSlotLeaks
    OBVIOUS
  <2>1. NoSlotLeaks
    BY DEF AttentionInv, AwaitInv, NoSlotLeaks, Leaked, Ended
  <2>2. ASSUME mode = "run", NEW t \in Tasks, status[t] = "cancelling"
        PROVE  Owned(t)
    <3>1. Holds(t) \/ run[t].slot # "free" \/ "cancel" \in run[t].inner
      BY <2>2 DEF AttentionInv, AttendedInv, Unsettled
    <3>2. Holds(t) => pick[Loop] = [at |-> "claimed", task |-> t]
      BY WorkerAssumption DEF WorkerInv, RowsInv, TableInv, TypeOK, Holds
    <3> QED
      BY <2>1, <3>1, <3>2 DEF Owned, NoSlotLeaks
  <2> QED
    BY <2>1, <2>2 DEF CancellingIsOwned
<1> QED
  BY <1>1, <1>2, <1>3, <1>4, <1>5, PTL

-----------------------------------------------------------------------------
(* What the table promises, under the worker. *)

\* Whatever the worker does, the rows' part of it is a step of the table's graph.
LEMMA WorkerFollowsGraph ==
    ASSUME WorkerInv, [WorkerNext]_vars
    PROVE  \A t \in Tasks :
             /\ status[t] # "absent" => Edge(status[t], status'[t])
             /\ cancelledBy[t] # NoOne => cancelledBy'[t] = cancelledBy[t]
<1> USE DEF WorkerInv, RowsInv
<1>1. TableMove
  BY WorkerMoves DEF ProcessInv, TableInv, TableMove, vars
<1>2. CASE CallersNext \/ UNCHANGED tableVars
  BY <1>2, StepFollowsGraph DEF CallersNext, TableNext
<1>3. CASE Forgets /\ (UNCHANGED rowVars \/ \E t \in Tasks : FailRows(t))
  BY <1>3, ForgettingRows DEF RowStep, SoundBlame
<1> QED
  BY <1>1, <1>2, <1>3, MoveKinds

\* The worker, its two-step claims, late writes and crashes included, breaks none of
\* the table's promises: active keys stay unique, dependents start after their
\* dependency, cascades have a cause, and ended rows, cancelling rows and
\* attributions are not taken back.
THEOREM WorkerKeepsTable ==
    WorkerSpec => /\ [](UniqueActive /\ StartedAfterParent /\ CascadeHasCause)
                  /\ TerminalIsFinal /\ CancellingOnlyCancels /\ AttributionIsFinal
<1>1. WorkerInv => UniqueActive /\ StartedAfterParent /\ CascadeHasCause
  BY DEF WorkerInv, RowsInv, TableInv
<1>2. WorkerInv /\ [WorkerNext]_vars =>
        /\ [\A t \in Tasks : status[t] \in Terminal => status'[t] = status[t]]_tableVars
        /\ [\A t \in Tasks : status[t] = "cancelling"
              => status'[t] \in {"cancelling", "cancelled"}]_tableVars
        /\ [\A t \in Tasks : cancelledBy[t] # NoOne
              => cancelledBy'[t] = cancelledBy[t]]_tableVars
  BY WorkerFollowsGraph DEF Edge, Terminal
<1> QED
  BY <1>1, <1>2, WorkerCorrect, PTL
     DEF WorkerSpec, TerminalIsFinal, CancellingOnlyCancels, AttributionIsFinal
=============================================================================
