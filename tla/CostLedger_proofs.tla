------------------------- MODULE CostLedger_proofs -------------------------
(***************************************************************************)
(* Proofs about CostLedger.  What makes the unguarded writes of            *)
(* finish_call harmless is that a first execution only ever holds a row    *)
(* of its own process, which is pending until it settles it itself         *)
(* (RowIsMine), and that a worker's start-up settles only rows of earlier  *)
(* processes, none of which has a first execution left (DownIsQuiet).      *)
(***************************************************************************)
EXTENDS CostLedger, TLAPS

First == {"open", "anchored", "submitted", "delivered", "failing"}

\* What a first execution holds, and what it has left behind.
RowIsMine ==
    /\ coro = "start" => line = "none"
    /\ coro \in First => line = "pending" /\ ~old
    /\ coro = "open" => ~job
    /\ coro = "anchored" => anchor \/ task = "direct"
    /\ coro = "delivered" => made
    /\ ~old /\ coro = "done" => line = "success"
    /\ ~old /\ coro = "failed" /\ line = "pending" => unwritten

\* A crash leaves no coroutine, and until the start-up scan is through only a
\* direct call has one; a task whose row is of this process was not found by
\* the scan.
DownIsQuiet ==
    /\ proc = "down" => coro = "none"
    /\ proc = "scan" /\ task # "direct" => coro = "none"
    /\ proc = "scan" /\ ~old /\ task # "direct" => line = "none"
    /\ coro = "resuming" => old
    /\ old => line # "none"
    /\ known => old
    /\ task \in Ended \union {"queued"} => coro = "none"

LedgerInv == LedgerTypeOK /\ RowIsMine /\ DownIsQuiet /\ EndedIsSettled

LEMMA LedgerInitInv == LedgerInit => LedgerInv
<1> SUFFICES ASSUME LedgerInit
             PROVE  LedgerInv
  OBVIOUS
<1>1. reboots \in 0 .. MaxReboots
  BY LedgerAssumption DEF LedgerInit
<1>2. LedgerTypeOK
  BY <1>1 DEF LedgerInit, LedgerTypeOK, Calling, Ended
<1>3. RowIsMine /\ DownIsQuiet /\ EndedIsSettled
  BY DEF LedgerInit, RowIsMine, DownIsQuiet, EndedIsSettled, Ended, First
<1> QED
  BY <1>2, <1>3 DEF LedgerInv

\* Types: one step per variable.
LEMMA LedgerTypes ==
    ASSUME LedgerTypeOK, RowIsMine, [LedgerNext]_ledgerVars
    PROVE  LedgerTypeOK'
<1> USE DEF Ended, Calling, Goes, process, LedgerNext, Execution, Startup, Disturbance,
            ledgerVars, StartCall, OpenRow, PersistCallId, CallSubmitted, CallDelivers,
            CallRaises, RecordSuccessful, RecordFailed, FailureIsLost, AroundRaises,
            MarkTask, MarkRaises, SettleCancelled, MarkCancelled, ResumeDelivers,
            ResumeExpires, ResumeRaises, CancelCall, ProcessCancelled, ProcessDies, Boot,
            ScanOrphans, ScanResumes, SettleInterrupted, SettleRaises, LoopDies
<1>1. (task \in {"queued", "running", "cancelling", "direct"} \union Ended)'
  BY DEF LedgerTypeOK, Verdict
<1>2. (line \in {"none", "pending", "success", "failed"})'
  BY DEF LedgerTypeOK, Settled
<1>3. (old \in BOOLEAN)' /\ (anchor \in BOOLEAN)' /\ (job \in BOOLEAN)'
  BY Zenon DEF LedgerTypeOK
<1>4. (known \in BOOLEAN)' /\ (made \in BOOLEAN)'
  BY DEF LedgerTypeOK
<1>5. (lapsed \in BOOLEAN)' /\ (unwritten \in BOOLEAN)'
  BY Zenon DEF LedgerTypeOK
<1>6. (coro \in Calling \union {"none", "done", "failed", "unwinding", "closing"})'
  BY DEF LedgerTypeOK
<1>7. (proc \in {"scan", "settle", "run", "dead", "ending", "down"})'
  BY DEF LedgerTypeOK
<1>8. (reboots \in 0 .. MaxReboots)'
  <2>1. CASE ProcessDies
    BY <2>1, LedgerAssumption DEF LedgerTypeOK
  <2>2. CASE UNCHANGED reboots
    BY <2>2 DEF LedgerTypeOK
  <2>3. ProcessDies \/ UNCHANGED reboots
    OBVIOUS
  <2> QED
    BY <2>1, <2>2, <2>3
<1>9. (anchor => line # "none")'
  BY DEF LedgerTypeOK, RowIsMine, Settled, First
<1>10. (job => anchor)'
  BY DEF LedgerTypeOK, RowIsMine
<1> QED
  BY <1>1, <1>2, <1>3, <1>4, <1>5, <1>6, <1>7, <1>8, <1>9, <1>10 DEF LedgerTypeOK

\* What the row and the process say of each other: one step per action.  A direct
\* call is the only one that is made before the scan is through, and the only
\* actions that touch a row they did not open ask for its status.
LEMMA LedgerStep == LedgerInv /\ [LedgerNext]_ledgerVars => LedgerInv'
<1> SUFFICES ASSUME LedgerInv, [LedgerNext]_ledgerVars
             PROVE  LedgerInv'
  OBVIOUS
<1> DEFINE Rest == RowIsMine /\ DownIsQuiet /\ EndedIsSettled
<1>0. LedgerTypeOK /\ Rest /\ LedgerTypeOK'
  BY LedgerTypes DEF LedgerInv
<1>a. Rest'
  <2> USE <1>0 DEF LedgerTypeOK, RowIsMine, DownIsQuiet, EndedIsSettled,
                   Calling, Ended, First, Goes, process
  <2>1. CASE StartCall
    BY <2>1 DEF StartCall, Serving
  <2>2. CASE OpenRow
    BY <2>2 DEF OpenRow
  <2>3. CASE PersistCallId
    BY <2>3 DEF PersistCallId
  <2>4. CASE CallSubmitted
    BY <2>4 DEF CallSubmitted
  <2>5. CASE CallDelivers
    BY <2>5 DEF CallDelivers
  <2>6. CASE CallRaises
    BY <2>6 DEF CallRaises
  <2>7. CASE RecordSuccessful
    BY <2>7 DEF RecordSuccessful
  <2>8. CASE RecordFailed
    BY <2>8 DEF RecordFailed
  <2>9. CASE FailureIsLost
    BY <2>9 DEF FailureIsLost
  <2>10. CASE AroundRaises
    BY <2>10 DEF AroundRaises
  <2>11. CASE MarkTask
    BY <2>11 DEF MarkTask, Verdict
  <2>12. CASE MarkRaises
    BY <2>12 DEF MarkRaises
  <2>13. CASE SettleCancelled
    BY <2>13 DEF SettleCancelled, Settled
  <2>14. CASE MarkCancelled
    BY <2>14 DEF MarkCancelled
  <2>15. CASE ResumeDelivers
    BY <2>15 DEF ResumeDelivers, Settled
  <2>16. CASE ResumeExpires
    BY <2>16 DEF ResumeExpires, Settled
  <2>17. CASE ResumeRaises
    BY <2>17 DEF ResumeRaises
  <2>18. CASE CancelCall
    BY <2>18 DEF CancelCall
  <2>19. CASE ProcessCancelled
    BY <2>19 DEF ProcessCancelled
  <2>20. CASE ProcessDies
    BY <2>20 DEF ProcessDies
  <2>21. CASE Boot
    BY <2>21 DEF Boot
  <2>22. CASE ScanOrphans
    BY <2>22 DEF ScanOrphans
  <2>23. CASE ScanResumes
    BY <2>23 DEF ScanResumes, Resumable
  <2>24. CASE SettleInterrupted
    BY <2>24 DEF SettleInterrupted, Settled
  <2>25. CASE SettleRaises \/ LoopDies
    BY <2>25 DEF SettleRaises, LoopDies
  <2>26. CASE UNCHANGED ledgerVars
    BY <2>26 DEF ledgerVars
  <2> QED
    BY <2>1, <2>2, <2>3, <2>4, <2>5, <2>6, <2>7, <2>8, <2>9, <2>10, <2>11, <2>12, <2>13,
       <2>14, <2>15, <2>16, <2>17, <2>18, <2>19, <2>20, <2>21, <2>22, <2>23, <2>24, <2>25, <2>26
       DEF LedgerNext, Execution, Startup, Disturbance
<1> QED
  BY <1>0, <1>a DEF LedgerInv

\* The invariant the theorems below rest on, for any number of crashes.
THEOREM LedgerCorrect == LedgerSpec => []LedgerInv
BY LedgerInitInv, LedgerStep, PTL DEF LedgerSpec

\* Types, and the order in which a row, its call id and its job id come to be.
THEOREM LedgerTypeCorrect == LedgerSpec => []LedgerTypeOK
BY LedgerCorrect, PTL DEF LedgerInv

\* A task that ends in the process that opened its row leaves a success on record if
\* it succeeded, and a pending row only if its failure could not be recorded; and
\* what is on record as a success was made.
THEOREM EndedTasksAreSettled == LedgerSpec => []EndedIsSettled
BY LedgerCorrect, PTL DEF LedgerInv

\* No step writes a settled row: the guarded ones ask, and the others are those
\* of a first execution, whose row is pending.
LEMMA SettledStays ==
    ASSUME LedgerInv, [LedgerNext]_ledgerVars, line \in {"success", "failed"}
    PROVE  line' = line
<1> USE DEF LedgerInv, RowIsMine, First, Goes
<1>1. CASE OpenRow \/ RecordSuccessful \/ RecordFailed
  BY <1>1 DEF OpenRow, RecordSuccessful, RecordFailed
<1>2. CASE SettleCancelled \/ ResumeDelivers \/ ResumeExpires \/ SettleInterrupted
  BY <1>2 DEF SettleCancelled, ResumeDelivers, ResumeExpires, SettleInterrupted, Settled
<1>3. CASE StartCall \/ PersistCallId \/ CallSubmitted \/ CallDelivers \/ CallRaises \/ MarkTask
  BY <1>3 DEF StartCall, PersistCallId, CallSubmitted, CallDelivers, CallRaises, MarkTask
<1>4. CASE MarkCancelled \/ ResumeRaises \/ CancelCall \/ ProcessDies \/ Boot
           \/ ScanOrphans \/ ScanResumes \/ UNCHANGED ledgerVars
  BY <1>4 DEF MarkCancelled, ResumeRaises, CancelCall, ProcessDies, Boot, ScanOrphans,
              ScanResumes, ledgerVars
<1>5. CASE FailureIsLost \/ AroundRaises \/ MarkRaises \/ ProcessCancelled \/ SettleRaises
           \/ LoopDies
  BY <1>5 DEF FailureIsLost, AroundRaises, MarkRaises, ProcessCancelled, SettleRaises, LoopDies
<1> QED
  BY <1>1, <1>2, <1>3, <1>4, <1>5 DEF LedgerNext, Execution, Startup, Disturbance

\* A settled row is final, whoever settles next.
THEOREM SettledRowsAreFinal == LedgerSpec => SettledIsFinal
<1>1. LedgerInv /\ [LedgerNext]_ledgerVars
      => [(line \in {"success", "failed"}) => line' = line]_ledgerVars
  BY SettledStays
<1> QED
  BY <1>1, LedgerCorrect, PTL DEF LedgerSpec, SettledIsFinal

-----------------------------------------------------------------------------
(* How a success goes unrecorded.  SuccessIsRecorded does not hold of the  *)
(* code, and there are two ways to break it.                               *)

\* The start-up settles the row of a call that it has itself just resumed.
SettledWhileResumed == SettleInterrupted /\ coro = "resuming" /\ line = "pending"

\* A task is resumed that recorded a failure and died before it was marked.
ResumedAfterFailure == ScanResumes /\ line = "failed"

CarefulNext == LedgerNext /\ ~ SettledWhileResumed /\ ~ ResumedAfterFailure

\* A resumed task knows its row, which can still become the success.
SuccessIsOpen ==
    /\ coro = "resuming" => known /\ line \in {"pending", "success"}
    /\ coro = "done" => line = "success"
    /\ SuccessIsRecorded

LEMMA CarefulStep ==
    ASSUME LedgerInv, SuccessIsOpen, [CarefulNext]_ledgerVars
    PROVE  SuccessIsOpen'
<1> USE DEF LedgerInv, LedgerTypeOK, DownIsQuiet, SuccessIsOpen, SuccessIsRecorded, Goes, Ended
<1>1. CASE StartCall \/ OpenRow \/ PersistCallId \/ CallSubmitted \/ CallDelivers \/ CallRaises
  BY <1>1 DEF StartCall, OpenRow, PersistCallId, CallSubmitted, CallDelivers, CallRaises
<1>2. CASE RecordSuccessful \/ RecordFailed
  BY <1>2 DEF RecordSuccessful, RecordFailed
<1>3. CASE MarkTask
  <2>1. CASE Goes("done", "none") /\ task' = Verdict("succeeded")
    BY <1>3, <2>1 DEF MarkTask, Verdict
  <2>2. CASE Goes("failed", "none") /\ task' = Verdict("failed")
    BY <1>3, <2>2 DEF MarkTask, Verdict
  <2> QED
    BY <1>3, <2>1, <2>2 DEF MarkTask
<1>4. CASE SettleCancelled \/ ResumeDelivers \/ ResumeExpires
  BY <1>4 DEF SettleCancelled, ResumeDelivers, ResumeExpires, Settled
<1>5. CASE MarkCancelled \/ ResumeRaises \/ CancelCall \/ ProcessDies \/ Boot
  BY <1>5 DEF MarkCancelled, ResumeRaises, CancelCall, ProcessDies, Boot, Calling
<1>6. CASE ScanOrphans
  BY <1>6 DEF ScanOrphans
<1>7. CASE ScanResumes /\ line # "failed"
  <2>1. coro' = "resuming" /\ known' = anchor /\ job /\ UNCHANGED <<task, line>>
    BY <1>7 DEF ScanResumes, Resumable
  <2> QED
    BY <1>7, <2>1
<1>8. CASE SettleInterrupted /\ ~(coro = "resuming" /\ line = "pending")
  BY <1>8 DEF SettleInterrupted, Settled
<1>9. CASE FailureIsLost \/ AroundRaises \/ MarkRaises \/ ProcessCancelled \/ SettleRaises
           \/ LoopDies
  BY <1>9 DEF FailureIsLost, AroundRaises, MarkRaises, ProcessCancelled, SettleRaises,
              LoopDies, Calling
<1>10. CASE UNCHANGED ledgerVars
  BY <1>10 DEF ledgerVars
<1> QED
  BY <1>1, <1>2, <1>3, <1>4, <1>5, <1>6, <1>7, <1>8, <1>9, <1>10
     DEF CarefulNext, SettledWhileResumed, ResumedAfterFailure, LedgerNext, Execution,
         Startup, Disturbance

\* Were the start-up to leave the rows of resumed calls alone (generation_worker.py,
\* _settle_interrupted_calls_on_start), and no failed row resumed, a succeeded task
\* would have a success in the ledger, after any number of crashes.
THEOREM SuccessIsLostInTwoWays ==
    LedgerInit /\ [][CarefulNext]_ledgerVars => []SuccessIsRecorded
<1>1. LedgerInit => LedgerInv /\ SuccessIsOpen
  BY LedgerInitInv DEF LedgerInit, SuccessIsOpen, SuccessIsRecorded
<1>2. LedgerInv /\ SuccessIsOpen /\ [CarefulNext]_ledgerVars => LedgerInv' /\ SuccessIsOpen'
  BY CarefulStep, LedgerStep DEF CarefulNext
<1>3. SuccessIsOpen => SuccessIsRecorded
  BY DEF SuccessIsOpen
<1> QED
  BY <1>1, <1>2, <1>3, PTL

=============================================================================
