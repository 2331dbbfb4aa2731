--------------------------- MODULE ProviderHealth ---------------------------
(***************************************************************************)
(* The health account of one (provider, media) lane                        *)
(* (lib/provider_health.py), driven by the executions the worker starts    *)
(* on the lane and by the clock.  Executions that started before the       *)
(* circuit opened report their failures and successes while it is open.    *)
(*                                                                         *)
(* The clock only occurs as the time left until open_until, so that is     *)
(* what the lane keeps here.                                               *)
(***************************************************************************)
EXTENDS Integers

CONSTANTS FailureThreshold, \* failure_threshold
          OpenSeconds,      \* open_seconds
          MaxOpenSeconds,   \* max_open_seconds
          BaseCapacity,     \* the lane's limit in CapacityTable
          FloatRounds       \* rounds whose power of two a float can hold, 1024 in the code

ASSUME HealthAssumption ==
    /\ FailureThreshold \in Nat \ {0}
    /\ OpenSeconds \in Nat \ {0}
    /\ MaxOpenSeconds \in Nat /\ MaxOpenSeconds >= OpenSeconds
    /\ BaseCapacity \in Nat \ {0}
    /\ FloatRounds \in Nat \ {0}

VARIABLES failures,  \* consecutive_failures
          tripped,   \* open_until is not None
          left,      \* open_until - now, 0 once the cooldown is over
          rounds,    \* open_rounds; FloatRounds + 1 stands for all that are larger
          inflight   \* executions of the lane under way

healthVars == <<failures, tripped, left, rounds, inflight>>

Least(a, b) == IF a <= b THEN a ELSE b
Largest(a, b) == IF a <= b THEN b ELSE a

HealthTypeOK ==
    /\ failures \in 0 .. Largest(FailureThreshold - 1, BaseCapacity)
    /\ tripped \in BOOLEAN
    /\ left \in 0 .. MaxOpenSeconds
    /\ rounds \in 0 .. FloatRounds + 1
    /\ inflight \in 0 .. BaseCapacity

HealthInit ==
    /\ failures = 0 /\ tripped = FALSE /\ left = 0 /\ rounds = 0
    /\ inflight = 0

\* Mistake: the end of the cooldown is not looked at.
OpenUntilSuccess == IF tripped THEN "open" ELSE "closed"

LaneState == IF ~ tripped THEN "closed"
             ELSE IF left > 0 THEN "open" ELSE "half_open"

\* Mistake: a probe slot although the circuit is open.
ProbeWhileOpen == CASE LaneState \in {"open", "half_open"} -> 1
                    [] OTHER -> IF BaseCapacity - failures >= 1
                                  THEN BaseCapacity - failures ELSE 1

\* capacity(): the lane's limit after the health deduction.
LaneCapacity == CASE LaneState = "open" -> 0
                  [] LaneState = "half_open" -> 1
                  [] OTHER -> IF BaseCapacity - failures >= 1
                                THEN BaseCapacity - failures ELSE 1

\* 2 ** n
TwoTo[n \in Nat] == IF n = 0 THEN 1 ELSE 2 * TwoTo[n - 1]

Cooldown(round) == Least(OpenSeconds * TwoTo[round - 1], MaxOpenSeconds)

Trip ==
    /\ rounds < FloatRounds
    /\ rounds' = rounds + 1
    /\ tripped' = TRUE
    /\ left' = Cooldown(rounds + 1)
    /\ failures' = 0

\* Multiplied with the float open_seconds, the power raises OverflowError out of
\* record_failure once the round is counted: the lane stays tripped as it was.
TripRaises ==
    /\ rounds >= FloatRounds
    /\ rounds' = FloatRounds + 1
    /\ failures' = IF LaneState = "half_open" THEN failures ELSE failures + 1
    /\ UNCHANGED <<tripped, left>>

StartExecution ==
    /\ inflight < LaneCapacity
    /\ inflight' = inflight + 1
    /\ UNCHANGED <<failures, tripped, left, rounds>>

RecordSuccess ==
    /\ inflight > 0
    /\ inflight' = inflight - 1
    /\ failures' = 0 /\ tripped' = FALSE /\ left' = 0 /\ rounds' = 0

\* Mistake: the failure replaces the account of an open lane.
RecordFailureAnew ==
    /\ inflight > 0
    /\ inflight' = inflight - 1
    /\ IF LaneState = "half_open" \/ failures + 1 >= FailureThreshold
         THEN Trip \/ TripRaises
         ELSE failures' = failures + 1 /\ tripped' = FALSE /\ left' = 0 /\ rounds' = 0

\* record_failure with transient=TRUE.
RecordFailure ==
    /\ inflight > 0
    /\ inflight' = inflight - 1
    /\ IF LaneState = "half_open" \/ failures + 1 >= FailureThreshold
         THEN Trip \/ TripRaises
         ELSE failures' = failures + 1 /\ UNCHANGED <<tripped, left, rounds>>

\* Mistake: an execution that ends twice.
EndTwice ==
    /\ inflight' = inflight - 1
    /\ UNCHANGED <<failures, tripped, left, rounds>>

\* A cancelled execution, or a failure that says nothing of the provider.
EndUnrecorded ==
    /\ inflight > 0
    /\ inflight' = inflight - 1
    /\ UNCHANGED <<failures, tripped, left, rounds>>

Tick ==
    /\ left > 0
    /\ left' = left - 1
    /\ UNCHANGED <<failures, tripped, rounds, inflight>>

HealthNext == \/ StartExecution \/ RecordSuccess \/ RecordFailure
              \/ EndUnrecorded \/ Tick

HealthSpec == HealthInit /\ [][HealthNext]_healthVars
\* Time passes, whatever the executions do.
FairHealthSpec == HealthSpec /\ WF_healthVars(Tick)
-----------------------------------------------------------------------------
Circuit == INSTANCE LaneCircuit WITH circuit <- LaneState, running <- inflight

\* The account behaves as the three-state circuit of the module's docstring.
FollowsCircuit == Circuit!CircuitSpec

\* Failures that arrive late, from executions older than the outage, may extend
\* a cooldown but never cut it short; only a success ends it early.
CooldownIsKept ==
    [][LaneState = "open" /\ ~ RecordSuccess => left' >= left - 1]_healthVars

\* An open lane is probed again: late failures cannot keep it shut, because
\* nothing new starts while it is open.
OpenLaneIsProbed == LaneState = "open" ~> LaneState # "open"
=============================================================================
