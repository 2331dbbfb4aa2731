------------------------- MODULE ProviderHealth_proofs -------------------------
(***************************************************************************)
(* What is proved of the health account of a lane, for any threshold,      *)
(* cooldown and capacity.                                                  *)
(***************************************************************************)
EXTENDS ProviderHealth, FiniteSetTheorems, TLAPS

(* Induction and the powers of two *)

\* Induction on the natural numbers, for a set: what holds of 0 and of n + 1 with n
\* holds of all.  A number n outside the set would make i |-> i + 1 an injection of the
\* members of 0 .. n into those but 0.
LEMMA SetInduction ==
    ASSUME NEW S, 0 \in S, \A n \in Nat : n \in S => n + 1 \in S
    PROVE  Nat \subseteq S
<1> SUFFICES ASSUME NEW n \in Nat, n \notin S PROVE FALSE
  OBVIOUS
<1> DEFINE below == {i \in 0 .. n : i \in S}
           next == [i \in below |-> i + 1]
<1>1. IsFiniteSet(below) /\ 0 \in below
  <2>1. below \in SUBSET (0 .. n) /\ 0 \in below
    OBVIOUS
  <2>2. IsFiniteSet(0 .. n)
    BY FS_Interval
  <2> HIDE DEF below
  <2> QED
    BY <2>1, <2>2, FS_Subset
<1>2. /\ IsFiniteSet(below \ {0})
      /\ Cardinality(below \ {0}) < Cardinality(below)
  <2> HIDE DEF below
  <2>1. Cardinality(below) \in Nat
    BY <1>1, FS_CardinalityType
  <2>2. /\ IsFiniteSet(below \ {0})
        /\ Cardinality(below \ {0}) = Cardinality(below) - 1
    BY <1>1, FS_RemoveElement
  <2> QED
    BY <2>1, <2>2
<1>3. next \in [below -> below \ {0}]
  <2> SUFFICES ASSUME NEW i \in below PROVE i + 1 \in below \ {0}
    OBVIOUS
  <2> QED
    OBVIOUS
<1>4. PICK i \in below, j \in below : i # j /\ next[i] = next[j]
  <2> HIDE DEF next, below
  <2> QED
    BY <1>1, <1>2, <1>3, FS_PigeonHole
<1> QED
  BY <1>4

\* The doublings up to n, as a function on 0 .. n.
UpTo(n) == {g \in [0 .. n -> Nat \ {0}] :
              g[0] = 1 /\ \A i \in 1 .. n : g[i] = 2 * g[i - 1]}

LEMMA UpToExists == \A n \in Nat : UpTo(n) # {}
<1> DEFINE S == {n \in Nat : UpTo(n) # {}}
<1>1. 0 \in S
  <2>1. [i \in 0 .. 0 |-> 1] \in UpTo(0)
    BY DEF UpTo
  <2> QED
    BY <2>1
<1>2. ASSUME NEW n \in Nat, n \in S PROVE n + 1 \in S
  <2>1. PICK g : g \in UpTo(n)
    BY <1>2
  <2> DEFINE h == [i \in 0 .. (n + 1) |-> IF i = n + 1 THEN 2 * g[n] ELSE g[i]]
  <2>2. h \in [0 .. (n + 1) -> Nat \ {0}]
    BY <2>1 DEF UpTo
  <2>3. h[0] = 1
    BY <2>1 DEF UpTo
  <2>4. ASSUME NEW i \in 1 .. (n + 1) PROVE h[i] = 2 * h[i - 1]
    BY <2>1 DEF UpTo
  <2>5. h \in UpTo(n + 1)
    BY <2>2, <2>3, <2>4 DEF UpTo
  <2> QED
    BY <2>5
<1> QED
  <2> HIDE DEF S
  <2>1. Nat \subseteq S
    BY <1>1, <1>2, SetInduction
  <2> QED
    BY <2>1 DEF S

LEMMA UpToAgree ==
    ASSUME NEW m \in Nat, NEW n \in Nat, NEW g \in UpTo(m), NEW h \in UpTo(n), NEW k \in Nat,
           k <= m, k <= n
    PROVE  g[k] = h[k]
<1> DEFINE S == {i \in Nat : i <= m /\ i <= n => g[i] = h[i]}
<1>1. 0 \in S
  BY DEF UpTo
<1>2. ASSUME NEW i \in Nat, i \in S PROVE i + 1 \in S
  <2> SUFFICES ASSUME i + 1 <= m, i + 1 <= n PROVE g[i + 1] = h[i + 1]
    OBVIOUS
  <2>1. g[i + 1] = 2 * g[i] /\ h[i + 1] = 2 * h[i]
    BY DEF UpTo
  <2>2. g[i] = h[i]
    BY <1>2
  <2> QED
    BY <2>1, <2>2
<1> QED
  <2> HIDE DEF S
  <2>1. Nat \subseteq S
    BY <1>1, <1>2, SetInduction
  <2> QED
    BY <2>1 DEF S

\* The recursion has a solution, so the function obeys it.
LEMMA TwoToDef ==
    TwoTo = [n \in Nat |-> IF n = 0 THEN 1 ELSE 2 * TwoTo[n - 1]]
<1> DEFINE G(n) == CHOOSE g \in UpTo(n) : TRUE
           f == [n \in Nat |-> G(n)[n]]
<1>1. ASSUME NEW n \in Nat PROVE G(n) \in UpTo(n)
  BY UpToExists
<1>2. ASSUME NEW n \in Nat PROVE f[n] = IF n = 0 THEN 1 ELSE 2 * f[n - 1]
  <2>1. CASE n = 0
    BY <1>1, <2>1 DEF UpTo
  <2>2. CASE n # 0
    <3>1. n - 1 \in Nat /\ f[n] = G(n)[n] /\ f[n - 1] = G(n - 1)[n - 1]
      BY <2>2
    <3>2. G(n)[n] = 2 * G(n)[n - 1]
      <4> HIDE DEF G
      <4> QED
       BY <1>1, <2>2 DEF UpTo
    <3>3. G(n)[n - 1] = G(n - 1)[n - 1]
      <4> HIDE DEF G
      <4> QED
        BY <1>1, <3>1, UpToAgree
    <3> HIDE DEF f, G
    <3> QED
      BY <2>2, <3>1, <3>2, <3>3
  <2> QED
    BY <2>1, <2>2
<1>3. \E p : p = [n \in Nat |-> IF n = 0 THEN 1 ELSE 2 * p[n - 1]]
  <2>1. f = [n \in Nat |-> IF n = 0 THEN 1 ELSE 2 * f[n - 1]]
    <3> HIDE DEF G
    <3>1. f = [n \in Nat |-> f[n]]
      OBVIOUS
    <3> HIDE DEF f
    <3> QED
      BY <1>2, <3>1, Zenon
  <2> HIDE DEF f
  <2> QED
    BY <2>1
<1> QED
  BY <1>3 DEF TwoTo

LEMMA TwoToType == TwoTo \in [Nat -> Nat \ {0}]
<1> DEFINE S == {n \in Nat : TwoTo[n] \in Nat \ {0}}
<1>0. \A n \in Nat : TwoTo[n] = IF n = 0 THEN 1 ELSE 2 * TwoTo[n - 1]
  BY TwoToDef
<1>1. 0 \in S
  BY <1>0
<1>2. ASSUME NEW n \in Nat, n \in S PROVE n + 1 \in S
  BY <1>0, <1>2
<1>3. Nat \subseteq S
  <2> HIDE DEF S
  <2> QED
    BY <1>1, <1>2, SetInduction
<1> QED
  BY <1>3, TwoToDef

LEMMA TwoToGrows ==
    ASSUME NEW n \in Nat
    PROVE  TwoTo[n] < TwoTo[n + 1]
BY TwoToType, TwoToDef

-----------------------------------------------------------------------------
(* Cooldowns *)

LEMMA CooldownType ==
    ASSUME NEW round \in Nat \ {0}
    PROVE  Cooldown(round) \in 1 .. MaxOpenSeconds
<1>1. OpenSeconds * TwoTo[round - 1] \in Nat \ {0}
  <2>1. TwoTo[round - 1] \in Nat \ {0}
    BY TwoToType
  <2> QED
    BY <2>1, HealthAssumption
<1>2. MaxOpenSeconds \in Nat \ {0}
  BY HealthAssumption
<1> QED
  BY <1>1, <1>2 DEF Cooldown, Least

LEMMA CooldownGrows ==
    ASSUME NEW round \in Nat \ {0}
    PROVE  Cooldown(round) <= Cooldown(round + 1)
<1>1. /\ TwoTo[round - 1] \in Nat \ {0}
      /\ TwoTo[round] = 2 * TwoTo[round - 1]
  <2>1. round - 1 \in Nat
    OBVIOUS
  <2>2. TwoTo[round - 1] \in Nat \ {0}
    BY <2>1, TwoToType
  <2>3. TwoTo[round] = 2 * TwoTo[round - 1]
    BY TwoToDef
  <2> QED
    BY <2>2, <2>3
<1>2. /\ OpenSeconds * TwoTo[round - 1] \in Nat
      /\ OpenSeconds * TwoTo[round] = 2 * (OpenSeconds * TwoTo[round - 1])
  BY <1>1, HealthAssumption
<1>3. Cooldown(round + 1) = Least(OpenSeconds * TwoTo[round], MaxOpenSeconds)
  BY DEF Cooldown
<1> QED
  BY <1>2, <1>3, HealthAssumption DEF Cooldown, Least

-----------------------------------------------------------------------------
(* An account that is not tripped has no cooldown and fewer failures than trip it;  *)
(* failures that are counted while the lane is open, because tripping it again      *)
(* raised, are those of executions that were under way.                             *)
HealthInv ==
    /\ HealthTypeOK
    /\ ~ tripped => failures < FailureThreshold /\ rounds = 0 /\ left = 0
    /\ tripped => rounds >= 1 /\ failures <= BaseCapacity
    /\ LaneState = "open" => failures + inflight <= BaseCapacity
    /\ left > 0 => left <= Cooldown(Least(rounds, FloatRounds))

LEMMA CapacityBelowBase ==
    ASSUME HealthInv
    PROVE  LaneCapacity \in 0 .. BaseCapacity
BY HealthAssumption DEF HealthInv, HealthTypeOK, LaneCapacity

LEMMA MostFailures ==
    LET most == Largest(FailureThreshold - 1, BaseCapacity)
    IN  most \in Nat /\ most >= FailureThreshold - 1 /\ most >= BaseCapacity
BY HealthAssumption DEF Largest

LEMMA HealthInitial == HealthInit => HealthInv
<1> SUFFICES ASSUME HealthInit PROVE HealthInv
  OBVIOUS
<1>1. HealthTypeOK
  <2>1. tripped \in BOOLEAN
    BY Zenon DEF HealthInit
  <2> QED
    BY <2>1, MostFailures, HealthAssumption DEF HealthInit, HealthTypeOK
<1>2. LaneState = "closed" /\ ~ tripped /\ failures = 0 /\ rounds = 0 /\ left = 0
  BY DEF HealthInit, LaneState
<1> QED
  BY <1>1, <1>2, HealthAssumption DEF HealthInv

(* A new round: what the trip sets, in the terms of the invariant. *)
LEMMA TripSets ==
    ASSUME HealthInv, Trip
    PROVE  /\ rounds \in 0 .. FloatRounds - 1
           /\ rounds' = rounds + 1 /\ tripped' = TRUE /\ failures' = 0
           /\ left' = Cooldown(rounds') /\ left' \in 1 .. MaxOpenSeconds
           /\ Least(rounds', FloatRounds) = rounds'
<1>1. rounds \in 0 .. FloatRounds - 1 /\ rounds + 1 \in Nat \ {0}
  BY HealthAssumption DEF HealthInv, HealthTypeOK, Trip
<1>2. Cooldown(rounds + 1) \in 1 .. MaxOpenSeconds
  BY <1>1, CooldownType
<1> QED
  BY <1>1, <1>2, HealthAssumption DEF Trip, Least

LEMMA StartKeepsHealth == HealthInv /\ StartExecution => HealthInv'
<1> SUFFICES ASSUME HealthInv, StartExecution PROVE HealthInv'
  OBVIOUS
<1>1. LaneState' = LaneState /\ LaneState # "open" /\ inflight' \in 0 .. BaseCapacity
  BY CapacityBelowBase, HealthAssumption
     DEF StartExecution, LaneCapacity, LaneState, HealthInv, HealthTypeOK
<1> QED
  BY <1>1 DEF StartExecution, HealthInv, HealthTypeOK, Cooldown

LEMMA SuccessKeepsHealth == HealthInv /\ RecordSuccess => HealthInv'
<1> SUFFICES ASSUME HealthInv, RecordSuccess PROVE HealthInv'
  OBVIOUS
<1>1. HealthTypeOK'
  <2>1. tripped' \in BOOLEAN
    BY Zenon DEF RecordSuccess
  <2> QED
    BY <2>1, MostFailures, HealthAssumption DEF RecordSuccess, HealthInv, HealthTypeOK
<1>2. /\ LaneState' = "closed" /\ ~ tripped'
      /\ failures' = 0 /\ rounds' = 0 /\ left' = 0
  BY DEF RecordSuccess, LaneState
<1> QED
  BY <1>1, <1>2, HealthAssumption DEF HealthInv

LEMMA UnrecordedKeepsHealth == HealthInv /\ EndUnrecorded => HealthInv'
BY HealthAssumption DEF EndUnrecorded, HealthInv, HealthTypeOK, LaneState, Largest, Cooldown

LEMMA TickKeepsHealth == HealthInv /\ Tick => HealthInv'
<1> SUFFICES ASSUME HealthInv, Tick PROVE HealthInv'
  OBVIOUS
<1>1. Least(rounds, FloatRounds) \in Nat \ {0}
  BY HealthAssumption DEF HealthInv, HealthTypeOK, Tick, Least
<1>2. Cooldown(Least(rounds, FloatRounds)) \in Nat
  BY <1>1, CooldownType
<1>3. left' > 0 => left' <= Cooldown(Least(rounds', FloatRounds))
  BY <1>2 DEF Tick, HealthInv, HealthTypeOK, Cooldown
<1>4. LaneState' = "open" => LaneState = "open"
  BY DEF Tick, LaneState, HealthInv, HealthTypeOK
<1>5. HealthTypeOK'
  <2>1. left' \in 0 .. MaxOpenSeconds
    BY HealthAssumption DEF Tick, HealthInv, HealthTypeOK
  <2> QED
    BY <2>1 DEF Tick, HealthInv, HealthTypeOK
<1>6. tripped
  BY DEF Tick, HealthInv, HealthTypeOK
<1> QED
  BY <1>3, <1>4, <1>5, <1>6 DEF Tick, HealthInv

LEMMA FailureKeepsHealth == HealthInv /\ RecordFailure => HealthInv'
<1> SUFFICES ASSUME HealthInv, RecordFailure PROVE HealthInv'
  OBVIOUS
<1>1. inflight' = inflight - 1 /\ inflight' \in 0 .. BaseCapacity - 1
  BY HealthAssumption DEF RecordFailure, HealthInv, HealthTypeOK
<1>2. CASE Trip
  <2>1. HealthTypeOK'
    <3>1. tripped' \in BOOLEAN
      BY <1>2, TripSets, Zenon
    <3> QED
      BY <1>1, <1>2, <3>1, TripSets, MostFailures, HealthAssumption DEF HealthTypeOK
  <2>2. tripped' /\ LaneState' = "open" /\ rounds' >= 1
    BY <1>2, TripSets DEF LaneState
  <2>3. left' <= Cooldown(Least(rounds', FloatRounds))
    BY <1>2, TripSets
  <2> QED
    BY <1>1, <1>2, <2>1, <2>2, <2>3, TripSets, HealthAssumption DEF HealthInv
<1>3. CASE TripRaises
  <2>1. tripped /\ tripped' /\ left' = left /\ rounds' = FloatRounds + 1
    BY <1>3, HealthAssumption DEF TripRaises, HealthInv, HealthTypeOK
  <2>2. LaneState' = LaneState /\ LaneState \in {"open", "half_open"}
    BY <2>1 DEF LaneState
  <2>3. /\ failures' \in 0 .. BaseCapacity
        /\ LaneState = "open" => failures' + inflight' <= BaseCapacity
    BY <1>1, <1>3, <2>1, <2>2, HealthAssumption DEF TripRaises, HealthInv, HealthTypeOK, Largest
  <2>4. Least(rounds', FloatRounds) = Least(rounds, FloatRounds)
    BY <1>3, <2>1, HealthAssumption DEF TripRaises, HealthInv, HealthTypeOK, Least
  <2>5. HealthTypeOK'
    BY <1>1, <2>1, <2>3, MostFailures, HealthAssumption DEF HealthInv, HealthTypeOK
  <2>6. left' > 0 => left' <= Cooldown(Least(rounds', FloatRounds))
    BY <2>1, <2>4 DEF HealthInv
  <2> QED
    BY <2>1, <2>2, <2>3, <2>5, <2>6, HealthAssumption DEF HealthInv
<1>4. CASE ~ (LaneState = "half_open" \/ failures + 1 >= FailureThreshold)
  <2>1. /\ LaneState # "half_open" /\ failures + 1 < FailureThreshold
        /\ failures' = failures + 1
        /\ UNCHANGED <<tripped, left, rounds>>
    BY <1>4, HealthAssumption DEF RecordFailure, HealthInv, HealthTypeOK
  <2>2. LaneState' = LaneState
    BY <2>1 DEF LaneState
  <2>3. tripped => LaneState = "open"
    BY <2>1 DEF LaneState
  <2>4. HealthTypeOK'
    BY <1>1, <2>1, MostFailures, HealthAssumption DEF HealthInv, HealthTypeOK
  <2>5. tripped => failures' + inflight' <= BaseCapacity
    BY <1>1, <2>1, <2>3, HealthAssumption DEF HealthInv, HealthTypeOK
  <2>6. left' > 0 => left' <= Cooldown(Least(rounds', FloatRounds))
    BY <2>1 DEF HealthInv, Cooldown
  <2>7. /\ ~ tripped' => failures' < FailureThreshold /\ rounds' = 0 /\ left' = 0
        /\ tripped' => rounds' >= 1 /\ failures' <= BaseCapacity
    BY <1>1, <2>1, <2>5, HealthAssumption DEF HealthInv, HealthTypeOK
  <2>8. LaneState' = "open" => tripped
    BY <2>2 DEF LaneState
  <2> QED
    BY <2>4, <2>5, <2>6, <2>7, <2>8 DEF HealthInv
<1> QED
  BY <1>2, <1>3, <1>4 DEF RecordFailure

(* HealthInv holds in every state of the account. *)
THEOREM HealthCorrect == HealthSpec => []HealthInv
<1>1. HealthInv /\ [HealthNext]_healthVars => HealthInv'
  <2> SUFFICES ASSUME HealthInv, [HealthNext]_healthVars PROVE HealthInv'
    OBVIOUS
  <2>1. CASE UNCHANGED healthVars
    BY <2>1 DEF healthVars, HealthInv, HealthTypeOK, LaneState, Cooldown
  <2> QED
    BY <2>1, StartKeepsHealth, SuccessKeepsHealth, FailureKeepsHealth,
       UnrecordedKeepsHealth, TickKeepsHealth DEF HealthNext
<1> QED
  BY HealthInitial, <1>1, PTL DEF HealthSpec

(* A lane has no more executions than its limit, waits no longer than the maximum,  *)
(* and counts no more failures than trip it or were under way.                      *)
THEOREM HealthTyped == HealthSpec => []HealthTypeOK
<1>1. HealthInv => HealthTypeOK
  BY DEF HealthInv
<1> QED
  BY HealthCorrect, <1>1, PTL

-----------------------------------------------------------------------------
(* A failure that arrives while the lane is open never shortens its cooldown. *)
LEMMA FailureKeepsCooldown ==
    ASSUME HealthInv, RecordFailure, LaneState = "open"
    PROVE  left' >= left
<1>1. CASE Trip
  <2>1. rounds \in 1 .. FloatRounds - 1 /\ Least(rounds, FloatRounds) = rounds
    <3>1. tripped
      BY DEF LaneState
    <3>2. rounds \in 0 .. FloatRounds - 1 /\ rounds >= 1
      BY <1>1, <3>1, TripSets DEF HealthInv
    <3> QED
      BY <3>2, HealthAssumption DEF Least
  <2>2. left <= Cooldown(rounds) /\ left' = Cooldown(rounds + 1)
    BY <1>1, <2>1, TripSets DEF HealthInv, LaneState
  <2>3. /\ Cooldown(rounds) <= Cooldown(rounds + 1)
        /\ Cooldown(rounds) \in Nat /\ Cooldown(rounds + 1) \in Nat
    BY <2>1, CooldownGrows, CooldownType
  <2> QED
    BY <2>2, <2>3 DEF HealthInv, HealthTypeOK
<1>2. CASE left' = left
  BY <1>2 DEF HealthInv, HealthTypeOK
<1> QED
  BY <1>1, <1>2 DEF RecordFailure, TripRaises

(* Late failures extend a cooldown and never cut it short: only time and a success  *)
(* bring the end of an outage closer.                                               *)
THEOREM CooldownKept == HealthSpec => CooldownIsKept
<1>1. HealthInv /\ [HealthNext]_healthVars
        => [LaneState = "open" /\ ~ RecordSuccess => left' >= left - 1]_healthVars
  <2> SUFFICES ASSUME HealthInv, HealthNext, LaneState = "open", ~ RecordSuccess
               PROVE  left' >= left - 1
    OBVIOUS
  <2>1. left \in Nat
    BY DEF HealthInv, HealthTypeOK
  <2>2. CASE RecordFailure
    <3>1. left' \in Int
      <4>1. CASE Trip
        BY <4>1, TripSets
      <4> QED
        BY <2>1, <2>2, <4>1 DEF RecordFailure, TripRaises
    <3> QED
      BY <2>1, <2>2, <3>1, FailureKeepsCooldown
  <2>3. CASE StartExecution \/ EndUnrecorded \/ Tick
    BY <2>1, <2>3 DEF StartExecution, EndUnrecorded, Tick
  <2> QED
    BY <2>2, <2>3 DEF HealthNext
<1> QED
  BY HealthCorrect, <1>1, PTL DEF HealthSpec, CooldownIsKept

-----------------------------------------------------------------------------
(* Every step of the account is a step of the circuit of the docstring. *)
LEMMA StepIsCircuit ==
    ASSUME HealthInv, HealthNext
    PROVE  [Circuit!CircuitNext]_(Circuit!circuitVars)
<1> USE DEF Circuit!CircuitNext, Circuit!circuitVars
<1>0. inflight \in Nat /\ left \in Nat /\ tripped \in BOOLEAN
  BY DEF HealthInv, HealthTypeOK
<1>1. CASE StartExecution
  <2>1. LaneState # "open" /\ LaneState' = LaneState
    BY <1>0, <1>1 DEF StartExecution, LaneCapacity, LaneState
  <2> QED
    BY <1>1, <2>1 DEF StartExecution, Circuit!StartOne
<1>2. CASE RecordSuccess
  <2>1. LaneState' = "closed"
    BY <1>2 DEF RecordSuccess, LaneState
  <2> QED
    BY <1>2, <2>1 DEF RecordSuccess, Circuit!EndOne, Circuit!EndWith
<1>3. CASE RecordFailure
  <2>1. LaneState' = "open" \/ LaneState' = LaneState
    <3>1. CASE Trip
      BY <3>1, TripSets DEF LaneState
    <3>2. CASE tripped' = tripped /\ left' = left
      BY <3>2 DEF LaneState
    <3> QED
      BY <1>3, <3>1, <3>2 DEF RecordFailure, TripRaises
  <2> QED
    BY <1>3, <2>1 DEF RecordFailure, Circuit!EndOne, Circuit!EndWith
<1>4. CASE EndUnrecorded
  <2>1. LaneState' = LaneState
    BY <1>4 DEF EndUnrecorded, LaneState
  <2> QED
    BY <1>4, <2>1 DEF EndUnrecorded, Circuit!EndOne, Circuit!EndWith
<1>5. CASE Tick
  <2>1. LaneState = "open" /\ LaneState' \in {"open", "half_open"}
    BY <1>0, <1>5 DEF Tick, LaneState, HealthInv
  <2> QED
    BY <1>5, <2>1 DEF Tick, Circuit!CoolDown
<1> QED
  BY <1>1, <1>2, <1>3, <1>4, <1>5 DEF HealthNext

(* The account implements the three-state circuit: nothing starts on an open lane,  *)
(* and only an execution that ends opens or closes it.                              *)
THEOREM HealthFollowsCircuit == HealthSpec => FollowsCircuit
<1>1. HealthInit => Circuit!CircuitInit
  BY DEF HealthInit, LaneState, Circuit!CircuitInit
<1>2. HealthInv /\ [HealthNext]_healthVars => [Circuit!CircuitNext]_(Circuit!circuitVars)
  <2>1. UNCHANGED healthVars => UNCHANGED Circuit!circuitVars
    BY DEF healthVars, Circuit!circuitVars, LaneState
  <2> QED
    BY <2>1, StepIsCircuit
<1> QED
  BY HealthCorrect, <1>1, <1>2, PTL DEF HealthSpec, FollowsCircuit, Circuit!CircuitSpec
=============================================================================
