-------------------------- MODULE Publishing_proofs --------------------------
(***************************************************************************)
(* What is proved of a publish job for any finite set of workers, any set  *)
(* of requests and any number of attempts and deaths.                      *)
(***************************************************************************)
EXTENDS Publishing, FiniteSetTheorems, TLAPS

\* The workers that are about to call the platform with a new post.
Submitting == {w \in PublishWorkers : hand[w].at = "submit"}

\* Whoever has submitted the post has written what it is called there, so that
\* a job that is polled is never submitted by the way.
ContentIsKnown == post.status \in {"submitted", "processing"} => post.content

\* A worker that was not overtaken holds the lease the row speaks of.
LeaseIsHeld ==
    \A w \in PublishWorkers :
        hand[w] # Free /\ ~hand[w].late => post.owner = w /\ post.lease = "held"

\* Every post, made or about to be made, has been counted by a claim.
AllCounted == posted + Cardinality(Submitting) <= post.attempt

\* The inductive invariant.
PublishInv == PublishTypeOK /\ ContentIsKnown /\ LeaseIsHeld /\ AllCounted

Calls == [at : {"submit", "poll"} \union PostStatuses, tries : 0 .. MaxSubmits,
          late : BOOLEAN]

-----------------------------------------------------------------------------
(* Counting. *)

LEMMA SubmittingFinite ==
    IsFiniteSet(Submitting) /\ Cardinality(Submitting) \in Nat
BY PublishAssumption, FS_Subset, FS_CardinalityType DEF Submitting

LEMMA StartCounted ==
    ASSUME NEW w \in PublishWorkers, w \notin Submitting,
           Submitting' = Submitting \union {w}
    PROVE  Cardinality(Submitting') = Cardinality(Submitting) + 1
BY SubmittingFinite, FS_AddElement

LEMMA EndCounted ==
    ASSUME NEW w \in Submitting, Submitting' = Submitting \ {w}
    PROVE  Cardinality(Submitting') = Cardinality(Submitting) - 1
BY SubmittingFinite, FS_RemoveElement

LEMMA FewerCounted ==
    ASSUME Submitting' \subseteq Submitting
    PROVE  Cardinality(Submitting') \in Nat /\ Cardinality(Submitting') <= Cardinality(Submitting)
BY SubmittingFinite, FS_Subset, FS_CardinalityType

LEMMA HandTypes ==
    ASSUME PublishTypeOK, NEW w \in PublishWorkers
    PROVE  /\ hand[w] = Free \/ hand[w] \in Calls
           /\ hand[w] \in Calls => hand[w] # Free /\ hand[w].at # "free"
           /\ Free.at = "free"
<1>1. hand[w] \in {Free} \union Calls
  BY DEF PublishTypeOK, Calls
<1>2. "free" \notin {"submit", "poll"} \union PostStatuses
  BY DEF PostStatuses, Cancelable, Due
<1> QED
  BY <1>1, <1>2 DEF Calls, Free

-----------------------------------------------------------------------------
LEMMA PublishStart == PublishInit => PublishInv
<1> SUFFICES ASSUME PublishInit PROVE PublishInv
  OBVIOUS
<1>1. PublishTypeOK
  BY PublishAssumption
     DEF PublishInit, PublishTypeOK, PostStatuses, Cancelable, Due, Free, NoRequest
<1>2. Submitting = {}
  BY DEF PublishInit, Submitting, Free
<1>3. AllCounted
  BY <1>2, FS_EmptySet DEF AllCounted, PublishInit
<1> QED
  BY <1>1, <1>3 DEF PublishInv, PublishInit, ContentIsKnown, LeaseIsHeld

\* A claim: the worker that takes the job has a free hand, and nobody holds the
\* lease any more.
LEMMA TakesKeeps ==
    ASSUME PublishInv, NEW w \in PublishWorkers, NEW call \in {"submit", "poll"},
           NEW attempt \in 0 .. MaxSubmits,
           Takes(w, call, attempt), post.lease # "held",
           call = "submit" => attempt = post.attempt + 1,
           attempt \in {post.attempt, post.attempt + 1}
    PROVE  PublishInv'
<1> USE DEF PublishInv
<1>1. PublishTypeOK'
  BY DEF Takes, PublishTypeOK, Calls, PostStatuses, Cancelable, Due
<1>2. ContentIsKnown'
  BY DEF Takes, ContentIsKnown, PublishTypeOK
<1>3. LeaseIsHeld'
  BY DEF Takes, LeaseIsHeld, PublishTypeOK
<1>4. w \notin Submitting
  BY DEF Takes, Submitting, Free
<1>5. AllCounted'
  <2>1. post'.attempt = attempt /\ posted' = posted /\ posted \in Nat /\ post.attempt \in Nat
    BY DEF Takes, PublishTypeOK
  <2>2. CASE call = "submit"
    <3>1. Submitting' = Submitting \union {w}
      BY <2>2 DEF Takes, Submitting, PublishTypeOK
    <3> QED
      BY <2>1, <2>2, <3>1, <1>4, StartCounted, SubmittingFinite DEF AllCounted
  <2>3. CASE call = "poll"
    <3>1. Submitting' = Submitting
      BY <2>3, <1>4 DEF Takes, Submitting, PublishTypeOK
    <3> QED
      BY <2>1, <3>1, SubmittingFinite DEF AllCounted
  <2> QED
    BY <2>2, <2>3
<1> QED
  BY <1>1, <1>2, <1>3, <1>5

LEMMA ClaimNewKeeps ==
    ASSUME PublishInv, NEW w \in PublishWorkers, ClaimNew(w)
    PROVE  PublishInv'
<1>1. post.attempt \in 0 .. MaxSubmits /\ post.attempt + 1 \in 0 .. MaxSubmits
  BY PublishAssumption DEF ClaimNew, PublishInv, PublishTypeOK
<1> QED
  BY <1>1, TakesKeeps DEF ClaimNew

LEMMA ClaimDueKeeps ==
    ASSUME PublishInv, NEW w \in PublishWorkers, ClaimDue(w)
    PROVE  PublishInv'
<1> DEFINE again == post.status \in {"failed_retryable", "publishing"}
<1> DEFINE call == IF post.content THEN "poll" ELSE "submit"
<1> DEFINE attempt == IF again THEN post.attempt + 1 ELSE post.attempt
<1>1. post.attempt \in 0 .. MaxSubmits /\ attempt \in 0 .. MaxSubmits
  BY PublishAssumption DEF ClaimDue, PublishInv, PublishTypeOK
<1>2. call = "submit" => again
  BY DEF ClaimDue, Due, PublishInv, ContentIsKnown
<1>3. Takes(w, call, attempt) /\ post.lease # "held"
  BY DEF ClaimDue
<1> HIDE DEF call
<1>4. call \in {"submit", "poll"}
  BY DEF call
<1> QED
  BY <1>1, <1>2, <1>3, <1>4, TakesKeeps

-----------------------------------------------------------------------------
\* The platform's answer: the row is as it was, and one post less is to be made
\* if this was one.
LEMMA AnswersKeeps ==
    ASSUME PublishInv, NEW w \in PublishWorkers, hand[w].at \in {"submit", "poll"},
           NEW s \in PostStatuses, hand' = [hand EXCEPT ![w].at = s],
           UNCHANGED <<post, desk, deaths>>,
           posted' = posted \/ (posted' = posted + 1 /\ hand[w].at = "submit")
    PROVE  PublishInv'
<1> USE DEF PublishInv
<1>0. hand[w] \in Calls
  BY HandTypes
<1>1. PublishTypeOK'
  <2>1. hand'[w] \in Calls
    BY <1>0 DEF Calls, PublishTypeOK
  <2>2. hand' \in [PublishWorkers -> {Free} \union Calls]
    BY <2>1 DEF PublishTypeOK, Calls
  <2> QED
    BY <2>2 DEF PublishTypeOK, Calls
<1>2. s # "submit"
  BY DEF PostStatuses, Cancelable, Due
<1>3. LeaseIsHeld'
  <2> SUFFICES ASSUME NEW v \in PublishWorkers, hand'[v] # Free, ~hand'[v].late
               PROVE  post.owner = v /\ post.lease = "held"
    BY DEF LeaseIsHeld
  <2>1. hand[v] # Free /\ ~hand[v].late
    BY <1>0, HandTypes DEF PublishTypeOK, Calls
  <2> QED
    BY <2>1 DEF LeaseIsHeld
<1>4. AllCounted'
  <2>1. posted \in Nat /\ post.attempt \in Nat /\ post' = post
    BY DEF PublishTypeOK
  <2>2. CASE hand[w].at = "submit"
    <3>1. Submitting' = Submitting \ {w} /\ w \in Submitting
      BY <1>0, <1>2, <2>2 DEF Submitting, PublishTypeOK, Calls
    <3> QED
      BY <2>1, <3>1, EndCounted, SubmittingFinite DEF AllCounted
  <2>3. CASE hand[w].at # "submit"
    <3>1. Submitting' = Submitting
      BY <1>0, <1>2, <2>3 DEF Submitting, PublishTypeOK, Calls
    <3> QED
      BY <2>1, <2>3, <3>1, SubmittingFinite DEF AllCounted
  <2> QED
    BY <2>2, <2>3
<1> QED
  BY <1>1, <1>3, <1>4 DEF ContentIsKnown

LEMMA CallKeeps ==
    ASSUME PublishInv, NEW w \in PublishWorkers, Submit(w) \/ Poll(w)
    PROVE  PublishInv'
<1>1. Retried(w) \in PostStatuses
  BY DEF Retried, PostStatuses, Cancelable, Due
<1>2. PICK s \in PostStatuses : hand' = [hand EXCEPT ![w].at = s]
  BY <1>1 DEF Submit, Poll, Answers, PostStatuses, Cancelable, Due
<1> QED
  BY <1>2, AnswersKeeps DEF Submit, Poll

\* A hand that becomes free, or late, and a row nobody else has an interest in.
LEMMA RecordKeeps ==
    ASSUME PublishInv, NEW w \in PublishWorkers, Record(w)
    PROVE  PublishInv'
<1> USE DEF PublishInv
<1>1. PublishTypeOK'
  BY DEF Record, PublishTypeOK, Calls, PostStatuses, Cancelable, Due
<1>2. ContentIsKnown'
  BY DEF Record, ContentIsKnown, PublishTypeOK
<1>3. LeaseIsHeld'
  BY DEF Record, LeaseIsHeld, PublishTypeOK
<1>4. Submitting' = Submitting \ {w} /\ w \notin Submitting
  BY DEF Record, Submitting, PublishTypeOK, Free, PostStatuses, Cancelable, Due
<1>5. post'.attempt = post.attempt /\ posted' = posted
  BY DEF Record, PublishTypeOK
<1>6. Submitting' = Submitting
  BY <1>4
<1> QED
  BY <1>1, <1>2, <1>3, <1>5, <1>6 DEF AllCounted

LEMMA RecordFailsKeeps ==
    ASSUME PublishInv, NEW w \in PublishWorkers, RecordFails(w)
    PROVE  PublishInv'
<1> USE DEF PublishInv
<1>0. /\ hand[w] \in Calls
      /\ Retried(w) \in PostStatuses
      /\ PostStatuses \cap {"submit", "poll", "free"} = {}
  BY HandTypes DEF RecordFails, Retried, Free, PostStatuses, Cancelable, Due
<1>1. PublishTypeOK'
  <2>1. hand'[w] \in {Free} \union Calls
    BY <1>0 DEF RecordFails, Calls, PublishTypeOK
  <2>2. hand' \in [PublishWorkers -> {Free} \union Calls]
    BY <2>1 DEF RecordFails, PublishTypeOK, Calls
  <2> QED
    BY <2>2 DEF RecordFails, PublishTypeOK, Calls
<1>2. hand'[w] = Free \/ (hand'[w].late = hand[w].late /\ hand'[w].at = Retried(w))
  BY <1>0 DEF RecordFails, PublishTypeOK, Calls
<1>3. \A v \in PublishWorkers \ {w} : hand'[v] = hand[v]
  BY DEF RecordFails, PublishTypeOK
<1>4. LeaseIsHeld'
  BY <1>0, <1>2, <1>3, HandTypes DEF LeaseIsHeld, RecordFails
<1>5. Submitting' = Submitting
  BY <1>0, <1>2, <1>3 DEF Submitting, RecordFails, Free
<1> QED
  BY <1>1, <1>4, <1>5 DEF ContentIsKnown, AllCounted, RecordFails

-----------------------------------------------------------------------------
\* Overtaking changes nothing but who is late.
LEMMA OvertakenHands ==
    ASSUME PublishInv, hand' = Overtaken
    PROVE  /\ hand' \in [PublishWorkers -> {Free} \union Calls]
           /\ Submitting' = Submitting
           /\ \A w \in PublishWorkers : hand'[w] = Free \/ hand'[w].late
<1> USE DEF PublishInv
<1>1. ASSUME NEW w \in PublishWorkers
      PROVE  /\ hand'[w] \in {Free} \union Calls
             /\ hand'[w].at = hand[w].at
             /\ hand'[w] = Free \/ hand'[w].late
  <2>1. CASE hand[w] = Free
    BY <2>1 DEF Overtaken
  <2>2. CASE hand[w] \in Calls /\ w = post.owner
    BY <2>2, HandTypes DEF Overtaken, Calls
  <2>3. CASE hand[w] \in Calls /\ w # post.owner
    BY <2>3, HandTypes DEF Overtaken, Calls, LeaseIsHeld
  <2> QED
    BY <2>1, <2>2, <2>3, HandTypes
<1>2. hand' = [w \in PublishWorkers |-> hand'[w]]
  BY DEF Overtaken
<1> QED
  BY <1>1, <1>2 DEF Submitting

LEMMA LeaseLapsesKeeps ==
    ASSUME PublishInv, LeaseLapses
    PROVE  PublishInv'
<1> USE DEF PublishInv
<1>1. /\ hand' \in [PublishWorkers -> {Free} \union Calls]
      /\ Submitting' = Submitting
      /\ \A w \in PublishWorkers : hand'[w] = Free \/ hand'[w].late
  BY OvertakenHands DEF LeaseLapses
<1>2. /\ post' = [post EXCEPT !.lease = "lapsed"]
      /\ UNCHANGED <<desk, posted, deaths>>
  BY DEF LeaseLapses
<1>3. PublishTypeOK'
  BY <1>1, <1>2 DEF PublishTypeOK, Calls
<1> QED
  BY <1>1, <1>2, <1>3 DEF PublishTypeOK, ContentIsKnown, LeaseIsHeld, AllCounted

LEMMA WorkerDiesKeeps ==
    ASSUME PublishInv, NEW w \in PublishWorkers, WorkerDies(w)
    PROVE  PublishInv'
<1> USE DEF PublishInv
<1>1. PublishTypeOK'
  BY PublishAssumption DEF WorkerDies, PublishTypeOK
<1>2. ContentIsKnown'
  BY DEF WorkerDies, ContentIsKnown, PublishTypeOK
<1>3. LeaseIsHeld'
  BY DEF WorkerDies, LeaseIsHeld, PublishTypeOK
<1>4. Submitting' \subseteq Submitting
  BY DEF WorkerDies, Submitting, PublishTypeOK, Free
<1>5. /\ post'.attempt = post.attempt /\ posted' = posted
      /\ posted \in Nat /\ post.attempt \in Nat
  BY DEF WorkerDies, PublishTypeOK
<1> QED
  BY <1>1, <1>2, <1>3, <1>4, <1>5, FewerCounted, SubmittingFinite DEF AllCounted

-----------------------------------------------------------------------------
LEMMA RequestKeeps ==
    ASSUME PublishInv, NEW c \in PublishClients,
           AskCancel(c) \/ Cancel(c) \/ AskRetry(c) \/ Retry(c)
    PROVE  PublishInv'
<1> USE DEF PublishInv
<1>1. CASE AskCancel(c) \/ AskRetry(c)
  <2>0. PICK r \in {[op |-> "retry"]} \union [op : {"cancel"}, leased : BOOLEAN] :
           desk' = [desk EXCEPT ![c] = r]
    <3>1. (post.owner # NoWorker) \in BOOLEAN
      OBVIOUS
    <3>2. [op |-> "cancel", leased |-> post.owner # NoWorker]
            \in [op : {"cancel"}, leased : BOOLEAN]
      BY <3>1, Zenon
    <3>3. CASE AskCancel(c)
      BY <3>2, <3>3 DEF AskCancel
    <3> QED
      BY <1>1, <3>3 DEF AskRetry
  <2>1. PublishTypeOK'
    BY <1>1, <2>0 DEF AskCancel, AskRetry, PublishTypeOK
  <2>2. UNCHANGED <<post, hand, posted, Submitting>>
    BY <1>1 DEF AskCancel, AskRetry, Submitting
  <2> QED
    BY <2>1, <2>2 DEF ContentIsKnown, LeaseIsHeld, AllCounted
<1>2. CASE Cancel(c) /\ desk[c].leased
  <2>1. /\ hand' \in [PublishWorkers -> {Free} \union Calls]
        /\ Submitting' = Submitting
        /\ \A w \in PublishWorkers : hand'[w] = Free \/ hand'[w].late
    BY <1>2, OvertakenHands DEF Cancel
  <2>2. post' = [post EXCEPT !.status = "canceled", !.owner = NoWorker, !.lease = "free"]
    BY <1>2 DEF Cancel
  <2>3. PublishTypeOK'
    BY <1>2, <2>1, <2>2 DEF Cancel, PublishTypeOK, Calls, NoRequest, PostStatuses
  <2> QED
    BY <1>2, <2>1, <2>2, <2>3
       DEF Cancel, PublishTypeOK, ContentIsKnown, LeaseIsHeld, AllCounted
<1>3. CASE (Cancel(c) /\ ~desk[c].leased) \/ Retry(c)
  <2>1. PublishTypeOK'
    BY <1>3 DEF Cancel, Retry, PublishTypeOK, NoRequest, PostStatuses, Cancelable
  <2>2. /\ post'.status \notin {"submitted", "processing"}
        /\ post'.owner = post.owner /\ post'.lease = post.lease
        /\ post'.attempt = post.attempt
        /\ UNCHANGED <<hand, posted, Submitting>>
    BY <1>3 DEF Cancel, Retry, PublishTypeOK, Submitting
  <2> QED
    BY <2>1, <2>2 DEF ContentIsKnown, LeaseIsHeld, AllCounted
<1> QED
  BY <1>1, <1>2, <1>3

LEMMA PublishStep == PublishInv /\ [PublishNext]_publishVars => PublishInv'
<1> SUFFICES ASSUME PublishInv, [PublishNext]_publishVars PROVE PublishInv'
  OBVIOUS
<1>1. ASSUME NEW w \in PublishWorkers, WorkerLoop(w) PROVE PublishInv'
  BY <1>1, ClaimNewKeeps, ClaimDueKeeps, CallKeeps, RecordKeeps, RecordFailsKeeps
     DEF WorkerLoop
<1>2. CASE UNCHANGED publishVars
  BY <1>2 DEF publishVars, PublishInv, PublishTypeOK, ContentIsKnown, LeaseIsHeld,
              AllCounted, Submitting
<1> QED
  BY <1>1, <1>2, WorkerDiesKeeps, LeaseLapsesKeeps, RequestKeeps DEF PublishNext

-----------------------------------------------------------------------------
\* Whatever the claims, the lapses, the deaths and the stale requests of a job
\* (publishing_repository.py, publishing_worker.py, publishing.py), the row and
\* the workers keep their invariant.
THEOREM PublishCorrect == PublishSpec => []PublishInv
BY PublishStart, PublishStep, PTL DEF PublishSpec

\* The row of a publish job and what the workers hold of it stay well formed,
\* the limit of its attempts included (_claim).
THEOREM PublishTypeCorrect == PublishSpec => []PublishTypeOK
<1>1. PublishInv => PublishTypeOK
  BY DEF PublishInv
<1> QED
  BY <1>1, PublishCorrect, PTL

\* However many workers there are, and whichever leases lapse while the platform
\* is called, it accepts at most one post per attempt that a claim has counted.
THEOREM EveryPostCounted == PublishSpec => []PostsAreCounted
<1>1. PublishInv => PostsAreCounted
  BY SubmittingFinite DEF PublishInv, PublishTypeOK, AllCounted, PostsAreCounted
<1> QED
  BY <1>1, PublishCorrect, PTL

\* One lease, one worker: a claim, a cancel or a retry written from a stale read
\* never leaves two workers at the platform whose leases both run.
THEOREM LeasesExclude == PublishSpec => []OneCallPerLease
<1>1. PublishInv => OneCallPerLease
  BY DEF PublishInv, LeaseIsHeld, OneCallPerLease
<1> QED
  BY <1>1, PublishCorrect, PTL
=============================================================================
