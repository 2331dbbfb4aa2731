----------------------------- MODULE Publishing -----------------------------
(***************************************************************************)
(* One publish job and the workers that may claim it                       *)
(* (server/services/publishing_worker.py, publishing.py and                *)
(* lib/db/repositories/publishing_repository.py).  A claim is one guarded  *)
(* UPDATE that takes a lease; the platform is called without a transaction *)
(* and without renewing the lease; the result is written only by the       *)
(* worker the row still names.  A cancel and a retry are requests of two   *)
(* steps: the row is read and checked, and later written by its key.  Jobs *)
(* do not look at one another, so one stands for all of them.              *)
(*                                                                         *)
(* The platform is external: a call may answer anything, an exception      *)
(* after it has accepted the post included.  Time occurs as the lapse of   *)
(* the lease; next_poll_at only delays a claim, and is left out.           *)
(***************************************************************************)
EXTENDS Naturals, FiniteSets

CONSTANTS PublishWorkers,  \* worker ids
          NoWorker,        \* worker_id is NULL
          GoneWorker,      \* the id of a worker process that has ended
          MaxSubmits,      \* max_attempts of the job
          PublishClients,  \* requests that may be in progress at the same time
          MaxDeaths        \* bound: worker processes that end

ASSUME PublishAssumption ==
    /\ IsFiniteSet(PublishWorkers)
    /\ MaxSubmits \in Nat \ {0}
    /\ MaxDeaths \in Nat
    /\ NoWorker \notin PublishWorkers
    /\ GoneWorker \notin PublishWorkers
    /\ NoWorker # GoneWorker

VARIABLES post,    \* the publish_jobs row; its lease is free, held or lapsed
          hand,    \* what each worker is doing with the job it claimed
          desk,    \* what each request has read of the row and is about to write
          posted,  \* posts the platform has accepted
          deaths   \* worker processes that have ended

publishVars == <<post, hand, desk, posted, deaths>>

Due == {"submitted", "processing", "failed_retryable", "publishing"}
Cancelable == Due \union {"queued"}
PostStatuses == Cancelable \union {"published", "failed_needs_user_action", "canceled"}

Free == [at |-> "free"]
NoRequest == [op |-> "none"]

PublishInit ==
    /\ post = [status |-> "queued", attempt |-> 0, owner |-> NoWorker,
               lease |-> "free", content |-> FALSE]
    /\ hand = [w \in PublishWorkers |-> Free]
    /\ desk = [c \in PublishClients |-> NoRequest]
    /\ posted = 0
    /\ deaths = 0

-----------------------------------------------------------------------------
(* The worker. *)

\* The detached row a worker works from; late once the lease it took is over.
Takes(w, call, attempt) ==
    /\ hand[w] = Free
    /\ post' = [post EXCEPT !.status = "publishing", !.attempt = attempt,
                            !.owner = w, !.lease = "held"]
    /\ hand' = [hand EXCEPT ![w] = [at |-> call, tries |-> attempt, late |-> FALSE]]
    /\ UNCHANGED <<desk, posted, deaths>>

\* Mistake: a job that was requeued has its attempts back.
ClaimNewUnlimited(w) ==
    /\ post.status = "queued"
    /\ post.lease # "held"
    /\ Takes(w, "submit", post.attempt + 1)

ClaimNew(w) ==
    /\ post.status = "queued"
    /\ post.attempt < MaxSubmits
    /\ post.lease # "held"
    /\ Takes(w, "submit", post.attempt + 1)

\* Mistake: a publishing job taken over is not a new attempt.
ClaimDueUncounted(w) ==
    /\ post.status \in Due
    /\ post.lease # "held"
    /\ post.status \in {"failed_retryable", "publishing"} => post.attempt < MaxSubmits
    /\ Takes(w, IF post.content THEN "poll" ELSE "submit", post.attempt)

\* Mistake: only jobs that came back from a worker are due.
ClaimDueReturned(w) ==
    /\ post.status \in Due \ {"publishing"}
    /\ post.lease # "held"
    /\ post.status = "failed_retryable" => post.attempt < MaxSubmits
    /\ Takes(w, IF post.content THEN "poll" ELSE "submit",
             IF post.status = "failed_retryable" THEN post.attempt + 1 ELSE post.attempt)

\* Mistake: the UPDATE does not repeat the condition on the lease.
ClaimDueLeased(w) ==
    LET again == post.status \in {"failed_retryable", "publishing"}
    IN /\ post.status \in Due
       /\ again => post.attempt < MaxSubmits
       /\ Takes(w, IF post.content THEN "poll" ELSE "submit",
                IF again THEN post.attempt + 1 ELSE post.attempt)

\* a job that failed, or that another worker has left, is one more attempt
ClaimDue(w) ==
    LET again == post.status \in {"failed_retryable", "publishing"}
    IN /\ post.status \in Due
       /\ post.lease # "held"
       /\ again => post.attempt < MaxSubmits
       /\ Takes(w, IF post.content THEN "poll" ELSE "submit",
                IF again THEN post.attempt + 1 ELSE post.attempt)

\* what the worker will write, from what the platform answered
Retried(w) ==
    IF hand[w].tries < MaxSubmits THEN "failed_retryable" ELSE "failed_needs_user_action"

Answers(w, statuses) ==
    \E s \in statuses : hand' = [hand EXCEPT ![w].at = s]

Submit(w) ==
    /\ hand[w].at = "submit"
    /\ \/ /\ posted' = posted + 1
          /\ Answers(w, {"submitted", "processing", "published", Retried(w)})
       \/ /\ posted' = posted
          /\ Answers(w, {"failed_needs_user_action", Retried(w)})
    /\ UNCHANGED <<post, desk, deaths>>

Poll(w) ==
    /\ hand[w].at = "poll"
    /\ Answers(w, {"published", "processing", "failed_needs_user_action", Retried(w)})
    /\ UNCHANGED <<post, desk, posted, deaths>>

\* a submission that succeeded brings the content's id with it
Record(w) ==
    /\ hand[w].at \in PostStatuses
    /\ post' = IF post.owner = w
               THEN [post EXCEPT !.status = hand[w].at, !.owner = NoWorker,
                                 !.lease = "free",
                                 !.content = @ \/ hand[w].at \in {"submitted", "processing",
                                                                  "published"}]
               ELSE post
    /\ hand' = [hand EXCEPT ![w] = Free]
    /\ UNCHANGED <<desk, posted, deaths>>

\* the write fails: a retryable failure is to be recorded instead; if that write
\* fails too, the error ends the batch and the row is left as it is
RecordFails(w) ==
    /\ hand[w].at \in PostStatuses
    /\ hand' = [hand EXCEPT ![w] = IF @.at = Retried(w) THEN Free
                                   ELSE [@ EXCEPT !.at = Retried(w)]]
    /\ UNCHANGED <<post, desk, posted, deaths>>

Overtaken ==
    [w \in PublishWorkers |->
        IF w = post.owner /\ hand[w] # Free THEN [hand[w] EXCEPT !.late = TRUE] ELSE hand[w]]

\* lease_until passes, whatever its holder is doing
LeaseLapses ==
    /\ post.lease = "held"
    /\ post' = [post EXCEPT !.lease = "lapsed"]
    /\ hand' = Overtaken
    /\ UNCHANGED <<desk, posted, deaths>>

\* the process ends, or stop() runs out of time; the next one has a new id
WorkerDies(w) ==
    /\ deaths < MaxDeaths
    /\ deaths' = deaths + 1
    /\ hand' = [hand EXCEPT ![w] = Free]
    /\ post' = IF post.owner = w THEN [post EXCEPT !.owner = GoneWorker] ELSE post
    /\ UNCHANGED <<desk, posted>>

-----------------------------------------------------------------------------
(* Requests.  The write sets only what differs from what was read. *)

AskCancel(c) ==
    /\ desk[c] = NoRequest
    /\ post.status \in Cancelable
    /\ desk' = [desk EXCEPT ![c] = [op |-> "cancel", leased |-> post.owner # NoWorker]]
    /\ UNCHANGED <<post, hand, posted, deaths>>

\* the lease goes with the cancel of a row that was read with one
Cancel(c) ==
    /\ desk[c].op = "cancel"
    /\ IF desk[c].leased
       THEN /\ post' = [post EXCEPT !.status = "canceled", !.owner = NoWorker, !.lease = "free"]
            /\ hand' = Overtaken
       ELSE /\ post' = [post EXCEPT !.status = "canceled"]
            /\ UNCHANGED hand
    /\ desk' = [desk EXCEPT ![c] = NoRequest]
    /\ UNCHANGED <<posted, deaths>>

AskRetry(c) ==
    /\ desk[c] = NoRequest
    /\ post.status = "failed_retryable"
    /\ post.attempt < MaxSubmits
    /\ desk' = [desk EXCEPT ![c] = [op |-> "retry"]]
    /\ UNCHANGED <<post, hand, posted, deaths>>

Retry(c) ==
    /\ desk[c].op = "retry"
    /\ post' = [post EXCEPT !.status = "queued"]
    /\ desk' = [desk EXCEPT ![c] = NoRequest]
    /\ UNCHANGED <<hand, posted, deaths>>

-----------------------------------------------------------------------------
WorkerLoop(w) == \/ ClaimNew(w) \/ ClaimDue(w)
                 \/ Submit(w) \/ Poll(w)
                 \/ Record(w) \/ RecordFails(w)

PublishNext ==
    \/ \E w \in PublishWorkers : WorkerLoop(w) \/ WorkerDies(w)
    \/ LeaseLapses
    \/ \E c \in PublishClients : AskCancel(c) \/ Cancel(c) \/ AskRetry(c) \/ Retry(c)

PublishSpec == PublishInit /\ [][PublishNext]_publishVars

\* Time passes, and a worker's loop goes on: the lifespan starts it with the
\* process, which the deployment restarts.
FairPublishSpec ==
    /\ PublishSpec
    /\ WF_publishVars(LeaseLapses)
    /\ \A w \in PublishWorkers : WF_publishVars(WorkerLoop(w))

-----------------------------------------------------------------------------
PublishTypeOK ==
    /\ post \in [status : PostStatuses, attempt : 0 .. MaxSubmits,
                 owner : PublishWorkers \union {NoWorker, GoneWorker},
                 lease : {"free", "held", "lapsed"}, content : BOOLEAN]
    /\ hand \in [PublishWorkers ->
                   {Free} \union [at : {"submit", "poll"} \union PostStatuses,
                                  tries : 0 .. MaxSubmits, late : BOOLEAN]]
    /\ desk \in [PublishClients ->
                   {NoRequest, [op |-> "retry"]} \union [op : {"cancel"}, leased : BOOLEAN]]
    /\ posted \in Nat
    /\ deaths \in 0 .. MaxDeaths

\* The platform accepts the post at most once per counted attempt, so never more
\* than max_attempts times, with lapsed leases, dead workers, lost answers, stale
\* retries and stale cancels in any order (_claim and its attempt arithmetic).
PostsAreCounted == posted <= post.attempt

\* At most one worker whose lease still runs is at the platform or about to
\* write: one is overtaken only once its lease has lapsed or a cancel took it,
\* however stale the request that reopened the row was (_claim, cancel_publish_job).
OneCallPerLease ==
    \A v, w \in PublishWorkers :
        hand[v] # Free /\ ~ hand[v].late /\ hand[w] # Free /\ ~ hand[w].late => v = w

\* A job a worker has left while publishing it is taken up again as long as it
\* has attempts left (_POLL_STATUSES has publishing in it for this).
PublishingIsLeft ==
    post.status = "publishing" /\ post.attempt < MaxSubmits
        ~> post.status # "publishing" \/ post.attempt = MaxSubmits

=============================================================================
