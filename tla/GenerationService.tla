-------------------------- MODULE GenerationService --------------------------
(***************************************************************************)
(* What the queue and its worker promise together: the lifecycle of the    *)
(* tasks table, and at most one submission of a task to its provider       *)
(* (docs/adr/0007), of a task that was started and has not failed.  What   *)
(* was submitted is never queued again, and nothing succeeds that was not. *)
(* There are no claims, coroutines, slots, signals or restarts here.       *)
(***************************************************************************)
EXTENDS TaskLifecycle

VARIABLE sent  \* [Tasks -> submissions the provider accepted]

serviceVars == <<st, parent, sent>>

ServiceInit == LifecycleInit /\ sent = [t \in Tasks |-> 0]

Submit(t) ==
    /\ st[t] \in {"running", "cancelling", "cancelled"}
    /\ sent[t] = 0
    /\ sent' = [sent EXCEPT ![t] = 1]
    /\ UNCHANGED lifecycleVars

\* What the submissions made so far mean for the next status.
Honoured == \A t \in Tasks :
    /\ st'[t] = "queued" => sent[t] = 0
    /\ st'[t] = "succeeded" => sent[t] = 1

Move == LifecycleNext /\ Honoured /\ UNCHANGED sent

ServiceNext == Move \/ \E t \in Tasks : Submit(t)

ServiceSpec == ServiceInit /\ [][ServiceNext]_serviceVars
=============================================================================
