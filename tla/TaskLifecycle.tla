---------------------------- MODULE TaskLifecycle ----------------------------
(***************************************************************************)
(* What the generation queue promises of tasks and their dependencies,     *)
(* with no claimers, cancel requests or executions: the status graph that  *)
(* the WHERE guards of task_repo.py admit and the rule that a task follows *)
(* its dependency.  docs/adr/0006 has one edge less: there a running row   *)
(* becomes cancelling first, here, as for _mark_cancelled, it may become   *)
(* cancelled at once.                                                      *)
(***************************************************************************)
CONSTANTS Tasks,   \* task ids
          NoTask   \* the dependency of a task that has none

VARIABLES st,      \* [Tasks -> status]
          parent   \* [Tasks -> the task it depends on]

lifecycleVars == <<st, parent>>

Queued == {t \in Tasks : st[t] = "queued"}
InState(s) == {t \in Tasks : st[t] = s}
Unfinished == InState("queued") \union InState("running") \union InState("cancelling")

LifecycleInit ==
    /\ st = [t \in Tasks |-> "absent"]
    /\ parent = [t \in Tasks |-> NoTask]

MoveTo(rows, s) == [t \in Tasks |-> IF t \in rows THEN s ELSE st[t]]

\* A row is created queued; its dependency was there before it.
Create(rows) ==
    /\ rows # {} /\ rows \subseteq InState("absent")
    /\ st' = MoveTo(rows, "queued")
    /\ \E p \in [rows -> (Tasks \ InState("absent")) \union {NoTask}] :
         parent' = [t \in Tasks |-> IF t \in rows THEN p[t] ELSE parent[t]]

\* It starts when its dependency has succeeded.
Start(t) ==
    /\ st[t] = "queued"
    /\ parent[t] = NoTask \/ st[parent[t]] = "succeeded"
    /\ st' = MoveTo({t}, "running")
    /\ UNCHANGED parent

PutBack(rows) ==
    /\ rows \subseteq InState("running")
    /\ st' = MoveTo(rows, "queued")
    /\ UNCHANGED parent

Succeed(t) ==
    /\ st[t] = "running"
    /\ st' = MoveTo({t}, "succeeded")
    /\ UNCHANGED parent

\* A failure takes everything queued behind it along, and nothing else.
Fail(t, behind) ==
    /\ st[t] = "running"
    /\ behind \subseteq Queued
    /\ \A u \in behind : parent[u] \in behind \union {t}
    /\ \A u \in Queued \ behind : parent[u] \notin behind \union {t}
    /\ st' = MoveTo(behind \union {t}, "failed")
    /\ UNCHANGED parent

\* So does a cancellation; what runs is asked to stop, or cancelled with the rest
\* (the guard of _mark_cancelled admits "running", task_repo.py:769).
Cancel(ended, asked) ==
    /\ ended \subseteq Unfinished
    /\ asked \subseteq InState("running") \ ended
    /\ \A u \in Queued \ ended : parent[u] \notin ended
    /\ st' = [t \in Tasks |-> IF t \in ended THEN "cancelled"
                              ELSE IF t \in asked THEN "cancelling" ELSE st[t]]
    /\ UNCHANGED parent

\* Tasks asked to stop are given up with nobody to stop them, without a cascade.
GiveUp(rows) ==
    /\ rows \subseteq InState("cancelling")
    /\ st' = MoveTo(rows, "cancelled")
    /\ UNCHANGED parent

LifecycleNext ==
    \/ \E rows \in SUBSET Tasks : Create(rows) \/ PutBack(rows) \/ GiveUp(rows)
    \/ \E t \in Tasks : Start(t) \/ Succeed(t)
    \/ \E t \in Tasks, behind \in SUBSET Tasks : Fail(t, behind)
    \/ \E ended, asked \in SUBSET Tasks : Cancel(ended, asked)

LifecycleSpec == LifecycleInit /\ [][LifecycleNext]_lifecycleVars
=============================================================================
