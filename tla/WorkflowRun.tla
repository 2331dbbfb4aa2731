----------------------------- MODULE WorkflowRun -----------------------------
(***************************************************************************)
(* One workflow run: its row and its node rows, the requests that move the *)
(* run (server/services/workflows.py) and the executor that drives it      *)
(* (server/services/workflow_execution.py, lib/workflow.py).  The executor *)
(* works on node rows held in its session and commits after each node; a   *)
(* request commits when it likes.  The version a request names is compared *)
(* when the row is read, not in the UPDATE.                                *)
(*                                                                         *)
(* The executor takes the running runs one after the other, the oldest     *)
(* first, and an error in one ends the tick for those behind it.  Of the   *)
(* runs ahead of this one only that is kept: whether one of them raises.   *)
(* A retry makes a new run; from then on the module follows that run, and  *)
(* the one it was forked from stays as it is.  Outputs, budgets, events    *)
(* and template statistics are left out.                                   *)
(***************************************************************************)
EXTENDS Naturals, FiniteSets

CONSTANTS
    FlowNodes,    \* the nodes, numbered in topological order
    FlowClients,  \* requests that may be in progress at the same time
    MaxVersion,   \* bound: versions of a run that requests ask to leave
    MaxStops,     \* bound: ticks cut short by a crash or a failed commit
    MaxForks      \* bound: retries

ASSUME FlowAssumption ==
    /\ FlowNodes \subseteq Nat /\ IsFiniteSet(FlowNodes)
    /\ MaxVersion \in Nat
    /\ MaxStops \in Nat
    /\ MaxForks \in Nat

VARIABLES
    edges,     \* the edges of the published graph
    disabled,  \* the nodes whose config is disabled
    ahead,     \* an older run is running, and its turn of the tick raises
    flow,      \* the workflow_runs row
    node,      \* the committed status of each node; gated: failed, with the
               \* error code of a quality gate
    engine,    \* the executor's place, its session's node rows, the nodes of
               \* the current round and the run row it has read
    asks,      \* what each request has read and is about to write
    called,    \* history: nodes whose adapter has been called
    repeats,   \* history: adapters called again
    late,      \* history: adapters called since the run was stopped
    stops,     \* ticks cut short
    forks      \* retries so far

flowVars == <<edges, disabled, ahead, flow, node, engine, asks, called, repeats, late, stops, forks>>
\* what this run's executor and requests do not change
given == <<edges, disabled, ahead>>

-----------------------------------------------------------------------------
RunTransitions ==
    [s \in {"planned", "running", "paused", "waiting_review",
            "succeeded", "failed", "cancelled"} |->
        CASE s = "planned" -> {"running", "cancelled"}
          [] s = "running" -> {"paused", "waiting_review", "succeeded", "failed", "cancelled"}
          [] s \in {"paused", "waiting_review"} -> {"running", "cancelled"}
          [] OTHER -> {}]

FlowStatuses == DOMAIN RunTransitions
Failed == {"failed", "gated"}
Passed == {"succeeded", "skipped"}
NodeStatuses == Failed \cup Passed \cup {"blocked", "ready", "running"}

Upstream(n) == {m \in FlowNodes : <<m, n>> \in edges}

\* S holds the targets of m and of its own members
Closed(S, m) == \A e \in edges : e[1] = m \/ e[1] \in S => e[2] \in S

Downstream(m) == {n \in FlowNodes : \A S \in SUBSET FlowNodes : Closed(S, m) => n \in S}

Fresh(n) == IF Upstream(n) = {} THEN "ready" ELSE "blocked"

NoAsk == [target |-> "none", seen |-> 0]
Idle == [pc |-> "idle", mem |-> [n \in FlowNodes |-> "blocked"], todo |-> {},
         seen |-> [status |-> "planned", version |-> 0]]

FlowInit ==
    /\ edges \in SUBSET {e \in FlowNodes \X FlowNodes : e[1] < e[2]}
    /\ disabled \in SUBSET FlowNodes
    /\ ahead = FALSE
    /\ flow = [status |-> "planned", version |-> 1]
    /\ node = [n \in FlowNodes |-> Fresh(n)]
    /\ engine = Idle
    /\ asks = [c \in FlowClients |-> NoAsk]
    /\ called = {}
    /\ repeats = 0
    /\ late = 0
    /\ stops = 0
    /\ forks = 0

-----------------------------------------------------------------------------
(* Requests *)

\* the row is now what was written; a run that runs again may call adapters
Move(status, version) ==
    /\ flow' = [status |-> status, version |-> version]
    /\ late' = IF status = "running" THEN 0 ELSE late

AskMove(c, target) ==
    /\ asks[c] = NoAsk
    /\ target \in RunTransitions[flow.status]
    /\ flow.version < MaxVersion
    /\ asks' = [asks EXCEPT ![c] = [target |-> target, seen |-> flow.version]]
    /\ UNCHANGED <<given, flow, node, engine, called, repeats, late, stops, forks>>

\* an UPDATE by key of the status and the version, whatever they are by now
MoveRun(c) ==
    /\ asks[c] # NoAsk
    /\ Move(asks[c].target, asks[c].seen + 1)
    /\ asks' = [asks EXCEPT ![c] = NoAsk]
    /\ UNCHANGED <<given, node, engine, called, repeats, stops, forks>>

\* what a retry from n plans for k
Replanned(n, k) ==
    IF k = n THEN "ready"
    ELSE IF k \in Downstream(n) THEN "blocked"
    ELSE IF node[k] \in Passed THEN node[k]
    ELSE Fresh(k)

RetryRunFromNode(n) ==
    /\ engine = Idle
    /\ forks < MaxForks
    /\ flow.status \in {"failed", "paused"}
    /\ node[n] \in Failed
    /\ flow' = [status |-> "planned", version |-> 1]
    /\ node' = [k \in FlowNodes |-> Replanned(n, k)]
    /\ called' = {k \in FlowNodes : node'[k] = "succeeded"}
    /\ asks' = [c \in FlowClients |-> NoAsk]
    /\ forks' = forks + 1
    /\ late' = 0
    /\ UNCHANGED <<given, engine, repeats, stops>>

-----------------------------------------------------------------------------
(* The executor *)

EngineAt(pc) ==
    /\ engine.pc = pc
    /\ UNCHANGED <<given, asks, forks>>

Calls == <<called, repeats, late, stops>>

\* an older run with a disabled root, or a broken row, is started or resumed, or is
\* paused or cancelled; what it is while this run has its turn nothing depends on
OlderRuns ==
    /\ engine = Idle
    /\ ahead' = ~ahead
    /\ UNCHANGED <<edges, disabled, flow, node, engine, asks, Calls, forks>>

\* the tick gets to this run
TakeRun ==
    /\ EngineAt("idle")
    /\ flow.status = "running"
    /\ ~ahead
    /\ engine' = [engine EXCEPT !.pc = "round", !.mem = node]
    /\ UNCHANGED <<flow, node, Calls>>

\* a node planned as ready may not become skipped
Refused == {n \in disabled : engine.mem[n] = "ready"}

SkippedIn(mem) ==
    [n \in FlowNodes |-> IF n \in disabled /\ mem[n] = "blocked" THEN "skipped" ELSE mem[n]]

ReadyIn(mem) ==
    {n \in FlowNodes : /\ mem[n] \in {"blocked", "ready"}
                       /\ \A m \in Upstream(n) : mem[m] \in Passed}

\* the head of the loop: disabled nodes are skipped, then the ready ones listed;
\* the refused transition ends the tick, and what was not committed is lost
Round ==
    /\ EngineAt("round")
    /\ LET mem == SkippedIn(engine.mem)
       IN engine' = IF flow.status # "running" THEN [engine EXCEPT !.pc = "evaluate"]
                    ELSE IF Refused # {} THEN Idle
                    ELSE [engine EXCEPT
                            !.pc = IF ReadyIn(mem) = {} THEN "evaluate" ELSE "look",
                            !.mem = mem, !.todo = ReadyIn(mem)]
    /\ UNCHANGED <<flow, node, Calls>>

Foremost(n) == n \in engine.todo /\ \A m \in engine.todo : n <= m

\* Mistake: the run is looked at once a round.
LookAhead ==
    /\ EngineAt("look")
    /\ engine' = [engine EXCEPT !.pc = "call"]
    /\ UNCHANGED <<flow, node, Calls>>

Look ==
    /\ EngineAt("look")
    /\ engine' = IF flow.status = "running" THEN [engine EXCEPT !.pc = "call"]
                 ELSE [engine EXCEPT !.pc = "round", !.todo = {}]
    /\ UNCHANGED <<flow, node, Calls>>

\* Mistake: the flush before the call is a commit.
CallAdapterCommitted(n) ==
    /\ EngineAt("call")
    /\ Foremost(n)
    /\ engine' = [engine EXCEPT !.pc = "adapter", !.mem[n] = "running"]
    /\ node' = engine'.mem
    /\ called' = called \cup {n}
    /\ repeats' = IF n \in called THEN repeats + 1 ELSE repeats
    /\ late' = IF flow.status = "running" THEN late ELSE late + 1
    /\ UNCHANGED <<flow, stops>>

CallAdapter(n) ==
    /\ EngineAt("call")
    /\ Foremost(n)
    /\ engine' = [engine EXCEPT !.pc = "adapter", !.mem[n] = "running"]
    /\ called' = called \cup {n}
    /\ repeats' = IF n \in called THEN repeats + 1 ELSE repeats
    /\ late' = IF flow.status = "running" THEN late ELSE late + 1
    /\ UNCHANGED <<flow, node, stops>>

\* Mistake: the round is committed when its last node is done.
AdapterReturnsInRound(n) ==
    /\ EngineAt("adapter")
    /\ Foremost(n)
    /\ \E outcome \in {"succeeded"} \cup Failed :
         engine' = [engine EXCEPT !.pc = IF engine.todo = {n} THEN "round" ELSE "look",
                                  !.mem[n] = outcome, !.todo = @ \ {n}]
    /\ node' = IF engine.todo = {n} THEN engine'.mem ELSE node
    /\ UNCHANGED <<flow, Calls>>

\* the node ends, and all the session holds is committed
AdapterReturns(n) ==
    /\ EngineAt("adapter")
    /\ Foremost(n)
    /\ \E outcome \in {"succeeded"} \cup Failed :
         engine' = [engine EXCEPT !.pc = IF engine.todo = {n} THEN "round" ELSE "look",
                                  !.mem[n] = outcome, !.todo = @ \ {n}]
    /\ node' = engine'.mem
    /\ UNCHANGED <<flow, Calls>>

\* the last refresh, which the verdict goes by
Evaluate ==
    /\ EngineAt("evaluate")
    /\ engine' = [engine EXCEPT !.pc = "verdict", !.seen = flow]
    /\ UNCHANGED <<flow, node, Calls>>

NodesAre(statuses) == \A n \in FlowNodes : engine.mem[n] \in statuses

\* Mistake: a run is over when every node is.
RunVerdictWhenAllEnd ==
    IF engine.seen.status # "running" THEN "none"
    ELSE IF ~NodesAre(NodeStatuses \ {"gated"}) THEN "waiting_review"
    ELSE IF ~NodesAre(Failed \cup Passed) THEN "none"
    ELSE IF NodesAre(Passed) THEN "succeeded" ELSE "failed"

\* what the nodes say of a run that was seen running
RunVerdict ==
    IF engine.seen.status # "running" THEN "none"
    ELSE IF ~NodesAre(NodeStatuses \ {"gated"}) THEN "waiting_review"
    ELSE IF NodesAre(Passed) THEN "succeeded"
    ELSE IF ~NodesAre(NodeStatuses \ {"failed"}) THEN "failed"
    ELSE "none"

\* another UPDATE by key: a request that has committed since is written over
Conclude ==
    /\ EngineAt("verdict")
    /\ IF RunVerdict = "none" THEN UNCHANGED flow
       ELSE flow' = [status |-> RunVerdict, version |-> engine.seen.version + 1]
    /\ node' = engine.mem
    /\ engine' = Idle
    /\ UNCHANGED Calls

\* the process ends, or a statement or commit fails: the session is dropped
TickStops ==
    /\ engine # Idle
    /\ stops < MaxStops
    /\ stops' = stops + 1
    /\ engine' = Idle
    /\ UNCHANGED <<given, flow, node, asks, called, repeats, late, forks>>

-----------------------------------------------------------------------------
Execute ==
    \/ TakeRun \/ Round \/ Look
    \/ \E n \in FlowNodes : CallAdapter(n) \/ AdapterReturns(n)
    \/ Evaluate \/ Conclude

FlowNext ==
    \/ \E c \in FlowClients :
         \/ \E target \in {"running", "paused", "cancelled"} : AskMove(c, target)
         \/ MoveRun(c)
    \/ \E n \in FlowNodes : RetryRunFromNode(n)
    \/ Execute
    \/ OlderRuns
    \/ TickStops

FlowSpec == FlowInit /\ [][FlowNext]_flowVars

\* The lifespan starts the executor's loop with the process, which the
\* deployment restarts; the loop outlives a tick that fails, and an adapter
\* returns: what it waits for has a timeout.
FairFlowSpec == FlowSpec /\ WF_flowVars(Execute)

-----------------------------------------------------------------------------
\* Types; a committed row never says running, so that after a crash every node
\* that has not ended is scheduled again.
FlowTypeOK ==
    /\ edges \subseteq FlowNodes \X FlowNodes
    /\ disabled \subseteq FlowNodes
    /\ ahead \in BOOLEAN
    /\ flow \in [status : FlowStatuses, version : Nat]
    /\ node \in [FlowNodes -> NodeStatuses \ {"running"}]
    /\ engine \in [pc : {"idle", "round", "look", "call", "adapter", "evaluate", "verdict"},
                   mem : [FlowNodes -> NodeStatuses], todo : SUBSET FlowNodes,
                   seen : [status : FlowStatuses, version : Nat]]
    /\ asks \in [FlowClients ->
                   {NoAsk} \cup [target : {"running", "paused", "cancelled"}, seen : Nat]]
    /\ called \subseteq FlowNodes
    /\ repeats \in Nat
    /\ late \in Nat
    /\ stops \in 0 .. MaxStops
    /\ forks \in 0 .. MaxForks

\* A pause or a cancel stops the scheduling: at most the node the executor was
\* about to start is still started, however many were ready in the round
\* ("A cancelled run stops scheduling", module docstring of workflow_execution).
StopIsHeeded == late <= 1

\* Each tick cut short costs at most one adapter call made twice, and neither a
\* pause, a resume nor a retry repeats one whose success was committed (the
\* commit after each node, and the statuses retry_run_from_node copies).
RepeatsAreCounted == repeats <= stops

\* Behind older runs that in the end stop failing, a run whose disabled nodes all
\* wait for others does not stay running for ever, unless somebody keeps stopping
\* and resuming it (process_workflow_runs: one error ends the tick for all runs).
RunsEnd ==
    <>[]~ahead =>
        (flow.status = "running" /\ (\A n \in disabled : node[n] # "ready")
            ~> flow.status # "running")

\* "A failed node fails the run (its downstream nodes stay blocked)" (module
\* docstring of workflow_execution): nothing enabled downstream of it is started.
DownstreamStaysBlocked ==
    \A m \in FlowNodes : node[m] \in Failed =>
        \A n \in Downstream(m) \ disabled : node[n] = "blocked"

=============================================================================
