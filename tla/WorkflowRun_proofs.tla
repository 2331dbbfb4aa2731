-------------------------- MODULE WorkflowRun_proofs --------------------------
(***************************************************************************)
(* What is proved of a workflow run for any finite graph, any disabled     *)
(* nodes, any set of requests and any number of stops and retries.         *)
(***************************************************************************)
EXTENDS WorkflowRun, FiniteSetTheorems, TLAPS

Waiting == {"blocked", "ready"}

\* The executor's session differs from the committed rows by the nodes it has
\* skipped since its last commit and by the one node it is running.
SessionFollows ==
    engine.pc # "idle" =>
        \A n \in FlowNodes :
            \/ engine.mem[n] = node[n]
            \/ engine.mem[n] = "skipped" /\ node[n] = "blocked"
            \/ /\ engine.mem[n] = "running" /\ node[n] \in Waiting
               /\ engine.pc = "adapter" /\ Foremost(n)

\* The nodes of a round that have not had their turn wait in the session...
RoundWaits ==
    /\ engine.pc \notin {"look", "call", "adapter"} => engine.todo = {}
    /\ \A n \in engine.todo :
         engine.mem[n] \in Waiting \/ (engine.pc = "adapter" /\ Foremost(n))

\* ... and the one whose turn it is has been called.
OneIsCalled ==
    engine.pc = "adapter" => \E n \in FlowNodes :
        Foremost(n) /\ engine.mem[n] = "running" /\ node[n] \in Waiting /\ n \in called

\* Nodes that are to be called again.
Unsaved == {n \in called : node[n] \in Waiting}

\* Each of them, and each that was called again, was paid for by a stop, save
\* the one that is being run.
StopsCount ==
    repeats + Cardinality(Unsaved) <= IF engine.pc = "adapter" THEN stops + 1 ELSE stops

\* An adapter is only ever called late if the run was stopped after the look.
LateIsAfterLook ==
    /\ flow.status = "running" \/ engine.pc = "call" => late = 0
    /\ late <= 1

\* The inductive invariant.
FlowInv ==
    FlowTypeOK /\ SessionFollows /\ RoundWaits /\ OneIsCalled /\ StopsCount /\ LateIsAfterLook

-----------------------------------------------------------------------------
LEMMA UnsavedFinite ==
    ASSUME FlowTypeOK
    PROVE  IsFiniteSet(Unsaved) /\ Cardinality(Unsaved) \in Nat
BY FlowAssumption, FS_Subset, FS_CardinalityType DEF Unsaved, FlowTypeOK

LEMMA FewerUnsaved ==
    ASSUME FlowTypeOK, Unsaved' \subseteq Unsaved
    PROVE  Cardinality(Unsaved') \in Nat /\ Cardinality(Unsaved') <= Cardinality(Unsaved)
BY UnsavedFinite, FS_Subset, FS_CardinalityType

LEMMA OneMoreUnsaved ==
    ASSUME FlowTypeOK, NEW n, Unsaved' = Unsaved \union {n}
    PROVE  Cardinality(Unsaved') \in Nat /\ Cardinality(Unsaved') <= Cardinality(Unsaved) + 1
BY UnsavedFinite, FS_AddElement

LEMMA OneLessUnsaved ==
    ASSUME FlowTypeOK, NEW n \in Unsaved, Unsaved' \subseteq Unsaved \ {n}
    PROVE  Cardinality(Unsaved') \in Nat /\ Cardinality(Unsaved') <= Cardinality(Unsaved) - 1
<1>1. /\ IsFiniteSet(Unsaved \ {n})
      /\ Cardinality(Unsaved \ {n}) = Cardinality(Unsaved) - 1
  BY UnsavedFinite, FS_RemoveElement
<1>2. /\ IsFiniteSet(Unsaved')
      /\ Cardinality(Unsaved') <= Cardinality(Unsaved \ {n})
  BY <1>1, FS_Subset
<1> QED
  BY <1>1, <1>2, FS_CardinalityType, UnsavedFinite

\* A step of the executor that changes nothing but its place and its round.
LEMMA EngineMoves ==
    ASSUME FlowInv, UNCHANGED <<node, called, repeats, stops>>,
           engine'.pc # "adapter", engine.pc # "adapter"
    PROVE  StopsCount'
<1>1. Unsaved' = Unsaved
  BY DEF Unsaved
<1> QED
  BY <1>1 DEF FlowInv, StopsCount

LEMMA FlowStart == FlowInit => FlowInv
<1> SUFFICES ASSUME FlowInit PROVE FlowInv
  OBVIOUS
<1>1. FlowTypeOK
  <2>1. /\ edges \subseteq FlowNodes \X FlowNodes /\ disabled \subseteq FlowNodes
        /\ ahead \in BOOLEAN /\ called \subseteq FlowNodes
    BY Zenon DEF FlowInit
  <2>2. /\ flow \in [status : FlowStatuses, version : Nat]
        /\ node \in [FlowNodes -> NodeStatuses \ {"running"}]
        /\ asks \in [FlowClients ->
                       {NoAsk} \cup [target : {"running", "paused", "cancelled"}, seen : Nat]]
    BY DEF FlowInit, Fresh, NodeStatuses, Passed, Failed, FlowStatuses, RunTransitions
  <2>3. engine \in [pc : {"idle", "round", "look", "call", "adapter", "evaluate", "verdict"},
                    mem : [FlowNodes -> NodeStatuses], todo : SUBSET FlowNodes,
                    seen : [status : FlowStatuses, version : Nat]]
    BY DEF FlowInit, Idle, NodeStatuses, FlowStatuses, RunTransitions
  <2>4. /\ repeats \in Nat /\ late \in Nat
        /\ stops \in 0 .. MaxStops /\ forks \in 0 .. MaxForks
    BY FlowAssumption DEF FlowInit
  <2> QED
    BY <2>1, <2>2, <2>3, <2>4, Zenon DEF FlowTypeOK
<1>2. Unsaved = {}
  BY DEF FlowInit, Unsaved
<1>3. StopsCount
  BY <1>2, FS_EmptySet DEF FlowInit, StopsCount, Idle
<1> QED
  BY <1>1, <1>3
     DEF FlowInit, FlowInv, SessionFollows, RoundWaits, OneIsCalled, LateIsAfterLook, Idle

-----------------------------------------------------------------------------
(* Requests. *)

LEMMA AskKeeps ==
    ASSUME FlowInv, NEW c \in FlowClients,
           NEW target \in {"running", "paused", "cancelled"}, AskMove(c, target)
    PROVE  FlowInv'
<1>1. FlowTypeOK'
  BY DEF AskMove, FlowInv, FlowTypeOK, given
<1>2. UNCHANGED <<flow, node, engine, called, repeats, late, stops, Unsaved>>
  BY DEF AskMove, Unsaved
<1> QED
  BY <1>1, <1>2 DEF FlowInv, SessionFollows, RoundWaits, OneIsCalled, StopsCount,
                    LateIsAfterLook, Foremost

LEMMA MoveKeeps ==
    ASSUME FlowInv, NEW c \in FlowClients, MoveRun(c)
    PROVE  FlowInv'
<1>1. /\ asks[c].target \in {"running", "paused", "cancelled"}
      /\ asks[c].seen \in Nat
  <2>1. asks[c] \in [target : {"running", "paused", "cancelled"}, seen : Nat]
    BY DEF FlowInv, FlowTypeOK, MoveRun
  <2> QED
    BY <2>1, Zenon
<1>2. FlowTypeOK'
  BY <1>1 DEF MoveRun, Move, FlowInv, FlowTypeOK, FlowStatuses, RunTransitions, NoAsk, given
<1>3. UNCHANGED <<node, engine, called, repeats, stops, Unsaved>>
  BY DEF MoveRun, Unsaved
<1>4. LateIsAfterLook'
  BY <1>3 DEF MoveRun, Move, FlowInv, LateIsAfterLook
<1> QED
  BY <1>2, <1>3, <1>4
     DEF FlowInv, SessionFollows, RoundWaits, OneIsCalled, StopsCount, Foremost

LEMMA RetryKeeps ==
    ASSUME FlowInv, NEW n \in FlowNodes, RetryRunFromNode(n)
    PROVE  FlowInv'
<1>1. \A k \in FlowNodes : Replanned(n, k) \in Waiting \union Passed
  BY DEF Replanned, Fresh, Waiting
<1>2. FlowTypeOK'
  BY <1>1, FlowAssumption
     DEF RetryRunFromNode, FlowInv, FlowTypeOK, Waiting, Passed, NodeStatuses, NoAsk,
         FlowStatuses, RunTransitions, given
<1>3. Unsaved' = {}
  BY DEF Unsaved, RetryRunFromNode, Waiting
<1>4. repeats \in Nat /\ stops \in Nat /\ repeats <= stops
  BY UnsavedFinite
     DEF FlowInv, FlowTypeOK, StopsCount, RetryRunFromNode, Idle
<1>5. StopsCount'
  BY <1>3, <1>4, FS_EmptySet DEF RetryRunFromNode, StopsCount, Idle
<1> QED
  BY <1>2, <1>5 DEF RetryRunFromNode, FlowInv, SessionFollows, RoundWaits, OneIsCalled,
                    LateIsAfterLook, Idle

-----------------------------------------------------------------------------
(* The executor. *)

LEMMA TakeRunKeeps ==
    ASSUME FlowInv, TakeRun
    PROVE  FlowInv'
<1> USE DEF FlowInv
<1>1. FlowTypeOK'
  BY DEF TakeRun, EngineAt, FlowTypeOK, Calls, given
<1>2. StopsCount'
  BY EngineMoves DEF TakeRun, EngineAt, Calls, FlowTypeOK
<1>3. /\ engine'.pc = "round" /\ engine'.mem = node /\ engine'.todo = engine.todo
      /\ UNCHANGED <<node, flow, late>>
  BY DEF TakeRun, EngineAt, Calls, FlowTypeOK
<1>4. engine.todo = {}
  BY DEF TakeRun, EngineAt, RoundWaits
<1> QED
  BY <1>1, <1>2, <1>3, <1>4
     DEF SessionFollows, RoundWaits, OneIsCalled, LateIsAfterLook

LEMMA RoundKeeps ==
    ASSUME FlowInv, Round
    PROVE  FlowInv'
<1> USE DEF FlowInv
<1> DEFINE mem == SkippedIn(engine.mem)
<1>1. /\ engine.pc = "round" /\ engine.todo = {}
      /\ UNCHANGED <<given, flow, node, asks, called, repeats, late, stops, forks>>
  BY DEF Round, EngineAt, Calls, RoundWaits
<1>2. /\ mem \in [FlowNodes -> NodeStatuses]
      /\ \A n \in FlowNodes : mem[n] = node[n] \/ (mem[n] = "skipped" /\ node[n] = "blocked")
  BY <1>1 DEF SkippedIn, FlowTypeOK, NodeStatuses, Passed, SessionFollows
<1>3. ReadyIn(mem) \subseteq FlowNodes /\ \A n \in ReadyIn(mem) : mem[n] \in Waiting
  BY DEF ReadyIn, Waiting
<1> HIDE DEF mem
<1>4. \/ engine' = [engine EXCEPT !.pc = "evaluate"]
      \/ engine' = Idle
      \/ \E pc \in {"evaluate", "look"} :
           /\ engine' = [engine EXCEPT !.pc = pc, !.mem = mem, !.todo = ReadyIn(mem)]
           /\ pc = "evaluate" => ReadyIn(mem) = {}
  BY DEF Round, mem
<1>5. /\ FlowTypeOK'
      /\ engine'.pc \in {"evaluate", "idle", "look"}
      /\ RoundWaits'
      /\ SessionFollows'
  <2>1. CASE engine' = [engine EXCEPT !.pc = "evaluate"]
    BY <1>1, <2>1 DEF FlowTypeOK, RoundWaits, SessionFollows, given
  <2>2. CASE engine' = Idle
    BY <1>1, <2>2 DEF FlowTypeOK, RoundWaits, SessionFollows, given, Idle, NodeStatuses,
                      FlowStatuses, RunTransitions
  <2>3. ASSUME NEW pc \in {"evaluate", "look"},
               engine' = [engine EXCEPT !.pc = pc, !.mem = mem, !.todo = ReadyIn(mem)],
               pc = "evaluate" => ReadyIn(mem) = {}
        PROVE  /\ FlowTypeOK'
               /\ engine'.pc \in {"evaluate", "idle", "look"}
               /\ RoundWaits'
               /\ SessionFollows'
    BY <1>1, <1>2, <1>3, <2>3 DEF FlowTypeOK, RoundWaits, SessionFollows, given
  <2> QED
    BY <1>4, <2>1, <2>2, <2>3
<1>6. StopsCount'
  BY <1>1, <1>5, EngineMoves
<1> QED
  BY <1>1, <1>5, <1>6 DEF OneIsCalled, LateIsAfterLook

LEMMA LookKeeps ==
    ASSUME FlowInv, Look
    PROVE  FlowInv'
<1> USE DEF FlowInv
<1>1. /\ engine.pc = "look"
      /\ UNCHANGED <<given, flow, node, asks, called, repeats, late, stops, forks>>
  BY DEF Look, EngineAt, Calls
<1>2. \/ flow.status = "running" /\ engine' = [engine EXCEPT !.pc = "call"]
      \/ engine' = [engine EXCEPT !.pc = "round", !.todo = {}]
  BY DEF Look
<1>3. FlowTypeOK' /\ engine'.pc \in {"call", "round"} /\ engine'.mem = engine.mem
  BY <1>1, <1>2 DEF FlowTypeOK, given
<1>4. SessionFollows'
  BY <1>1, <1>3 DEF SessionFollows
<1>5. RoundWaits'
  BY <1>1, <1>2, <1>3 DEF RoundWaits, FlowTypeOK
<1>6. StopsCount'
  BY <1>1, <1>3, EngineMoves
<1>7. LateIsAfterLook'
  BY <1>1, <1>2 DEF LateIsAfterLook, FlowTypeOK
<1> QED
  BY <1>3, <1>4, <1>5, <1>6, <1>7 DEF OneIsCalled

LEMMA CallKeeps ==
    ASSUME FlowInv, NEW n \in FlowNodes, CallAdapter(n)
    PROVE  FlowInv'
<1> USE DEF FlowInv
<1>1. /\ engine.pc = "call" /\ Foremost(n)
      /\ engine' = [engine EXCEPT !.pc = "adapter", !.mem[n] = "running"]
      /\ called' = called \cup {n}
      /\ repeats' = IF n \in called THEN repeats + 1 ELSE repeats
      /\ UNCHANGED <<given, flow, node, asks, stops, forks>>
  BY DEF CallAdapter, EngineAt
<1>2. /\ engine'.pc = "adapter" /\ engine'.todo = engine.todo
      /\ engine'.mem = [engine.mem EXCEPT ![n] = "running"]
      /\ engine'.mem \in [FlowNodes -> NodeStatuses]
      /\ engine'.seen = engine.seen
  BY <1>1 DEF FlowTypeOK, NodeStatuses
<1>3. LateIsAfterLook' /\ late' \in Nat
  BY <1>1, <1>2 DEF CallAdapter, LateIsAfterLook, FlowTypeOK
<1>4. FlowTypeOK'
  <2>1. called' \subseteq FlowNodes /\ repeats' \in Nat
    BY <1>1 DEF FlowTypeOK
  <2>2. engine' \in [pc : {"idle", "round", "look", "call", "adapter", "evaluate", "verdict"},
                     mem : [FlowNodes -> NodeStatuses], todo : SUBSET FlowNodes,
                     seen : [status : FlowStatuses, version : Nat]]
    BY <1>1, <1>2 DEF FlowTypeOK
  <2> QED
    BY <1>1, <1>3, <2>1, <2>2 DEF FlowTypeOK, given
<1>5. \A m \in FlowNodes : Foremost(m) => m = n
  BY <1>1, FlowAssumption DEF Foremost
<1>6. node[n] \in Waiting
  BY <1>1 DEF RoundWaits, SessionFollows, Foremost, Waiting
<1>7. SessionFollows' /\ RoundWaits' /\ OneIsCalled'
  BY <1>1, <1>2, <1>5, <1>6
     DEF SessionFollows, RoundWaits, OneIsCalled, Foremost, FlowTypeOK
<1>8. StopsCount'
  <2>1. Unsaved' = Unsaved \union {n}
    BY <1>1, <1>6 DEF Unsaved
  <2>2. n \in called => Unsaved' = Unsaved
    BY <1>6, <2>1 DEF Unsaved
  <2>3. repeats \in Nat /\ stops \in Nat
    BY DEF FlowTypeOK
  <2>4. repeats + Cardinality(Unsaved) <= stops /\ stops' = stops
    BY <1>1 DEF StopsCount
  <2>5. CASE n \in called
    BY <1>1, <2>2, <2>3, <2>4, <2>5, <1>2, UnsavedFinite DEF StopsCount
  <2>6. CASE n \notin called
    <3>1. Cardinality(Unsaved') \in Nat /\ Cardinality(Unsaved') <= Cardinality(Unsaved) + 1
      BY <2>1, OneMoreUnsaved
    <3>2. repeats' = repeats /\ engine'.pc = "adapter" /\ engine.pc # "adapter"
      BY <1>1, <1>2, <2>6
    <3>3. repeats + Cardinality(Unsaved) <= stops
      BY <2>4, <3>2
    <3> QED
      BY <2>3, <2>4, <3>1, <3>2, <3>3, UnsavedFinite DEF StopsCount
  <2> QED
    BY <2>5, <2>6
<1> QED
  BY <1>3, <1>4, <1>7, <1>8

LEMMA ReturnKeeps ==
    ASSUME FlowInv, NEW n \in FlowNodes, AdapterReturns(n)
    PROVE  FlowInv'
<1> USE DEF FlowInv
<1>1. /\ engine.pc = "adapter" /\ Foremost(n)
      /\ UNCHANGED <<given, flow, asks, called, repeats, late, stops, forks>>
      /\ node' = engine'.mem
  BY DEF AdapterReturns, EngineAt, Calls
<1>2. PICK outcome \in {"succeeded"} \cup Failed :
        engine' = [engine EXCEPT !.pc = IF engine.todo = {n} THEN "round" ELSE "look",
                                 !.mem[n] = outcome, !.todo = @ \ {n}]
  BY DEF AdapterReturns
<1>3. /\ engine'.pc \in {"round", "look"} /\ engine'.todo = engine.todo \ {n}
      /\ engine'.pc = "round" => engine'.todo = {}
      /\ node' = [engine.mem EXCEPT ![n] = outcome]
      /\ engine'.mem = node' /\ engine'.seen = engine.seen
  BY <1>1, <1>2 DEF FlowTypeOK
<1>4. \A m \in FlowNodes : Foremost(m) => m = n
  BY <1>1, FlowAssumption DEF Foremost
<1>5. \A m \in FlowNodes \ {n} :
        node'[m] = node[m] \/ (node'[m] = "skipped" /\ node[m] = "blocked")
  BY <1>1, <1>3, <1>4 DEF SessionFollows, FlowTypeOK
<1>6. /\ outcome \in NodeStatuses \ {"running"} /\ outcome \notin Waiting
      /\ "skipped" \in NodeStatuses \ {"running"} /\ "skipped" \notin Waiting
  BY DEF NodeStatuses, Failed, Passed, Waiting
<1>7. node' \in [FlowNodes -> NodeStatuses \ {"running"}] /\ node'[n] = outcome
  BY <1>3, <1>5, <1>6 DEF FlowTypeOK
<1>8. FlowTypeOK'
  BY <1>1, <1>2, <1>3, <1>7 DEF FlowTypeOK, given
<1>9. SessionFollows' /\ RoundWaits' /\ OneIsCalled'
  BY <1>1, <1>3, <1>4, <1>7
     DEF SessionFollows, RoundWaits, OneIsCalled, FlowTypeOK
<1>10. StopsCount'
  <2>1. n \in Unsaved
    BY <1>1, <1>4 DEF OneIsCalled, Unsaved
  <2>2. Unsaved' \subseteq Unsaved \ {n}
    BY <1>1, <1>5, <1>6, <1>7 DEF Unsaved, FlowTypeOK
  <2>3. repeats \in Nat /\ stops \in Nat
    BY DEF FlowTypeOK
  <2> QED
    BY <1>1, <1>3, <2>1, <2>2, <2>3, OneLessUnsaved, UnsavedFinite DEF StopsCount
<1> QED
  BY <1>1, <1>3, <1>8, <1>9, <1>10 DEF LateIsAfterLook

LEMMA EvaluateKeeps ==
    ASSUME FlowInv, Evaluate
    PROVE  FlowInv'
<1> USE DEF FlowInv
<1>1. /\ engine.pc = "evaluate"
      /\ engine' = [engine EXCEPT !.pc = "verdict", !.seen = flow]
      /\ UNCHANGED <<given, flow, node, asks, called, repeats, late, stops, forks>>
  BY DEF Evaluate, EngineAt, Calls
<1>2. FlowTypeOK' /\ engine'.pc = "verdict" /\ engine'.mem = engine.mem /\ engine'.todo = {}
  BY <1>1 DEF FlowTypeOK, given, RoundWaits
<1>3. StopsCount'
  BY <1>1, <1>2, EngineMoves
<1> QED
  BY <1>1, <1>2, <1>3 DEF SessionFollows, RoundWaits, OneIsCalled, LateIsAfterLook

LEMMA ConcludeKeeps ==
    ASSUME FlowInv, Conclude
    PROVE  FlowInv'
<1> USE DEF FlowInv
<1>1. /\ engine.pc = "verdict"
      /\ engine' = Idle /\ node' = engine.mem
      /\ UNCHANGED <<given, asks, called, repeats, late, stops, forks>>
  BY DEF Conclude, EngineAt, Calls
<1>2. RunVerdict \in {"none", "waiting_review", "succeeded", "failed"}
  BY DEF RunVerdict
<1>3. /\ flow' \in [status : FlowStatuses, version : Nat]
      /\ flow' = flow \/ flow'.status # "running"
  BY <1>2 DEF Conclude, FlowTypeOK, FlowStatuses, RunTransitions
<1>4. \A n \in FlowNodes :
        node'[n] = node[n] \/ (node'[n] = "skipped" /\ node[n] = "blocked")
  BY <1>1 DEF SessionFollows
<1>5. node' \in [FlowNodes -> NodeStatuses \ {"running"}]
  BY <1>1, <1>4 DEF FlowTypeOK, NodeStatuses, Passed
<1>6. FlowTypeOK'
  BY <1>1, <1>3, <1>5 DEF FlowTypeOK, given, Idle, NodeStatuses, FlowStatuses, RunTransitions
<1>7. Unsaved' \subseteq Unsaved
  BY <1>1, <1>4 DEF Unsaved, Waiting, FlowTypeOK
<1>8. StopsCount'
  BY <1>1, <1>7, FewerUnsaved, UnsavedFinite DEF StopsCount, Idle, FlowTypeOK
<1> QED
  BY <1>1, <1>3, <1>6, <1>8
     DEF SessionFollows, RoundWaits, OneIsCalled, LateIsAfterLook, Idle

LEMMA StopKeeps ==
    ASSUME FlowInv, TickStops
    PROVE  FlowInv'
<1> USE DEF FlowInv
<1>1. /\ engine' = Idle /\ stops' = stops + 1 /\ stops < MaxStops
      /\ UNCHANGED <<given, flow, node, asks, called, repeats, late, forks, Unsaved>>
  BY DEF TickStops, Unsaved
<1>2. FlowTypeOK'
  BY <1>1, FlowAssumption
     DEF FlowTypeOK, given, Idle, NodeStatuses, FlowStatuses, RunTransitions
<1>3. StopsCount'
  BY <1>1, UnsavedFinite DEF StopsCount, Idle, FlowTypeOK
<1> QED
  BY <1>1, <1>2, <1>3
     DEF SessionFollows, RoundWaits, OneIsCalled, LateIsAfterLook, Idle

LEMMA OlderRunsKeep ==
    ASSUME FlowInv, OlderRuns
    PROVE  FlowInv'
<1>1. /\ ahead' \in BOOLEAN
      /\ UNCHANGED <<edges, disabled, flow, node, engine, asks, called, repeats, late, stops,
                     forks, Unsaved>>
  BY Zenon DEF OlderRuns, Calls, Unsaved
<1> QED
  BY <1>1 DEF FlowInv, FlowTypeOK, SessionFollows, RoundWaits, OneIsCalled, StopsCount,
              LateIsAfterLook, Foremost

LEMMA FlowStep == FlowInv /\ [FlowNext]_flowVars => FlowInv'
<1> SUFFICES ASSUME FlowInv, [FlowNext]_flowVars PROVE FlowInv'
  OBVIOUS
<1>1. CASE UNCHANGED flowVars
  <2>1. UNCHANGED <<edges, disabled, ahead, flow, node, engine, asks, called, repeats, late, stops,
                    forks, Unsaved>>
    BY <1>1 DEF flowVars, Unsaved
  <2> QED
    BY <2>1 DEF FlowInv, FlowTypeOK, SessionFollows, RoundWaits, OneIsCalled, StopsCount,
                LateIsAfterLook, Foremost
<1>2. CASE Execute
  BY <1>2, TakeRunKeeps, RoundKeeps, LookKeeps, CallKeeps, ReturnKeeps, EvaluateKeeps,
     ConcludeKeeps DEF Execute
<1> QED
  BY <1>1, <1>2, AskKeeps, MoveKeeps, RetryKeeps, StopKeeps, OlderRunsKeep DEF FlowNext

-----------------------------------------------------------------------------
\* Whatever the graph, the requests, the stops and the retries of a run
\* (workflow_execution.py, workflows.py), its rows and the executor's session
\* keep their invariant.
THEOREM FlowCorrect == FlowSpec => []FlowInv
BY FlowStart, FlowStep, PTL DEF FlowSpec

\* The rows of a run and the executor's session stay well formed; no committed
\* node row says running, so that nothing has to be recovered after a crash.
THEOREM FlowTypeCorrect == FlowSpec => []FlowTypeOK
<1>1. FlowInv => FlowTypeOK
  BY DEF FlowInv
<1> QED
  BY <1>1, FlowCorrect, PTL

\* A pause or a cancel lets at most one more node start (the refresh before each
\* node of run_workflow_run), in a graph of any size.
THEOREM StopsAreHeeded == FlowSpec => []StopIsHeeded
<1>1. FlowInv => StopIsHeeded
  BY DEF FlowInv, LateIsAfterLook, StopIsHeeded
<1> QED
  BY <1>1, FlowCorrect, PTL

\* A node is executed again at most once per tick cut short, however often the
\* run is paused, resumed or retried from a failed node (the commit after each
\* node, retry_run_from_node).
THEOREM RepeatsArePaidFor == FlowSpec => []RepeatsAreCounted
<1>1. FlowInv => RepeatsAreCounted
  <2> SUFFICES ASSUME FlowInv PROVE RepeatsAreCounted
    OBVIOUS
  <2>1. repeats \in Nat /\ stops \in Nat /\ Cardinality(Unsaved) \in Nat
    BY UnsavedFinite DEF FlowInv, FlowTypeOK
  <2>2. engine.pc = "adapter" => Cardinality(Unsaved) >= 1
    <3> SUFFICES ASSUME engine.pc = "adapter" PROVE Cardinality(Unsaved) >= 1
      OBVIOUS
    <3>1. PICK n \in FlowNodes : n \in Unsaved
      BY DEF FlowInv, OneIsCalled, Unsaved
    <3>2. Cardinality(Unsaved) # 0
      BY <3>1, FS_EmptySet, UnsavedFinite DEF FlowInv
    <3> QED
      BY <2>1, <3>2
  <2> QED
    BY <2>1, <2>2 DEF FlowInv, StopsCount, RepeatsAreCounted
<1> QED
  BY <1>1, FlowCorrect, PTL

-----------------------------------------------------------------------------
(* What is started downstream of a failure.  DownstreamStaysBlocked, what  *)
(* the docstring promises, does not hold of the code; this is what does.   *)

\* Whatever is neither blocked nor skipped is past nodes that passed, and only
\* disabled nodes are skipped.
IsOrderly(rows) ==
    \A n \in FlowNodes :
        /\ rows[n] = "skipped" => n \in disabled
        /\ rows[n] \notin {"blocked", "skipped"} => \A m \in Upstream(n) : rows[m] \in Passed

\* The rows are orderly, so is the session, and the nodes of the round, which
\* were listed when the round began, still are ready.
FlowIsOrderly ==
    /\ \A n \in FlowNodes : \A m \in Upstream(n) : m < n
    /\ IsOrderly(node)
    /\ IsOrderly(engine.mem)
    /\ \A n \in engine.todo : \A m \in Upstream(n) : engine.mem[m] \in Passed

\* The nodes that m reaches over enabled ones.
Within(S, m) == \A e \in edges : (e[1] = m \/ e[1] \in S) /\ e[2] \notin disabled => e[2] \in S
EnabledPast(m) == {n \in FlowNodes : \A S \in SUBSET FlowNodes : Within(S, m) => n \in S}

LEMMA OrderlyStart == FlowInit => FlowIsOrderly
<1> SUFFICES ASSUME FlowInit PROVE FlowIsOrderly
  OBVIOUS
<1>1. \A n \in FlowNodes : \A m \in Upstream(n) : m < n
  BY DEF FlowInit, Upstream
<1>2. \A n \in FlowNodes : Fresh(n) = "blocked" \/ (Fresh(n) = "ready" /\ Upstream(n) = {})
  BY DEF Fresh
<1> QED
  BY <1>1, <1>2 DEF FlowInit, FlowIsOrderly, IsOrderly, Idle

\* Nothing downstream of a node is before it.
LEMMA DownstreamIsLater ==
    ASSUME FlowIsOrderly, FlowTypeOK, NEW n \in FlowNodes, NEW k \in Downstream(n)
    PROVE  n < k
<1> DEFINE S == {j \in FlowNodes : n < j}
<1>1. ASSUME NEW e \in edges, e[1] = n \/ e[1] \in S
      PROVE  e[2] \in S
  <2>1. e[1] \in FlowNodes /\ e[2] \in FlowNodes /\ e = <<e[1], e[2]>>
    BY DEF FlowTypeOK
  <2>2. e[1] < e[2]
    BY <2>1 DEF FlowIsOrderly, Upstream
  <2> QED
    BY <1>1, <2>1, <2>2, FlowAssumption
<1>2. Closed(S, n)
  BY <1>1 DEF Closed
<1> QED
  BY <1>2 DEF Downstream

\* A retry keeps what passed and was not downstream of the node it starts from;
\* what that rested on is not downstream of it either.
LEMMA RetryOrderly ==
    ASSUME FlowInv, FlowIsOrderly, NEW n \in FlowNodes, RetryRunFromNode(n)
    PROVE  FlowIsOrderly'
<1>1. /\ node[n] \in Failed /\ node' = [k \in FlowNodes |-> Replanned(n, k)]
      /\ UNCHANGED <<edges, disabled, engine>>
  BY DEF RetryRunFromNode, given
<1>2. \A k \in FlowNodes : \A m \in Upstream(k) : m \in Downstream(n) \/ m = n => k \in Downstream(n)
  BY DEF Upstream, Downstream, Closed
<1>3. \A m \in Upstream(n) : m \notin Downstream(n) /\ m # n /\ node[m] \in Passed
  <2> TAKE m \in Upstream(n)
  <2>1. m < n /\ m \in FlowNodes
    BY DEF FlowIsOrderly, Upstream
  <2>2. ~(n < m) /\ m # n
    BY <2>1, FlowAssumption
  <2>3. m \notin Downstream(n)
    BY <2>2, DownstreamIsLater DEF FlowInv
  <2> QED
    BY <1>1, <2>2, <2>3 DEF FlowIsOrderly, IsOrderly, Failed
<1>4. ASSUME NEW k \in FlowNodes, node'[k] # "blocked"
      PROVE  /\ node'[k] = "skipped" => k \in disabled
             /\ node'[k] # "skipped" => \A m \in Upstream(k) : node'[m] \in Passed
  <2>1. node'[k] = Replanned(n, k) /\ Upstream(k) \subseteq FlowNodes
    BY <1>1 DEF Upstream
  <2>2. \A m \in FlowNodes : m # n /\ m \notin Downstream(n) /\ node[m] \in Passed
                             => node'[m] \in Passed
    BY <1>1 DEF Replanned
  <2>3. CASE k = n
    BY <1>3, <2>1, <2>2, <2>3 DEF Replanned
  <2>4. CASE k # n /\ node[k] \in Passed
    <3>1. k \notin Downstream(n) /\ node'[k] = node[k]
      BY <1>4, <2>1, <2>4 DEF Replanned
    <3>2. \A m \in Upstream(k) : m \notin Downstream(n) /\ m # n
      BY <1>2, <3>1
    <3> QED
      BY <2>1, <2>2, <2>4, <3>1, <3>2 DEF FlowIsOrderly, IsOrderly, Passed
  <2>5. CASE k # n /\ node[k] \notin Passed
    BY <1>4, <2>1, <2>5 DEF Replanned, Fresh
  <2> QED
    BY <2>3, <2>4, <2>5
<1>5. IsOrderly(node)'
  BY <1>1, <1>4 DEF IsOrderly, Upstream
<1> QED
  BY <1>1, <1>5 DEF FlowIsOrderly, IsOrderly, Upstream

\* Only a node that has not passed changes its status, so that no other loses
\* what it rests on.
LEMMA SessionOrderly ==
    ASSUME FlowInv, FlowIsOrderly, NEW n \in FlowNodes, CallAdapter(n) \/ AdapterReturns(n)
    PROVE  FlowIsOrderly'
<1> USE DEF FlowInv
<1>1. PICK pc \in {"adapter", "round", "look"},
           status \in NodeStatuses \ {"blocked", "skipped"}, rest \in SUBSET engine.todo :
        engine' = [engine EXCEPT !.pc = pc, !.mem[n] = status, !.todo = rest]
  <2>1. CASE CallAdapter(n)
    <3>1. engine' = [engine EXCEPT !.pc = "adapter", !.mem[n] = "running", !.todo = engine.todo]
      BY <2>1 DEF CallAdapter, EngineAt, FlowTypeOK
    <3> QED
      BY <3>1 DEF NodeStatuses
  <2>2. CASE AdapterReturns(n)
    <3>1. PICK outcome \in {"succeeded"} \cup Failed :
            engine' = [engine EXCEPT !.pc = IF engine.todo = {n} THEN "round" ELSE "look",
                                     !.mem[n] = outcome, !.todo = @ \ {n}]
      BY <2>2 DEF AdapterReturns
    <3>2. outcome \in NodeStatuses \ {"blocked", "skipped"} /\ engine.todo \ {n} \in SUBSET engine.todo
      BY DEF NodeStatuses, Failed, Passed
    <3> QED
      BY <3>1, <3>2
  <2> QED
    BY <2>1, <2>2
<1>2. /\ Foremost(n) /\ n \in engine.todo
      /\ UNCHANGED given
      /\ node' = node \/ node' = engine'.mem
      /\ engine'.todo \subseteq engine.todo
      /\ engine'.mem = [engine.mem EXCEPT ![n] = status]
  BY <1>1 DEF CallAdapter, AdapterReturns, EngineAt, Foremost, FlowTypeOK
<1>3. engine.mem[n] \notin Passed
  <2>1. CASE CallAdapter(n)
    BY <1>2, <2>1 DEF CallAdapter, EngineAt, RoundWaits, Waiting, Passed
  <2>2. CASE AdapterReturns(n)
    <3>1. PICK m \in FlowNodes : Foremost(m) /\ engine.mem[m] = "running"
      BY <2>2 DEF AdapterReturns, EngineAt, OneIsCalled
    <3>2. m = n
      BY <1>2, <3>1, FlowAssumption DEF Foremost
    <3> QED
      BY <3>1, <3>2 DEF Passed
  <2> QED
    BY <2>1, <2>2
<1>4. \A m \in FlowNodes : engine.mem[m] \in Passed => engine'.mem[m] \in Passed
  BY <1>2, <1>3 DEF FlowTypeOK
<1>5. IsOrderly(engine'.mem)
  <2>1. \A m \in Upstream(n) : engine.mem[m] \in Passed
    BY <1>2 DEF FlowIsOrderly
  <2>2. \A k \in FlowNodes : Upstream(k) \subseteq FlowNodes
    BY DEF Upstream
  <2> QED
    BY <1>2, <1>4, <2>1, <2>2 DEF FlowIsOrderly, IsOrderly, FlowTypeOK
<1>6. \A k \in engine'.todo : \A m \in Upstream(k) : engine'.mem[m] \in Passed
  BY <1>2, <1>4 DEF FlowIsOrderly, Upstream
<1> QED
  BY <1>2, <1>5, <1>6 DEF FlowIsOrderly, IsOrderly, Upstream, given

LEMMA RoundOrderly ==
    ASSUME FlowInv, FlowIsOrderly, Round
    PROVE  FlowIsOrderly'
<1> USE DEF FlowInv
<1> DEFINE mem == SkippedIn(engine.mem)
<1>1. engine.todo = {} /\ UNCHANGED <<given, node>>
  BY DEF Round, EngineAt, RoundWaits
<1>2. IsOrderly(mem)
  <2>1. \A n \in FlowNodes :
          \/ mem[n] = engine.mem[n]
          \/ mem[n] = "skipped" /\ engine.mem[n] = "blocked" /\ n \in disabled
    BY DEF SkippedIn
  <2>2. \A n \in FlowNodes : Upstream(n) \subseteq FlowNodes
    BY DEF Upstream
  <2> HIDE DEF mem
  <2> QED
    BY <2>1, <2>2 DEF FlowIsOrderly, IsOrderly, Passed
<1>3. \A n \in ReadyIn(mem) : \A m \in Upstream(n) : mem[m] \in Passed
  BY DEF ReadyIn
<1> HIDE DEF mem
<1>4. \/ engine'.mem = engine.mem /\ engine'.todo = {}
      \/ engine' = Idle
      \/ engine'.mem = mem /\ engine'.todo = ReadyIn(mem)
  BY <1>1 DEF Round, mem, FlowTypeOK
<1> QED
  BY <1>1, <1>2, <1>3, <1>4 DEF FlowIsOrderly, IsOrderly, Upstream, given, Idle

LEMMA OrderlyStep ==
    FlowInv /\ FlowIsOrderly /\ [FlowNext]_flowVars => FlowIsOrderly'
<1> SUFFICES ASSUME FlowInv, FlowIsOrderly, [FlowNext]_flowVars PROVE FlowIsOrderly'
  OBVIOUS
<1> USE DEF FlowInv
<1>1. ASSUME UNCHANGED <<edges, disabled, node>>,
             \/ engine'.mem = engine.mem /\ engine'.todo \in {engine.todo, {}}
             \/ engine'.mem = node /\ engine'.todo = {}
             \/ engine' = Idle
      PROVE  FlowIsOrderly'
  BY <1>1 DEF FlowIsOrderly, IsOrderly, Upstream, given, Idle
<1>2. CASE TakeRun
  BY <1>1, <1>2 DEF TakeRun, EngineAt, given, RoundWaits, FlowTypeOK
<1>3. CASE Look \/ Evaluate
  BY <1>1, <1>3 DEF Look, Evaluate, EngineAt, given, FlowTypeOK
<1>4. CASE Conclude
  <2>1. node' = engine.mem /\ engine' = Idle /\ UNCHANGED given
    BY <1>4 DEF Conclude, EngineAt
  <2> QED
    BY <2>1 DEF FlowIsOrderly, IsOrderly, Upstream, given, Idle
<1>5. CASE TickStops
  BY <1>1, <1>5 DEF TickStops, given
<1>6. ASSUME NEW c \in FlowClients,
             MoveRun(c) \/ \E target \in {"running", "paused", "cancelled"} : AskMove(c, target)
      PROVE  FlowIsOrderly'
  BY <1>1, <1>6 DEF MoveRun, AskMove, given
<1>7. CASE OlderRuns \/ UNCHANGED flowVars
  BY <1>1, <1>7 DEF OlderRuns, flowVars
<1> QED
  BY <1>2, <1>3, <1>4, <1>5, <1>6, <1>7, RetryOrderly, SessionOrderly, RoundOrderly
     DEF FlowNext, Execute

\* A run's rows stay orderly, whatever is stopped, resumed and retried: what has
\* been started is past what it depends on.
THEOREM FlowOrderly == FlowSpec => []FlowIsOrderly
BY FlowCorrect, OrderlyStart, OrderlyStep, PTL DEF FlowSpec

\* No enabled node that a failed one reaches over enabled nodes is started.
EnabledStayBlocked ==
    \A m \in FlowNodes : node[m] \in Failed => \A n \in EnabledPast(m) : node[n] = "blocked"

LEMMA BlockedIsWithin ==
    ASSUME FlowTypeOK, FlowIsOrderly
    PROVE  EnabledStayBlocked
<1> SUFFICES ASSUME NEW m \in FlowNodes, node[m] \in Failed, NEW n \in EnabledPast(m)
             PROVE  node[n] = "blocked"
  BY DEF EnabledStayBlocked
<1> DEFINE S == {k \in FlowNodes : node[k] = "blocked"}
<1>1. ASSUME NEW e \in edges, e[1] = m \/ e[1] \in S, e[2] \notin disabled
      PROVE  e[2] \in S
  <2>1. e[1] \in FlowNodes /\ e[2] \in FlowNodes /\ e[1] \in Upstream(e[2])
    BY DEF FlowTypeOK, Upstream
  <2>2. node[e[1]] \notin Passed
    BY <1>1 DEF Failed, Passed
  <2> QED
    BY <1>1, <2>1, <2>2 DEF FlowIsOrderly, IsOrderly
<1>2. Within(S, m)
  BY <1>1 DEF Within
<1> QED
  BY <1>2 DEF EnabledPast

\* What lets a run go on past a failed node is a disabled one, and nothing else
\* (run_workflow_run skips a disabled node before it looks at what it depends
\* on): enabled nodes that a failed one reaches over enabled nodes are never
\* started, in a graph of any size and after any number of retries.
THEOREM OnlyDisabledNodesLetThrough == FlowSpec => []EnabledStayBlocked
<1>1. FlowInv => FlowTypeOK
  BY DEF FlowInv
<1> QED
  BY <1>1, BlockedIsWithin, FlowOrderly, FlowCorrect, PTL

\* The docstring's promise holds of every graph without a disabled node.
THEOREM WithoutDisabledDownstreamBlocks ==
    FlowSpec => [](disabled = {} => DownstreamStaysBlocked)
<1>1. EnabledStayBlocked /\ disabled = {} => DownstreamStaysBlocked
  BY DEF EnabledStayBlocked, EnabledPast, Within, DownstreamStaysBlocked, Downstream, Closed
<1> QED
  BY <1>1, OnlyDisabledNodesLetThrough, PTL

=============================================================================
