------------------------------ MODULE MCServices ------------------------------
(* The components that share no state with one another, checked in one run:    *)
(* an initial state picks the component that runs, the others stay where they  *)
(* start.  Its states are the sum of the components' states, not the product.  *)
EXTENDS MCSessionActor, ProviderHealth, Publishing, CostLedger, WorkflowRun

VARIABLE turn

services == <<turn, healthVars, actorVars, publishVars, ledgerVars, flowVars>>

healthTurn ==
    /\ turn = "health"
    /\ UNCHANGED <<turn, actorVars, publishVars, ledgerVars, flowVars>>
actorTurn ==
    /\ turn = "actor"
    /\ UNCHANGED <<turn, healthVars, publishVars, ledgerVars, flowVars>>
publishTurn ==
    /\ turn = "publish"
    /\ UNCHANGED <<turn, healthVars, actorVars, ledgerVars, flowVars>>
ledgerTurn ==
    /\ turn = "ledger"
    /\ UNCHANGED <<turn, healthVars, actorVars, publishVars, flowVars>>
flowTurn ==
    /\ turn = "flow"
    /\ UNCHANGED <<turn, healthVars, actorVars, publishVars, ledgerVars>>

\* only the workflow run and the cost row have more than one initial state
ServicesInit ==
    /\ turn \in {"health", "actor", "publish", "ledger", "flow"}
    /\ HealthInit /\ ActorInit /\ PublishInit /\ LedgerInit /\ FlowInit
    /\ turn # "ledger" => task = "queued"
    /\ turn # "flow" => edges = {} /\ disabled = {}

ServicesNext ==
    \/ healthTurn /\ HealthNext
    \/ actorTurn /\ ActorNext
    \/ publishTurn /\ PublishNext
    \/ ledgerTurn /\ LedgerNext
    \/ flowTurn /\ FlowNext

\* Of the component that runs, the fairness its module states.
ServicesSpec ==
    /\ ServicesInit
    /\ [][ServicesNext]_services
    /\ WF_healthVars(turn = "health" /\ Tick)
    /\ WF_actorVars(turn = "actor" /\ GetCommand)
    /\ WF_actorVars(turn = "actor" /\ CommandArrives)
    /\ WF_actorVars(turn = "actor" /\ (StreamEnds \/ StreamFails \/ DriveStep))
    /\ WF_actorVars(turn = "actor" /\ CallReturns)
    /\ WF_publishVars(turn = "publish" /\ LeaseLapses)
    /\ \A w \in PublishWorkers : WF_publishVars(turn = "publish" /\ WorkerLoop(w))
    /\ WF_ledgerVars(turn = "ledger" /\ Startup)
    /\ WF_flowVars(turn = "flow" /\ Execute)
=============================================================================
