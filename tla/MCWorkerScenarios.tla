--------------------------- MODULE MCWorkerScenarios ---------------------------
(* Scenarios of GenerationWorker, several to a run: an initial state picks one,  *)
(* and the bounds of each are conditions on the steps.  Their states add up.     *)
EXTENDS MCGenerationWorker

CONSTANTS clip1, clip2, still

VARIABLE scenario

\* Two clips of one lane, and a still whose lane the provider does not offer.
Clips == {clip1, clip2}
ClipsAndStill == Clips \union {still}
MediaOfMade == [r \in Resources |-> IF r = still THEN "image" ELSE "video"]
EpisodeOfMade == [r \in Resources |-> IF r = clip2 THEN "ep2" ELSE "ep1"]
ProviderOfMade == [r \in Resources |-> "ark"]

MadeOf(resources) == \A t \in Tasks : status'[t] # "absent" => key'[t] \in resources

\* Two clips across the crashes and stops, and nobody cancels.
Stops ==
    /\ scenario = "stops"
    /\ MadeOf(Clips)
    /\ \A c \in Cancellers : txn'[c] = NoTxn
    /\ bounds'.trips = 0 /\ mode' # "aborting"

\* One task, a cancel request, an outage and one crash or stop, a forced one too.
OneCancelled ==
    /\ scenario = "one cancelled"
    /\ MadeOf({clip1, still})
    /\ Cardinality(Present') <= 1
    /\ bounds'.restarts <= 1

\* Two clips that may depend on one another, cancel requests, nothing fails.
Cancels ==
    /\ scenario = "cancels"
    /\ bounds'.restarts = 0 /\ bounds'.dbErrors = 0 /\ mode' # "aborting"

\* One clip, made twice, a database error, cancel requests, a crash or any stop.
OneError ==
    /\ scenario = "errors"
    /\ MadeOf({clip1})

\* A clip is its episode's only one: to cancel the episode is to cancel its tasks,
\* which requests for one task and for everything do already.
NoEpisodes == \A c \in Cancellers : txn'[c].kind # "episode"

LiveNext == WorkerNext /\ (Stops \/ OneCancelled) /\ UNCHANGED scenario

LiveInit == WorkerInit /\ scenario \in {"stops", "one cancelled"}

LiveSpec ==
    /\ LiveInit
    /\ [][LiveNext]_<<vars, scenario>>
    /\ Fairness

FaultsNext == WorkerNext /\ (Cancels \/ OneError) /\ NoEpisodes /\ UNCHANGED scenario

FaultsInit == WorkerInit /\ scenario \in {"cancels", "errors"}

FaultsSpec ==
    /\ FaultsInit
    /\ [][FaultsNext]_<<vars, scenario>>
=============================================================================
