----------------------------- MODULE MCTaskTable -----------------------------
(* Two small instances of TaskTable in one: a chain of three rows inserted one *)
(* by one, with one claim at a time and an operator, and a race of several     *)
(* claimers over two rows, inserted one by one or together.                    *)
EXTENDS TaskTable, TLC

CONSTANTS board1, board2, clip

VARIABLE instance

ChainResources == {board1, board2, clip}
ChainMediaOf == [r \in ChainResources |-> IF r = clip THEN "video" ELSE "image"]
ChainEpisodeOf == [r \in ChainResources |-> IF r = clip THEN "ep2" ELSE "ep1"]

\* The boards are alike, and so are the callers.
TableSymmetry == Permutations({board1, board2})
                 \union Permutations(Claimers) \union Permutations(Cancellers)

Common ==
    \/ \E c \in Cancellers : CancelStep(c)
    \/ \E t \in Tasks : MarkSucceeded(t) \/ MarkFailed(t) \/ FinalizeCancelled(t)

ChainNext ==
    /\ instance = "chain"
    /\ \/ EnqueueBatch(1)
       \/ \E w \in Claimers : (\A v \in Claimers \ {w} : pick[v] = NoPick) /\ ClaimStep(w)
       \/ RequeueRunning
       \/ Common

RaceNext ==
    /\ instance = "race"
    /\ \/ \E n \in 1 .. MaxBatch : Cardinality(Present) + n <= 2 /\ EnqueueBatch(n)
       \/ \E w \in Claimers : ClaimStep(w)
       \/ Common

MCTableInit == TableInit /\ instance \in {"chain", "race"}
MCTableNext == (ChainNext \/ RaceNext) /\ UNCHANGED instance
MCTableSpec == MCTableInit /\ [][MCTableNext]_<<tableVars, instance>>
=============================================================================
