\* A chain of three rows with an operator, and a race of two claimers over two rows;
\* one cancel request at a time.
CONSTANTS
    board1 = board1
    board2 = board2
    clip = clip
    MaxTasks = 3
    Resources <- ChainResources
    MediaOf <- ChainMediaOf
    EpisodeOf <- ChainEpisodeOf
    Providers = {}
    MaxBatch = 2
    Claimers = {w1, w2}
    Cancellers = {c1}
    OpsRequeue = TRUE
SPECIFICATION MCTableSpec
SYMMETRY TableSymmetry
CHECK_DEADLOCK FALSE
INVARIANTS
    TypeOK
    UniqueActive
    StartedAfterParent
    ClaimsAreExclusive
PROPERTIES
    NoChildLeftQueued
    AttributionIsFinal
    FollowsLifecycle
