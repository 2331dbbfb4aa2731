\* Two video tasks across two crashes or stops; one task, on a lane it may not
\* have, with a cancel request, an outage and a crash or a stop, forced or not.
CONSTANTS
    MaxTasks = 2
    clip1 = clip1
    clip2 = clip2
    still = still
    Resources <- ClipsAndStill
    MediaOf <- MediaOfMade
    EpisodeOf <- EpisodeOfMade
    Providers <- MCProviders
    MaxBatch = 1
    Claimers = {loop}
    Cancellers = {c1}
    OpsRequeue = FALSE
    ProviderOf <- ProviderOfMade
    NonResumable = {}
    Cap <- OneVideoSlot
    MaxRestarts = 2
    MaxTrips = 1
    MaxDbErrors = 0
SPECIFICATION LiveSpec
CHECK_DEADLOCK FALSE
INVARIANTS
    WorkerTypeOK
    CapacityRespected
PROPERTIES
    DispatchedEnds
    EveryTaskEnds
