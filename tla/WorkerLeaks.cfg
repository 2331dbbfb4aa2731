\* A resumed task is cancelled before the dispatcher starts it.
CONSTANTS
    MaxTasks = 1
    Resources <- MixedResources
    MediaOf <- MixedMediaOf
    EpisodeOf <- MixedEpisodeOf
    Providers <- MCProviders
    MaxBatch = 1
    Claimers = {loop}
    Cancellers = {c1}
    OpsRequeue = FALSE
    ProviderOf <- MixedProviderOf
    NonResumable = {}
    Cap <- OneVideoSlot
    MaxRestarts = 1
    MaxTrips = 0
    MaxDbErrors = 0
SPECIFICATION WorkerSpec
CHECK_DEADLOCK FALSE
INVARIANTS
    NoSlotLeaks
