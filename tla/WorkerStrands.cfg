\* A cancel request commits while the loop routes the claimed task.
CONSTANTS
    MaxTasks = 1
    Resources <- MixedResources
    MediaOf <- MixedMediaOf
    EpisodeOf <- MixedEpisodeOf
    Providers <- MCProviders
    MaxBatch = 1
    Claimers = {loop}
    Cancellers = {c1}
    OpsRequeue = FALSE
    ProviderOf <- MixedProviderOf
    NonResumable = {}
    Cap <- OneVideoSlot
    MaxRestarts = 0
    MaxTrips = 0
    MaxDbErrors = 0
SPECIFICATION WorkerSpec
CHECK_DEADLOCK FALSE
INVARIANTS
    CancellingIsOwned
