\* Two tasks on a video lane of one slot with cancel requests; one clip, made
\* twice, with a database error, cancel requests and a crash or a stop, forced or not.
CONSTANTS
    MaxTasks = 2
    clip1 = clip1
    clip2 = clip2
    still = still
    Resources <- Clips
    MediaOf <- MediaOfMade
    EpisodeOf <- EpisodeOfMade
    Providers <- MCProviders
    MaxBatch = 1
    Claimers = {loop}
    Cancellers = {c1}
    OpsRequeue = FALSE
    ProviderOf <- ProviderOfMade
    NonResumable = {}
    Cap <- OneVideoSlot
    MaxRestarts = 1
    MaxTrips = 0
    MaxDbErrors = 1
SPECIFICATION FaultsSpec
CHECK_DEADLOCK FALSE
INVARIANTS
    RunningIsOwned
    PaidAtMostOnce
    QueuedHasNoExecution
    SignalFollowsRow
PROPERTY
    FollowsService
