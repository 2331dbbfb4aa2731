\* The process dies while a final render is running.
CONSTANTS
    Clients = {c1}
    MaxRevision = 1
    MaxJobs = 2
    MaxAttempts = 2
    BatchSize = 2
    MaxCrashes = 1
SPECIFICATION FairRenderSpec
PROPERTIES
    ReclaimedJobEnds
