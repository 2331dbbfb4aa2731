\* One request at a time on a plan of two revisions, two jobs, one crash.
CONSTANTS
    Clients = {c1}
    MaxRevision = 2
    MaxJobs = 2
    MaxAttempts = 2
    BatchSize = 2
    MaxCrashes = 1
SPECIFICATION FairRenderSpec
INVARIANTS
    RenderTypeOK
    ApprovalsAreCurrent
PROPERTIES
    FollowsApproval
    InFlightEnds
