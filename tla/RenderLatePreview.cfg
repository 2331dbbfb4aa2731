\* A preview ends after the plan it was claimed for has been revised.
CONSTANTS
    Clients = {c1}
    MaxRevision = 2
    MaxJobs = 2
    MaxAttempts = 2
    BatchSize = 2
    MaxCrashes = 1
SPECIFICATION RenderSpec
INVARIANTS
    ReadyPreviewIsCurrent
