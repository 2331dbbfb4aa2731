\* A lane of twelve executions that may trip four times in a row; a session of
\* three queries, two interrupts and a disconnect; a publish job of two attempts
\* with two workers and two requests; a cost row across two crashes, where every
\* write may raise; a workflow run of three nodes, every graph of them, behind an
\* older run that may hold it up, with one request at a time, a crash and a retry.
CONSTANTS
    FailureThreshold = 3
    OpenSeconds = 3
    MaxOpenSeconds = 11
    BaseCapacity = 12
    FloatRounds = 3
    q1 = q1
    q2 = q2
    q3 = q3
    i1 = i1
    i2 = i2
    d1 = d1
    Nothing = Nothing
    MayCancel = TRUE
    Commands <- BusyCommands
    KindOf <- BusyKind
    PublishWorkers = {w1, w2}
    NoWorker = NoWorker
    GoneWorker = GoneWorker
    MaxSubmits = 2
    PublishClients = {r1, r2}
    MaxDeaths = 1
    MaxReboots = 2
    FlowNodes = {1, 2, 3}
    FlowClients = {u1}
    MaxVersion = 4
    MaxStops = 1
    MaxForks = 1
SPECIFICATION ServicesSpec
CHECK_DEADLOCK FALSE
INVARIANTS
    HealthTypeOK
    ActorTypeOK
    AnsweredUnlessTaken
    OneQueryAtATime
    PublishTypeOK
    PostsAreCounted
    OneCallPerLease
    EndedIsSettled
    FlowTypeOK
    StopIsHeeded
    RepeatsAreCounted
PROPERTIES
    FollowsCircuit
    CooldownIsKept
    OpenLaneIsProbed
    AnswerIsFinal
    ControlIsAnswered
    PublishingIsLeft
    SettledIsFinal
    RestartSettles
    RunsEnd
