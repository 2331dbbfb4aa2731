\* A query and a disconnect; the interrupt the disconnect sends fails.
CONSTANTS
    q1 = q1
    q2 = q2
    q3 = q3
    i1 = i1
    i2 = i2
    d1 = d1
    Nothing = Nothing
    MayCancel = FALSE
    Commands <- PairCommands
    KindOf <- PairKind
SPECIFICATION ActorSpec
CHECK_DEADLOCK FALSE
INVARIANTS
    NoCallerHangs
