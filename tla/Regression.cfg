SPECIFICATION FairSpec
CONSTANTS
    Items = {i1, i2}
    Clients = {c1, c2}
    MaxConcurrent = 1
    MaxFaults = 1
    MaxCrashes = 1
INVARIANTS
    SettledBeforeEvaluation
    EvaluatedStayCollected
    SummaryFromInner
    NoCallAfterEnd
    CancelReachesWorker
PROPERTIES
    KeepsLifecycle
    FaultRecorded
    RegressionEnds
CHECK_DEADLOCK FALSE
