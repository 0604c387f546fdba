SPECIFICATION Spec
CONSTANTS
    Spans <- MCSpans
    Traces = {"t1", "t2"}
    TraceOf <- MCTraceOf
    StartOf <- MCStartOf
    Exports <- MCExports
    Carries <- MCCarries
    Threshold = 2
    Cooldown = 1
    MaxResends = 1
    MaxS3Faults = 3
    MaxFaults = 1
    MaxCrashes = 1
INVARIANTS
    AcknowledgedLands
    RowIsReadable
    LatestIsEvaluated
PROPERTIES
    RowsWiden
    GapsOnlyAfterFailure
CHECK_DEADLOCK FALSE
