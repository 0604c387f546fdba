SPECIFICATION FairSpec
CONSTANTS
    Listeners = {l1}
    QueueSize = 1
    TailSize = 2
    Clients = {c1, c2}
    Target = 2
    MaxFaults = 1
    MaxCrashes = 1
INVARIANT ToldIsTrue
PROPERTIES
    StreamInOrder
    JobAddsUp
    StreamsEnd
CHECK_DEADLOCK FALSE
