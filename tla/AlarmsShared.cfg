SPECIFICATION FairSpec
CONSTANTS
    Loops = {a1}
    Requests = {q1}
    Channels = {c1}
    Dedup = 1
    MaxLag = 1
    MaxFlips = 2
    MaxEdits = 0
    MaxFaults = 1
    MaxCrashes = 1
INVARIANT ToldTruly
PROPERTY FollowsSignal
