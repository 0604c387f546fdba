SPECIFICATION Spec
CONSTANTS
    Loops = {a1}
    Requests = {}
    Channels = {c1, c2}
    Dedup = 1
    MaxLag = 1
    MaxFlips = 3
    MaxEdits = 1
    MaxFaults = 1
    MaxCrashes = 1
INVARIANTS
    SingleFiring
    CountersMatch
    EveryChannelTried
PROPERTY DedupSpacing
SYMMETRY Symmetry
