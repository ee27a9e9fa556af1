SPECIFICATION FairSpec
CONSTANTS
    v1 = v1
    v2 = v2
    v3 = v3
    w1 = w1
    w2 = w2
    VPAs = {v1, v2, v3}
    Workers = {w1, w2}
    Usages = {1, 2}
    Interval = 2
    None = None
    Scenarios <- Stored
INVARIANTS
    TypeOK
    SubtractsWhatWasAdded
    OnePeakPerInterval
PROPERTIES
    RestoredKept
    EventuallyWritten
    OrphansCollected
