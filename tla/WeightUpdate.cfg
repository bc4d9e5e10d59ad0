SPECIFICATION FairSpec
CONSTANTS
    w1 = w1
    w2 = w2
    d1 = d1
    d2 = d2
    Workers = {w1, w2}
    DPs = {d1, d2}
    MaxUpdates = 2
    MaxPuts = 1
    MaxCrashes = 1
    MayFail = TRUE
INVARIANTS UpdatedIsNotRouted NoMixedWeights
PROPERTIES ViewsConverge
CHECK_DEADLOCK FALSE
