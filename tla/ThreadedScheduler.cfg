SPECIFICATION FairSpec
CONSTANTS
    a = a
    b = b
    a1 = a1
    a2 = a2
    b1 = b1
    Ids = {a, b}
    Lives = {a1, a2, b1}
    Id <- MCId
    None = None
    MaxConcurrency = 2
    Limit = 1
    Retained = 1
    MaxAborts = 2
    MayStop = TRUE
INVARIANTS AbortsAreExact NothingIsLeft
PROPERTIES AnsweredUnlessAborted
CHECK_DEADLOCK FALSE
