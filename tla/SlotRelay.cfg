SPECIFICATION FairSpec
CONSTANTS
    j1 = j1
    j2 = j2
    j3 = j3
    j4 = j4
    a = a
    b = b
    Sends = {j1, j2, j3, j4}
    Targets = {a, b}
    TargetOf <- TwoTargets
    Pieces <- FourPieces
    SlotCount = 3
    QueueSize = 1
    MayFail = TRUE
INVARIANTS ReadSlotsAreKept SlotsAreAccountedFor NobodyWaitsInVain
PROPERTIES SendEnds
CHECK_DEADLOCK FALSE
