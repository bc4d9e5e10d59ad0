SPECIFICATION FairSpec
CONSTANTS
    t1 = t1
    t2 = t2
    q1 = q1
    Transfers = {t1, t2}
    Requests = {q1}
    ReqOf <- SameRequest
    AbortCap = 1
    AbortKeep = 1
    MayFail = TRUE
INVARIANTS LeaseCoversCopy CopyHasItsPages TransferIsTruthful NoLateReservation
PROPERTIES SendEnds PagesSettle
CHECK_DEADLOCK FALSE
