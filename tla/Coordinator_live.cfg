SPECIFICATION FairSpec
CONSTANTS
    Ids = {r1}
    Callers = {c1, c2}
    Stages = {t1}
    Terminals = {t1}
    None = None
    MaxInFlight = 2
    HasResolver = FALSE
    FreshIds = FALSE
    MayCancel = TRUE
    MayAbort = TRUE
    MayFail = TRUE
    FaultyIO = FALSE
INVARIANTS TypeOK OwnersAgree SubmitIsServed
PROPERTIES SettledForGood ImplementsLifecycle CallEnds RequestReleased
CHECK_DEADLOCK FALSE
