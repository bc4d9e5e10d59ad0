SPECIFICATION Spec
CONSTANTS
    Ids = {r1}
    Callers = {c1, c2}
    Stages = {t1, t2}
    Terminals = {t1, t2}
    None = None
    MaxInFlight = 2
    HasResolver = FALSE
    FreshIds = FALSE
    MayCancel = FALSE
    MayAbort = TRUE
    MayFail = TRUE
    FaultyIO = TRUE
SYMMETRY CallerSymmetry
INVARIANTS StreamIsServed PartialsBelongToRequest NoForeignCompletion
CHECK_DEADLOCK FALSE
