SPECIFICATION Spec
CONSTANTS
    up1 = up1
    up2 = up2
    down1 = down1
    down2 = down2
    Ids = {r1, r2, r3}
    Sources = {}
    PayloadSources = {}
    StreamSources = {}
    LocalSources = {}
    Wanted <- WantsAll
    Deciders = {}
    Downstream = {down1, down2}
    StreamTo <- OneHop
    NextStages <- OneHop
    Replicated = {}
    AcceptEarly = FALSE
    EarlyResult = TRUE
    MaxChunks = 1
    AbortCap = 2
    AbortKeep = 1
    MayFail = TRUE
    None = None
INVARIANTS HandedIsTracked
CHECK_DEADLOCK FALSE
