SPECIFICATION FairSpec
CONSTANTS
    up1 = up1
    up2 = up2
    down1 = down1
    down2 = down2
    Ids = {r1}
    Sources = {up1, up2}
    PayloadSources = {up1, up2}
    StreamSources = {up2}
    LocalSources = {up1}
    Wanted <- WantsAll
    Deciders = {up1}
    Downstream = {down1, down2}
    StreamTo <- NoHop
    NextStages <- OneHop
    Replicated = {down1}
    AcceptEarly = TRUE
    EarlyResult = FALSE
    MaxChunks = 2
    AbortCap = 2
    AbortKeep = 1
    MayFail = TRUE
    None = None
INVARIANTS LaneOrder NothingLeftBehind BuffersAnsweredOnce
PROPERTIES NothingAfterAbort BuffersAcknowledged RequestLeaves
CHECK_DEADLOCK FALSE
