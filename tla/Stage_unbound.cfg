SPECIFICATION Spec
CONSTANTS
    up1 = up1
    up2 = up2
    down1 = down1
    down2 = down2
    Ids = {r1}
    Sources = {up1}
    PayloadSources = {up1}
    StreamSources = {}
    LocalSources = {}
    Wanted <- WantsFirst
    Deciders = {up1}
    Downstream = {down1, down2}
    StreamTo <- OneHop
    NextStages <- TwoHops
    Replicated = {down2}
    AcceptEarly = TRUE
    EarlyResult = FALSE
    MaxChunks = 1
    AbortCap = 2
    AbortKeep = 1
    MayFail = FALSE
    None = None
INVARIANTS RoutedIsBound
CHECK_DEADLOCK FALSE
