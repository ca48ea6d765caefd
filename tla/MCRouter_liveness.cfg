SPECIFICATION FairSpec
CONSTANTS
    m1 = m1
    m2 = m2
    m3 = m3
    r1 = r1
    r2 = r2
    r3 = r3
    r4 = r4
    NoSwap = NoSwap
    EvictionFor <- MCEvictionFor
    Rivals <- MCRivals
    Priority <- LaterIsUrgent
    Models = {m1, m2}
    Requests = {r1, r2}
    ModelOf <- TwoModels
    Limit <- LimitTwo
    GroupOf <- OneGroup
    SwapGroups = {"swap"}
    Exclusive = {}
    Persistent = {}
    Volatile = {m1}
    MayLeave = {r1, r2}
    Unloads <- UnloadFirst
    GateMayRefuse = FALSE
    MayShutdown = TRUE
PROPERTIES
    EveryRequestEnds
    RunLoopReturns
    ShutdownEnds
CHECK_DEADLOCK FALSE
