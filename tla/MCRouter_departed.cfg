SPECIFICATION Spec
CONSTANTS
    m1 = m1
    m2 = m2
    m3 = m3
    r1 = r1
    r2 = r2
    r3 = r3
    r4 = r4
    NoSwap = NoSwap
    EvictionFor <- MCEvictionFor
    Rivals <- MCRivals
    Priority <- LaterIsUrgent
    Models = {m1, m2, m3}
    Requests = {r1, r2, r3, r4}
    ModelOf <- Crowd
    Limit <- LimitOne
    GroupOf <- OneGroup
    SwapGroups = {"swap"}
    Exclusive = {}
    Persistent = {}
    Volatile = {}
    MayLeave = {r2}
    Unloads = {}
    GateMayRefuse = FALSE
    MayShutdown = FALSE
PROPERTIES
    NoLoadForDeparted
CHECK_DEADLOCK FALSE
