SPECIFICATION Spec
CONSTANTS
    m1 = m1
    m2 = m2
    m3 = m3
    r1 = r1
    r2 = r2
    r3 = r3
    r4 = r4
    NoSwap = NoSwap
    EvictionFor <- MCEvictionFor
    Rivals <- MCRivals
    Priority <- LaterIsUrgent
    Models = {m1, m2, m3}
    Requests = {r1, r2, r3, r4}
    ModelOf <- OneEach
    Limit <- LimitTwo
    GroupOf <- ThreeGroups
    SwapGroups = {}
    Exclusive = {"left", "right"}
    Persistent = {"left", "right"}
    Volatile = {m1}
    MayLeave = {r2, r4}
    Unloads = {}
    GateMayRefuse = FALSE
    MayShutdown = FALSE
INVARIANTS
    SwapsDoNotInterfere
    NoBusyEviction
    NoStrandedQueue
    QueueByPriority
PROPERTIES
    OrderIsStable
CHECK_DEADLOCK FALSE
