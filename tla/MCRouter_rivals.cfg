SPECIFICATION Spec
CONSTANTS
    m1 = m1
    m2 = m2
    m3 = m3
    r1 = r1
    r2 = r2
    r3 = r3
    r4 = r4
    NoSwap = NoSwap
    EvictionFor <- MCEvictionFor
    Rivals <- MCRivals
    Priority <- LaterIsUrgent
    Models = {m1, m2}
    Requests = {r1, r2, r3}
    ModelOf <- TwoForOne
    Limit <- LimitTwo
    GroupOf <- OneGroup
    SwapGroups = {"swap"}
    Exclusive = {}
    Persistent = {}
    Volatile = {m1}
    MayLeave = {r1, r2, r3}
    Unloads <- UnloadFirst
    GateMayRefuse = TRUE
    MayShutdown = FALSE
INVARIANTS
    TypeOK
    RouterAccounts
    RivalsNeverTogether
    SwapsAreCurrent
    UnloadedStayStopped
CHECK_DEADLOCK FALSE
