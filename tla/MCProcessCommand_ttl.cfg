SPECIFICATION Spec
CONSTANTS
    run = run
    ensure1 = ensure1
    wait1 = wait1
    stop1 = stop1
    q1 = q1
    None = None
    Op <- MCOp
    Callers = {ensure1}
    Requests = {q1}
    HasTTL = TRUE
    MayLeave = {}
    MayClose = FALSE
PROPERTIES
    TtlSparesRequests
CHECK_DEADLOCK FALSE
