SPECIFICATION FairSpec
CONSTANTS
    run = run
    ensure1 = ensure1
    wait1 = wait1
    stop1 = stop1
    q1 = q1
    None = None
    Op <- MCOp
    Callers = {run, ensure1, wait1, stop1}
    Requests = {}
    HasTTL = TRUE
    MayLeave = {wait1}
    MayClose = TRUE
PROPERTIES
    CallsReturn
    BusyIsSettled
    CloseReaps
CHECK_DEADLOCK FALSE
