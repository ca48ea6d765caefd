SPECIFICATION Spec
CONSTANTS
    run = run
    ensure1 = ensure1
    wait1 = wait1
    stop1 = stop1
    q1 = q1
    None = None
    Op <- MCOp
    Callers = {run, ensure1, wait1, stop1}
    Requests = {q1}
    HasTTL = TRUE
    MayLeave = {wait1}
    MayClose = TRUE
INVARIANTS
    TypeOK
    NobodyForgotten
    NoOrphan
    HandlerCurrent
PROPERTIES
    AnsweredOnce
    AnswersAreTrue
    ImplementsLifecycle
CHECK_DEADLOCK FALSE
