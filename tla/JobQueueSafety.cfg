SPECIFICATION Spec
CONSTANTS
    w1 = w1
    w2 = w2
    api = api
    box = box
    r1 = r1
    r2 = r2
    Workers = {w1, w2}
    Procs = {api, box}
    Home <- HomeApart
    Jobs <- TwoRows
    Refs = {r1}
    MaxAttempts = 2
    Messages = {"short", "split500", "split2000"}
    FaultLimit = 2
    NoJob = NoJob
    NoRef = NoRef
INVARIANTS
    TypeOK
    ActiveUnique
    LeaseIffHeld
    SoleExecutor
    BudgetExact
    SeenCurrent
    TrailTruthful
PROPERTIES
    OutcomeFinal
    ChargedOncePerFailure
    BackoffRespected
    ImplementsLifecycle
CHECK_DEADLOCK FALSE
