SPECIFICATION Spec
CONSTANTS
    w1 = w1
    w2 = w2
    api = api
    box = box
    r1 = r1
    r2 = r2
    Workers = {w1, w2}
    Procs = {api, box}
    Home <- HomeApart
    Jobs <- OneRow
    Refs = {r1}
    MaxAttempts = 2
    Messages = {"short"}
    FaultLimit = 1
    NoJob = NoJob
    NoRef = NoRef
PROPERTY
    OutcomeFinalAlways
