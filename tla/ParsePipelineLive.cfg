SPECIFICATION PipeFairSpec
CONSTANTS
    w1 = w1
    w2 = w2
    u1 = u1
    u2 = u2
    f1 = f1
    j1 = j1
    j2 = j2
    j3 = j3
    Workers = {w1, w2}
    Requesters = {u1, u2}
    Refs = {f1}
    Jobs = {j1, j2, j3}
    MaxAttempts = 2
    FaultLimit = 1
    NoJob = NoJob
    NoRef = NoRef
    NoFile = NoFile
PROPERTY
    ParseSettles
CHECK_DEADLOCK FALSE
