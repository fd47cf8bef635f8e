SPECIFICATION Spec
CONSTANTS
    Null = Null
    u1 = u1
    r1 = r1
    r2 = r2
    w1 = w1
    w2 = w2
    Requests = {r1, r2}
    Users = {u1}
    User <- OneUser
    Account <- HasAccount
    Threshold <- SameThresholds
    Holdings = {1}
    Workers = {w1, w2}
    MaxAttempts = 3
    MaxStalls = 1
INVARIANT RefusedNotStored
CHECK_DEADLOCK FALSE
