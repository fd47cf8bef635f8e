SPECIFICATION FairSpec
CONSTANTS
    Null = Null
    c1 = c1
    c2 = c2
    d1 = d1
    d2 = d2
    Callers = {c1, c2}
    Payloads = {d1, d2}
    Payload <- TwoPayloads
    Bounds = {1}
    MaxAttempts = 3
    MaxPolls = 5
    MaxSeq = 2
INVARIANTS
    TypeOK
    CollidingCallsNotBothConfirmed
    RpcErrorsCounted
PROPERTIES
    ImplementsContractCall
    CallsAdvance
    CallsEnd
CHECK_DEADLOCK FALSE
