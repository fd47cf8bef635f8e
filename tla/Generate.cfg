SPECIFICATION FairSpec
CONSTANTS
    Null = Null
    u1 = u1
    r1 = r1
    r2 = r2
    w1 = w1
    w2 = w2
    Requests = {r1, r2}
    Users = {u1}
    User <- OneUser
    Account <- AnyAccount
    Threshold <- OtherThresholds
    Holdings = {Null, 1}
    Workers = {w1, w2}
    MaxAttempts = 3
    MaxStalls = 1
INVARIANTS
    TypeOK
    CreatedIsComplete
    DeliveriesFindTheirRow
    CompletedWasProcessed
    GivenUpAfterRetries
PROPERTIES
    ImplementsProcessing
    JobsAdvance
    JobsSettle
CHECK_DEADLOCK FALSE
