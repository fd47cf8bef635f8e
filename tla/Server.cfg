SPECIFICATION FairSpec
CONSTANTS
    Null = Null
    Requests = {r1, r2}
    Sockets = {c1}
    Routes = {"health", "verify", "nowhere"}
    Retries = 5
    Delay = 1
INVARIANTS
    TypeOK
    RetriesInTime
    OutagesOutlived
    CountersAddUp
    HealthTruthful
    ErrorsTraceable
PROPERTIES
    StartEnds
    RequestsEnd
CHECK_DEADLOCK FALSE
