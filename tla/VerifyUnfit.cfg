SPECIFICATION FairSpec
CONSTANTS
    Null = Null
    p1 = p1
    p2 = p2
    r1 = r1
    r2 = r2
    w1 = w1
    d1 = d1
    blank = blank
    Proofs = {p1, p2}
    Requests = {r1, r2}
    Runs = {w1}
    Payloads = {d1, blank}
    Blank = {blank}
    ProofData <- FitAndBlank
    Expirable = {p1}
    Queued = {p1}
    Nonces = {1}
PROPERTIES
    UnfitStaysUnverified
    ImplementsLifecycle
    ImplementsContractCall
    ActorsAdvance
    ActorsEnd
CHECK_DEADLOCK FALSE
