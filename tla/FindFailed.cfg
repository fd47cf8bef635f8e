SPECIFICATION Spec
CONSTANTS
    Null = Null
    p1 = p1
    p2 = p2
    r1 = r1
    r2 = r2
    w1 = w1
    d1 = d1
    blank = blank
    Proofs = {p1}
    Requests = {r1}
    Runs = {}
    Payloads = {d1}
    Blank = {}
    ProofData <- OneProofData
    Expirable = {p1}
    Queued = {p1}
    Nonces = {1}
INVARIANT FailedMeansRejected
CHECK_DEADLOCK FALSE
