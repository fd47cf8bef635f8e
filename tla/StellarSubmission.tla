-------------------------- MODULE StellarSubmission --------------------------
(***************************************************************************)
(* Contract calls in detail (modules/stellar/stellar.service.ts): load the *)
(* signer's account, sign one envelope, send it up to three times, poll    *)
(* for it up to five.  All calls sign for the same account, so calls that  *)
(* overlap compete for its sequence numbers; and a POST whose response is  *)
(* lost, or that the client gave up on, may still reach the network.       *)
(***************************************************************************)
EXTENDS Naturals, FiniteSets

CONSTANTS Callers,      \* the calls of invokeContract
          Payloads,     \* what they pass to the contract ...
          Payload,      \* ... each of them
          Bounds,       \* the time bounds of envelopes (setTimeout)
          MaxAttempts,  \* submitTransactionWithRetry's maxAttempts, 3
          MaxPolls,     \* waitForTransactionConfirmation's attempts, 5
          MaxSeq,       \* bound on the account's sequence numbers
          Null

ASSUME PayloadAssumption == Payload \in [Callers -> Payloads]
ASSUME BoundAssumption ==
    MaxAttempts \in Nat \ {0} /\ MaxPolls \in Nat \ {0} /\ MaxSeq \in Nat \ {0}

\* Contract, fee and signer are the same for all: these tell envelopes apart.
Tx == [payload : Payloads, seq : 1..MaxSeq, bound : Bounds]

ASSUME EnvelopeAssumption == Null \notin Tx

VARIABLES
    sequence,   \* the account's sequence number on the ledger
    late,       \* the time bounds that have passed
    ledger,     \* what the network did with each envelope
    transit,    \* envelopes a given-up POST may still deliver
    pc,         \* where each call is
    tx,         \* the envelope it signed
    attempt,    \* the number of its current attempt to send it
    polls,      \* how often it was answered NOT_FOUND
    rpcErrors   \* the counter of recordStellarRpcError

network == <<sequence, late, ledger, transit>>
vars    == <<sequence, late, ledger, transit, pc, tx, attempt, polls, rpcErrors>>

Chain == INSTANCE TransactionLedger

PCs == {"idle", "post", "sleep", "poll",              \* under way
        "confirmed", "rejected",                      \* the ledger's answer
        "unbuilt", "unsubmitted", "unconfirmed", "unreachable"}

Ended == {"confirmed", "rejected",
          "unbuilt", "unsubmitted", "unconfirmed", "unreachable"}

TypeOK ==
    /\ sequence  \in 0..MaxSeq
    /\ late      \subseteq Bounds
    /\ Chain!TypeOK
    /\ transit   \subseteq Tx
    /\ pc        \in [Callers -> PCs]
    /\ tx        \in [Callers -> Tx \cup {Null}]
    /\ attempt   \in [Callers -> 0..MaxAttempts]
    /\ polls     \in [Callers -> 0..MaxPolls]
    /\ rpcErrors \in Nat

Init ==
    /\ sequence  = 0
    /\ late      = {}
    /\ Chain!Init
    /\ transit   = {}
    /\ pc        = [c \in Callers |-> "idle"]
    /\ tx        = [c \in Callers |-> Null]
    /\ attempt   = [c \in Callers |-> 0]
    /\ polls     = [c \in Callers |-> 0]
    /\ rpcErrors = 0

Goto(c, label) == pc' = [pc EXCEPT ![c] = label]

-----------------------------------------------------------------------------
(* A call.                                                                  *)

\* Contract id or signer not configured, or loadAccount failed.
BuildFails(c) ==
    /\ pc[c] = "idle"
    /\ Goto(c, "unbuilt")
    /\ UNCHANGED <<network, tx, attempt, polls, rpcErrors>>

\* loadAccount answered with the sequence number Horizon knew, which may be
\* behind; the rest, up to the first attempt, is done without an await.
Build(c) ==
    /\ pc[c] = "idle"
    /\ \E known \in 0..sequence, b \in Bounds \ late :
           /\ known < MaxSeq
           /\ tx' = [tx EXCEPT ![c] = [payload |-> Payload[c], seq |-> known + 1, bound |-> b]]
    /\ Goto(c, "post")
    /\ attempt' = [attempt EXCEPT ![c] = 1]
    /\ UNCHANGED <<network, polls, rpcErrors>>

\* The network takes an envelope whose number is unused and whose time has not
\* passed, and may refuse any (ERROR, TRY_AGAIN_LATER) or know it (DUPLICATE).
Deliver(t) ==
    \/ t.seq > sequence /\ t.bound \notin late /\ Chain!Accept(t)
    \/ UNCHANGED ledger

\* sendTransaction answers; whichever status it has, the hash is returned.
Respond(c) ==
    /\ pc[c] = "post"
    /\ Deliver(tx[c])
    /\ Goto(c, "poll")
    /\ UNCHANGED <<sequence, late, transit, tx, attempt, polls, rpcErrors>>

\* Mutant: a retry goes through invokeContract again, with a new envelope.
ThrowAndRebuild(c) ==
    /\ pc[c] = "post"
    /\ rpcErrors' = rpcErrors + 1
    /\ transit' = transit \cup {tx[c]}
    /\ Goto(c, IF attempt[c] >= MaxAttempts THEN "unsubmitted" ELSE "idle")
    /\ UNCHANGED <<sequence, late, ledger, tx, attempt, polls>>

\* Mutant: the error is counted when the call gives up, not at each attempt.
ThrowUncounted(c) ==
    /\ pc[c] = "post"
    /\ rpcErrors' = rpcErrors + (IF attempt[c] >= MaxAttempts THEN 1 ELSE 0)
    /\ transit' = transit \cup {tx[c]}
    /\ Goto(c, IF attempt[c] >= MaxAttempts THEN "unsubmitted" ELSE "sleep")
    /\ UNCHANGED <<sequence, late, ledger, tx, attempt, polls>>

\* Mutant: one attempt too many.
ThrowOffByOne(c) ==
    /\ pc[c] = "post"
    /\ rpcErrors' = rpcErrors + 1
    /\ transit' = transit \cup {tx[c]}
    /\ Goto(c, IF attempt[c] > MaxAttempts THEN "unsubmitted" ELSE "sleep")
    /\ UNCHANGED <<sequence, late, ledger, tx, attempt, polls>>

\* sendTransaction throws, and the POST may or may not get through yet.
Throw(c) ==
    /\ pc[c] = "post"
    /\ rpcErrors' = rpcErrors + 1
    /\ transit' = transit \cup {tx[c]}
    /\ Goto(c, IF attempt[c] >= MaxAttempts THEN "unsubmitted" ELSE "sleep")
    /\ UNCHANGED <<sequence, late, ledger, tx, attempt, polls>>

\* Mutant: the loop's counter is not incremented.
RetryUncounted(c) ==
    /\ pc[c] = "sleep"
    /\ Goto(c, "post")
    /\ UNCHANGED <<network, tx, attempt, polls, rpcErrors>>

\* After the delay the same XDR is parsed and sent again.
Retry(c) ==
    /\ pc[c] = "sleep"
    /\ attempt' = [attempt EXCEPT ![c] = @ + 1]
    /\ Goto(c, "post")
    /\ UNCHANGED <<network, tx, polls, rpcErrors>>

\* A poll tells one of these fates, and the call ends.
PollAnswers(c, found, outcome) ==
    /\ pc[c] = "poll"
    /\ ledger[tx[c]] \in found
    /\ Goto(c, outcome)
    /\ UNCHANGED <<network, tx, attempt, polls, rpcErrors>>

\* Mutant: an answer other than FAILED is a success.
PollConfirmsUnlessFailed(c) == PollAnswers(c, Chain!Fates \ {"failed"}, "confirmed")

PollConfirms(c) == PollAnswers(c, {"success"}, "confirmed")

PollRejects(c) == PollAnswers(c, {"failed"}, "rejected")

\* The RPC server cannot be reached, whatever it would have said.
PollThrows(c) == PollAnswers(c, Chain!Fates, "unreachable")

\* Mutant: an envelope that is not found is sent again, without a limit.
PollFindsNothingResends(c) ==
    /\ pc[c] = "poll"
    /\ Goto(c, "post")
    /\ UNCHANGED <<network, tx, attempt, polls, rpcErrors>>

\* NOT_FOUND: also of an applied envelope this RPC server has not seen yet.
PollFindsNothing(c) ==
    /\ pc[c] = "poll"
    /\ polls' = [polls EXCEPT ![c] = @ + 1]
    /\ Goto(c, IF polls'[c] = MaxPolls THEN "unconfirmed" ELSE "poll")
    /\ UNCHANGED <<network, tx, attempt, rpcErrors>>

CallStep(c) ==
    \/ BuildFails(c) \/ Build(c)
    \/ Respond(c) \/ Throw(c) \/ Retry(c)
    \/ PollConfirms(c) \/ PollRejects(c) \/ PollThrows(c) \/ PollFindsNothing(c)

-----------------------------------------------------------------------------
(* The network.                                                             *)

\* A POST nobody waits for arrives, or is lost.
Arrive(t) ==
    /\ t \in transit
    /\ transit' = transit \ {t}
    /\ Deliver(t)
    /\ UNCHANGED <<sequence, late, pc, tx, attempt, polls, rpcErrors>>

\* Envelopes are applied in the order of their numbers, one for each.
Include(t) ==
    /\ t.seq = sequence + 1
    /\ t.bound \notin late
    /\ Chain!Apply(t)
    /\ sequence' = t.seq
    /\ UNCHANGED <<late, transit, pc, tx, attempt, polls, rpcErrors>>

\* Its number was used by another, or its time passed.
Expel(t) ==
    /\ t.seq <= sequence \/ t.bound \in late
    /\ Chain!Drop(t)
    /\ UNCHANGED <<sequence, late, transit, pc, tx, attempt, polls, rpcErrors>>

Pass(b) ==
    /\ b \notin late
    /\ late' = late \cup {b}
    /\ UNCHANGED <<sequence, ledger, transit, pc, tx, attempt, polls, rpcErrors>>

Next ==
    \/ \E c \in Callers : CallStep(c)
    \/ \E t \in Tx : Arrive(t) \/ Include(t) \/ Expel(t)
    \/ \E b \in Bounds : Pass(b)

Spec == Init /\ [][Next]_vars

-----------------------------------------------------------------------------
(* Properties.                                                              *)

CallPhase(c) ==
    IF pc[c] \in {"idle", "confirmed", "rejected"} THEN pc[c]
    ELSE IF pc[c] \in {"post", "sleep", "poll"} THEN "working"
    ELSE "unknown"

Call == INSTANCE ContractCall WITH
    phase    <- [c \in Callers |-> CallPhase(c)],
    envelope <- tx

\* However calls, retries and late deliveries overlap, each call signs one
\* envelope and believes of it what the ledger says (invokeContract 186-225,
\* submitTransactionWithRetry 145-184): the abstract ContractCall.
ImplementsContractCall == Call!Spec

\* Two calls that signed different envelopes with one sequence number (both
\* loaded the account before either was applied) are never both confirmed.
CollidingCallsNotBothConfirmed ==
    \A c, d \in Callers :
        /\ pc[c] = "confirmed" /\ pc[d] = "confirmed"
        /\ tx[c].seq = tx[d].seq
        => tx[c] = tx[d]

\* The attempts of a call that threw.
Failures(c) ==
    IF pc[c] \in {"sleep", "unsubmitted"} THEN attempt[c]
    ELSE IF attempt[c] = 0 THEN 0 ELSE attempt[c] - 1

Thrown == {a \in Callers \X (1..MaxAttempts) : a[2] <= Failures(a[1])}

\* stellar_rpc_errors_total counts every attempt that threw, of every call, no
\* more and no less, and a call gives up after its last attempt only
\* (recordStellarRpcError at 168, maxAttempts at 171).
RpcErrorsCounted ==
    /\ rpcErrors = Cardinality(Thrown)
    /\ \A c \in Callers : pc[c] = "unsubmitted" => attempt[c] = MaxAttempts

\* How many awaits a call has left at most: two for each attempt after this
\* one, the delay and the POST, and the polls it was not answered yet.
AwaitsLeft(c) ==
    LET retries == 2 * (MaxAttempts - attempt[c]) IN
    CASE pc[c] \in {"idle", "sleep"} -> retries + MaxPolls
      [] pc[c] = "post"              -> retries + MaxPolls + 1
      [] pc[c] = "poll"              -> MaxPolls - polls[c]
      [] pc[c] \in Ended             -> 0

\* Nothing a call does takes it back: every step uses up one of its awaits, so
\* it makes at most 2 * MaxAttempts + MaxPolls of them, and an ended call stays
\* as it is (the loops at 83-101 and 152-181).
CallsAdvance ==
    [][\A c \in Callers :
           \/ UNCHANGED <<pc[c], attempt[c], polls[c]>>
           \/ AwaitsLeft(c)' < AwaitsLeft(c)]_vars

-----------------------------------------------------------------------------
(* Liveness: each await of a call settles; the network owes nothing.        *)

FairSpec ==
    Spec /\ \A c \in Callers : WF_vars(pc[c] # "idle" /\ CallStep(c))

\* A call that began comes to an end: retries and polls are bounded, also when
\* its envelope is never applied.
CallsEnd == \A c \in Callers : pc[c] # "idle" ~> pc[c] \in Ended
=============================================================================
