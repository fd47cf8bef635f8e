-------------------------- MODULE ProofVerification --------------------------
(***************************************************************************)
(* POST /proofs/:proofId/verify running beside the proof-generation worker *)
(* and the Stellar network.                                                *)
(*                                                                         *)
(* A request is one call of ProofsController.verifyProof, followed through *)
(* every await of ProofsService.verifyProof; a run is one delivery of a    *)
(* job to ProofGenerationQueueService.processJob.  Requests and runs, in   *)
(* one process or in several, meet only in the rows of the proofs table    *)
(* and in the ledger.  Each step below is what the code does between two   *)
(* awaits, so everything may happen in between.                            *)
(***************************************************************************)
EXTENDS ProofRecord, Naturals

CONSTANTS Proofs,       \* the rows of the proofs table
          Requests,     \* calls of the verify endpoint
          Runs,         \* deliveries of proof-generation jobs
          Payloads,     \* the values proofData may have ...
          Blank,        \* ... the empty or white ones among them ...
          ProofData,    \* ... and the value each row has
          Expirable,    \* rows with an expiresAt in the future
          Queued,       \* rows a job was enqueued for (generateBalanceProof)
          Nonces        \* sequence number and time bound of an envelope

ASSUME ProofDataAssumption == ProofData \in [Proofs -> Payloads]
ASSUME QueuedAssumption    == Queued \subseteq Proofs
ASSUME DomainAssumption    == Expirable \subseteq Proofs /\ Blank \subseteq Payloads

Actors == Requests \cup Runs

\* The account, the contract and the fee are the same for every proof: the
\* proof's payload and the nonce determine the envelope and its hash.
Tx == [payload : Payloads, nonce : Nonces]

ASSUME ActorAssumption == Requests \cap Runs = {}
-----------------------------------------------------------------------------
\* The messages updateProofFailed stores.  Only those of a transaction that
\* was rejected or not found quote its hash.
Whys == {"expired", "invalid", "unbuilt", "unsubmitted", "unconfirmed",
         "rejected", "unreachable", "unsaved"}

Errors == [why : Whys, tx : Tx \cup {Null}]

\* NULL is told from every value by its being none of them.
ASSUME NullAssumption == Null \notin Tx \cup Errors \cup Requests \cup Runs

Err(why)           == [why |-> why, tx |-> Null]
ErrQuoting(why, t) == [why |-> why, tx |-> t]

Rows == [status          : Statuses,
         transactionHash : Tx \cup {Null},
         verifiedAt      : Requests \cup {Null},
         errorMessage    : Errors \cup {Null},
         metadata        : Runs \cup {Null}]

Replies == {"none", "ok", "notFound", "badRequest", "serverError"}

PCs == {"idle",       \* not called or delivered yet
        "build",      \* admitted; loading the signer's account
        "send",       \* in submitTransactionWithRetry
        "poll",       \* in pollTransaction
        "confirmed",  \* about to load the row in updateProofVerified
        "failing",    \* about to load the row in updateProofFailed
        "compare",    \* in save, before its SELECT
        "update",     \* in save, before its UPDATE
        "done"}

VARIABLES
    rows,       \* the proofs table
    expired,    \* the proofs whose expiresAt has passed
    ledger,     \* what the network did with each envelope
    pc,         \* where each request and each run is
    target,     \* the proof it is about
    entity,     \* the copy of the row it holds
    dirty,      \* the columns its save found to differ
    tx,         \* the envelope a request signed
    err,        \* the failure a request is reporting, Null while it has none
    reply       \* what a request answered

shared == <<rows, expired, ledger>>
locals == <<pc, target, entity, dirty, tx, err, reply>>
vars   == <<rows, expired, ledger, pc, target, entity, dirty, tx, err, reply>>

Chain == INSTANCE TransactionLedger

TypeOK ==
    /\ rows    \in [Proofs -> Rows]
    /\ expired \subseteq Expirable
    /\ Chain!TypeOK
    /\ pc      \in [Actors -> PCs]
    /\ target  \in [Actors -> Proofs \cup {Null}]
    /\ entity  \in [Actors -> Rows \cup {Null}]
    /\ dirty   \in [Actors -> SUBSET Columns]
    /\ tx      \in [Requests -> Tx \cup {Null}]
    /\ err     \in [Requests -> Errors \cup {Null}]
    /\ reply   \in [Requests -> Replies]

\* saveProofRecord inserts generated rows and their jobs are enqueued;
\* createProof inserts pending rows.
FreshRows ==
    {f \in [Proofs -> {Inserted("pending"), Inserted("generated")}] :
        \A p \in Queued : f[p] = Inserted("generated")}

Init ==
    /\ rows    \in FreshRows
    /\ expired = {}
    /\ Chain!Init
    /\ pc      = [a \in Actors |-> "idle"]
    /\ target  = [a \in Actors |-> Null]
    /\ entity  = [a \in Actors |-> Null]
    /\ dirty   = [a \in Actors |-> {}]
    /\ tx      = [r \in Requests |-> Null]
    /\ err     = [r \in Requests |-> Null]
    /\ reply   = [r \in Requests |-> "none"]

-----------------------------------------------------------------------------
(* verifyProof up to its first write: one findOne and the checks after it. *)

Goto(a, label) == pc' = [pc EXCEPT ![a] = label]

Answer(r, status) ==
    /\ Goto(r, "done")
    /\ reply' = [reply EXCEPT ![r] = status]

\* No row has this id and the caller's userId, or the findOne itself broke,
\* which the controller turns into 'Unable to verify proof'.
FindNothing(r) ==
    /\ pc[r] = "idle"
    /\ \E status \in {"notFound", "badRequest"} : Answer(r, status)
    /\ UNCHANGED <<shared, target, entity, dirty, tx, err>>

RejectVerified(r, p) ==
    /\ pc[r] = "idle"
    /\ rows[p].status = "verified"
    /\ Answer(r, "badRequest")
    /\ target' = [target EXCEPT ![r] = p]
    /\ UNCHANGED <<shared, entity, dirty, tx, err>>

\* An expired proof, or one without data, is marked failed before the reply.
RejectUnfit(r, p) ==
    /\ pc[r] = "idle"
    /\ rows[p].status # "verified"
    /\ p \in expired \/ ProofData[p] \in Blank
    /\ target' = [target EXCEPT ![r] = p]
    /\ err' = [err EXCEPT ![r] = Err(IF p \in expired THEN "expired" ELSE "invalid")]
    /\ Goto(r, "failing")
    /\ UNCHANGED <<shared, entity, dirty, tx, reply>>

\* Mutants: the status is not looked at; expiresAt and proofData are not.
AdmitAnyStatus(r, p) ==
    /\ pc[r] = "idle"
    /\ p \notin expired
    /\ ProofData[p] \notin Blank
    /\ target' = [target EXCEPT ![r] = p]
    /\ Goto(r, "build")
    /\ UNCHANGED <<shared, entity, dirty, tx, err, reply>>

AdmitUnfit(r, p) ==
    /\ pc[r] = "idle"
    /\ rows[p].status # "verified"
    /\ target' = [target EXCEPT ![r] = p]
    /\ Goto(r, "build")
    /\ UNCHANGED <<shared, entity, dirty, tx, err, reply>>

Admit(r, p) ==
    /\ pc[r] = "idle"
    /\ rows[p].status # "verified"
    /\ p \notin expired
    /\ ProofData[p] \notin Blank
    /\ target' = [target EXCEPT ![r] = p]
    /\ Goto(r, "build")
    /\ UNCHANGED <<shared, entity, dirty, tx, err, reply>>

-----------------------------------------------------------------------------
(* The try block: invokeVerifierContract and waitForTransactionConfirmation *)

\* The catch clause: the failure will be written to the row.
Catch(r, e) ==
    /\ Goto(r, "failing")
    /\ err' = [err EXCEPT ![r] = e]

\* No contract id, no signer, or the account cannot be loaded.
BuildFails(r) ==
    /\ pc[r] = "build"
    /\ Catch(r, Err("unbuilt"))
    /\ UNCHANGED <<shared, target, entity, dirty, tx, reply>>

\* The payload is fixed by the proof; requests that load the account within
\* one second and between the same two ledgers get the same nonce.
Build(r) ==
    /\ pc[r] = "build"
    /\ \E n \in Nonces :
           tx' = [tx EXCEPT ![r] = [payload |-> ProofData[target[r]], nonce |-> n]]
    /\ Goto(r, "send")
    /\ UNCHANGED <<shared, target, entity, dirty, err, reply>>

\* Some attempt gets a response, whose status nobody reads ...
SendReturns(r) ==
    /\ pc[r] = "send"
    /\ Goto(r, "poll")
    /\ UNCHANGED <<shared, target, entity, dirty, tx, err, reply>>

\* ... or all three throw, the ones that reached the network included.
SendThrows(r) ==
    /\ pc[r] = "send"
    /\ Catch(r, Err("unsubmitted"))
    /\ UNCHANGED <<shared, target, entity, dirty, tx, reply>>

\* Mutant: whatever is not FAILED counts as success, NOT_FOUND too.
ConfirmUnlessFailed(r) ==
    /\ pc[r] = "poll"
    /\ ledger[tx[r]] # "failed"
    /\ Goto(r, "confirmed")
    /\ UNCHANGED <<shared, target, entity, dirty, tx, err, reply>>

\* A poll answers SUCCESS.
Confirm(r) ==
    /\ pc[r] = "poll"
    /\ ledger[tx[r]] = "success"
    /\ Goto(r, "confirmed")
    /\ UNCHANGED <<shared, target, entity, dirty, tx, err, reply>>

\* Mutant: whatever is not SUCCESS is reported as executed and failed.
PollFailedUnlessSuccess(r) ==
    /\ pc[r] = "poll"
    /\ ledger[tx[r]] # "success"
    /\ Catch(r, ErrQuoting("rejected", tx[r]))
    /\ UNCHANGED <<shared, target, entity, dirty, tx, reply>>

\* A poll answers FAILED.
PollFailed(r) ==
    /\ pc[r] = "poll"
    /\ ledger[tx[r]] = "failed"
    /\ Catch(r, ErrQuoting("rejected", tx[r]))
    /\ UNCHANGED <<shared, target, entity, dirty, tx, reply>>

\* Mutant: polling has no limit, and ends when the envelope was applied.
PollUntilApplied(r) ==
    /\ pc[r] = "poll"
    /\ ledger[tx[r]] \in {"success", "failed"}
    /\ Catch(r, Err("unreachable"))
    /\ UNCHANGED <<shared, target, entity, dirty, tx, reply>>

\* Five polls answer NOT_FOUND, or one cannot reach the RPC server: this says
\* nothing of the envelope, which may be applied before or after.
PollGivesUp(r) ==
    /\ pc[r] = "poll"
    /\ \E e \in {ErrQuoting("unconfirmed", tx[r]), Err("unreachable")} : Catch(r, e)
    /\ UNCHANGED <<shared, target, entity, dirty, tx, reply>>

-----------------------------------------------------------------------------
(* updateProofVerified, updateProofFailed and processJob: load the row,     *)
(* change the copy, save.                                                   *)

MarkVerified(r) ==
    /\ pc[r] = "confirmed"
    /\ entity' = [entity EXCEPT ![r] = MarkedVerified(rows[target[r]], tx[r], r)]
    /\ Goto(r, "compare")
    /\ UNCHANGED <<shared, target, dirty, tx, err, reply>>

MarkFailed(r) ==
    /\ pc[r] = "failing"
    /\ entity' = [entity EXCEPT ![r] = MarkedFailed(rows[target[r]], err[r])]
    /\ Goto(r, "compare")
    /\ UNCHANGED <<shared, target, dirty, tx, err, reply>>

\* Mutant: jobs exist for the pending proofs of createProof too.
RunFindAny(w, p) ==
    /\ pc[w] = "idle"
    /\ target' = [target EXCEPT ![w] = p]
    /\ entity' = [entity EXCEPT ![w] = Stamped(rows[p], w)]
    /\ Goto(w, "compare")
    /\ UNCHANGED <<shared, dirty, tx, err, reply>>

\* findOneBy and the merge of processJob; the queue's deliveries are runs.
RunFind(w, p) ==
    /\ pc[w] = "idle"
    /\ p \in Queued
    /\ target' = [target EXCEPT ![w] = p]
    /\ entity' = [entity EXCEPT ![w] = Stamped(rows[p], w)]
    /\ Goto(w, "compare")
    /\ UNCHANGED <<shared, dirty, tx, err, reply>>

\* save, first half: SELECT the row and diff.
Compare(a) ==
    /\ pc[a] = "compare"
    /\ dirty' = [dirty EXCEPT ![a] = Dirty(entity[a], rows[target[a]])]
    /\ Goto(a, "update")
    /\ UNCHANGED <<shared, target, entity, tx, err, reply>>

\* save, second half: UPDATE what differed (nothing, when nothing did).
Save(a) ==
    rows' = [rows EXCEPT ![target[a]] = Overwritten(@, entity[a], dirty[a])]

\* The copy goes out of scope.
Release(a) ==
    /\ entity' = [entity EXCEPT ![a] = Null]
    /\ dirty'  = [dirty EXCEPT ![a] = {}]

\* Mutant: the catch clause returns instead of throwing.
OutcomeSwallowed(e) ==
    IF e # Null /\ e.why \in {"expired", "invalid"} THEN "badRequest" ELSE "ok"

\* What the reply is when the last save returned: verifyProof's result, the
\* BadRequest of an unfit proof, or the catch clause's InternalServerError.
Outcome(e) ==
    IF e = Null THEN "ok"
    ELSE IF e.why \in {"expired", "invalid"} THEN "badRequest" ELSE "serverError"

Update(r) ==
    /\ pc[r] = "update"
    /\ Save(r)
    /\ Release(r)
    /\ Answer(r, Outcome(err[r]))
    /\ UNCHANGED <<expired, ledger, target, tx, err>>

RunUpdate(w) ==
    /\ pc[w] = "update"
    /\ Save(w)
    /\ Release(w)
    /\ Goto(w, "done")
    /\ UNCHANGED <<expired, ledger, target, tx, err, reply>>

\* Mutant: the failure to mark a row failed is caught like any other.
RescueAgain(r) ==
    /\ Catch(r, Err("unsaved"))
    /\ UNCHANGED reply

\* The database throws out of a find or a save.  While the row was to be
\* marked verified, the catch clause now marks it failed; while it was to be
\* marked failed, the error leaves verifyProof and the controller answers 400.
Rescue(r) ==
    \/ /\ err[r] = Null
       /\ Catch(r, Err("unsaved"))
       /\ UNCHANGED reply
    \/ /\ err[r] # Null
       /\ Answer(r, "badRequest")
       /\ UNCHANGED err

DatabaseFails(r) ==
    /\ pc[r] \in {"confirmed", "failing", "compare", "update"}
    /\ pc[r] = "update" => dirty[r] # {}
    /\ Release(r)
    /\ Rescue(r)
    /\ UNCHANGED <<shared, target, tx>>

\* The UPDATE was committed and its acknowledgement lost.
UpdateUnacknowledged(r) ==
    /\ pc[r] = "update"
    /\ dirty[r] # {}
    /\ Save(r)
    /\ Release(r)
    /\ Rescue(r)
    /\ UNCHANGED <<expired, ledger, target, tx>>

\* processJob throws on either: the queue delivers the job again, another run.
RunFails(w) ==
    /\ \/ pc[w] = "compare" /\ UNCHANGED rows
       \/ /\ pc[w] = "update"
          /\ dirty[w] # {}
          /\ (UNCHANGED rows) \/ Save(w)
    /\ Release(w)
    /\ Goto(w, "done")
    /\ UNCHANGED <<expired, ledger, target, tx, err, reply>>

-----------------------------------------------------------------------------
(* The surroundings.                                                        *)

\* The process dies under a request or a run: no reply, nothing is resumed.
Die(a) ==
    /\ pc[a] \notin {"idle", "done"}
    /\ Goto(a, "done")
    /\ Release(a)
    /\ UNCHANGED <<shared, target, tx, err, reply>>

Expire(p) ==
    /\ p \in Expirable \ expired
    /\ expired' = expired \cup {p}
    /\ UNCHANGED <<rows, ledger, locals>>

\* An envelope reaches the network at any time after it was signed, also when
\* its request stopped waiting for it, and is applied or dropped at any later.
Network(t) ==
    /\ \/ Chain!Accept(t) /\ \E r \in Requests : tx[r] = t
       \/ Chain!Settle(t)
    /\ UNCHANGED <<rows, expired, locals>>

RequestStep(r) ==
    \/ FindNothing(r)
    \/ \E p \in Proofs : RejectVerified(r, p) \/ RejectUnfit(r, p) \/ Admit(r, p)
    \/ BuildFails(r) \/ Build(r)
    \/ SendReturns(r) \/ SendThrows(r)
    \/ Confirm(r) \/ PollFailed(r) \/ PollGivesUp(r)
    \/ MarkVerified(r) \/ MarkFailed(r)
    \/ Compare(r) \/ Update(r) \/ UpdateUnacknowledged(r)
    \/ DatabaseFails(r)

RunStep(w) ==
    \/ \E p \in Proofs : RunFind(w, p)
    \/ Compare(w) \/ RunUpdate(w) \/ RunFails(w)

Next ==
    \/ \E r \in Requests : RequestStep(r)
    \/ \E w \in Runs : RunStep(w)
    \/ \E a \in Actors : Die(a)
    \/ \E p \in Proofs : Expire(p)
    \/ \E t \in Tx : Network(t)

Spec == Init /\ [][Next]_vars

-----------------------------------------------------------------------------
(* Safety.                                                                  *)

Succeeded(t) == ledger[t] = "success"

\* An envelope with this proof's payload succeeded on chain.
OnChain(p) == \E t \in Tx : t.payload = ProofData[p] /\ Succeeded(t)

\* verified is never a mistake: whatever mixture of fresh and stale columns
\* the saves of requests and runs left in a row, the status says VERIFIED only
\* if the verifier contract accepted this proof's data (verifyProof 250-258).
VerifiedOnChain == \A p \in Proofs : rows[p].status = "verified" => OnChain(p)

\* What a row quotes is true: its transactionHash is that of a successful
\* transaction carrying this proof, and an errorMessage 'Transaction .. executed
\* but failed on chain' names one that failed (updateProofVerified 182-184,
\* waitForTransactionConfirmation 95-99).
QuotesAreTrue ==
    \A p \in Proofs :
        LET hash == rows[p].transactionHash  message == rows[p].errorMessage
        IN  /\ hash # Null => hash.payload = ProofData[p] /\ Succeeded(hash)
            /\ message # Null /\ message.why = "rejected" =>
                   ledger[message.tx] = "failed" /\ message.tx.payload = ProofData[p]

\* A caller who was told success was given the hash of a transaction that
\* succeeded, for the proof it asked about (verifyProof 259-263).
OkReplyConfirmed ==
    \A r \in Requests : reply[r] = "ok" =>
        tx[r] \in Tx /\ Succeeded(tx[r]) /\ tx[r].payload = ProofData[target[r]]

-----------------------------------------------------------------------------
(* The detailed states mapped to those of the abstract specifications.      *)

Lifecycle == INSTANCE ProofLifecycle WITH
    status    <- [p \in Proofs |-> rows[p].status],
    confirmed <- {p \in Proofs : OnChain(p)}

\* Requests, deliveries and stale saves together move a status only the ways
\* ProofLifecycle allows.
ImplementsLifecycle == Lifecycle!Spec

\* What a request made of its call: rejected is what its message says, and
\* confirmed is forgotten when the database fails to record it.
CallPhase(r) ==
    IF tx[r] = Null THEN "idle"
    ELSE IF pc[r] \in {"send", "poll"} THEN "working"
    ELSE IF \/ pc[r] = "confirmed"
            \/ pc[r] \in {"compare", "update"} /\ err[r] = Null
            \/ reply[r] = "ok" THEN "confirmed"
    ELSE IF err[r] # Null /\ err[r].why = "rejected" THEN "rejected"
    ELSE "unknown"

Call == INSTANCE ContractCall WITH
    Callers  <- Requests,
    phase    <- [r \in Requests |-> CallPhase(r)],
    envelope <- tx

\* A request signs one envelope at most, lets no other reach the network, and
\* believes of it what the ledger says.
ImplementsContractCall == Call!Spec

-----------------------------------------------------------------------------
(* What a step may never do.                                                *)

InFlight(a, p) == target[a] = p /\ pc[a] # "done"

\* All of a row but the queue's stamp.
Verdict(row) == [row EXCEPT !.metadata = Null]

\* The row is verified; no request that was admitted earlier is still at work
\* on it, and a run at work on it loaded this very verdict.
Settled(p) ==
    /\ rows[p].status = "verified"
    /\ \A r \in Requests : ~InFlight(r, p)
    /\ \A w \in Runs : InFlight(w, p) => Verdict(entity[w]) = Verdict(rows[p])

\* A settled verdict is final: later requests, runs and crashes change neither
\* the status nor the hash, the time or the message (verifyProof 228-230).
VerifiedSettles ==
    [][\A p \in Proofs : Settled(p) =>
           Settled(p)' /\ Verdict(rows'[p]) = Verdict(rows[p])]_vars

\* Those who are at work on the row and may still mark it verified: a request
\* that did not fail yet, and whoever is to save a copy that says so.
MayVerify(a, p) ==
    /\ InFlight(a, p)
    /\ pc[a] # "failing"
    /\ pc[a] \in {"compare", "update"} => entity[a].status = "verified"

Verifiers(p) == {a \in Actors : MayVerify(a, p)}

\* Expired, or without data.
Unfit(p) == p \in expired \/ ProofData[p] \in Blank

\* Only a request that was admitted before a proof expired may verify it after
\* that, and none a proof without data: those who may verify it become no more,
\* except by a run that copies an already verified row, and without any of them it
\* does not become verified.  That such an earlier request does verify an expired
\* proof is granted: expiresAt is compared once (verifyProof 232-240).
UnfitStaysUnverified ==
    [][\A p \in Proofs : Unfit(p) =>
           /\ Unfit(p)'
           /\ Verifiers(p)' \ Verifiers(p) \subseteq {w \in Runs : rows[p].status = "verified"}
           /\ rows[p].status # "verified" /\ Verifiers(p) = {} =>
                  rows'[p].status # "verified"]_vars

\* How many steps an actor has left at most.  A request that has not failed yet
\* may do all of the saving twice: once verified, and once failed.
StepsLeft(a) ==
    LET steps == CASE pc[a] = "done"                   -> 0
                   [] pc[a] = "update"                 -> 1
                   [] pc[a] = "compare"                -> 2
                   [] pc[a] \in {"confirmed", "failing"} -> 3
                   [] pc[a] = "poll"                   -> 4
                   [] pc[a] = "send"                   -> 5
                   [] pc[a] = "build"                  -> 6
                   [] pc[a] = "idle"                   -> 7
    IN  IF a \in Requests /\ pc[a] # "done" /\ err[a] = Null THEN steps + 3 ELSE steps

\* Nothing takes a request back, the catch clause that saves again included:
\* whatever it does uses up one of its ten steps (verifyProof 249-272).
ActorsAdvance ==
    [][\A a \in Actors : \/ UNCHANGED <<pc[a], entity[a]>>
                         \/ StepsLeft(a)' < StepsLeft(a)]_vars

-----------------------------------------------------------------------------
(* What the documents say and the code does not do.                         *)

\* "failed - Verification failed" (PROOFS_API.md:197): no transaction of a failed
\* proof succeeded.  Five polls give up long before the envelope's time bound.
FailedMeansRejected ==
    \A p \in Proofs : rows[p].status = "failed" => ~OnChain(p)

\* "wait for on-chain confirmation. Updates the proof status and returns the
\* transaction hash" (proofs.controller.ts:164-165): who was told success finds
\* the proof verified.  A stale save of the worker, or another request's failure,
\* takes the status back.
SuccessRecorded ==
    \A r \in Requests : reply[r] = "ok" => rows[target[r]].status = "verified"

-----------------------------------------------------------------------------
(* Liveness: an await of a request or of a run settles, one way or another. *)
(* Nothing is assumed of the network, of time, or of crashes.               *)

Fairness ==
    /\ \A r \in Requests : WF_vars(pc[r] # "idle" /\ RequestStep(r))
    /\ \A w \in Runs : WF_vars(pc[w] # "idle" /\ RunStep(w))

FairSpec == Spec /\ Fairness

\* A request gets past every one of its awaits, on whatever path, also when
\* its envelope is never applied (verifyProof 249-272), and so does a run.
ActorsEnd ==
    \A a \in Actors : pc[a] # "idle" ~> pc[a] = "done"
=============================================================================
