--------------------------- MODULE ProofGeneration ---------------------------
(***************************************************************************)
(* Generating a balance proof (POST /proofs/generate): the request reads   *)
(* the balance, inserts the row and enqueues the job, three stores that    *)
(* share no transaction; then the job, delivered by BullMQ at least once.  *)
(*                                                                         *)
(* A request inserts at most one row and adds at most one job, so rows and *)
(* jobs are named by their request.  What the rows go through afterwards,  *)
(* and what a delivery may overwrite in them, is ProofVerification.        *)
(***************************************************************************)
EXTENDS Naturals

CONSTANTS Requests,
          Users,
          User,         \* whose each request is
          Account,      \* what a look-up of each user may find: missing (no
                        \* user), unset or set; rows of users may change
          Threshold,    \* what each request asks to prove, of one asset
          Holdings,     \* what an account may hold of it, Null for none
          Workers,      \* worker processes; one that restarts is a new one
          MaxAttempts,  \* enqueueProofJob's attempts, 3
          MaxStalls,    \* BullMQ's maxStalledCount, 1
          Null

ASSUME UserAssumption ==
    /\ User    \in [Requests -> Users]
    /\ Account \in [Users -> SUBSET {"missing", "unset", "set"}]
ASSUME BalanceAssumption ==
    /\ Holdings  \subseteq Nat \cup {Null}
    /\ Threshold \in [Requests -> Nat]
ASSUME AttemptAssumption == MaxAttempts \in Nat \ {0} /\ MaxStalls \in Nat
ASSUME WorkerAssumption == Null \notin Workers /\ Null \notin Requests

VARIABLES
    pc,         \* where each request is, or how it was answered
    proof,      \* the payload it made
    table,      \* the payload in the row it inserted
    job,        \* its job in Redis
    run,        \* what each worker does
    processed   \* the jobs a delivery of which stored its stamp

vars == <<pc, proof, table, job, run, processed>>

Awaiting == {"user", "balance", "insert", "enqueue"}
Answered == {"created", "refused", "notfound"}       \* 201, 400, 404
JobStates == {"none", "waiting", "active", "delayed", "completed", "failed"}
Labels == {"idle", "find", "save", "returned", "threw", "down"}

Jobs == [state : JobStates, attempts : Nat, made : Nat, stalls : Nat,
         owner : Workers \cup {Null}]

\* createMockProof; of what it hashes, the balance.
MockProofs == [balance : Nat]

ASSUME MockAssumption == Null \notin MockProofs

TypeOK ==
    /\ pc        \in [Requests -> Awaiting \cup Answered \cup {"dead"}]
    /\ proof     \in [Requests -> MockProofs \cup {Null}]
    /\ table     \in [Requests -> MockProofs \cup {Null}]
    /\ job       \in [Requests -> Jobs]
    /\ run       \in [Workers -> [job : Requests \cup {Null}, at : Labels]]
    /\ processed \subseteq Requests
    /\ \A r \in Requests : job[r].made <= MaxAttempts + MaxStalls

NoJob == [state |-> "none", attempts |-> 0, made |-> 0, stalls |-> 0, owner |-> Null]

Init ==
    /\ pc        = [r \in Requests |-> "user"]
    /\ proof     = [r \in Requests |-> Null]
    /\ table     = [r \in Requests |-> Null]
    /\ job       = [r \in Requests |-> NoJob]
    /\ run       = [w \in Workers |-> [job |-> Null, at |-> "idle"]]
    /\ processed = {}

-----------------------------------------------------------------------------
(* A request, one action per outcome of an await.                           *)

Goto(r, label) == pc' = [pc EXCEPT ![r] = label]

\* getUserById throws NotFound.
UserMissing(r) ==
    /\ pc[r] = "user"
    /\ "missing" \in Account[User[r]]
    /\ Goto(r, "notfound")
    /\ UNCHANGED <<proof, table, job, run, processed>>

UserFound(r) ==
    /\ pc[r] = "user"
    /\ \/ "set"   \in Account[User[r]] /\ Goto(r, "balance")
       \/ "unset" \in Account[User[r]] /\ Goto(r, "refused")
    /\ UNCHANGED <<proof, table, job, run, processed>>

\* getBalance: Horizon does not know the account, and NotFound is passed on.
AccountUnknown(r) ==
    /\ pc[r] = "balance"
    /\ Goto(r, "notfound")
    /\ UNCHANGED <<proof, table, job, run, processed>>

\* getBalance: of an asset the account does not hold, the balance is 0.
Balance(held) == IF held = Null THEN 0 ELSE held

\* Mutant: the threshold is not compared.
ReadBalanceOnly(r) ==
    /\ pc[r] = "balance"
    /\ \E held \in Holdings :
           proof' = [proof EXCEPT ![r] = [balance |-> Balance(held)]]
    /\ Goto(r, "insert")
    /\ UNCHANGED <<table, job, run, processed>>

BalanceTooLow(r) ==
    /\ pc[r] = "balance"
    /\ \E held \in Holdings : Balance(held) < Threshold[r]
    /\ Goto(r, "refused")
    /\ UNCHANGED <<proof, table, job, run, processed>>

\* The payload is made and the insert sent without another await.
ReadBalance(r) ==
    /\ pc[r] = "balance"
    /\ \E held \in Holdings :
           /\ Balance(held) >= Threshold[r]
           /\ proof' = [proof EXCEPT ![r] = [balance |-> Balance(held)]]
    /\ Goto(r, "insert")
    /\ UNCHANGED <<table, job, run, processed>>

\* Mutant: a failed insert is logged, and the job added all the same.
InsertSwallowed(r) ==
    /\ pc[r] = "insert"
    /\ table' \in {table, [table EXCEPT ![r] = proof[r]]}
    /\ Goto(r, "enqueue")
    /\ UNCHANGED <<proof, job, run, processed>>

\* saveProofRecord: an error may reach the service although the row is stored.
Insert(r) ==
    /\ pc[r] = "insert"
    /\ table' = [table EXCEPT ![r] = proof[r]]
    /\ Goto(r, "enqueue") \/ Goto(r, "refused")
    /\ UNCHANGED <<proof, job, run, processed>>

Added(attempts) ==
    [state |-> "waiting", attempts |-> attempts, made |-> 0, stalls |-> 0, owner |-> Null]

\* Mutant: the reply does not wait for Redis.
EnqueueForgotten(r) ==
    /\ pc[r] = "enqueue"
    /\ job' \in {job, [job EXCEPT ![r] = Added(MaxAttempts)]}
    /\ Goto(r, "created")
    /\ UNCHANGED <<proof, table, run, processed>>

\* Mutant: the options are left out, and a job has one attempt.
EnqueueOnce(r) ==
    /\ pc[r] = "enqueue"
    /\ job' = [job EXCEPT ![r] = Added(1)]
    /\ Goto(r, "created") \/ Goto(r, "refused")
    /\ UNCHANGED <<proof, table, run, processed>>

\* Mutant: attempts taken for the number of retries after the first.
EnqueueFour(r) ==
    /\ pc[r] = "enqueue"
    /\ job' = [job EXCEPT ![r] = Added(MaxAttempts + 1)]
    /\ Goto(r, "created") \/ Goto(r, "refused")
    /\ UNCHANGED <<proof, table, run, processed>>

\* enqueueProofJob: an error may reach the service although the job is added.
Enqueue(r) ==
    /\ pc[r] = "enqueue"
    /\ job' = [job EXCEPT ![r] = Added(MaxAttempts)]
    /\ Goto(r, "created") \/ Goto(r, "refused")
    /\ UNCHANGED <<proof, table, run, processed>>

\* Any other error of an awaited call: the controller answers 400 whatever it
\* was, the database, Horizon or Redis being down included.
Refuse(r) ==
    /\ pc[r] \in Awaiting
    /\ Goto(r, "refused")
    /\ UNCHANGED <<proof, table, job, run, processed>>

\* The process ends.
Die(r) ==
    /\ pc[r] \in Awaiting
    /\ Goto(r, "dead")
    /\ UNCHANGED <<proof, table, job, run, processed>>

RequestStep(r) ==
    \/ UserMissing(r) \/ UserFound(r)
    \/ AccountUnknown(r) \/ BalanceTooLow(r) \/ ReadBalance(r)
    \/ Insert(r) \/ Enqueue(r) \/ Refuse(r)

-----------------------------------------------------------------------------
(* A delivery: processJob between BullMQ's taking and finishing of a job.   *)

Continue(w, label) == run' = [run EXCEPT ![w].at = label]

RunFinds(w) ==
    /\ run[w].at = "find"
    /\ Continue(w, IF table[run[w].job] = Null THEN "threw" ELSE "save")
    /\ UNCHANGED <<pc, proof, table, job, processed>>

\* Mutant: the save is not awaited, and its error goes unnoticed.
RunSavesUnawaited(w) ==
    /\ run[w].at = "save"
    /\ processed' \in {processed, processed \cup {run[w].job}}
    /\ Continue(w, "returned")
    /\ UNCHANGED <<pc, proof, table, job>>

\* The stamp is stored; an error may reach the worker all the same.
RunSaves(w) ==
    /\ run[w].at = "save"
    /\ processed' = processed \cup {run[w].job}
    /\ Continue(w, "returned") \/ Continue(w, "threw")
    /\ UNCHANGED <<pc, proof, table, job>>

RunFails(w) ==
    /\ run[w].at \in {"find", "save"}
    /\ Continue(w, "threw")
    /\ UNCHANGED <<pc, proof, table, job, processed>>

\* Mutant: the attempt is not counted.
TakeUncounted(w, r) ==
    /\ run[w].at = "idle"
    /\ job[r].state = "waiting"
    /\ job' = [job EXCEPT ![r].state = "active", ![r].owner = w]
    /\ run' = [run EXCEPT ![w] = [job |-> r, at |-> "find"]]
    /\ UNCHANGED <<pc, proof, table, processed>>

\* BullMQ takes a waiting job and counts the attempt.
Take(w, r) ==
    /\ run[w].at = "idle"
    /\ job[r].state = "waiting"
    /\ job' = [job EXCEPT ![r].state = "active", ![r].made = @ + 1, ![r].owner = w]
    /\ run' = [run EXCEPT ![w] = [job |-> r, at |-> "find"]]
    /\ UNCHANGED <<pc, proof, table, processed>>

\* Mutant: a worker that lost its job to another finishes it all the same.
FinishUnlocked(w, label, state) ==
    /\ run[w].at = label
    /\ run' = [run EXCEPT ![w] = [job |-> Null, at |-> "idle"]]
    /\ job' = [job EXCEPT ![run[w].job].state = state, ![run[w].job].owner = Null]
    /\ UNCHANGED <<pc, proof, table, processed>>

\* The end of a delivery counts only if the worker still has the job's lock.
Finish(w, label, state) ==
    LET r == run[w].job IN
    /\ run[w].at = label
    /\ run' = [run EXCEPT ![w] = [job |-> Null, at |-> "idle"]]
    /\ job' = IF job[r].owner = w
              THEN [job EXCEPT ![r].state = state, ![r].owner = Null]
              ELSE job
    /\ UNCHANGED <<pc, proof, table, processed>>

Complete(w) == Finish(w, "returned", "completed")

\* A failed job is delayed for its backoff until its attempts are used up.
Fail(w) ==
    LET j == job[run[w].job]
    IN  Finish(w, "threw", IF j.made < j.attempts THEN "delayed" ELSE "failed")

WorkerDies(w) ==
    /\ run[w].at # "down"
    /\ run' = [run EXCEPT ![w] = [job |-> Null, at |-> "down"]]
    /\ UNCHANGED <<pc, proof, table, job, processed>>

WorkerStep(w) ==
    RunFinds(w) \/ RunSaves(w) \/ RunFails(w) \/ Complete(w) \/ Fail(w)

-----------------------------------------------------------------------------
(* The queue: the QueueScheduler the service constructs.                    *)

\* Mutant: no QueueScheduler is constructed.
PromoteNever(r) == FALSE /\ UNCHANGED vars

\* The backoff of a delayed job is over.
Promote(r) ==
    /\ job[r].state = "delayed"
    /\ job' = [job EXCEPT ![r].state = "waiting"]
    /\ UNCHANGED <<pc, proof, table, run, processed>>

\* The lock of an active job expired: its worker is down, or is late to renew
\* it and goes on with a job that may be delivered again.
Stall(r) ==
    /\ job[r].state = "active"
    /\ job' = [job EXCEPT ![r].state = IF job[r].stalls < MaxStalls THEN "waiting" ELSE "failed",
                          ![r].stalls = @ + 1,
                          ![r].owner = Null]
    /\ UNCHANGED <<pc, proof, table, run, processed>>

Next ==
    \/ \E r \in Requests : RequestStep(r) \/ Die(r) \/ Promote(r) \/ Stall(r)
    \/ \E w \in Workers : WorkerStep(w) \/ WorkerDies(w)
    \/ \E w \in Workers, r \in Requests : Take(w, r)

Spec == Init /\ [][Next]_vars

-----------------------------------------------------------------------------
(* Properties.                                                              *)

\* A caller told 201 has a stored proof of at least the threshold and a job
\* for it, however errors and crashes fall among the three stores
\* (generateBalanceProof 127-150).
CreatedIsComplete ==
    \A r \in Requests : pc[r] = "created" =>
        /\ table[r] # Null
        /\ table[r].balance >= Threshold[r]
        /\ job[r].state # "none"

\* No delivery ever throws 'Proof record not found' (processJob 78-81): the
\* row is there before any job can be, also for requests that were refused.
DeliveriesFindTheirRow ==
    \A w \in Workers : run[w].at = "find" => table[run[w].job] # Null

\* A job reported completed had its stamp stored, whichever of overlapping
\* deliveries finished it (processJob 83-95).
CompletedWasProcessed ==
    \A r \in Requests : job[r].state = "completed" => r \in processed

\* A job is given up only after its three attempts, or when it stalled twice:
\* one outage does not lose it (enqueueProofJob 66-72).
GivenUpAfterRetries ==
    \A r \in Requests : job[r].state = "failed" =>
        job[r].made >= MaxAttempts \/ job[r].stalls > MaxStalls

JobPhase(r) ==
    IF job[r].state \in {"waiting", "active", "delayed"} THEN "open" ELSE job[r].state

Processing == INSTANCE ProofProcessing WITH
    Limit     <- MaxAttempts + MaxStalls,
    Patience  <- IF MaxAttempts <= MaxStalls THEN MaxAttempts ELSE MaxStalls + 1,
    stored    <- {r \in Requests : table[r] # Null},
    promised  <- {r \in Requests : pc[r] = "created"},
    phase     <- [r \in Requests |-> JobPhase(r)],
    delivered <- [r \in Requests |-> job[r].made],
    done      <- processed

\* However stores fail, processes die, locks expire and deliveries overlap, a
\* proof is stored, then queued, then promised, its job delivered a limited
\* number of times and settled once, as completed only with its work done
\* (generateBalanceProof 104-151, enqueueProofJob, processJob): the abstract
\* ProofProcessing.
ImplementsProcessing == Processing!Spec

\* How many changes of state a job has left at most: three for each delivery
\* still allowed, and of the one under way its end and the end of its backoff.
ChangesLeft(r) ==
    LET deliveries == MaxAttempts + MaxStalls - job[r].made IN
    CASE job[r].state = "waiting"             -> 3 * deliveries
      [] job[r].state \in {"none", "delayed"} -> 3 * deliveries + 1
      [] job[r].state = "active"              -> 3 * deliveries + 2
      [] job[r].state \in {"completed", "failed"} -> 0

\* No failure, lost lock or late worker takes a job back: whatever changes it
\* uses up one of at most 3 * (MaxAttempts + MaxStalls) + 1 changes, so it is
\* never retried for ever, and a settled job is not touched again
\* (enqueueProofJob 65-73).
JobsAdvance ==
    [][\A r \in Requests : \/ UNCHANGED job[r]
                           \/ ChangesLeft(r)' < ChangesLeft(r)]_vars

\* FINDING, violated.  A request answered 'Invalid proof generation request'
\* (proofs.controller.ts:219) stored no proof.
RefusedNotStored ==
    \A r \in Requests : pc[r] = "refused" => table[r] = Null

-----------------------------------------------------------------------------
(* Liveness: the awaits of processJob settle, and BullMQ goes on as long as  *)
(* a worker does.  Of requests nothing is assumed: Redis may not answer.    *)

FairSpec ==
    /\ Spec
    /\ \A r \in Requests :
           /\ WF_vars(Promote(r))
           /\ WF_vars((\A w \in Workers : run[w].job # r) /\ Stall(r))
           /\ WF_vars(\E w \in Workers : Take(w, r))
    /\ \A w \in Workers : WF_vars(WorkerStep(w))

\* Every job added is completed or given up, unless no worker is left.
JobsSettle ==
    \A r \in Requests : job[r].state = "waiting" ~>
        \/ job[r].state \in {"completed", "failed"}
        \/ \A w \in Workers : run[w].at = "down"
=============================================================================
