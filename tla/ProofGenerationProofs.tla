------------------------ MODULE ProofGenerationProofs ------------------------
(***************************************************************************)
(* The safety properties of ProofGeneration, for any requests, workers,    *)
(* attempts and stalls.  The invariant follows a request from store to     *)
(* store and a job from state to state: what is stored when the request    *)
(* goes on, and how often a job in each state can have been delivered.     *)
(***************************************************************************)
EXTENDS ProofGeneration, TLAPS

\* The columns of the model, without the bound on deliveries.
Typed ==
    /\ pc        \in [Requests -> Awaiting \cup Answered \cup {"dead"}]
    /\ proof     \in [Requests -> MockProofs \cup {Null}]
    /\ table     \in [Requests -> MockProofs \cup {Null}]
    /\ job       \in [Requests -> Jobs]
    /\ run       \in [Workers -> [job : Requests \cup {Null}, at : Labels]]
    /\ processed \subseteq Requests

\* What a request has stored by the time it is where it is.
Stored(r) ==
    /\ pc[r] \in {"insert", "enqueue", "created"} =>
           proof[r] # Null /\ proof[r].balance >= Threshold[r]
    /\ pc[r] \in {"enqueue", "created"} => table[r] = proof[r]
    /\ pc[r] \in Awaiting => job[r].state = "none"
    /\ pc[r] = "created" => job[r].state # "none"
    /\ job[r].state # "none" => table[r] # Null

\* How often a job can have been delivered and have stalled.
Counted(r) ==
    LET j == job[r] IN
    /\ j.state = "none" => j = NoJob
    /\ j.state # "none" => j.attempts = MaxAttempts
    /\ j.state \in {"waiting", "active", "delayed"} => j.stalls <= MaxStalls
    /\ j.state = "waiting" => j.made < MaxAttempts + j.stalls
    /\ j.state = "active"  => j.made <= MaxAttempts + j.stalls
    /\ j.state = "delayed" => j.made < MaxAttempts
    /\ j.state = "waiting" => j.made >= j.stalls
    /\ j.state \in {"active", "delayed"} => j.made > j.stalls
    /\ j.state = "failed" => j.made >= MaxAttempts \/ j.made > MaxStalls
    /\ j.state \in {"completed", "failed"} => j.made <= MaxAttempts + MaxStalls
    /\ j.owner # Null => j.state = "active"
    /\ j.state = "failed" => j.made >= MaxAttempts \/ j.stalls > MaxStalls
    /\ j.state = "completed" => r \in processed

\* What a worker works on was delivered, and is done when it returns.
Working(w) ==
    LET r == run[w].job IN
    /\ run[w].at \in {"idle", "down"} <=> r = Null
    /\ r # Null => job[r].state # "none" /\ job[r].made > 0
    /\ run[w].at = "returned" => r \in processed

IInv ==
    /\ Typed
    /\ \A r \in Requests : Stored(r)
    /\ \A r \in Requests : Counted(r)
    /\ \A w \in Workers : Working(w)

LEMMA InitIInv == Init => IInv
<1>. USE UserAssumption, BalanceAssumption, AttemptAssumption, WorkerAssumption
<1>. SUFFICES ASSUME Init PROVE IInv
  OBVIOUS
<1>1. NoJob \in Jobs /\ NoJob.state = "none" /\ NoJob.owner = Null
  BY DEF NoJob, Jobs, JobStates
<1>2. Typed
  BY <1>1 DEF Init, Typed, Awaiting, Labels
<1>3. \A r \in Requests : Stored(r) /\ Counted(r)
  BY <1>1 DEF Init, Stored, Counted, Awaiting
<1>4. \A w \in Workers : Working(w)
  BY DEF Init, Working
<1>. QED
  BY <1>2, <1>3, <1>4 DEF IInv

-----------------------------------------------------------------------------
(* Requests.                                                                *)

LEMMA RequestKeepsIInv ==
    ASSUME IInv, NEW r \in Requests, RequestStep(r) \/ Die(r)
    PROVE  IInv'
<1>. USE UserAssumption, BalanceAssumption, AttemptAssumption, WorkerAssumption
<1>. USE DEF IInv
<1>1. ASSUME UNCHANGED <<table, job, run, processed>>,
             pc' \in [Requests -> Awaiting \cup Answered \cup {"dead"}],
             proof' \in [Requests -> MockProofs \cup {Null}],
             \A q \in Requests \ {r} : pc'[q] = pc[q] /\ proof'[q] = proof[q],
             Stored(r)'
      PROVE  IInv'
  <2>1. \A q \in Requests : Stored(q)'
    BY <1>1 DEF Stored
  <2>2. (\A q \in Requests : Counted(q)') /\ \A w \in Workers : Working(w)'
    BY <1>1 DEF Counted, Working
  <2>. QED
    BY <1>1, <2>1, <2>2 DEF Typed
<1>2. CASE \/ UserMissing(r) \/ UserFound(r) \/ AccountUnknown(r) \/ BalanceTooLow(r)
           \/ Refuse(r) \/ Die(r)
  <2>1. /\ UNCHANGED <<proof, table, job, run, processed>>
        /\ pc[r] \in Awaiting
        /\ \E l \in {"balance", "refused", "notfound", "dead"} : pc' = [pc EXCEPT ![r] = l]
    BY <1>2 DEF UserMissing, UserFound, AccountUnknown, BalanceTooLow, Refuse, Die, Goto, Awaiting
  <2>2. Stored(r)'
    BY <2>1 DEF Stored, Typed, Awaiting
  <2>. QED
    BY <1>1, <2>1, <2>2 DEF Typed, Awaiting, Answered
<1>3. CASE ReadBalance(r)
  <2>1. PICK held \in Holdings :
            /\ Balance(held) >= Threshold[r]
            /\ proof' = [proof EXCEPT ![r] = [balance |-> Balance(held)]]
    BY <1>3 DEF ReadBalance
  <2>2. [balance |-> Balance(held)] \in MockProofs
    BY DEF Balance, MockProofs
  <2>3. pc[r] = "balance" /\ pc' = [pc EXCEPT ![r] = "insert"]
    BY <1>3 DEF ReadBalance, Goto
  <2>4. [balance |-> Balance(held)] # Null
    BY MockAssumption, <2>2
  <2>5. Stored(r)'
    BY <1>3, <2>1, <2>3, <2>4 DEF ReadBalance, Stored, Typed, Awaiting
  <2>. QED
    BY <1>1, <1>3, <2>1, <2>2, <2>3, <2>5 DEF ReadBalance, Typed, Awaiting, Answered
<1>4. CASE Insert(r)
  <2>1. /\ table' = [table EXCEPT ![r] = proof[r]]
        /\ pc[r] = "insert"
        /\ \E l \in {"enqueue", "refused"} : pc' = [pc EXCEPT ![r] = l]
        /\ UNCHANGED <<proof, job, run, processed>>
    BY <1>4 DEF Insert, Goto
  <2>2. Typed'
    BY <2>1 DEF Typed, Awaiting, Answered
  <2>3. \A q \in Requests : Stored(q)'
    BY <2>1 DEF Stored, Typed, Awaiting
  <2>4. (\A q \in Requests : Counted(q)') /\ \A w \in Workers : Working(w)'
    BY <2>1 DEF Counted, Working
  <2>. QED
    BY <2>2, <2>3, <2>4
<1>5. CASE Enqueue(r)
  <2>1. /\ job' = [job EXCEPT ![r] = Added(MaxAttempts)]
        /\ pc[r] = "enqueue"
        /\ \E l \in {"created", "refused"} : pc' = [pc EXCEPT ![r] = l]
        /\ UNCHANGED <<proof, table, run, processed>>
    BY <1>5 DEF Enqueue, Goto
  <2>2. /\ Added(MaxAttempts) \in Jobs
        /\ Added(MaxAttempts).state = "waiting" /\ Added(MaxAttempts).owner = Null
        /\ Added(MaxAttempts).attempts = MaxAttempts
        /\ Added(MaxAttempts).made = 0 /\ Added(MaxAttempts).stalls = 0
    BY DEF Added, Jobs, JobStates
  <2>3. Typed'
    BY <2>1, <2>2 DEF Typed, Awaiting, Answered
  <2>4. \A q \in Requests : Stored(q)'
    BY <2>1, <2>2 DEF Stored, Typed, Awaiting
  <2>5. \A q \in Requests : Counted(q)'
    BY <2>1, <2>2 DEF Counted, Typed
  <2>6. \A w \in Workers : Working(w)'
    <3>1. job[r].state = "none"
      BY <2>1 DEF Stored, Awaiting
    <3>2. \A w \in Workers : run[w].job # r
      BY <3>1 DEF Working
    <3>3. \A w \in Workers : run[w].job # Null => job'[run[w].job] = job[run[w].job]
      BY <2>1, <3>2 DEF Typed
    <3>. QED
      BY <2>1, <3>3 DEF Working
  <2>. QED
    BY <2>3, <2>4, <2>5, <2>6
<1>. QED
  BY <1>2, <1>3, <1>4, <1>5 DEF RequestStep

-----------------------------------------------------------------------------
(* Jobs and workers.                                                        *)

\* The queue changes one job, which existed and still does.
LEMMA JobChanges ==
    ASSUME IInv, NEW r \in Requests, NEW j \in Jobs,
           job' = [job EXCEPT ![r] = j],
           job[r].state # "none", j.state # "none", j.made >= job[r].made,
           UNCHANGED <<pc, proof, table, processed>>,
           Counted(r)',
           run' \in [Workers -> [job : Requests \cup {Null}, at : Labels]],
           \A w \in Workers : run'[w] = run[w] \/ Working(w)'
    PROVE  IInv'
<1>. USE WorkerAssumption DEF IInv
<1>1. Typed'
  BY DEF Typed
<1>2. \A q \in Requests : Stored(q)'
  BY DEF Stored, Typed
<1>3. \A q \in Requests : Counted(q)'
  BY DEF Counted, Typed
<1>4. \A w \in Workers : Working(w)'
  <2>1. \A q \in Requests : job[q].state # "none" /\ job[q].made > 0
                           => job'[q].state # "none" /\ job'[q].made > 0
    BY DEF Typed, Jobs
  <2>2. \A w \in Workers : run[w].job \in Requests \cup {Null}
    BY DEF Typed
  <2>. QED
    BY <2>1, <2>2 DEF Working
<1>. QED
  BY <1>1, <1>2, <1>3, <1>4

LEMMA QueueKeepsIInv ==
    ASSUME IInv, NEW r \in Requests, Promote(r) \/ Stall(r)
    PROVE  IInv'
<1>. USE AttemptAssumption, WorkerAssumption DEF IInv
<1>. DEFINE j == job'[r]
<1>1. job[r] \in Jobs /\ Counted(r)
  BY DEF Typed
<1>2. /\ j \in Jobs /\ j.state # "none" /\ j.made >= job[r].made
      /\ job' = [job EXCEPT ![r] = j] /\ job[r].state # "none"
  <2>1. CASE Promote(r)
    BY <1>1, <2>1 DEF Promote, Typed, Jobs, JobStates
  <2>2. CASE Stall(r)
    BY <1>1, <2>2 DEF Stall, Typed, Jobs, JobStates
  <2>. QED
    BY <2>1, <2>2
<1>3. Counted(r)'
  <2>1. CASE Promote(r)
    BY <1>1, <2>1 DEF Promote, Typed, Jobs, JobStates, Counted
  <2>2. CASE Stall(r)
    BY <1>1, <2>2 DEF Stall, Typed, Jobs, JobStates, Counted
  <2>. QED
    BY <2>1, <2>2
<1>. QED
  BY <1>2, <1>3, JobChanges DEF Promote, Stall, Typed

LEMMA TakeKeepsIInv ==
    ASSUME IInv, NEW w \in Workers, NEW r \in Requests, Take(w, r)
    PROVE  IInv'
<1>. USE AttemptAssumption, WorkerAssumption DEF IInv
<1>. DEFINE j == job'[r]
<1>1. job[r] \in Jobs /\ Counted(r) /\ Working(w)
  BY DEF Typed
<1>2. /\ j \in Jobs /\ j.state # "none" /\ j.made >= job[r].made
      /\ job' = [job EXCEPT ![r] = j] /\ job[r].state # "none"
  BY <1>1 DEF Take, Typed, Jobs, JobStates
<1>3. Counted(r)'
  BY <1>1 DEF Take, Typed, Jobs, JobStates, Counted
<1>4. /\ run' \in [Workers -> [job : Requests \cup {Null}, at : Labels]]
      /\ \A v \in Workers : run'[v] = run[v] \/ Working(v)'
  <2>1. job'[r].made > 0
    BY <1>1 DEF Take, Typed, Jobs
  <2>. QED
    BY <1>2, <2>1 DEF Take, Typed, Labels, Working
<1>. QED
  BY <1>2, <1>3, <1>4, JobChanges DEF Take

LEMMA FinishKeepsIInv ==
    ASSUME IInv, NEW w \in Workers, Complete(w) \/ Fail(w)
    PROVE  IInv'
<1>. USE AttemptAssumption, WorkerAssumption DEF IInv
<1>1. /\ Working(w)
      /\ run[w].at \in {"returned", "threw"}
      /\ run' = [run EXCEPT ![w] = [job |-> Null, at |-> "idle"]]
      /\ UNCHANGED <<pc, proof, table, processed>>
  BY DEF Complete, Fail, Finish
<1>2. PICK r \in Requests : r = run[w].job
  BY <1>1 DEF Working, Typed
<1>3. job[r] \in Jobs /\ Counted(r) /\ job[r].state # "none"
  BY <1>1, <1>2 DEF Working, Typed
<1>4. /\ run' \in [Workers -> [job : Requests \cup {Null}, at : Labels]]
      /\ \A v \in Workers : run'[v] = run[v] \/ Working(v)'
  BY <1>1 DEF Typed, Labels, Working
<1>5. CASE job[r].owner = w
  <2>1. PICK s \in {"completed", "delayed", "failed"} :
            /\ job' = [job EXCEPT ![r].state = s, ![r].owner = Null]
            /\ s = "completed" => r \in processed
            /\ s = "delayed" => job[r].made < job[r].attempts
            /\ s = "failed" => job[r].made >= job[r].attempts
    <3>1. CASE Complete(w)
      BY <3>1, <1>1, <1>2, <1>5 DEF Complete, Finish, Working
    <3>2. CASE Fail(w)
      <4>1. job[r].made \in Nat /\ job[r].attempts \in Nat
        BY <1>3 DEF Jobs
      <4>2. job' = [job EXCEPT ![r].state = IF job[r].made < job[r].attempts
                                            THEN "delayed" ELSE "failed",
                               ![r].owner = Null]
        BY <3>2, <1>2, <1>5 DEF Fail, Finish
      <4>3. CASE job[r].made < job[r].attempts
        BY <4>2, <4>3
      <4>4. CASE job[r].made >= job[r].attempts
        BY <4>1, <4>2, <4>4
      <4>. QED
        BY <4>1, <4>3, <4>4
    <3>. QED
      BY <3>1, <3>2
  <2>2. job[r].state = "active" /\ job[r].attempts = MaxAttempts
    BY <1>3, <1>5 DEF Counted
  <2>3. /\ job'[r] \in Jobs
        /\ job'[r].state # "none" /\ job'[r].made >= job[r].made
        /\ job' = [job EXCEPT ![r] = job'[r]]
    <3>1. job'[r] = [job[r] EXCEPT !.state = s, !.owner = Null]
      BY <2>1 DEF Typed
    <3>2. [job[r] EXCEPT !.state = s, !.owner = Null] \in Jobs
      BY <1>3 DEF Jobs, JobStates
    <3>3. job' = [job EXCEPT ![r] = job'[r]]
      BY <2>1, <3>1 DEF Typed
    <3>. QED
      BY <1>3, <3>1, <3>2, <3>3 DEF Jobs
  <2>4. Counted(r)'
    BY <1>1, <1>3, <2>1, <2>2 DEF Typed, Jobs, JobStates, Counted
  <2>. QED
    BY <1>1, <1>3, <1>4, <2>3, <2>4, JobChanges
<1>6. CASE job[r].owner # w
  <2>1. UNCHANGED job
    BY <1>2, <1>6 DEF Complete, Fail, Finish
  <2>2. Typed' /\ (\A q \in Requests : Stored(q)' /\ Counted(q)')
    BY <1>1, <1>4, <2>1 DEF Typed, Stored, Counted
  <2>3. \A v \in Workers : Working(v)'
    BY <1>1, <1>4, <2>1 DEF Working
  <2>. QED
    BY <2>2, <2>3
<1>. QED
  BY <1>5, <1>6

LEMMA RunKeepsIInv ==
    ASSUME IInv, NEW w \in Workers,
           RunFinds(w) \/ RunSaves(w) \/ RunFails(w) \/ WorkerDies(w)
    PROVE  IInv'
<1>. USE WorkerAssumption DEF IInv
<1>1. Working(w) /\ run[w] \in [job : Requests \cup {Null}, at : Labels]
  BY DEF Typed
<1>2. /\ UNCHANGED <<pc, proof, table, job>>
      /\ processed \subseteq processed'
      /\ processed' \subseteq Requests
      /\ \E l \in Labels : \/ run' = [run EXCEPT ![w].at = l]
                           \/ run' = [run EXCEPT ![w] = [job |-> Null, at |-> l]]
  BY <1>1 DEF RunFinds, RunSaves, RunFails, WorkerDies, Continue, Labels, Working, Typed
<1>3. /\ Typed'
      /\ \A v \in Workers : v # w => run'[v] = run[v]
  BY <1>2 DEF Typed
<1>4. \A q \in Requests : Stored(q)' /\ Counted(q)'
  BY <1>2 DEF Stored, Counted
<1>5. Working(w)'
  BY <1>1, <1>2 DEF RunFinds, RunSaves, RunFails, WorkerDies, Continue, Working, Typed
<1>6. \A v \in Workers : Working(v)'
  BY <1>2, <1>3, <1>5 DEF Working
<1>. QED
  BY <1>3, <1>4, <1>6

LEMMA Invariance == Spec => []IInv
<1>1. ASSUME IInv, [Next]_vars PROVE IInv'
  <2>1. CASE UNCHANGED vars
    BY <1>1, <2>1 DEF vars, IInv, Typed, Stored, Counted, Working
  <2>2. CASE Next
    BY <1>1, <2>2, RequestKeepsIInv, QueueKeepsIInv, TakeKeepsIInv, FinishKeepsIInv,
       RunKeepsIInv DEF Next, WorkerStep
  <2>. QED
    BY <1>1, <2>1, <2>2
<1>. QED
  BY InitIInv, <1>1, PTL DEF Spec

-----------------------------------------------------------------------------
\* Every reachable state is well typed, and no job is delivered more often
\* than its attempts and stalls allow (enqueueProofJob 65-73).
THEOREM GenerationTypeCorrect == Spec => []TypeOK
<1>1. IInv => TypeOK
  <2>. SUFFICES ASSUME IInv, NEW r \in Requests PROVE job[r].made <= MaxAttempts + MaxStalls
    BY DEF IInv, Typed, TypeOK
  <2>. QED
    BY AttemptAssumption DEF IInv, Typed, Counted, Jobs, JobStates, NoJob
<1>. QED
  BY <1>1, Invariance, PTL

\* A caller told 201 has a stored proof of at least the threshold and a job
\* (generateBalanceProof 127-150).
THEOREM CreatedIsAlwaysComplete == Spec => []CreatedIsComplete
<1>1. IInv => CreatedIsComplete
  BY DEF IInv, Stored, CreatedIsComplete
<1>. QED
  BY <1>1, Invariance, PTL

\* No delivery ever throws 'Proof record not found' (processJob 78-81).
THEOREM DeliveriesAlwaysFindTheirRow == Spec => []DeliveriesFindTheirRow
<1>1. IInv => DeliveriesFindTheirRow
  BY DEF IInv, Typed, Working, Stored, DeliveriesFindTheirRow
<1>. QED
  BY <1>1, Invariance, PTL

\* A job reported completed had its stamp stored (processJob 83-95).
THEOREM CompletedWasAlwaysProcessed == Spec => []CompletedWasProcessed
<1>1. IInv => CompletedWasProcessed
  BY DEF IInv, Counted, CompletedWasProcessed
<1>. QED
  BY <1>1, Invariance, PTL

\* A job is given up only after its attempts, or when it stalled too often
\* (enqueueProofJob 66-72).
THEOREM GivenUpOnlyAfterRetries == Spec => []GivenUpAfterRetries
<1>1. IInv => GivenUpAfterRetries
  BY DEF IInv, Counted, GivenUpAfterRetries
<1>. QED
  BY <1>1, Invariance, PTL

-----------------------------------------------------------------------------
(* The stores, workers and locks implement ProofProcessing.                 *)

rows    == {r \in Requests : table[r] # Null}
created == {r \in Requests : pc[r] = "created"}
phases  == [r \in Requests |-> JobPhase(r)]
counts  == [r \in Requests |-> job[r].made]

\* What the abstract specification does not see.
LEMMA Unseen ==
    ASSUME UNCHANGED <<rows, created, phases, counts, processed>>
    PROVE  [Processing!Next]_(Processing!processing)
  BY DEF rows, created, phases, counts, Processing!processing

LEMMA InitProcessing == Init => Processing!Init
  BY DEF Init, Processing!Init, JobPhase, NoJob

LEMMA RequestImplements ==
    ASSUME IInv, NEW r \in Requests, RequestStep(r) \/ Die(r)
    PROVE  [Processing!Next]_(Processing!processing)
<1>. USE WorkerAssumption DEF IInv
<1>1. CASE \/ UserMissing(r) \/ UserFound(r) \/ AccountUnknown(r) \/ BalanceTooLow(r)
           \/ ReadBalance(r) \/ Refuse(r) \/ Die(r)
  <2>1. /\ UNCHANGED <<table, job, run, processed>>
        /\ pc[r] \in Awaiting
        /\ \E l \in {"balance", "insert", "refused", "notfound", "dead"} :
               pc' = [pc EXCEPT ![r] = l]
    BY <1>1 DEF UserMissing, UserFound, AccountUnknown, BalanceTooLow, ReadBalance,
       Refuse, Die, Goto, Awaiting
  <2>2. UNCHANGED <<rows, created, phases, counts, processed>>
    BY <2>1 DEF rows, created, phases, counts, JobPhase, Typed, Awaiting
  <2>. QED
    BY <2>2, Unseen
<1>2. CASE Insert(r)
  <2>1. /\ table' = [table EXCEPT ![r] = proof[r]]
        /\ proof[r] # Null
        /\ pc[r] = "insert"
        /\ \E l \in {"enqueue", "refused"} : pc' = [pc EXCEPT ![r] = l]
        /\ UNCHANGED <<proof, job, run, processed>>
    BY <1>2 DEF Insert, Goto, Stored
  <2>2. rows' = rows \cup {r}
    BY <2>1 DEF rows, Typed
  <2>3. UNCHANGED <<created, phases, counts, processed>>
    BY <2>1 DEF created, phases, counts, JobPhase, Typed
  <2>. QED
    BY <2>2, <2>3 DEF Processing!Next, Processing!Store, rows, created, phases, counts
<1>3. CASE Enqueue(r)
  <2>1. /\ job' = [job EXCEPT ![r] = Added(MaxAttempts)]
        /\ pc[r] = "enqueue"
        /\ \E l \in {"created", "refused"} : pc' = [pc EXCEPT ![r] = l]
        /\ UNCHANGED <<proof, table, run, processed>>
    BY <1>3 DEF Enqueue, Goto
  <2>2. job[r].state = "none" /\ job[r] = NoJob /\ table[r] # Null
    BY <2>1 DEF Stored, Counted, Awaiting
  <2>3. r \in rows /\ phases[r] = "none"
    BY <2>2 DEF rows, phases, JobPhase
  <2>4. phases' = [phases EXCEPT ![r] = "open"]
    BY <2>1 DEF phases, JobPhase, Added, Typed
  <2>5. UNCHANGED <<rows, counts, processed>>
    BY <2>1, <2>2 DEF rows, counts, NoJob, Added, Typed
  <2>6. created' \in {created, created \cup {r}}
    BY <2>1 DEF created, Typed
  <2>. QED
    BY <2>3, <2>4, <2>5, <2>6
    DEF Processing!Next, Processing!Queue, rows, created, phases, counts
<1>. QED
  BY <1>1, <1>2, <1>3 DEF RequestStep

\* A delivery works on a job that was handed out, whoever holds it by now.
LEMMA RunImplements ==
    ASSUME IInv, NEW w \in Workers,
           RunFinds(w) \/ RunSaves(w) \/ RunFails(w) \/ WorkerDies(w)
    PROVE  [Processing!Next]_(Processing!processing)
<1>. USE WorkerAssumption DEF IInv
<1>1. CASE RunFinds(w) \/ RunFails(w) \/ WorkerDies(w)
  <2>1. UNCHANGED <<rows, created, phases, counts, processed>>
    BY <1>1 DEF RunFinds, RunFails, WorkerDies, rows, created, phases, counts, JobPhase
  <2>. QED
    BY <2>1, Unseen
<1>2. CASE RunSaves(w)
  <2>1. PICK r \in Requests : r = run[w].job
    BY <1>2 DEF RunSaves, Working, Typed
  <2>2. counts[r] > 0
    BY <2>1 DEF Working, counts
  <2>3. UNCHANGED <<rows, created, phases, counts>>
    BY <1>2 DEF RunSaves, rows, created, phases, counts, JobPhase
  <2>4. processed' = processed \cup {r}
    BY <1>2, <2>1 DEF RunSaves
  <2>. QED
    BY <2>2, <2>3, <2>4 DEF Processing!Next, Processing!Work, rows, created, phases, counts
<1>. QED
  BY <1>1, <1>2

LEMMA TakeImplements ==
    ASSUME IInv, NEW w \in Workers, NEW r \in Requests, Take(w, r)
    PROVE  [Processing!Next]_(Processing!processing)
<1>. USE AttemptAssumption DEF IInv
<1>1. /\ job' = [job EXCEPT ![r].state = "active", ![r].made = @ + 1, ![r].owner = w]
      /\ job[r].state = "waiting"
      /\ UNCHANGED <<pc, proof, table, processed>>
  BY DEF Take
<1>2. phases[r] = "open" /\ UNCHANGED phases
  BY <1>1 DEF phases, JobPhase, Typed
<1>3. counts[r] < MaxAttempts + MaxStalls
  BY <1>1 DEF counts, Counted, Typed, Jobs
<1>4. counts' = [counts EXCEPT ![r] = @ + 1]
  BY <1>1 DEF counts, Typed, Jobs
<1>5. UNCHANGED <<rows, created, processed>>
  BY <1>1 DEF rows, created
<1>. QED
  BY <1>2, <1>3, <1>4, <1>5
  DEF Processing!Next, Processing!Deliver, rows, created, phases, counts

\* A job that changes its state without another delivery stays open, or is
\* settled as the abstract specification allows.
LEMMA StateImplements ==
    ASSUME IInv, NEW r \in Requests, NEW j \in Jobs,
           job' = [job EXCEPT ![r] = j],
           UNCHANGED <<pc, proof, table, processed>>,
           job[r].state \in {"waiting", "active", "delayed"},
           j.made = job[r].made,
           j.state \notin {"none", "active"},
           Counted(r)'
    PROVE  [Processing!Next]_(Processing!processing)
<1>. USE AttemptAssumption DEF IInv
<1>1. UNCHANGED <<rows, created, counts, processed>>
  BY DEF rows, created, counts, Typed
<1>2. phases[r] = "open"
  BY DEF phases, JobPhase
<1>3. phases' = [phases EXCEPT ![r] =
                    IF j.state \in {"waiting", "delayed"} THEN "open" ELSE j.state]
  BY DEF phases, JobPhase, Typed
<1>4. CASE j.state \in {"waiting", "delayed"}
  <2>1. UNCHANGED phases
    BY <1>2, <1>3, <1>4 DEF phases
  <2>. QED
    BY <1>1, <2>1, Unseen
<1>5. CASE j.state = "completed"
  <2>1. r \in processed
    BY <1>5 DEF Counted, Typed
  <2>. QED
    BY <1>1, <1>2, <1>3, <1>5, <2>1
    DEF Processing!Next, Processing!Complete, Processing!Settle, rows, created, phases, counts
<1>6. CASE j.state = "failed"
  <2>1. j.made >= MaxAttempts \/ j.made > MaxStalls
    BY <1>6 DEF Counted, Typed
  <2>2. counts[r] >= IF MaxAttempts <= MaxStalls THEN MaxAttempts ELSE MaxStalls + 1
    BY <2>1 DEF counts, Jobs
  <2>. QED
    BY <1>1, <1>2, <1>3, <1>6, <2>2
    DEF Processing!Next, Processing!GiveUp, Processing!Settle, rows, created, phases, counts
<1>. QED
  BY <1>4, <1>5, <1>6 DEF Jobs, JobStates

LEMMA QueueImplements ==
    ASSUME IInv, NEW r \in Requests, Promote(r) \/ Stall(r)
    PROVE  [Processing!Next]_(Processing!processing)
<1>. DEFINE j == job'[r]
<1>1. IInv'
  BY QueueKeepsIInv
<1>2. job[r] \in Jobs /\ j \in Jobs /\ Counted(r)'
  BY <1>1 DEF IInv, Typed
<1>3. CASE Promote(r)
  <2>1. /\ job' = [job EXCEPT ![r] = j] /\ j.made = job[r].made /\ j.state = "waiting"
        /\ job[r].state = "delayed"
        /\ UNCHANGED <<pc, proof, table, processed>>
    BY <1>3 DEF Promote, IInv, Typed, Jobs
  <2>. QED
    BY <1>2, <2>1, StateImplements
<1>4. CASE Stall(r)
  <2>1. /\ job' = [job EXCEPT ![r] = j] /\ j.made = job[r].made
        /\ j.state \in {"waiting", "failed"}
        /\ job[r].state = "active"
        /\ UNCHANGED <<pc, proof, table, processed>>
    BY <1>4 DEF Stall, IInv, Typed, Jobs
  <2>. QED
    BY <1>2, <2>1, StateImplements
<1>. QED
  BY <1>3, <1>4

\* Only the worker that holds a job settles it; the end of another delivery of
\* it is not seen.
LEMMA FinishImplements ==
    ASSUME IInv, NEW w \in Workers, Complete(w) \/ Fail(w)
    PROVE  [Processing!Next]_(Processing!processing)
<1>. USE WorkerAssumption
<1>1. run[w].at \in {"returned", "threw"} /\ UNCHANGED <<pc, proof, table, processed>>
  BY DEF Complete, Fail, Finish
<1>2. PICK r \in Requests : r = run[w].job
  BY <1>1 DEF IInv, Working, Typed
<1>3. CASE job[r].owner # w
  <2>1. UNCHANGED job
    BY <1>2, <1>3 DEF Complete, Fail, Finish
  <2>2. UNCHANGED <<rows, created, phases, counts, processed>>
    BY <1>1, <2>1 DEF rows, created, phases, counts, JobPhase
  <2>. QED
    BY <2>2, Unseen
<1>4. CASE job[r].owner = w
  <2>1. PICK s \in {"completed", "delayed", "failed"} :
            job' = [job EXCEPT ![r].state = s, ![r].owner = Null]
    BY <1>2, <1>4 DEF Complete, Fail, Finish
  <2>2. IInv'
    BY FinishKeepsIInv
  <2>3. job[r].state = "active" /\ job[r] \in Jobs
    BY <1>4 DEF IInv, Counted, Typed
  <2>4. job'[r] \in Jobs /\ Counted(r)'
    BY <2>2 DEF IInv, Typed
  <2>5. job' = [job EXCEPT ![r] = job'[r]] /\ job'[r].made = job[r].made /\ job'[r].state = s
    BY <2>1, <2>3 DEF IInv, Typed, Jobs
  <2>. QED
    BY <1>1, <2>3, <2>4, <2>5, StateImplements
<1>. QED
  BY <1>3, <1>4

\* However stores fail, processes die, locks expire and deliveries overlap, a
\* proof is stored, then queued, then promised; its job is delivered at most
\* MaxAttempts + MaxStalls times, completed only with its work done, given up
\* only after several deliveries, and settled once (generateBalanceProof
\* 104-151, enqueueProofJob, processJob).
THEOREM GenerationImplementsProcessing == Spec => ImplementsProcessing
<1>1. IInv /\ [Next]_vars => [Processing!Next]_(Processing!processing)
  <2>. SUFFICES ASSUME IInv, [Next]_vars PROVE [Processing!Next]_(Processing!processing)
    OBVIOUS
  <2>1. CASE UNCHANGED vars
    BY <2>1, Unseen DEF vars, rows, created, phases, counts, JobPhase
  <2>2. CASE Next
    BY <2>2, RequestImplements, QueueImplements, TakeImplements, FinishImplements,
       RunImplements DEF Next, WorkerStep
  <2>. QED
    BY <2>1, <2>2
<1>. QED
  BY InitProcessing, <1>1, Invariance, PTL DEF Spec, ImplementsProcessing, Processing!Spec

-----------------------------------------------------------------------------
(* Every job runs down.                                                     *)

LEMMA ChangesLeftNat ==
    ASSUME IInv, NEW r \in Requests
    PROVE  /\ ChangesLeft(r) \in 0..(3 * (MaxAttempts + MaxStalls) + 1)
           /\ ChangesLeft(r) = 0 <=> job[r].state \in {"completed", "failed"}
<1>. USE AttemptAssumption
<1>1. job[r] \in Jobs /\ Counted(r)
  BY DEF IInv, Typed
<1>2. /\ job[r].state \in JobStates
      /\ job[r].made \in Nat /\ job[r].stalls \in Nat
  BY <1>1 DEF Jobs
<1>3. CASE job[r].state \in {"completed", "failed"}
  BY <1>3 DEF ChangesLeft
<1>4. CASE job[r].state = "none"
  BY <1>1, <1>2, <1>4 DEF ChangesLeft, Counted, NoJob
<1>5. CASE job[r].state = "waiting"
  BY <1>1, <1>2, <1>5 DEF ChangesLeft, Counted
<1>6. CASE job[r].state = "active"
  BY <1>1, <1>2, <1>6 DEF ChangesLeft, Counted
<1>7. CASE job[r].state = "delayed"
  BY <1>1, <1>2, <1>7 DEF ChangesLeft, Counted
<1>. QED
  BY <1>2, <1>3, <1>4, <1>5, <1>6, <1>7 DEF JobStates

\* What a job may become, and from what.
Succession(r) ==
    \/ /\ job[r].state = "none" /\ job'[r].state = "waiting"
       /\ job'[r].made = job[r].made
    \/ /\ job[r].state = "waiting" /\ job'[r].state = "active"
       /\ job'[r].made = job[r].made + 1
    \/ /\ job[r].state = "active" /\ job'[r].state \in {"waiting", "delayed", "completed", "failed"}
       /\ job'[r].made = job[r].made
    \/ /\ job[r].state = "delayed" /\ job'[r].state = "waiting"
       /\ job'[r].made = job[r].made

LEMMA SuccessionAdvances ==
    ASSUME IInv, NEW r \in Requests, Succession(r)
    PROVE  ChangesLeft(r)' < ChangesLeft(r)
<1>. USE AttemptAssumption
<1>1. job[r].made \in Nat
  BY DEF IInv, Typed, Jobs
<1>2. ChangesLeft(r) \in Nat /\ (ChangesLeft(r) = 0 <=> job[r].state \in {"completed", "failed"})
  BY ChangesLeftNat
<1>3. CASE job'[r].state \in {"completed", "failed"}
  BY <1>2, <1>3 DEF Succession, ChangesLeft
<1>4. CASE job'[r].state \notin {"completed", "failed"}
  BY <1>1, <1>4 DEF Succession, ChangesLeft
<1>. QED
  BY <1>3, <1>4

\* Every step leaves a job as it is or follows the succession.
LEMMA JobSucceeds ==
    ASSUME IInv, Next, NEW r \in Requests
    PROVE  UNCHANGED job[r] \/ Succession(r)
<1>. USE DEF IInv, Typed
<1>1. ASSUME UNCHANGED job PROVE UNCHANGED job[r]
  BY <1>1
<1>2. ASSUME NEW q \in Requests, RequestStep(q) \/ Die(q) PROVE UNCHANGED job[r] \/ Succession(r)
  <2>1. CASE Enqueue(q)
    <3>1. job[q] = NoJob
      BY <2>1 DEF Enqueue, Stored, Counted, Awaiting
    <3>. QED
      BY <2>1, <3>1 DEF Enqueue, Added, NoJob, Succession
  <2>2. CASE ~Enqueue(q)
    BY <1>1, <1>2, <2>2 DEF RequestStep, Die, UserMissing, UserFound, AccountUnknown,
       BalanceTooLow, ReadBalance, Insert, Refuse
  <2>. QED
    BY <2>1, <2>2
<1>3. ASSUME NEW q \in Requests, Promote(q) PROVE UNCHANGED job[r] \/ Succession(r)
  BY <1>3 DEF Promote, Succession, Jobs
<1>4. ASSUME NEW q \in Requests, Stall(q) PROVE UNCHANGED job[r] \/ Succession(r)
  BY <1>4 DEF Stall, Succession, Jobs
<1>5. ASSUME NEW w \in Workers, NEW q \in Requests, Take(w, q)
      PROVE  UNCHANGED job[r] \/ Succession(r)
  BY <1>5 DEF Take, Succession, Jobs
<1>6. ASSUME NEW w \in Workers, Complete(w) \/ Fail(w) PROVE UNCHANGED job[r] \/ Succession(r)
  <2>1. PICK q \in Requests : q = run[w].job
    BY <1>6 DEF Complete, Fail, Finish, Working
  <2>2. CASE job[q].owner # w
    BY <1>1, <1>6, <2>1, <2>2 DEF Complete, Fail, Finish
  <2>3. CASE job[q].owner = w
    <3>1. PICK s \in {"completed", "delayed", "failed"} :
              job' = [job EXCEPT ![q].state = s, ![q].owner = Null]
      BY <1>6, <2>1, <2>3 DEF Complete, Fail, Finish
    <3>2. job[q].state = "active"
      BY <2>3, WorkerAssumption DEF Counted
    <3>. QED
      BY <3>1, <3>2 DEF Succession, Jobs
  <2>. QED
    BY <2>2, <2>3
<1>7. ASSUME NEW w \in Workers, RunFinds(w) \/ RunSaves(w) \/ RunFails(w) \/ WorkerDies(w)
      PROVE  UNCHANGED job[r]
  BY <1>1, <1>7 DEF RunFinds, RunSaves, RunFails, WorkerDies
<1>. QED
  BY <1>2, <1>3, <1>4, <1>5, <1>6, <1>7 DEF Next, WorkerStep

\* Whatever changes a job uses up one of at most 3 * (MaxAttempts + MaxStalls)
\* + 1 changes, none of which it is given back, and a job that was completed or
\* given up is not touched again (enqueueProofJob 65-73): with a queue that goes
\* on, what JobsSettle rests on.
THEOREM JobsAlwaysAdvance ==
    Spec => JobsAdvance /\ [](\A r \in Requests :
                                 ChangesLeft(r) \in 0..(3 * (MaxAttempts + MaxStalls) + 1))
<1>. DEFINE Advance == \A r \in Requests : \/ UNCHANGED job[r]
                                           \/ ChangesLeft(r)' < ChangesLeft(r)
            Bounded == \A r \in Requests :
                           ChangesLeft(r) \in 0..(3 * (MaxAttempts + MaxStalls) + 1)
<1>1. IInv => Bounded
  BY ChangesLeftNat
<1>2. IInv /\ [Next]_vars => [Advance]_vars
  BY JobSucceeds, SuccessionAdvances
<1>. QED
  BY <1>1, <1>2, Invariance, PTL DEF Spec, JobsAdvance
=============================================================================
