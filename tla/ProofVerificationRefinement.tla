--------------------- MODULE ProofVerificationRefinement ---------------------
(***************************************************************************)
(* ProofVerification implements ProofLifecycle and ContractCall.           *)
(***************************************************************************)
EXTENDS ProofVerificationProofs

-----------------------------------------------------------------------------
(* The lifecycle of a status.  Beyond the invariant of VerifiedIsOnChain it *)
(* takes what a copy may say: the copy of a request is verified or failed,  *)
(* the copy of a run is of a queued row, and neither row nor copy of a      *)
(* queued row is pending.                                                   *)

StatusInv ==
    /\ \A p \in Queued : rows[p].status # "pending"
    /\ \A r \in Requests : pc[r] \in {"compare", "update"} =>
           entity[r].status \in {"verified", "failed"}
    /\ \A w \in Runs : pc[w] \in {"compare", "update"} =>
           target[w] \in Queued /\ entity[w].status # "pending"

LEMMA InitStatusInv == Init => StatusInv
  BY QueuedAssumption DEF Init, FreshRows, StatusInv, Inserted, Actors

LEMMA NextStatusInv ==
    ASSUME TypeInv, StatusInv, [Next]_vars
    PROVE  StatusInv'
<1>1. ASSUME NEW p \in Queued PROVE rows'[p].status # "pending"
  <2>1. p \in Proofs /\ rows[p].status # "pending"
    BY QueuedAssumption DEF StatusInv
  <2>2. ASSUME NEW a \in Actors, pc[a] = "update", Save(a)
        PROVE  rows'[p].status # "pending"
    <3>1. target[a] = p => entity[a].status # "pending"
      BY <2>2 DEF StatusInv, Actors
    <3>2. Overwritten(rows[p], entity[a], dirty[a]).status
              \in {rows[p].status, entity[a].status}
      BY DEF Overwritten
    <3> QED
      BY <2>1, <2>2, <3>1, <3>2 DEF Save, TypeInv, TypeOK
  <2> QED
    BY <2>1, <2>2, RowsChange
<1>2. ASSUME NEW r \in Requests, pc'[r] \in {"compare", "update"}
      PROVE  entity'[r].status \in {"verified", "failed"}
  <2>1. r \in Actors /\ r \notin Runs
    BY ActorAssumption DEF Actors
  <2>2. CASE pc[r] \in {"compare", "update"} /\ entity'[r] = entity[r]
    BY <2>2 DEF StatusInv
  <2>3. CASE MarkVerified(r)
    <3>1. rows[target[r]] \in Rows
      BY <2>1, <2>3 DEF MarkVerified, TypeInv, TypeOK, Placed
    <3>2. entity'[r] = MarkedVerified(rows[target[r]], tx[r], r)
      BY <2>1, <2>3 DEF MarkVerified, TypeInv, TypeOK
    <3> QED
      BY <3>1, <3>2 DEF MarkedVerified, Rows
  <2>4. CASE MarkFailed(r)
    <3>1. rows[target[r]] \in Rows
      BY <2>1, <2>4 DEF MarkFailed, TypeInv, TypeOK, Placed
    <3>2. entity'[r] = MarkedFailed(rows[target[r]], err[r])
      BY <2>1, <2>4 DEF MarkFailed, TypeInv, TypeOK
    <3> QED
      BY <3>1, <3>2 DEF MarkedFailed, Rows
  <2> QED
    BY <1>2, <2>1, <2>2, <2>3, <2>4, CopyOrigin
<1>3. ASSUME NEW w \in Runs, pc'[w] \in {"compare", "update"}
      PROVE  target'[w] \in Queued /\ entity'[w].status # "pending"
  <2>1. w \in Actors /\ w \notin Requests
    BY ActorAssumption DEF Actors
  <2>2. CASE pc[w] \in {"compare", "update"} /\ entity'[w] = entity[w]
                 /\ target'[w] = target[w]
    BY <2>2 DEF StatusInv
  <2>3. ASSUME NEW p \in Proofs, RunFind(w, p)
        PROVE  target'[w] \in Queued /\ entity'[w].status # "pending"
    <3>1. p \in Queued /\ target'[w] = p /\ entity'[w] = Stamped(rows[p], w)
      BY <2>1, <2>3 DEF RunFind, TypeInv, TypeOK
    <3>2. rows[p] \in Rows
      BY DEF TypeInv, TypeOK
    <3>3. Stamped(rows[p], w).status = rows[p].status
      BY <3>2 DEF Stamped, Rows
    <3> QED
      BY <3>1, <3>3 DEF StatusInv
  <2> QED
    BY <1>3, <2>1, <2>2, <2>3, CopyOrigin
<1> QED
  BY <1>1, <1>2, <1>3 DEF StatusInv

LEMMA LifecycleInvariance == Spec => [](TypeInv /\ SafetyInv /\ StatusInv)
<1>1. TypeInv /\ StatusInv /\ [Next]_vars => StatusInv'
  BY NextStatusInv
<1> QED
  BY <1>1, InitStatusInv, Invariance, PTL DEF Spec

\* A step that saves leaves the ledger alone.
LEMMA SaveOrLedger ==
    ASSUME [Next]_vars
    PROVE  (UNCHANGED ledger) \/ (UNCHANGED rows)
<1>1. ASSUME NEW r \in Requests, RequestStep(r) PROVE UNCHANGED ledger
  BY <1>1 DEF RequestStep, FindNothing, RejectVerified, RejectUnfit, Admit, BuildFails,
     Build, SendReturns, SendThrows, Confirm, PollFailed, PollGivesUp, MarkVerified,
     MarkFailed, Compare, Update, UpdateUnacknowledged, DatabaseFails, shared
<1>2. ASSUME NEW w \in Runs, RunStep(w) PROVE UNCHANGED ledger
  BY <1>2 DEF RunStep, RunFind, Compare, RunUpdate, RunFails, shared
<1> QED
  BY <1>1, <1>2 DEF Next, Die, Expire, Network, shared, vars

LEMMA InitLifecycle == Init => Lifecycle!Init
<1> SUFFICES ASSUME Init PROVE Lifecycle!Init
  OBVIOUS
<1>1. \A p \in Proofs : ~OnChain(p)
  BY DEF Init, Chain!Init, OnChain, Succeeded
<1>2. \A p \in Proofs : rows[p] \in {Inserted("pending"), Inserted("generated")}
  BY DEF Init, FreshRows
<1>3. \A p \in Queued : rows[p].status = "generated"
  BY DEF Init, FreshRows, Inserted
<1> QED
  BY <1>1, <1>2, <1>3, QueuedAssumption DEF Lifecycle!Init, Inserted

LEMMA NextLifecycle ==
    ASSUME TypeInv, SafetyInv, StatusInv, [Next]_vars
    PROVE  [Lifecycle!Next]_(Lifecycle!lifecycle)
<1> DEFINE status    == [p \in Proofs |-> rows[p].status]
           confirmed == {p \in Proofs : OnChain(p)}
<1>1. CASE UNCHANGED rows
  <2>1. Finality(ledger, ledger')
    BY LedgerFinality DEF TypeInv
  <2>2. confirmed \subseteq confirmed'
    BY <2>1 DEF OnChain, Succeeded, Finality
  <2>3. confirmed' \in SUBSET Proofs /\ UNCHANGED status
    BY <1>1
  <2> QED
    BY <2>2, <2>3 DEF Lifecycle!Next, Lifecycle!Confirm
<1>2. ASSUME NEW a \in Actors, pc[a] = "update", Save(a), UNCHANGED ledger
      PROVE  [Lifecycle!Next]_(Lifecycle!lifecycle)
  <2> DEFINE p == target[a]
             new == Overwritten(rows[p], entity[a], dirty[a]).status
  <2>1. p \in Proofs
    BY <1>2 DEF TypeInv, Placed
  <2>2. UNCHANGED confirmed
    BY <1>2 DEF OnChain, Succeeded
  <2>3. status' = [status EXCEPT ![p] = new]
    BY <1>2, <2>1 DEF Save, TypeInv, TypeOK
  <2>4. new = rows[p].status \/ new = entity[a].status
    BY DEF Overwritten
  <2>5. CASE new = rows[p].status
    BY <2>1, <2>2, <2>3, <2>5 DEF Lifecycle!lifecycle
  <2>6. CASE new = entity[a].status /\ new = "verified"
    <3>1. p \in confirmed
      BY <1>2, <2>1, <2>6 DEF SafetyInv, SoundCopies, Sound, ConfirmedFor, OnChain, Succeeded
    <3> QED
      BY <2>1, <2>2, <2>3, <2>6, <3>1 DEF Lifecycle!Next, Lifecycle!Verify
  <2>7. CASE new = entity[a].status /\ new = "failed"
    BY <2>1, <2>2, <2>3, <2>7 DEF Lifecycle!Next, Lifecycle!Fail
  <2>8. CASE new = entity[a].status /\ new \notin {"verified", "failed"}
    <3>1. entity[a] \in Rows
      BY <1>2 DEF TypeInv, Placed
    <3>2. p \in Queued /\ new = "generated"
      BY <1>2, <2>8, <3>1 DEF StatusInv, Actors, Rows, Statuses
    <3> QED
      BY <2>1, <2>2, <2>3, <3>2 DEF Lifecycle!Next, Lifecycle!Regenerate
  <2> QED
    BY <2>4, <2>5, <2>6, <2>7, <2>8
<1> QED
  BY <1>1, <1>2, RowsChange, SaveOrLedger

\* Requests, deliveries, stale saves, database errors and crashes together move
\* the status of a proof only the ways ProofLifecycle allows: verified only once
\* it is on chain, back to generated only by a delivery, never back to pending.
THEOREM VerificationImplementsLifecycle == Spec => ImplementsLifecycle
  BY InitLifecycle, NextLifecycle, LifecycleInvariance, PTL
  DEF Spec, ImplementsLifecycle, Lifecycle!Spec

-----------------------------------------------------------------------------
(* The contract call of a request.                                          *)

\* Until it signs, a request has no envelope, and it answers once.
CallInv ==
    \A r \in Requests :
        /\ pc[r] \in {"idle", "build"} => tx[r] = Null
        /\ pc[r] # "done" => reply[r] = "none"

LEMMA InitCallInv == Init => CallInv
  BY DEF Init, CallInv

LEMMA NextCallInv ==
    ASSUME TypeInv, CallInv, [Next]_vars
    PROVE  CallInv'
<1> SUFFICES ASSUME NEW r \in Requests
             PROVE  /\ pc'[r] \in {"idle", "build"} => tx'[r] = Null
                    /\ pc'[r] # "done" => reply'[r] = "none"
  BY DEF CallInv
<1>1. CASE RequestStep(r)
  BY <1>1 DEF RequestStep, FindNothing, RejectVerified, RejectUnfit, Admit, BuildFails,
     Build, SendReturns, SendThrows, Confirm, PollFailed, PollGivesUp, MarkVerified,
     MarkFailed, Compare, Update, UpdateUnacknowledged, DatabaseFails, Rescue, Catch,
     Answer, Goto, CallInv, TypeInv, TypeOK, Actors
<1>2. CASE Die(r)
  BY <1>2 DEF Die, Goto, CallInv, TypeInv, TypeOK, Actors
<1>3. CASE pc'[r] = pc[r] /\ tx'[r] = tx[r] /\ reply'[r] = reply[r]
  BY <1>3 DEF CallInv
<1> QED
  BY <1>1, <1>2, <1>3, LocalsChange

LEMMA CallInvariance == Spec => [](TypeInv /\ SafetyInv /\ CallInv)
<1>1. TypeInv /\ CallInv /\ [Next]_vars => CallInv'
  BY NextCallInv
<1> QED
  BY <1>1, InitCallInv, Invariance, PTL DEF Spec

LEMMA InitCall == Init => Call!Init
  BY DEF Init, Call!Init, CallPhase, Call!Chain!Init, Chain!Init

\* A step that signs nothing and leaves the ledger alone changes the phase of
\* one request, if any, and only as ContractCall does.
LEMMA PhaseChange ==
    ASSUME NEW r \in Requests, UNCHANGED <<ledger, tx>>,
           \A q \in Requests \ {r} : CallPhase(q)' = CallPhase(q),
           \/ CallPhase(r)' \in {CallPhase(r), "unknown"}
           \/ CallPhase(r) = "working" /\ CallPhase(r)' = "confirmed"
                  /\ ledger[tx[r]] = "success"
           \/ CallPhase(r) = "working" /\ CallPhase(r)' = "rejected"
                  /\ ledger[tx[r]] = "failed"
    PROVE  [Call!Next]_(Call!contractCall)
<1> DEFINE phase == [q \in Requests |-> CallPhase(q)]
<1>1. phase' = [phase EXCEPT ![r] = CallPhase(r)']
  OBVIOUS
<1>2. CASE CallPhase(r)' = CallPhase(r)
  BY <1>1, <1>2 DEF Call!contractCall
<1>3. CASE CallPhase(r)' = "unknown"
  BY <1>1, <1>3 DEF Call!Next, Call!Abandon, Call!Report
<1>4. CASE CallPhase(r) = "working" /\ CallPhase(r)' = "confirmed"
               /\ ledger[tx[r]] = "success"
  BY <1>1, <1>4 DEF Call!Next, Call!Confirm, Call!Report
<1>5. CASE CallPhase(r) = "working" /\ CallPhase(r)' = "rejected"
               /\ ledger[tx[r]] = "failed"
  BY <1>1, <1>5 DEF Call!Next, Call!Reject, Call!Report
<1> QED
  BY <1>2, <1>3, <1>4, <1>5

LEMMA RequestCall ==
    ASSUME TypeInv, SafetyInv, CallInv, NEW r \in Requests, RequestStep(r)
    PROVE  [Call!Next]_(Call!contractCall)
<1> USE DEF Goto, shared, CallPhase, CallInv
<1>1. /\ r \in Actors
      /\ pc \in [Actors -> PCs]
      /\ err \in [Requests -> Errors \cup {Null}]
      /\ reply \in [Requests -> Replies]
      /\ tx \in [Requests -> Tx \cup {Null}]
  BY DEF TypeInv, TypeOK, Actors
<1>2. /\ pc[r] \in {"send", "poll", "confirmed"} => tx[r] \in Tx /\ err[r] = Null
      /\ pc[r] = "failing" => err[r] # Null
      /\ pc[r] \in {"compare", "update"} /\ err[r] = Null => tx[r] \in Tx
  BY NullAssumption DEF TypeInv, Placed, SafetyInv, Informed, ConfirmedFor
<1>3. Null \notin Tx
  BY NullAssumption
<1>4. \A q \in Requests \ {r} : q \in Actors /\ q # r
  BY DEF Actors
<1>5. CASE FindNothing(r)
  BY <1>1, <1>4, <1>5, PhaseChange DEF FindNothing, Answer
<1>6. ASSUME NEW p \in Proofs, RejectVerified(r, p) PROVE [Call!Next]_(Call!contractCall)
  BY <1>1, <1>4, <1>6, PhaseChange DEF RejectVerified, Answer
<1>7. ASSUME NEW p \in Proofs, RejectUnfit(r, p) PROVE [Call!Next]_(Call!contractCall)
  BY <1>1, <1>4, <1>7, PhaseChange DEF RejectUnfit
<1>8. ASSUME NEW p \in Proofs, Admit(r, p) PROVE [Call!Next]_(Call!contractCall)
  BY <1>1, <1>4, <1>8, PhaseChange DEF Admit
<1>9. CASE BuildFails(r)
  BY <1>1, <1>4, <1>9, PhaseChange DEF BuildFails, Catch
<1>10. CASE Build(r)
  <2> DEFINE phase == [q \in Requests |-> CallPhase(q)]
  <2>1. PICK n \in Nonces :
            tx' = [tx EXCEPT ![r] = [payload |-> ProofData[target[r]], nonce |-> n]]
    BY <1>10 DEF Build
  <2>2. [payload |-> ProofData[target[r]], nonce |-> n] \in Tx
    <3>1. target[r] \in Proofs
      BY <1>1, <1>10 DEF Build, TypeInv, Placed
    <3> QED
      BY <3>1, ProofDataAssumption DEF Tx
  <2>3. phase' = [phase EXCEPT ![r] = "working"]
    BY <1>1, <1>3, <1>4, <1>10, <2>1, <2>2 DEF Build
  <2>4. phase[r] = "idle" /\ tx[r] = Null
    BY <1>10 DEF Build
  <2> QED
    BY <1>10, <2>1, <2>2, <2>3, <2>4 DEF Build, Call!Next, Call!Sign
<1>11. CASE SendReturns(r)
  BY <1>1, <1>4, <1>11, PhaseChange DEF SendReturns
<1>12. CASE SendThrows(r)
  <2>1. CallPhase(r)' = "unknown"
    BY <1>1, <1>2, <1>3, <1>12 DEF SendThrows, Catch, Err
  <2> QED
    BY <1>1, <1>4, <1>12, <2>1, PhaseChange DEF SendThrows, Catch
<1>13. CASE Confirm(r)
  <2>1. CallPhase(r) = "working" /\ CallPhase(r)' = "confirmed"
    BY <1>1, <1>2, <1>3, <1>13 DEF Confirm
  <2> QED
    BY <1>1, <1>4, <1>13, <2>1, PhaseChange DEF Confirm
<1>14. CASE PollFailed(r)
  <2>1. ErrQuoting("rejected", tx[r]) # Null
    BY <1>2, <1>14, ErrTypes, NullAssumption DEF PollFailed, Whys
  <2>2. CallPhase(r) = "working" /\ CallPhase(r)' = "rejected"
    BY <1>1, <1>2, <1>3, <1>14, <2>1 DEF PollFailed, Catch, ErrQuoting
  <2> QED
    BY <1>1, <1>4, <1>14, <2>2, PhaseChange DEF PollFailed, Catch
<1>15. CASE PollGivesUp(r)
  <2>1. CallPhase(r)' = "unknown"
    BY <1>1, <1>2, <1>3, <1>15 DEF PollGivesUp, Catch, Err, ErrQuoting
  <2> QED
    BY <1>1, <1>4, <1>15, <2>1, PhaseChange DEF PollGivesUp, Catch
<1>16. CASE MarkVerified(r)
  BY <1>1, <1>2, <1>4, <1>16, PhaseChange DEF MarkVerified
<1>17. CASE MarkFailed(r)
  BY <1>1, <1>2, <1>4, <1>17, PhaseChange DEF MarkFailed
<1>18. CASE Compare(r)
  BY <1>1, <1>4, <1>18, PhaseChange DEF Compare
<1>19. CASE Update(r)
  <2>1. CallPhase(r)' = CallPhase(r)
    BY <1>1, <1>2, <1>3, <1>19 DEF Update, Answer, Outcome
  <2> QED
    BY <1>1, <1>4, <1>19, <2>1, PhaseChange DEF Update, Answer
<1>20. ASSUME Rescue(r), UNCHANGED <<ledger, tx>>,
              pc[r] \in {"confirmed", "failing", "compare", "update"}
       PROVE  [Call!Next]_(Call!contractCall)
  <2>1. CASE err[r] = Null
    <3>1. CallPhase(r)' = "unknown"
      BY <1>1, <1>2, <1>3, <1>20, <2>1 DEF Rescue, Catch, Err
    <3> QED
      BY <1>1, <1>4, <1>20, <2>1, <3>1, PhaseChange DEF Rescue, Catch
  <2>2. CASE err[r] # Null
    <3>1. CallPhase(r)' = CallPhase(r)
      BY <1>1, <1>2, <1>20, <2>2 DEF Rescue, Answer
    <3> QED
      BY <1>1, <1>4, <1>20, <2>2, <3>1, PhaseChange DEF Rescue, Answer
  <2> QED
    BY <2>1, <2>2
<1>21. CASE UpdateUnacknowledged(r)
  BY <1>20, <1>21 DEF UpdateUnacknowledged
<1>22. CASE DatabaseFails(r)
  BY <1>20, <1>22 DEF DatabaseFails
<1> QED
  BY <1>5, <1>6, <1>7, <1>8, <1>9, <1>10, <1>11, <1>12, <1>13, <1>14, <1>15, <1>16,
     <1>17, <1>18, <1>19, <1>21, <1>22 DEF RequestStep

LEMMA NextCall ==
    ASSUME TypeInv, SafetyInv, CallInv, [Next]_vars
    PROVE  [Call!Next]_(Call!contractCall)
<1> DEFINE phase == [q \in Requests |-> CallPhase(q)]
<1>1. ASSUME NEW r \in Requests, RequestStep(r) PROVE [Call!Next]_(Call!contractCall)
  BY <1>1, RequestCall
<1>2. ASSUME NEW w \in Runs, RunStep(w) PROVE [Call!Next]_(Call!contractCall)
  <2>1. \A q \in Requests : q \in Actors /\ q # w
    BY ActorAssumption DEF Actors
  <2>2. UNCHANGED <<phase, tx, ledger>>
    BY <1>2, <2>1 DEF RunStep, RunFind, Compare, RunUpdate, RunFails, Goto, shared,
                      CallPhase, TypeInv, TypeOK
  <2> QED
    BY <2>2 DEF Call!contractCall
<1>3. ASSUME NEW a \in Actors, Die(a) PROVE [Call!Next]_(Call!contractCall)
  <2>1. \A q \in Requests \ {a} : CallPhase(q)' = CallPhase(q)
    BY <1>3 DEF Die, Goto, CallPhase, TypeInv, TypeOK, Actors
  <2>2. CASE a \in Requests
    <3>1. CallPhase(a)' \in {CallPhase(a), "unknown"}
      BY <1>3, <2>2 DEF Die, Goto, CallPhase, CallInv, TypeInv, TypeOK, SafetyInv, Informed
    <3> QED
      BY <1>3, <2>1, <2>2, <3>1, PhaseChange DEF Die, shared
  <2>3. CASE a \notin Requests
    BY <1>3, <2>1, <2>3 DEF Die, shared, Call!contractCall
  <2> QED
    BY <2>2, <2>3
<1>4. ASSUME NEW t \in Tx, Network(t) PROVE [Call!Next]_(Call!contractCall)
  <2>1. UNCHANGED <<phase, tx>>
    BY <1>4 DEF Network, locals, CallPhase
  <2> QED
    BY <1>4, <2>1 DEF Network, Chain!Accept, Chain!Settle, Chain!Apply, Chain!Drop,
       Call!Next, Call!Network, Call!Chain!Accept, Call!Chain!Settle,
       Call!Chain!Apply, Call!Chain!Drop
<1>5. ASSUME NEW p \in Proofs, Expire(p) PROVE [Call!Next]_(Call!contractCall)
  BY <1>5 DEF Expire, locals, CallPhase, Call!contractCall
<1>6. CASE UNCHANGED vars
  BY <1>6 DEF vars, CallPhase, Call!contractCall
<1> QED
  BY <1>1, <1>2, <1>3, <1>4, <1>5, <1>6 DEF Next

\* A request signs one envelope at most, lets no other reach the network, and
\* confirms or rejects only what the ledger applied (verifyProof 249-272): the
\* steps ProofVerification keeps of a contract call are those of ContractCall,
\* which StellarSubmission implements in detail.
THEOREM VerificationImplementsContractCall == Spec => ImplementsContractCall
  BY InitCall, NextCall, CallInvariance, PTL DEF Spec, ImplementsContractCall, Call!Spec
=============================================================================
