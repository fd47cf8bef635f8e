---------------------- MODULE ProofVerificationStability ----------------------
(***************************************************************************)
(* What no step of ProofVerification takes back: that nobody else verifies *)
(* an unfit proof, a verdict nobody is at work on, and how far an actor    *)
(* has come.  All hold of every step from every well-typed state, and need *)
(* no other invariant.                                                     *)
(***************************************************************************)
EXTENDS ProofVerificationProofs

\* What an actor is doing changes in its own steps, or when it dies.
LEMMA ActorChange ==
    ASSUME TypeInv, [Next]_vars, NEW a \in Actors
    PROVE  \/ a \in Requests /\ RequestStep(a)
           \/ a \in Runs /\ RunStep(a)
           \/ Die(a)
           \/ pc'[a] = pc[a] /\ target'[a] = target[a] /\ entity'[a] = entity[a]
<1> USE DEF TypeInv, TypeOK, Actors, Goto, shared, locals
<1> DEFINE Kept == pc'[a] = pc[a] /\ target'[a] = target[a] /\ entity'[a] = entity[a]
<1>1. ASSUME NEW r \in Requests, RequestStep(r), r # a PROVE Kept
  BY <1>1 DEF RequestStep, FindNothing, RejectVerified, RejectUnfit, Admit, BuildFails,
     Build, SendReturns, SendThrows, Confirm, PollFailed, PollGivesUp, MarkVerified,
     MarkFailed, Compare, Update, UpdateUnacknowledged, DatabaseFails, Rescue, Catch,
     Answer, Release
<1>2. ASSUME NEW w \in Runs, RunStep(w), w # a PROVE Kept
  BY <1>2 DEF RunStep, RunFind, Compare, RunUpdate, RunFails, Release
<1>3. ASSUME NEW b \in Actors, Die(b), b # a PROVE Kept
  BY <1>3 DEF Die, Release
<1> QED
  BY <1>1, <1>2, <1>3 DEF Next, Expire, Network, vars

-----------------------------------------------------------------------------
(* An unfit proof.                                                          *)

\* No request joins those who may verify it: it was admitted before.
LEMMA NoRequestJoins ==
    ASSUME TypeInv, [Next]_vars, NEW p \in Proofs, NEW r \in Requests,
           Unfit(p), MayVerify(r, p)'
    PROVE  MayVerify(r, p)
<1> USE DEF TypeInv, TypeOK, Placed, Actors, Goto, shared, locals
<1>0. r \in Actors
  OBVIOUS
<1>1. CASE RequestStep(r)
  <2> USE <1>0, <1>1 DEF InFlight, MayVerify
  <2>1. ASSUME NEW q \in Proofs, RejectUnfit(r, q) PROVE FALSE
    BY <2>1 DEF RejectUnfit
  <2>2. ASSUME NEW q \in Proofs, Admit(r, q) PROVE MayVerify(r, p)
    BY <2>2 DEF Admit, Unfit
  <2>3. CASE MarkFailed(r)
    <3>1. rows[target[r]] \in Rows
      BY <2>3 DEF MarkFailed
    <3> QED
      BY <2>3, <3>1 DEF MarkFailed, MarkedFailed, Rows
  <2>4. CASE Compare(r)
    BY <2>4 DEF Compare
  <2>5. CASE DatabaseFails(r) \/ UpdateUnacknowledged(r)
    BY <2>5 DEF DatabaseFails, UpdateUnacknowledged, Rescue, Catch, Answer
  <2>6. CASE Update(r) \/ FindNothing(r)
    BY <2>6 DEF Update, FindNothing, Answer
  <2>7. ASSUME NEW q \in Proofs, RejectVerified(r, q) PROVE FALSE
    BY <2>7 DEF RejectVerified, Answer
  <2>8. CASE BuildFails(r) \/ Build(r) \/ SendReturns(r) \/ SendThrows(r) \/ Confirm(r)
             \/ PollFailed(r) \/ PollGivesUp(r) \/ MarkVerified(r)
    BY <2>8 DEF BuildFails, Build, SendReturns, SendThrows, Confirm, PollFailed,
       PollGivesUp, MarkVerified
  <2> QED
    BY <2>1, <2>2, <2>3, <2>4, <2>5, <2>6, <2>7, <2>8 DEF RequestStep
<1>2. CASE Die(r)
  BY <1>0, <1>2 DEF Die, InFlight, MayVerify
<1>3. CASE pc'[r] = pc[r] /\ target'[r] = target[r] /\ entity'[r] = entity[r]
  BY <1>0, <1>3 DEF InFlight, MayVerify
<1> QED
  BY <1>0, <1>1, <1>2, <1>3, ActorChange, ActorAssumption

\* A run joins them by copying a row that is verified already.
LEMMA RunsJoinByCopy ==
    ASSUME TypeInv, [Next]_vars, NEW p \in Proofs, NEW w \in Runs,
           rows[p].status # "verified", MayVerify(w, p)'
    PROVE  MayVerify(w, p)
<1> USE DEF TypeInv, TypeOK, Placed, Actors, Goto, shared, locals, InFlight, MayVerify
<1>0. w \in Actors
  OBVIOUS
<1>1. CASE RunStep(w)
  <2>1. ASSUME NEW q \in Proofs, RunFind(w, q) PROVE FALSE
    <3>1. q = p /\ entity'[w] = Stamped(rows[p], w) /\ entity'[w].status = "verified"
      BY <1>0, <2>1 DEF RunFind
    <3>2. rows[p] \in Rows
      OBVIOUS
    <3>3. Stamped(rows[p], w).status = rows[p].status
      BY <3>2 DEF Stamped, Rows
    <3> QED
      BY <3>1, <3>3
  <2>2. CASE Compare(w)
    BY <1>0, <2>2 DEF Compare
  <2>3. CASE RunUpdate(w) \/ RunFails(w)
    BY <1>0, <2>3 DEF RunUpdate, RunFails
  <2> QED
    BY <1>1, <2>1, <2>2, <2>3 DEF RunStep
<1>2. CASE Die(w)
  BY <1>0, <1>2 DEF Die
<1>3. CASE pc'[w] = pc[w] /\ target'[w] = target[w] /\ entity'[w] = entity[w]
  BY <1>0, <1>3
<1> QED
  BY <1>0, <1>1, <1>2, <1>3, ActorChange, ActorAssumption

\* Time does not run backwards.
LEMMA ExpiredGrows == [Next]_vars => expired \subseteq expired'
<1> SUFFICES ASSUME [Next]_vars PROVE expired \subseteq expired'
  OBVIOUS
<1>1. ASSUME NEW r \in Requests, RequestStep(r) PROVE UNCHANGED expired
  BY <1>1 DEF RequestStep, FindNothing, RejectVerified, RejectUnfit, Admit, BuildFails,
     Build, SendReturns, SendThrows, Confirm, PollFailed, PollGivesUp, MarkVerified,
     MarkFailed, Compare, Update, UpdateUnacknowledged, DatabaseFails, shared
<1>2. ASSUME NEW w \in Runs, RunStep(w) PROVE UNCHANGED expired
  BY <1>2 DEF RunStep, RunFind, Compare, RunUpdate, RunFails, shared
<1> QED
  BY <1>1, <1>2 DEF Next, Die, Expire, Network, shared, vars

LEMMA NextUnfit ==
    ASSUME TypeInv, [Next]_vars, NEW p \in Proofs, Unfit(p)
    PROVE  /\ Unfit(p)'
           /\ Verifiers(p)' \ Verifiers(p) \subseteq {w \in Runs : rows[p].status = "verified"}
           /\ rows[p].status # "verified" /\ Verifiers(p) = {} =>
                  rows'[p].status # "verified"
<1>1. Unfit(p)'
  BY ExpiredGrows DEF Unfit
<1>2. Verifiers(p)' \ Verifiers(p) \subseteq {w \in Runs : rows[p].status = "verified"}
  BY NoRequestJoins, RunsJoinByCopy DEF Verifiers, Actors
<1>3. ASSUME rows[p].status # "verified", Verifiers(p) = {}
      PROVE  rows'[p].status # "verified"
  <2>1. ASSUME NEW a \in Actors, pc[a] = "update", Save(a), target[a] = p
        PROVE  rows'[p].status # "verified"
    <3>1. entity[a].status # "verified"
      BY <1>3, <2>1 DEF Verifiers, MayVerify, InFlight
    <3>2. Overwritten(rows[p], entity[a], dirty[a]).status
              \in {rows[p].status, entity[a].status}
      BY DEF Overwritten
    <3> QED
      BY <1>3, <2>1, <3>1, <3>2 DEF Save, TypeInv, TypeOK
  <2>2. ASSUME NEW a \in Actors, Save(a), target[a] # p PROVE rows'[p] = rows[p]
    BY <2>2 DEF Save, TypeInv, TypeOK
  <2> QED
    BY <1>3, <2>1, <2>2, RowsChange
<1> QED
  BY <1>1, <1>2, <1>3

\* Once a proof is expired or has no data, it is verified by nobody but requests
\* that were admitted before, whichever requests and deliveries overlap: no other
\* request joins those who may verify it, a run only by copying a verified row, and
\* without any of them it does not become verified (verifyProof 232-240).
THEOREM UnfitIsNeverVerified == Spec => UnfitStaysUnverified
<1>1. TypeInv /\ [Next]_vars =>
          [\A p \in Proofs : Unfit(p) =>
               /\ Unfit(p)'
               /\ Verifiers(p)' \ Verifiers(p) \subseteq {w \in Runs : rows[p].status = "verified"}
               /\ rows[p].status # "verified" /\ Verifiers(p) = {} =>
                      rows'[p].status # "verified"]_vars
  BY NextUnfit
<1> QED
  BY <1>1, Invariance, PTL DEF Spec, UnfitStaysUnverified

-----------------------------------------------------------------------------
(* A settled verdict.                                                       *)

\* A verdict is what a row says, its stamp aside.
LEMMA VerdictColumns ==
    ASSUME NEW row \in Rows, NEW other \in Rows
    PROVE  Verdict(row) = Verdict(other) <=>
               /\ row.status = other.status
               /\ row.transactionHash = other.transactionHash
               /\ row.verifiedAt = other.verifiedAt
               /\ row.errorMessage = other.errorMessage
  BY DEF Verdict, Rows

\* Saving a copy with the verdict of the row changes the stamp at most, and so
\* does the stamp itself.
LEMMA SameVerdict ==
    /\ \A stored \in Rows, copy \in Rows, cols \in SUBSET Columns :
           Verdict(copy) = Verdict(stored) =>
               Verdict(Overwritten(stored, copy, cols)) = Verdict(stored)
    /\ \A row \in Rows, w \in Runs : Verdict(Stamped(row, w)) = Verdict(row)
<1>1. ASSUME NEW stored \in Rows, NEW copy \in Rows, NEW cols \in SUBSET Columns,
             Verdict(copy) = Verdict(stored)
      PROVE  Verdict(Overwritten(stored, copy, cols)) = Verdict(stored)
  <2>1. Overwritten(stored, copy, cols) \in Rows
    BY OverwrittenType
  <2> QED
    BY <1>1, <2>1, VerdictColumns DEF Overwritten
<1>2. ASSUME NEW row \in Rows, NEW w \in Runs
      PROVE  Verdict(Stamped(row, w)) = Verdict(row)
  <2>1. Stamped(row, w) \in Rows
    BY RecordTypes
  <2> QED
    BY <2>1, VerdictColumns DEF Stamped, Rows
<1> QED
  BY <1>1, <1>2

\* Nobody can save anything but this verdict.
LEMMA SettledRow ==
    ASSUME TypeInv, [Next]_vars, NEW p \in Proofs, Settled(p)
    PROVE  Verdict(rows'[p]) = Verdict(rows[p])
<1> USE DEF TypeInv, TypeOK, Placed, Actors
<1>1. ASSUME NEW a \in Actors, pc[a] = "update", Save(a), target[a] = p
      PROVE  Verdict(rows'[p]) = Verdict(rows[p])
  <2>1. a \in Runs /\ Verdict(entity[a]) = Verdict(rows[p])
    BY <1>1 DEF Settled, InFlight
  <2>2. entity[a] \in Rows /\ rows[p] \in Rows /\ dirty[a] \in SUBSET Columns
    BY <1>1
  <2>3. Verdict(Overwritten(rows[p], entity[a], dirty[a])) = Verdict(rows[p])
    BY <2>1, <2>2, SameVerdict
  <2> QED
    BY <1>1, <2>3 DEF Save
<1>2. ASSUME NEW a \in Actors, Save(a), target[a] # p PROVE rows'[p] = rows[p]
  BY <1>2 DEF Save
<1> QED
  BY <1>1, <1>2, RowsChange

\* No request begins to work on a verified proof.
LEMMA SettledRequests ==
    ASSUME TypeInv, [Next]_vars, NEW p \in Proofs, NEW r \in Requests, Settled(p)
    PROVE  ~InFlight(r, p)'
<1> USE DEF TypeInv, TypeOK, Actors, Goto, shared, locals
<1>0. r \in Actors /\ ~InFlight(r, p) /\ rows[p].status = "verified"
  BY DEF Settled
<1>1. CASE RequestStep(r)
  <2> USE <1>0 DEF InFlight
  <2>1. ASSUME NEW q \in Proofs, RejectUnfit(r, q) \/ Admit(r, q) PROVE ~InFlight(r, p)'
    BY <2>1 DEF RejectUnfit, Admit
  <2>2. ASSUME NEW q \in Proofs, RejectVerified(r, q) PROVE ~InFlight(r, p)'
    BY <2>2 DEF RejectVerified, Answer
  <2>3. CASE FindNothing(r)
    BY <2>3 DEF FindNothing, Answer
  <2>4. CASE pc[r] # "done" /\ target'[r] = target[r]
    BY <2>4
  <2>5. ASSUME ~(\E q \in Proofs : RejectVerified(r, q) \/ RejectUnfit(r, q) \/ Admit(r, q)),
               ~FindNothing(r)
        PROVE  pc[r] # "done" /\ target'[r] = target[r]
    BY <1>1, <2>5 DEF RequestStep, BuildFails, Build, SendReturns, SendThrows, Confirm,
       PollFailed, PollGivesUp, MarkVerified, MarkFailed, Compare, Update,
       UpdateUnacknowledged, DatabaseFails
  <2> QED
    BY <2>1, <2>2, <2>3, <2>4, <2>5
<1>2. CASE Die(r)
  BY <1>0, <1>2 DEF Die, InFlight
<1>3. CASE pc'[r] = pc[r] /\ target'[r] = target[r] /\ entity'[r] = entity[r]
  BY <1>0, <1>3 DEF InFlight
<1> QED
  BY <1>0, <1>1, <1>2, <1>3, ActorChange, ActorAssumption

\* The copy of every run at work on it is of this verdict.
LEMMA SettledRuns ==
    ASSUME TypeInv, [Next]_vars, NEW p \in Proofs, NEW w \in Runs,
           Settled(p), InFlight(w, p)'
    PROVE  Verdict(entity'[w]) = Verdict(rows[p])
<1> USE DEF TypeInv, TypeOK, Actors, Goto, shared, locals
<1>0. w \in Actors /\ (InFlight(w, p) => Verdict(entity[w]) = Verdict(rows[p]))
  BY DEF Settled
<1>1. CASE RunStep(w)
  <2>1. ASSUME NEW q \in Proofs, RunFind(w, q) PROVE Verdict(entity'[w]) = Verdict(rows[p])
    <3>1. q = p
      BY <1>0, <2>1 DEF RunFind, InFlight
    <3>2. entity'[w] = Stamped(rows[p], w)
      BY <1>0, <2>1, <3>1 DEF RunFind
    <3> QED
      BY <3>2, SameVerdict
  <2>2. CASE Compare(w)
    BY <1>0, <2>2 DEF Compare, InFlight
  <2>3. CASE RunUpdate(w) \/ RunFails(w)
    BY <1>0, <2>3 DEF RunUpdate, RunFails, InFlight
  <2> QED
    BY <1>1, <2>1, <2>2, <2>3 DEF RunStep
<1>2. CASE Die(w)
  BY <1>0, <1>2 DEF Die, InFlight
<1>3. CASE pc'[w] = pc[w] /\ target'[w] = target[w] /\ entity'[w] = entity[w]
  BY <1>0, <1>3 DEF InFlight
<1> QED
  BY <1>0, <1>1, <1>2, <1>3, ActorChange, ActorAssumption

LEMMA NextSettled ==
    ASSUME TypeInv, TypeInv', [Next]_vars, NEW p \in Proofs, Settled(p)
    PROVE  Settled(p)' /\ Verdict(rows'[p]) = Verdict(rows[p])
<1>1. Verdict(rows'[p]) = Verdict(rows[p])
  BY SettledRow
<1>2. rows'[p].status = "verified"
  <2>1. rows[p] \in Rows /\ rows'[p] \in Rows /\ rows[p].status = "verified"
    BY DEF Settled, TypeInv, TypeOK
  <2> QED
    BY <1>1, <2>1, VerdictColumns
<1>3. \A r \in Requests : ~InFlight(r, p)'
  BY SettledRequests
<1>4. \A w \in Runs : InFlight(w, p)' => Verdict(entity'[w]) = Verdict(rows'[p])
  BY <1>1, SettledRuns
<1> QED
  BY <1>1, <1>2, <1>3, <1>4 DEF Settled, Verdict

\* A verdict nobody is at work on is final: later requests, deliveries, stale
\* saves and crashes change neither the status nor the hash, the time or the
\* message (verifyProof 228-230).
THEOREM SettledIsFinal == Spec => VerifiedSettles
<1>1. TypeInv /\ TypeInv' /\ [Next]_vars =>
          [\A p \in Proofs : Settled(p) =>
               Settled(p)' /\ Verdict(rows'[p]) = Verdict(rows[p])]_vars
  BY NextSettled
<1> QED
  BY <1>1, Invariance, PTL DEF Spec, VerifiedSettles

-----------------------------------------------------------------------------
(* Every actor runs down.                                                   *)

LEMMA RequestAdvances ==
    ASSUME TypeInv, NEW r \in Requests, RequestStep(r)
    PROVE  StepsLeft(r)' < StepsLeft(r)
<1> USE ActorAssumption DEF TypeInv, TypeOK, Actors, Goto
<1>1. \A why, t : Err(why) = [why |-> why, tx |-> Null]
                  /\ ErrQuoting(why, t) = [why |-> why, tx |-> t]
  BY DEF Err, ErrQuoting
<1>2. \A why \in Whys : Err(why) # Null
  BY <1>1, NullAssumption DEF Errors
<1>3. CASE pc'[r] = "done" /\ pc[r] # "done"
  BY <1>3 DEF StepsLeft, PCs
<1>4. CASE FindNothing(r) \/ Update(r) \/ \E p \in Proofs : RejectVerified(r, p)
  BY <1>3, <1>4 DEF FindNothing, RejectVerified, Update, Answer
<1>5. ASSUME NEW p \in Proofs, RejectUnfit(r, p) \/ Admit(r, p)
      PROVE  StepsLeft(r)' < StepsLeft(r)
  BY <1>5 DEF RejectUnfit, Admit, StepsLeft
<1>6. CASE Build(r) \/ SendReturns(r) \/ Confirm(r) \/ MarkVerified(r) \/ MarkFailed(r)
           \/ Compare(r)
  BY <1>6 DEF Build, SendReturns, Confirm, MarkVerified, MarkFailed, Compare, StepsLeft
<1>7. CASE BuildFails(r) \/ SendThrows(r) \/ PollFailed(r) \/ PollGivesUp(r)
  <2>1. /\ pc[r] \in {"build", "send", "poll"}
        /\ \E e \in Errors : Catch(r, e)
    BY <1>1, <1>7 DEF BuildFails, SendThrows, PollFailed, PollGivesUp, Errors, Whys
  <2>2. pc'[r] = "failing" /\ err'[r] # Null
    BY <2>1, NullAssumption DEF Catch
  <2> QED
    BY <2>1, <2>2 DEF StepsLeft
<1>8. CASE DatabaseFails(r) \/ UpdateUnacknowledged(r)
  <2>1. /\ pc[r] \in {"confirmed", "failing", "compare", "update"}
        /\ Rescue(r)
    BY <1>8 DEF DatabaseFails, UpdateUnacknowledged
  <2>2. CASE err[r] = Null /\ Catch(r, Err("unsaved"))
    <3>1. pc'[r] = "failing" /\ err'[r] # Null
      BY <1>2, <2>2 DEF Catch, Whys
    <3> QED
      BY <2>1, <2>2, <3>1 DEF StepsLeft
  <2>3. CASE Answer(r, "badRequest")
    BY <1>3, <2>1, <2>3 DEF Answer
  <2> QED
    BY <2>1, <2>2, <2>3 DEF Rescue
<1> QED
  BY <1>4, <1>5, <1>6, <1>7, <1>8 DEF RequestStep

LEMMA RunAdvances ==
    ASSUME TypeInv, NEW w \in Runs, RunStep(w)
    PROVE  StepsLeft(w)' < StepsLeft(w)
<1> USE ActorAssumption DEF TypeInv, TypeOK, Actors, Goto
<1>1. ASSUME NEW p \in Proofs, RunFind(w, p) PROVE StepsLeft(w)' < StepsLeft(w)
  BY <1>1 DEF RunFind, StepsLeft
<1>2. CASE Compare(w) \/ RunUpdate(w) \/ RunFails(w)
  BY <1>2 DEF Compare, RunUpdate, RunFails, StepsLeft
<1> QED
  BY <1>1, <1>2 DEF RunStep

LEMMA StepsLeftNat ==
    ASSUME TypeInv, NEW a \in Actors
    PROVE  StepsLeft(a) \in 0..10
  BY DEF TypeInv, TypeOK, StepsLeft, PCs

\* Whatever a request or a run does, errors, lost acknowledgements and crashes
\* included, uses up one of at most ten steps, and nothing gives it one back
\* (verifyProof 249-272): with awaits that settle, what ActorsEnd rests on.
THEOREM ActorsAlwaysAdvance ==
    Spec => ActorsAdvance /\ [](\A a \in Actors : StepsLeft(a) \in 0..10)
<1> DEFINE Advance == \A a \in Actors : \/ UNCHANGED <<pc[a], entity[a]>>
                                        \/ StepsLeft(a)' < StepsLeft(a)
           Bounded == \A a \in Actors : StepsLeft(a) \in 0..10
<1>1. TypeInv => Bounded
  BY StepsLeftNat
<1>2. TypeInv /\ [Next]_vars => [Advance]_vars
  <2> SUFFICES ASSUME TypeInv, [Next]_vars, NEW a \in Actors
               PROVE  UNCHANGED <<pc[a], entity[a]>> \/ StepsLeft(a)' < StepsLeft(a)
    OBVIOUS
  <2>1. CASE Die(a)
    BY <2>1, ActorAssumption DEF Die, Goto, StepsLeft, TypeInv, TypeOK, PCs, Actors
  <2> QED
    BY <2>1, ActorChange, RequestAdvances, RunAdvances
<1> QED
  BY <1>1, <1>2, Invariance, PTL DEF Spec, ActorsAdvance
=============================================================================
