----------------------- MODULE ProofVerificationProofs -----------------------
(***************************************************************************)
(* Proofs about ProofVerification, for every set of proofs, requests, runs *)
(* and nonces.                                                             *)
(***************************************************************************)
EXTENDS ProofVerification, TLAPS

-----------------------------------------------------------------------------
(* The operators of ProofRecord stay within Rows.                           *)

\* A row the services insert, and the copies they make of a row, are rows.
LEMMA RecordTypes ==
    /\ \A s \in Statuses : Inserted(s) \in Rows
    /\ \A row \in Rows, t \in Tx, r \in Requests : MarkedVerified(row, t, r) \in Rows
    /\ \A row \in Rows, e \in Errors : MarkedFailed(row, e) \in Rows
    /\ \A row \in Rows, w \in Runs : Stamped(row, w) \in Rows
<1>1. \A s \in Statuses : Inserted(s) \in Rows
  BY DEF Inserted, Rows
<1>2. ASSUME NEW row \in Rows, NEW t \in Tx, NEW r \in Requests
      PROVE  MarkedVerified(row, t, r) \in Rows
  BY DEF MarkedVerified, Rows, Statuses
<1>3. ASSUME NEW row \in Rows, NEW e \in Errors PROVE MarkedFailed(row, e) \in Rows
  BY DEF MarkedFailed, Rows, Statuses
<1>4. ASSUME NEW row \in Rows, NEW w \in Runs PROVE Stamped(row, w) \in Rows
  BY DEF Stamped, Rows
<1> QED
  BY <1>1, <1>2, <1>3, <1>4

\* What a save leaves in the table is a row.
LEMMA OverwrittenType ==
    ASSUME NEW stored \in Rows, NEW proof \in Rows, NEW cols
    PROVE  Overwritten(stored, proof, cols) \in Rows
  BY DEF Overwritten, Rows

\* The messages of a failure.
LEMMA ErrTypes ==
    /\ \A why \in Whys : Err(why) \in Errors
    /\ \A why \in Whys, t \in Tx : ErrQuoting(why, t) \in Errors
  BY DEF Err, ErrQuoting, Errors

-----------------------------------------------------------------------------
(* Type correctness.                                                        *)

\* Where an actor is tells which of its local variables are set.
Placed ==
    /\ \A a \in Actors : pc[a] \notin {"idle", "done"} => target[a] \in Proofs
    /\ \A a \in Actors : pc[a] \in {"compare", "update"} => entity[a] \in Rows
    /\ \A r \in Requests : pc[r] \in {"send", "poll", "confirmed"} => tx[r] \in Tx
    /\ \A r \in Requests : pc[r] = "failing" => err[r] \in Errors
    /\ \A w \in Runs : pc[w] \in {"idle", "compare", "update", "done"}

TypeInv == TypeOK /\ Placed

LEMMA InitTypeInv == Init => TypeInv
<1> SUFFICES ASSUME Init PROVE TypeInv
  OBVIOUS
<1>1. rows \in [Proofs -> Rows]
  BY RecordTypes DEF Init, FreshRows, Statuses
<1>2. TypeOK
  BY <1>1 DEF Init, TypeOK, PCs, Replies, Chain!Init, Chain!TypeOK, Chain!Fates
<1>3. Placed
  BY DEF Init, Placed, Actors
<1> QED
  BY <1>2, <1>3 DEF TypeInv

\* The steps of a request, of a run and of the surroundings keep the types.
LEMMA RequestTypeInv ==
    ASSUME TypeInv, NEW r \in Requests, RequestStep(r)
    PROVE  TypeInv'
<1> USE DEF TypeInv, TypeOK, Placed, Actors, shared, locals, Goto, Chain!TypeOK
<1>0. r \in Actors /\ r \notin Runs
  BY ActorAssumption
<1>1. CASE FindNothing(r)
  BY <1>0, <1>1 DEF FindNothing, Answer, PCs, Replies
<1>2. ASSUME NEW p \in Proofs, RejectVerified(r, p) PROVE TypeInv'
  BY <1>0, <1>2 DEF RejectVerified, Answer, PCs, Replies
<1>3. ASSUME NEW p \in Proofs, RejectUnfit(r, p) PROVE TypeInv'
  BY <1>0, <1>3, ErrTypes DEF RejectUnfit, PCs, Whys
<1>4. ASSUME NEW p \in Proofs, Admit(r, p) PROVE TypeInv'
  BY <1>0, <1>4 DEF Admit, PCs
<1>5. CASE BuildFails(r)
  BY <1>0, <1>5, ErrTypes DEF BuildFails, Catch, PCs, Whys
<1>6. CASE Build(r)
  <2>1. ProofData[target[r]] \in Payloads
    BY <1>0, <1>6, ProofDataAssumption DEF Build
  <2>2. \E t \in Tx : tx' = [tx EXCEPT ![r] = t]
    BY <1>6, <2>1 DEF Build, Tx
  <2> QED
    BY <1>0, <1>6, <2>2 DEF Build, PCs
<1>7. CASE SendReturns(r)
  BY <1>0, <1>7 DEF SendReturns, PCs
<1>8. CASE SendThrows(r)
  BY <1>0, <1>8, ErrTypes DEF SendThrows, Catch, PCs, Whys
<1>9. CASE Confirm(r)
  BY <1>0, <1>9 DEF Confirm, PCs
<1>10. CASE PollFailed(r)
  BY <1>0, <1>10, ErrTypes DEF PollFailed, Catch, PCs, Whys
<1>11. CASE PollGivesUp(r)
  BY <1>0, <1>11, ErrTypes DEF PollGivesUp, Catch, PCs, Whys
<1>12. CASE MarkVerified(r)
  <2>1. MarkedVerified(rows[target[r]], tx[r], r) \in Rows
    BY <1>0, <1>12, RecordTypes DEF MarkVerified
  <2> QED
    BY <1>0, <1>12, <2>1 DEF MarkVerified, PCs
<1>13. CASE MarkFailed(r)
  <2>1. MarkedFailed(rows[target[r]], err[r]) \in Rows
    BY <1>0, <1>13, RecordTypes DEF MarkFailed
  <2> QED
    BY <1>0, <1>13, <2>1 DEF MarkFailed, PCs
<1>14. CASE Compare(r)
  BY <1>0, <1>14 DEF Compare, PCs, Dirty
<1>15. ASSUME pc[r] = "update", Save(r) PROVE rows' \in [Proofs -> Rows]
  <2>1. target[r] \in Proofs /\ entity[r] \in Rows
    BY <1>0, <1>15
  <2>2. Overwritten(rows[target[r]], entity[r], dirty[r]) \in Rows
    BY <2>1, OverwrittenType
  <2> QED
    BY <1>15, <2>1, <2>2 DEF Save
<1>16. CASE Update(r)
  <2>1. Outcome(err[r]) \in Replies
    BY DEF Outcome, Replies
  <2> QED
    BY <1>0, <1>15, <1>16, <2>1 DEF Update, Release, Answer, PCs
<1>17. ASSUME Rescue(r), Release(r), UNCHANGED <<expired, ledger, target, tx>>,
              rows' \in [Proofs -> Rows], pc[r] \notin {"idle", "done"}
       PROVE  TypeInv'
  BY <1>0, <1>17, ErrTypes DEF Rescue, Release, Catch, Answer, PCs, Replies, Whys
<1>18. CASE UpdateUnacknowledged(r)
  BY <1>15, <1>17, <1>18 DEF UpdateUnacknowledged
<1>19. CASE DatabaseFails(r)
  BY <1>17, <1>19 DEF DatabaseFails
<1> QED
  BY <1>1, <1>2, <1>3, <1>4, <1>5, <1>6, <1>7, <1>8, <1>9, <1>10,
     <1>11, <1>12, <1>13, <1>14, <1>16, <1>18, <1>19 DEF RequestStep

LEMMA RunTypeInv ==
    ASSUME TypeInv, NEW w \in Runs, RunStep(w)
    PROVE  TypeInv'
<1> USE DEF TypeInv, TypeOK, Placed, Actors, shared, locals, Goto, Chain!TypeOK
<1>0. w \in Actors /\ w \notin Requests
  BY ActorAssumption
<1>1. ASSUME NEW p \in Proofs, RunFind(w, p) PROVE TypeInv'
  <2>1. Stamped(rows[p], w) \in Rows
    BY RecordTypes
  <2> QED
    BY <1>0, <1>1, <2>1 DEF RunFind, PCs
<1>2. CASE Compare(w)
  BY <1>0, <1>2 DEF Compare, PCs, Dirty
<1>3. ASSUME pc[w] = "update", Save(w) PROVE rows' \in [Proofs -> Rows]
  <2>1. target[w] \in Proofs /\ entity[w] \in Rows
    BY <1>0, <1>3
  <2>2. Overwritten(rows[target[w]], entity[w], dirty[w]) \in Rows
    BY <2>1, OverwrittenType
  <2> QED
    BY <1>3, <2>1, <2>2 DEF Save
<1>4. CASE RunUpdate(w)
  BY <1>0, <1>3, <1>4 DEF RunUpdate, Release, PCs
<1>5. CASE RunFails(w)
  <2>1. rows' \in [Proofs -> Rows]
    BY <1>3, <1>5 DEF RunFails
  <2> QED
    BY <1>0, <1>5, <2>1 DEF RunFails, Release, PCs
<1> QED
  BY <1>1, <1>2, <1>4, <1>5 DEF RunStep

LEMMA NextTypeInv == TypeInv /\ [Next]_vars => TypeInv'
<1> SUFFICES ASSUME TypeInv, [Next]_vars PROVE TypeInv'
  OBVIOUS
<1> USE DEF TypeInv, TypeOK, Placed, Actors, shared, locals, Goto, Chain!TypeOK
<1>1. ASSUME NEW r \in Requests, RequestStep(r) PROVE TypeInv'
  BY <1>1, RequestTypeInv
<1>2. ASSUME NEW w \in Runs, RunStep(w) PROVE TypeInv'
  BY <1>2, RunTypeInv
<1>3. ASSUME NEW a \in Actors, Die(a) PROVE TypeInv'
  BY <1>3 DEF Die, Release, PCs
<1>4. ASSUME NEW p \in Proofs, Expire(p) PROVE TypeInv'
  BY <1>4 DEF Expire
<1>5. ASSUME NEW t \in Tx, Network(t) PROVE TypeInv'
  BY <1>5 DEF Network, Chain!Accept, Chain!Settle, Chain!Apply, Chain!Drop, Chain!Fates
<1>6. CASE UNCHANGED vars
  BY <1>6 DEF vars
<1> QED
  BY <1>1, <1>2, <1>3, <1>4, <1>5, <1>6 DEF Next

\* Every reachable state is well typed: a save never leaves a column with a
\* value of another column, whatever copies are in flight.
THEOREM TypeCorrect == Spec => []TypeOK
<1>1. Spec => []TypeInv
  BY InitTypeInv, NextTypeInv, PTL DEF Spec
<1>2. TypeInv => TypeOK
  BY DEF TypeInv
<1> QED
  BY <1>1, <1>2, PTL

-----------------------------------------------------------------------------
(* A verified row is a confirmed one.  The invariant says of every COPY of  *)
(* a row what the property says of the row: a save writes columns that were *)
(* read at any earlier time, so both must be sound, each column by itself.  *)

\* Nothing the network decided is undone.
Finality(l, m) == \A t \in Tx : l[t] \in {"success", "failed"} => m[t] = l[t]

\* l confirmed the envelope t, and it carries the data of p.
ConfirmedFor(l, t, p) ==
    t \in Tx /\ t.payload = ProofData[p] /\ l[t] = "success"

RejectedFor(l, e, p) ==
    e # Null /\ e.why = "rejected" =>
        e.tx \in Tx /\ e.tx.payload = ProofData[p] /\ l[e.tx] = "failed"

\* What a row, or a copy of it, says of p is what the ledger says.
Sound(l, p, row) ==
    /\ row.status = "verified" => \E t \in Tx : ConfirmedFor(l, t, p)
    /\ row.transactionHash # Null => ConfirmedFor(l, row.transactionHash, p)
    /\ RejectedFor(l, row.errorMessage, p)

\* What a request knows of its envelope at each step.
Informed(r) ==
    /\ pc[r] \in {"send", "poll"} => tx[r].payload = ProofData[target[r]]
    /\ pc[r] = "confirmed" => ConfirmedFor(ledger, tx[r], target[r])
    /\ pc[r] \in {"compare", "update"} /\ err[r] = Null =>
           ConfirmedFor(ledger, tx[r], target[r])
    /\ pc[r] \in {"idle", "build", "send", "poll", "confirmed"} => err[r] = Null
    /\ pc[r] \in {"failing", "compare", "update"} =>
           RejectedFor(ledger, err[r], target[r])
    /\ reply[r] = "ok" => pc[r] = "done" /\ ConfirmedFor(ledger, tx[r], target[r])

SoundRows == \A p \in Proofs : Sound(ledger, p, rows[p])

SoundCopies ==
    \A a \in Actors : pc[a] \in {"compare", "update"} =>
        Sound(ledger, target[a], entity[a])

SafetyInv ==
    /\ SoundRows
    /\ SoundCopies
    /\ \A r \in Requests : Informed(r)

-----------------------------------------------------------------------------
\* No step of the ledger takes back a success or a failure.
LEMMA LedgerFinality ==
    ASSUME TypeOK, [Next]_vars
    PROVE  Finality(ledger, ledger')
<1>1. ASSUME NEW t \in Tx, Chain!Accept(t) \/ Chain!Settle(t)
      PROVE  Finality(ledger, ledger')
  BY <1>1 DEF Finality, Chain!Accept, Chain!Settle, Chain!Apply, Chain!Drop,
              TypeOK, Chain!TypeOK
<1>2. CASE UNCHANGED ledger
  BY <1>2 DEF Finality
<1>3. ASSUME NEW r \in Requests, RequestStep(r) PROVE UNCHANGED ledger
  BY <1>3 DEF RequestStep, FindNothing, RejectVerified, RejectUnfit, Admit, BuildFails,
     Build, SendReturns, SendThrows, Confirm, PollFailed, PollGivesUp, MarkVerified,
     MarkFailed, Compare, Update, UpdateUnacknowledged, DatabaseFails, shared
<1>4. ASSUME NEW w \in Runs, RunStep(w) PROVE UNCHANGED ledger
  BY <1>4 DEF RunStep, RunFind, Compare, RunUpdate, RunFails, shared
<1>5. ASSUME NEW t \in Tx, Network(t) PROVE Finality(ledger, ledger')
  BY <1>1, <1>5 DEF Network
<1> QED
  BY <1>2, <1>3, <1>4, <1>5 DEF Next, Die, Expire, shared, vars

\* What was sound remains so while the ledger only decides more.
LEMMA SoundStable ==
    ASSUME NEW l, NEW m, Finality(l, m), NEW p
    PROVE  /\ \A t : ConfirmedFor(l, t, p) => ConfirmedFor(m, t, p)
           /\ \A e : RejectedFor(l, e, p) => RejectedFor(m, e, p)
           /\ \A row : Sound(l, p, row) => Sound(m, p, row)
<1>1. \A t : ConfirmedFor(l, t, p) => ConfirmedFor(m, t, p)
  BY DEF ConfirmedFor, Finality
<1>2. \A e : RejectedFor(l, e, p) => RejectedFor(m, e, p)
  BY DEF RejectedFor, Finality
<1> QED
  BY <1>1, <1>2 DEF Sound

\* A save mixes columns of two sound rows into a sound row.
LEMMA SoundSave ==
    ASSUME NEW l, NEW p \in Proofs, NEW stored, NEW proof, NEW cols,
           Sound(l, p, stored), Sound(l, p, proof)
    PROVE  Sound(l, p, Overwritten(stored, proof, cols))
  BY DEF Sound, Overwritten

\* The three ways a copy is changed keep it sound.
LEMMA SoundMarks ==
    ASSUME NEW l, NEW p \in Proofs, NEW row \in Rows, Sound(l, p, row)
    PROVE  /\ \A t, r : ConfirmedFor(l, t, p) => Sound(l, p, MarkedVerified(row, t, r))
           /\ \A e : RejectedFor(l, e, p) => Sound(l, p, MarkedFailed(row, e))
           /\ \A w : Sound(l, p, Stamped(row, w))
<1>1. ASSUME NEW t, NEW r, ConfirmedFor(l, t, p)
      PROVE  Sound(l, p, MarkedVerified(row, t, r))
  <2> DEFINE marked == MarkedVerified(row, t, r)
  <2>1. /\ marked.status = "verified"
        /\ marked.transactionHash = t
        /\ marked.errorMessage = row.errorMessage
    BY DEF MarkedVerified, Rows
  <2>2. t \in Tx
    BY <1>1 DEF ConfirmedFor
  <2> QED
    BY <1>1, <2>1, <2>2 DEF Sound
<1>2. ASSUME NEW e, RejectedFor(l, e, p) PROVE Sound(l, p, MarkedFailed(row, e))
  <2> DEFINE marked == MarkedFailed(row, e)
  <2>1. /\ marked.status = "failed"
        /\ marked.transactionHash = row.transactionHash
        /\ marked.errorMessage = e
    BY DEF MarkedFailed, Rows
  <2> QED
    BY <1>2, <2>1 DEF Sound
<1>3. ASSUME NEW w PROVE Sound(l, p, Stamped(row, w))
  <2> DEFINE marked == Stamped(row, w)
  <2>1. /\ marked.status = row.status
        /\ marked.transactionHash = row.transactionHash
        /\ marked.errorMessage = row.errorMessage
    BY DEF Stamped, Rows
  <2> QED
    BY <2>1 DEF Sound
<1> QED
  BY <1>1, <1>2, <1>3

-----------------------------------------------------------------------------
(* What a step can do to each part of the state.                            *)

\* The table changes only by the save of an actor that holds a copy.
LEMMA RowsChange ==
    ASSUME [Next]_vars
    PROVE  (UNCHANGED rows) \/ (\E a \in Actors : pc[a] = "update" /\ Save(a))
<1>1. ASSUME NEW r \in Requests, RequestStep(r)
      PROVE  (UNCHANGED rows) \/ (pc[r] = "update" /\ Save(r))
  BY <1>1 DEF RequestStep, FindNothing, RejectVerified, RejectUnfit, Admit, BuildFails,
     Build, SendReturns, SendThrows, Confirm, PollFailed, PollGivesUp,
     MarkVerified, MarkFailed, Compare, Update, UpdateUnacknowledged, DatabaseFails,
     Save, shared
<1>2. ASSUME NEW w \in Runs, RunStep(w)
      PROVE  (UNCHANGED rows) \/ (pc[w] = "update" /\ Save(w))
  BY <1>2 DEF RunStep, RunFind, Compare, RunUpdate, RunFails, Save, shared
<1> QED
  BY <1>1, <1>2 DEF Next, Die, Expire, Network, shared, vars, Actors

\* An actor holds the copy it held, or one it makes of the row in this step.
LEMMA CopyOrigin ==
    ASSUME TypeInv, [Next]_vars, NEW a \in Actors, pc'[a] \in {"compare", "update"}
    PROVE  \/ /\ pc[a] \in {"compare", "update"}
              /\ entity'[a] = entity[a]
              /\ target'[a] = target[a]
           \/ a \in Requests /\ (MarkVerified(a) \/ MarkFailed(a))
           \/ a \in Runs /\ \E p \in Proofs : RunFind(a, p)
<1> USE DEF TypeInv, TypeOK, Actors, Goto, shared, locals
<1>1. ASSUME NEW r \in Requests, RequestStep(r), ~MarkVerified(r), ~MarkFailed(r)
      PROVE  pc[a] \in {"compare", "update"} /\ entity'[a] = entity[a]
                 /\ target'[a] = target[a]
  BY <1>1 DEF RequestStep, FindNothing, RejectVerified, RejectUnfit, Admit, BuildFails,
     Build, SendReturns, SendThrows, Confirm, PollFailed, PollGivesUp, Compare,
     Update, UpdateUnacknowledged, DatabaseFails, Rescue, Catch, Answer, Release
<1>2. ASSUME NEW w \in Runs, RunStep(w), ~(\E p \in Proofs : RunFind(w, p))
      PROVE  pc[a] \in {"compare", "update"} /\ entity'[a] = entity[a]
                 /\ target'[a] = target[a]
  BY <1>2 DEF RunStep, Compare, RunUpdate, RunFails, Release
<1>3. ASSUME NEW r \in Requests, MarkVerified(r) \/ MarkFailed(r), a # r
      PROVE  pc[a] \in {"compare", "update"} /\ entity'[a] = entity[a]
                 /\ target'[a] = target[a]
  BY <1>3 DEF MarkVerified, MarkFailed
<1>4. ASSUME NEW w \in Runs, NEW p \in Proofs, RunFind(w, p), a # w
      PROVE  pc[a] \in {"compare", "update"} /\ entity'[a] = entity[a]
                 /\ target'[a] = target[a]
  BY <1>4 DEF RunFind
<1>5. ASSUME NEW b \in Actors, Die(b)
      PROVE  pc[a] \in {"compare", "update"} /\ entity'[a] = entity[a]
                 /\ target'[a] = target[a]
  BY <1>5 DEF Die, Release
<1> QED
  BY <1>1, <1>2, <1>3, <1>4, <1>5 DEF Next, Expire, Network, vars

\* The locals of a request change in its own steps, or when it dies.
LEMMA LocalsChange ==
    ASSUME TypeInv, [Next]_vars, NEW r \in Requests
    PROVE  \/ RequestStep(r)
           \/ Die(r)
           \/ /\ pc'[r] = pc[r]
              /\ target'[r] = target[r]
              /\ tx'[r] = tx[r]
              /\ err'[r] = err[r]
              /\ reply'[r] = reply[r]
<1> USE DEF TypeInv, TypeOK, Actors, Goto, shared, locals
<1> DEFINE Kept == /\ pc'[r] = pc[r]
                   /\ target'[r] = target[r]
                   /\ tx'[r] = tx[r]
                   /\ err'[r] = err[r]
                   /\ reply'[r] = reply[r]
<1>1. ASSUME NEW q \in Requests, RequestStep(q), q # r PROVE Kept
  BY <1>1 DEF RequestStep, FindNothing, RejectVerified, RejectUnfit, Admit, BuildFails,
     Build, SendReturns, SendThrows, Confirm, PollFailed, PollGivesUp,
     MarkVerified, MarkFailed, Compare, Update, UpdateUnacknowledged, DatabaseFails,
     Rescue, Catch, Answer, Release
<1>2. ASSUME NEW w \in Runs, RunStep(w) PROVE Kept
  BY <1>2, ActorAssumption DEF RunStep, RunFind, Compare, RunUpdate, RunFails, Release
<1>3. ASSUME NEW a \in Actors, Die(a), a # r PROVE Kept
  BY <1>3 DEF Die, Release
<1> QED
  BY <1>1, <1>2, <1>3 DEF Next, Expire, Network, vars

-----------------------------------------------------------------------------
(* The invariant.                                                           *)

LEMMA InitSafetyInv == Init => SafetyInv
<1> SUFFICES ASSUME Init PROVE SafetyInv
  OBVIOUS
<1>1. SoundRows
  <2> SUFFICES ASSUME NEW p \in Proofs PROVE Sound(ledger, p, rows[p])
    BY DEF SoundRows
  <2>1. rows[p] \in {Inserted("pending"), Inserted("generated")}
    BY DEF Init, FreshRows
  <2> QED
    BY <2>1 DEF Sound, RejectedFor, Inserted
<1>2. SoundCopies
  BY DEF Init, SoundCopies
<1>3. \A r \in Requests : Informed(r)
  BY ActorAssumption DEF Init, Informed, RejectedFor, Actors
<1> QED
  BY <1>1, <1>2, <1>3 DEF SafetyInv

LEMMA NextSoundRows ==
    ASSUME TypeInv, SafetyInv, [Next]_vars
    PROVE  SoundRows'
<1> SUFFICES ASSUME NEW p \in Proofs PROVE Sound(ledger', p, rows'[p])
  BY DEF SoundRows
<1>1. Finality(ledger, ledger')
  BY LedgerFinality DEF TypeInv
<1>2. Sound(ledger, p, rows[p])
  BY DEF SafetyInv, SoundRows
<1>3. ASSUME NEW a \in Actors, pc[a] = "update", Save(a)
      PROVE  Sound(ledger, p, rows'[p])
  <2>1. rows \in [Proofs -> Rows]
    BY DEF TypeInv, TypeOK
  <2>2. CASE target[a] # p
    BY <1>2, <1>3, <2>1, <2>2 DEF Save
  <2>3. CASE target[a] = p
    <3>1. Sound(ledger, p, entity[a])
      BY <1>3, <2>3 DEF SafetyInv, SoundCopies
    <3>2. Sound(ledger, p, Overwritten(rows[p], entity[a], dirty[a]))
      BY <1>2, <3>1, SoundSave
    <3> QED
      BY <1>3, <2>1, <2>3, <3>2 DEF Save
  <2> QED
    BY <2>2, <2>3
<1>4. Sound(ledger, p, rows'[p])
  BY <1>2, <1>3, RowsChange
<1> QED
  BY <1>1, <1>4, SoundStable

LEMMA NextSoundCopies ==
    ASSUME TypeInv, SafetyInv, [Next]_vars
    PROVE  SoundCopies'
<1> SUFFICES ASSUME NEW a \in Actors, pc'[a] \in {"compare", "update"}
             PROVE  Sound(ledger', target'[a], entity'[a])
  BY DEF SoundCopies
<1>1. Finality(ledger, ledger')
  BY LedgerFinality DEF TypeInv
<1>2. \A p \in Proofs : rows[p] \in Rows /\ Sound(ledger, p, rows[p])
  BY DEF TypeInv, TypeOK, SafetyInv, SoundRows
<1>3. pc[a] \notin {"idle", "done"} => target[a] \in Proofs
  BY DEF TypeInv, Placed
<1>4. CASE /\ pc[a] \in {"compare", "update"}
           /\ entity'[a] = entity[a]
           /\ target'[a] = target[a]
  BY <1>1, <1>3, <1>4, SoundStable DEF SafetyInv, SoundCopies
<1>5. CASE a \in Requests /\ MarkVerified(a)
  <2>1. ConfirmedFor(ledger, tx[a], target[a]) /\ target[a] \in Proofs
    BY <1>3, <1>5 DEF SafetyInv, Informed, MarkVerified
  <2>2. /\ entity'[a] = MarkedVerified(rows[target[a]], tx[a], a)
        /\ target'[a] = target[a]
    BY <1>5 DEF MarkVerified, TypeInv, TypeOK
  <2>3. Sound(ledger, target[a], MarkedVerified(rows[target[a]], tx[a], a))
    BY <1>2, <2>1, SoundMarks
  <2> QED
    BY <1>1, <2>1, <2>2, <2>3, SoundStable
<1>6. CASE a \in Requests /\ MarkFailed(a)
  <2>1. RejectedFor(ledger, err[a], target[a]) /\ target[a] \in Proofs
    BY <1>3, <1>6 DEF SafetyInv, Informed, MarkFailed
  <2>2. /\ entity'[a] = MarkedFailed(rows[target[a]], err[a])
        /\ target'[a] = target[a]
    BY <1>6 DEF MarkFailed, TypeInv, TypeOK
  <2>3. Sound(ledger, target[a], MarkedFailed(rows[target[a]], err[a]))
    BY <1>2, <2>1, SoundMarks
  <2> QED
    BY <1>1, <2>1, <2>2, <2>3, SoundStable
<1>7. ASSUME NEW p \in Proofs, RunFind(a, p) PROVE Sound(ledger', target'[a], entity'[a])
  <2>1. entity'[a] = Stamped(rows[p], a) /\ target'[a] = p
    BY <1>7 DEF RunFind, TypeInv, TypeOK
  <2>2. Sound(ledger, p, Stamped(rows[p], a))
    BY <1>2, SoundMarks
  <2> QED
    BY <1>1, <2>1, <2>2, SoundStable
<1> QED
  BY <1>4, <1>5, <1>6, <1>7, CopyOrigin

\* What a request learns, step by step.
LEMMA RequestInformed ==
    ASSUME TypeInv, TypeInv', SafetyInv, [Next]_vars,
           NEW r \in Requests, RequestStep(r)
    PROVE  Informed(r)'
<1> USE DEF Informed, Goto, shared, locals
<1>1. /\ r \in Actors
      /\ pc \in [Actors -> PCs] /\ target \in [Actors -> Proofs \cup {Null}]
      /\ tx \in [Requests -> Tx \cup {Null}]
      /\ err \in [Requests -> Errors \cup {Null}]
      /\ reply \in [Requests -> Replies]
      /\ pc[r] \notin {"idle", "done"} => target[r] \in Proofs
  BY DEF TypeInv, TypeOK, Placed, Actors
<1>2. Informed(r)
  BY DEF SafetyInv
<1>3. \A p \in Proofs :
          /\ \A t : ConfirmedFor(ledger, t, p) => ConfirmedFor(ledger', t, p)
          /\ \A e : RejectedFor(ledger, e, p) => RejectedFor(ledger', e, p)
  BY LedgerFinality, SoundStable DEF TypeInv
<1>4. \A l : \A why \in Whys \ {"rejected"}, p \in Proofs : RejectedFor(l, Err(why), p)
  BY DEF RejectedFor, Err
<1>5. \A why \in Whys : Err(why) # Null /\ \A t \in Tx : ErrQuoting(why, t) # Null
  BY ErrTypes, NullAssumption
<1>6. CASE FindNothing(r)
  BY <1>1, <1>2, <1>6 DEF FindNothing, Answer
<1>7. ASSUME NEW p \in Proofs, RejectVerified(r, p) PROVE Informed(r)'
  BY <1>1, <1>2, <1>7 DEF RejectVerified, Answer
<1>8. ASSUME NEW p \in Proofs, RejectUnfit(r, p) PROVE Informed(r)'
  BY <1>1, <1>2, <1>4, <1>5, <1>8 DEF RejectUnfit, Whys
<1>9. ASSUME NEW p \in Proofs, Admit(r, p) PROVE Informed(r)'
  BY <1>1, <1>2, <1>9 DEF Admit
<1>10. CASE BuildFails(r)
  BY <1>1, <1>2, <1>4, <1>5, <1>10 DEF BuildFails, Catch, Whys
<1>11. CASE Build(r)
  BY <1>1, <1>2, <1>11 DEF Build
<1>12. CASE SendReturns(r)
  BY <1>1, <1>2, <1>12 DEF SendReturns
<1>13. CASE SendThrows(r)
  BY <1>1, <1>2, <1>4, <1>5, <1>13 DEF SendThrows, Catch, Whys
<1>14. CASE Confirm(r)
  <2>1. tx[r] \in Tx
    BY <1>14 DEF Confirm, TypeInv, Placed
  <2> QED
    BY <1>1, <1>2, <1>14, <2>1 DEF Confirm, ConfirmedFor
<1>15. CASE PollFailed(r)
  <2>1. tx[r] \in Tx
    BY <1>15 DEF PollFailed, TypeInv, Placed
  <2>2. RejectedFor(ledger, ErrQuoting("rejected", tx[r]), target[r])
    BY <1>2, <1>15, <2>1 DEF PollFailed, RejectedFor, ErrQuoting
  <2> QED
    BY <1>1, <1>2, <1>5, <1>15, <2>1, <2>2 DEF PollFailed, Catch, Whys
<1>16. CASE PollGivesUp(r)
  <2>1. tx[r] \in Tx
    BY <1>16 DEF PollGivesUp, TypeInv, Placed
  <2>2. \A l, p : RejectedFor(l, ErrQuoting("unconfirmed", tx[r]), p)
    BY DEF RejectedFor, ErrQuoting
  <2> QED
    BY <1>1, <1>2, <1>4, <1>5, <1>16, <2>1, <2>2 DEF PollGivesUp, Catch, Whys
<1>17. CASE MarkVerified(r)
  BY <1>1, <1>2, <1>17 DEF MarkVerified, RejectedFor
<1>18. CASE MarkFailed(r)
  <2>1. err[r] # Null
    BY <1>18, NullAssumption DEF MarkFailed, TypeInv, Placed
  <2> QED
    BY <1>1, <1>2, <1>18, <2>1 DEF MarkFailed
<1>19. CASE Compare(r)
  BY <1>1, <1>2, <1>19 DEF Compare
<1>20. CASE Update(r)
  BY <1>1, <1>2, <1>3, <1>20 DEF Update, Answer, Outcome
<1>21. ASSUME Rescue(r), UNCHANGED <<ledger, target, tx>>,
              pc[r] \in {"confirmed", "failing", "compare", "update"}
       PROVE  Informed(r)'
  BY <1>1, <1>2, <1>4, <1>5, <1>21 DEF Rescue, Catch, Answer, Whys
<1>22. CASE UpdateUnacknowledged(r)
  BY <1>21, <1>22 DEF UpdateUnacknowledged
<1>23. CASE DatabaseFails(r)
  BY <1>21, <1>23 DEF DatabaseFails
<1> QED
  BY <1>6, <1>7, <1>8, <1>9, <1>10, <1>11, <1>12, <1>13, <1>14, <1>15, <1>16,
     <1>17, <1>18, <1>19, <1>20, <1>22, <1>23 DEF RequestStep

LEMMA NextInformed ==
    ASSUME TypeInv, TypeInv', SafetyInv, [Next]_vars, NEW r \in Requests
    PROVE  Informed(r)'
<1>1. CASE RequestStep(r)
  BY <1>1, RequestInformed
<1>2. CASE Die(r)
  BY <1>2 DEF Die, Goto, Informed, SafetyInv, TypeInv, TypeOK, Actors, shared
<1>3. CASE /\ pc'[r] = pc[r]
           /\ target'[r] = target[r]
           /\ tx'[r] = tx[r]
           /\ err'[r] = err[r]
           /\ reply'[r] = reply[r]
  <2>1. \A p :
            /\ \A t : ConfirmedFor(ledger, t, p) => ConfirmedFor(ledger', t, p)
            /\ \A e : RejectedFor(ledger, e, p) => RejectedFor(ledger', e, p)
    BY LedgerFinality, SoundStable DEF TypeInv
  <2>2. Informed(r)
    BY DEF SafetyInv
  <2> QED
    BY <1>3, <2>1, <2>2 DEF Informed
<1> QED
  BY <1>1, <1>2, <1>3, LocalsChange

LEMMA NextSafetyInv == TypeInv /\ TypeInv' /\ SafetyInv /\ [Next]_vars => SafetyInv'
<1> SUFFICES ASSUME TypeInv, TypeInv', SafetyInv, [Next]_vars PROVE SafetyInv'
  OBVIOUS
<1>1. SoundRows' /\ SoundCopies'
  BY NextSoundRows, NextSoundCopies
<1>2. \A r \in Requests : Informed(r)'
  BY NextInformed
<1> QED
  BY <1>1, <1>2 DEF SafetyInv

\* Both invariants hold in every reachable state.
LEMMA Invariance == Spec => [](TypeInv /\ SafetyInv)
<1>1. Init => TypeInv /\ SafetyInv
  BY InitTypeInv, InitSafetyInv
<1>2. TypeInv /\ SafetyInv /\ [Next]_vars => (TypeInv /\ SafetyInv)'
  BY NextTypeInv, NextSafetyInv
<1> QED
  BY <1>1, <1>2, PTL DEF Spec

-----------------------------------------------------------------------------
\* verified is never a mistake, whatever requests, deliveries, lost updates and
\* crashes overlap (updateProofVerified, updateProofFailed, processJob).
THEOREM VerifiedIsOnChain == Spec => []VerifiedOnChain
<1>1. SafetyInv => VerifiedOnChain
  BY DEF SafetyInv, SoundRows, Sound, ConfirmedFor, VerifiedOnChain, OnChain, Succeeded
<1> QED
  BY <1>1, Invariance, PTL

\* The hash a row shows is that of a successful transaction for this proof, and
\* a rejection it reports happened (transactionHash, errorMessage).
THEOREM QuotesAreAlwaysTrue == Spec => []QuotesAreTrue
<1>1. SafetyInv => QuotesAreTrue
  BY DEF SafetyInv, SoundRows, Sound, ConfirmedFor, RejectedFor, QuotesAreTrue, Succeeded
<1> QED
  BY <1>1, Invariance, PTL

\* A success told to a caller is a success on chain, for good (verifyProof
\* 259-263).
THEOREM OkIsConfirmed == Spec => []OkReplyConfirmed
<1>1. SafetyInv => OkReplyConfirmed
  BY DEF SafetyInv, Informed, ConfirmedFor, OkReplyConfirmed, Succeeded
<1> QED
  BY <1>1, Invariance, PTL
=============================================================================
