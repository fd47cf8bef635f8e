----------------------- MODULE StellarSubmissionProofs -----------------------
(***************************************************************************)
(* Proofs about StellarSubmission, for any number of calls, attempts,      *)
(* polls, sequence numbers and time bounds.                                *)
(***************************************************************************)
EXTENDS StellarSubmission, FiniteSetTheorems, TLAPS

\* Where a call is tells which of its variables are set, and only signed
\* envelopes are ever on their way.
Placed ==
    /\ \A c \in Callers : pc[c] = "idle" => tx[c] = Null /\ attempt[c] = 0
    /\ \A c \in Callers :
           pc[c] \in {"post", "sleep", "poll", "confirmed", "rejected"} => tx[c] \in Tx
    /\ \A c \in Callers : pc[c] = "post" => attempt[c] >= 1
    /\ \A c \in Callers : pc[c] = "sleep" => attempt[c] < MaxAttempts
    /\ \A c \in Callers : pc[c] = "poll" => polls[c] < MaxPolls
    /\ \A c \in Callers : pc[c] \in {"idle", "post", "sleep"} => polls[c] = 0
    /\ \A t \in transit : \E c \in Callers : tx[c] = t

TypeInv == TypeOK /\ Placed

LEMMA InitTypeInv == Init => TypeInv
  BY BoundAssumption
  DEF Init, TypeInv, TypeOK, Placed, PCs, Chain!Init, Chain!TypeOK, Chain!Fates

\* The network keeps its types whether it takes an envelope or not.
LEMMA DeliverType ==
    ASSUME Chain!TypeOK, NEW t, Deliver(t)
    PROVE  Chain!TypeOK'
  BY DEF Deliver, Chain!TypeOK, Chain!Accept, Chain!Fates

LEMMA CallTypeInv ==
    ASSUME TypeInv, NEW c \in Callers, CallStep(c)
    PROVE  TypeInv'
<1> USE BoundAssumption DEF TypeInv, TypeOK, Placed, Goto, network, PCs
<1>1. CASE BuildFails(c)
  BY <1>1 DEF BuildFails, Chain!TypeOK
<1>2. CASE Build(c)
  <2>1. PICK known \in 0..sequence, b \in Bounds \ late :
            /\ known < MaxSeq
            /\ tx' = [tx EXCEPT ![c] =
                         [payload |-> Payload[c], seq |-> known + 1, bound |-> b]]
    BY <1>2 DEF Build
  <2> DEFINE t == [payload |-> Payload[c], seq |-> known + 1, bound |-> b]
  <2>2. t \in Tx
    <3>1. known + 1 \in 1..MaxSeq
      BY <2>1
    <3>2. Payload[c] \in Payloads
      BY PayloadAssumption
    <3> QED
      BY <3>1, <3>2 DEF Tx
  <2>3. tx' = [tx EXCEPT ![c] = t]
    BY <2>1
  <2>4. \A u \in transit : \E d \in Callers : tx'[d] = u
    <3> SUFFICES ASSUME NEW u \in transit PROVE \E d \in Callers : tx'[d] = u
      OBVIOUS
    <3>1. PICK d \in Callers : tx[d] = u
      OBVIOUS
    <3>2. d # c
      BY <1>2, <3>1, EnvelopeAssumption DEF Build
    <3> QED
      BY <2>3, <3>1, <3>2
  <2> HIDE DEF t
  <2> QED
    BY <1>2, <2>2, <2>3, <2>4 DEF Build, Chain!TypeOK
<1>3. CASE Respond(c)
  BY <1>3, DeliverType DEF Respond
<1>4. CASE Throw(c)
  <2>1. transit' \subseteq Tx /\ \A u \in transit' : \E d \in Callers : tx[d] = u
    BY <1>4 DEF Throw
  <2> QED
    BY <1>4, <2>1 DEF Throw, Chain!TypeOK
<1>5. CASE Retry(c)
  BY <1>5 DEF Retry, Chain!TypeOK
<1>6. ASSUME NEW found, NEW outcome \in {"confirmed", "rejected", "unreachable"},
             PollAnswers(c, found, outcome)
      PROVE  TypeInv'
  BY <1>6 DEF PollAnswers, Chain!TypeOK
<1>7. CASE PollConfirms(c) \/ PollRejects(c) \/ PollThrows(c)
  BY <1>6, <1>7 DEF PollConfirms, PollRejects, PollThrows
<1>8. CASE PollFindsNothing(c)
  BY <1>8 DEF PollFindsNothing, Chain!TypeOK
<1> QED
  BY <1>1, <1>2, <1>3, <1>4, <1>5, <1>7, <1>8 DEF CallStep

LEMMA NextTypeInv == TypeInv /\ [Next]_vars => TypeInv'
<1> SUFFICES ASSUME TypeInv, [Next]_vars PROVE TypeInv'
  OBVIOUS
<1> USE DEF TypeInv, TypeOK, Placed
<1>1. ASSUME NEW c \in Callers, CallStep(c) PROVE TypeInv'
  BY <1>1, CallTypeInv
<1>2. ASSUME NEW t \in Tx, Arrive(t) PROVE TypeInv'
  BY <1>2, DeliverType DEF Arrive
<1>3. ASSUME NEW t \in Tx, Include(t) PROVE TypeInv'
  <2>1. sequence' \in 0..MaxSeq
    BY <1>3, BoundAssumption DEF Include, Tx
  <2> QED
    BY <1>3, <2>1 DEF Include, Chain!Apply, Chain!TypeOK, Chain!Fates
<1>4. ASSUME NEW t \in Tx, Expel(t) PROVE TypeInv'
  BY <1>4 DEF Expel, Chain!Drop, Chain!TypeOK, Chain!Fates
<1>5. ASSUME NEW b \in Bounds, Pass(b) PROVE TypeInv'
  BY <1>5 DEF Pass, Chain!TypeOK
<1>6. CASE UNCHANGED vars
  BY <1>6 DEF vars, Chain!TypeOK
<1> QED
  BY <1>1, <1>2, <1>3, <1>4, <1>5, <1>6 DEF Next

LEMMA TypeInvariance == Spec => []TypeInv
  BY InitTypeInv, NextTypeInv, PTL DEF Spec

\* Every reachable state is well typed; no call makes more than MaxAttempts
\* attempts or counts more than MaxPolls polls.
THEOREM SubmissionTypeCorrect == Spec => []TypeOK
<1>1. TypeInv => TypeOK
  BY DEF TypeInv
<1> QED
  BY <1>1, TypeInvariance, PTL

-----------------------------------------------------------------------------
(* The detailed calls implement ContractCall.                               *)

LEMMA InitImplements == Init => Call!Init
  BY DEF Init, Call!Init, CallPhase, Call!Chain!Init, Chain!Init

LEMMA CallStepImplements ==
    ASSUME TypeInv, NEW c \in Callers, CallStep(c)
    PROVE  [Call!Next]_(Call!contractCall)
<1> DEFINE phase == [d \in Callers |-> CallPhase(d)]
<1> USE DEF TypeInv, TypeOK, Placed, Goto, network, PCs, CallPhase
<1>1. CASE BuildFails(c)
  <2>1. phase' = [phase EXCEPT ![c] = "unknown"]
    BY <1>1 DEF BuildFails
  <2> QED
    BY <1>1, <2>1 DEF BuildFails, Call!Next, Call!Abandon, Call!Report
<1>2. CASE Build(c)
  <2>1. PICK known \in 0..sequence, b \in Bounds \ late :
            /\ known < MaxSeq
            /\ tx' = [tx EXCEPT ![c] =
                         [payload |-> Payload[c], seq |-> known + 1, bound |-> b]]
    BY <1>2 DEF Build
  <2>2. [payload |-> Payload[c], seq |-> known + 1, bound |-> b] \in Tx
    <3>1. known + 1 \in 1..MaxSeq
      BY <2>1, BoundAssumption
    <3> QED
      BY <3>1, PayloadAssumption DEF Tx
  <2>3. phase' = [phase EXCEPT ![c] = "working"]
    BY <1>2 DEF Build
  <2>4. phase[c] = "idle" /\ tx[c] = Null
    BY <1>2 DEF Build
  <2> QED
    BY <1>2, <2>1, <2>2, <2>3, <2>4 DEF Build, Call!Next, Call!Sign
<1>3. ASSUME UNCHANGED <<phase, tx>>, NEW t \in Tx, Deliver(t), \E d \in Callers : tx[d] = t
      PROVE  [Call!Next]_(Call!contractCall)
  BY <1>3 DEF Deliver, Call!Next, Call!Network, Call!Chain!Accept, Chain!Accept,
              Call!contractCall
<1>4. CASE Respond(c)
  <2>1. UNCHANGED <<phase, tx>>
    BY <1>4 DEF Respond
  <2> QED
    BY <1>3, <1>4, <2>1 DEF Respond
<1>5. CASE Throw(c) /\ attempt[c] >= MaxAttempts
  <2>1. phase' = [phase EXCEPT ![c] = "unknown"]
    BY <1>5 DEF Throw
  <2> QED
    BY <1>5, <2>1 DEF Throw, Call!Next, Call!Abandon, Call!Report
<1>6. CASE Throw(c) /\ ~(attempt[c] >= MaxAttempts)
  <2>1. UNCHANGED phase
    BY <1>6 DEF Throw
  <2> QED
    BY <1>6, <2>1 DEF Throw, Call!contractCall
<1>7. CASE Retry(c)
  <2>1. UNCHANGED phase
    BY <1>7 DEF Retry
  <2> QED
    BY <1>7, <2>1 DEF Retry, Call!contractCall
<1>8. CASE PollConfirms(c)
  <2>1. phase' = [phase EXCEPT ![c] = "confirmed"] /\ phase[c] = "working"
    BY <1>8 DEF PollConfirms, PollAnswers
  <2> QED
    BY <1>8, <2>1 DEF PollConfirms, PollAnswers, Call!Next, Call!Confirm, Call!Report
<1>9. CASE PollRejects(c)
  <2>1. phase' = [phase EXCEPT ![c] = "rejected"] /\ phase[c] = "working"
    BY <1>9 DEF PollRejects, PollAnswers
  <2> QED
    BY <1>9, <2>1 DEF PollRejects, PollAnswers, Call!Next, Call!Reject, Call!Report
<1>10. CASE PollThrows(c)
  <2>1. phase' = [phase EXCEPT ![c] = "unknown"]
    BY <1>10 DEF PollThrows, PollAnswers
  <2> QED
    BY <1>10, <2>1 DEF PollThrows, PollAnswers, Call!Next, Call!Abandon, Call!Report
<1>11. CASE PollFindsNothing(c)
  <2>1. phase' = [phase EXCEPT ![c] = "unknown"] \/ UNCHANGED phase
    BY <1>11 DEF PollFindsNothing
  <2> QED
    BY <1>11, <2>1 DEF PollFindsNothing, Call!Next, Call!Abandon, Call!Report,
                       Call!contractCall
<1> QED
  BY <1>1, <1>2, <1>4, <1>5, <1>6, <1>7, <1>8, <1>9, <1>10, <1>11 DEF CallStep

LEMMA NextImplements ==
    ASSUME TypeInv, [Next]_vars
    PROVE  [Call!Next]_(Call!contractCall)
<1> DEFINE phase == [d \in Callers |-> CallPhase(d)]
<1>1. ASSUME NEW c \in Callers, CallStep(c) PROVE [Call!Next]_(Call!contractCall)
  BY <1>1, CallStepImplements
<1>2. ASSUME UNCHANGED pc PROVE UNCHANGED phase
  BY <1>2 DEF CallPhase
<1>3. ASSUME NEW t \in Tx, Arrive(t) PROVE [Call!Next]_(Call!contractCall)
  <2>1. \E c \in Callers : tx[c] = t
    BY <1>3 DEF Arrive, TypeInv, Placed
  <2>2. UNCHANGED phase
    BY <1>2, <1>3 DEF Arrive
  <2> QED
    BY <1>3, <2>1, <2>2 DEF Arrive, Deliver, Call!Next, Call!Network,
       Call!Chain!Accept, Chain!Accept, Call!contractCall
<1>4. ASSUME NEW t \in Tx, Include(t) \/ Expel(t) PROVE [Call!Next]_(Call!contractCall)
  <2>1. UNCHANGED phase
    BY <1>2, <1>4 DEF Include, Expel
  <2>2. Call!Chain!Settle(t)
    BY <1>4 DEF Include, Expel, Chain!Apply, Chain!Drop, Call!Chain!Settle,
       Call!Chain!Apply, Call!Chain!Drop
  <2> QED
    BY <1>4, <2>1, <2>2 DEF Include, Expel, Call!Next, Call!Network
<1>5. ASSUME NEW b \in Bounds, Pass(b) PROVE [Call!Next]_(Call!contractCall)
  BY <1>2, <1>5 DEF Pass, Call!contractCall
<1>6. CASE UNCHANGED vars
  BY <1>2, <1>6 DEF vars, Call!contractCall
<1> QED
  BY <1>1, <1>3, <1>4, <1>5, <1>6 DEF Next

\* Whatever is lost, late or retried, and however calls overlap, each call signs
\* one envelope and believes of it what the ledger says (invokeContract,
\* submitTransactionWithRetry, waitForTransactionConfirmation).
THEOREM SubmissionImplementsContractCall == Spec => ImplementsContractCall
  BY InitImplements, NextImplements, TypeInvariance, PTL
  DEF Spec, ImplementsContractCall, Call!Spec

-----------------------------------------------------------------------------
(* One sequence number is used once.                                        *)

Applied(t) == ledger[t] \in {"success", "failed"}

\* An applied envelope used its number, alone; who was told success signed an
\* envelope that succeeded.
UsedOnce ==
    /\ \A t \in Tx : Applied(t) => t.seq <= sequence
    /\ \A t, u \in Tx : Applied(t) /\ Applied(u) /\ t.seq = u.seq => t = u
    /\ \A c \in Callers : pc[c] = "confirmed" => ledger[tx[c]] = "success"

LEMMA InitUsedOnce == Init => UsedOnce
  BY DEF Init, UsedOnce, Applied, Chain!Init

\* Sending and dropping apply nothing, and take back nothing.
LEMMA SameApplied ==
    ASSUME TypeInv,
           (UNCHANGED ledger) \/ (\E t \in Tx : Deliver(t) \/ Chain!Drop(t))
    PROVE  \A u \in Tx : /\ Applied(u)' <=> Applied(u)
                         /\ ledger[u] = "success" => ledger'[u] = "success"
  BY DEF Deliver, Chain!Accept, Chain!Drop, Applied, TypeInv, TypeOK, Chain!TypeOK

\* A call applies nothing, and believes the ledger.
LEMMA CallUsedOnce ==
    ASSUME TypeInv, UsedOnce, NEW c \in Callers, CallStep(c)
    PROVE  UsedOnce'
<1> USE DEF TypeInv, TypeOK, Placed, Goto, network
<1>1. UNCHANGED sequence
  BY DEF CallStep, BuildFails, Build, Respond, Throw, Retry, PollConfirms, PollRejects,
     PollThrows, PollAnswers, PollFindsNothing
<1>2. (UNCHANGED ledger) \/ (\E t \in Tx : Deliver(t))
  BY DEF CallStep, BuildFails, Build, Respond, Throw, Retry, PollConfirms, PollRejects,
     PollThrows, PollAnswers, PollFindsNothing
<1>3. \A u \in Tx : /\ Applied(u)' <=> Applied(u)
                    /\ ledger[u] = "success" => ledger'[u] = "success"
  BY <1>2, SameApplied
<1>4. ASSUME NEW d \in Callers, pc'[d] = "confirmed"
      PROVE  tx'[d] = tx[d] /\ tx[d] \in Tx /\ ledger[tx[d]] = "success"
  BY <1>4 DEF UsedOnce, CallStep, BuildFails, Build, Respond, Throw, Retry, PollConfirms,
     PollRejects, PollThrows, PollAnswers, PollFindsNothing
<1> QED
  BY <1>1, <1>3, <1>4 DEF UsedOnce

\* The network applies the next number only.
LEMMA IncludeUsedOnce ==
    ASSUME TypeInv, UsedOnce, NEW t \in Tx, Include(t)
    PROVE  UsedOnce'
<1> USE DEF TypeInv, TypeOK, Chain!TypeOK
<1>1. t.seq = sequence + 1 /\ sequence' = t.seq /\ sequence \in Nat
  BY BoundAssumption DEF Include
<1>2. \A u \in Tx : u # t => ledger'[u] = ledger[u]
  BY DEF Include, Chain!Apply
<1>3. \A u \in Tx : Applied(u)' => u = t \/ (Applied(u) /\ u.seq <= sequence)
  BY <1>2 DEF UsedOnce, Applied
<1>4. \A u \in Tx : u.seq \in Nat
  BY DEF Tx
<1>5. \A u \in Tx : Applied(u)' => u.seq <= sequence'
  BY <1>1, <1>3, <1>4
<1>6. \A u, v \in Tx : Applied(u)' /\ Applied(v)' /\ u.seq = v.seq => u = v
  BY <1>1, <1>3, <1>4 DEF UsedOnce
<1>7. \A c \in Callers : pc'[c] = "confirmed" => ledger'[tx'[c]] = "success"
  <2>1. ledger[t] = "sent" /\ UNCHANGED <<pc, tx>>
    BY DEF Include, Chain!Apply
  <2> QED
    BY <1>2, <2>1 DEF UsedOnce, Placed
<1> QED
  BY <1>5, <1>6, <1>7 DEF UsedOnce

LEMMA NextUsedOnce == TypeInv /\ UsedOnce /\ [Next]_vars => UsedOnce'
<1> SUFFICES ASSUME TypeInv, UsedOnce, [Next]_vars PROVE UsedOnce'
  OBVIOUS
<1>1. ASSUME (UNCHANGED ledger) \/ (\E t \in Tx : Deliver(t) \/ Chain!Drop(t)),
             UNCHANGED <<sequence, pc, tx>>
      PROVE  UsedOnce'
  <2>1. \A c \in Callers : pc[c] = "confirmed" => tx[c] \in Tx
    BY DEF TypeInv, Placed
  <2> QED
    BY <1>1, <2>1, SameApplied DEF UsedOnce
<1>2. ASSUME NEW t \in Tx, Arrive(t) \/ Expel(t) PROVE UsedOnce'
  BY <1>1, <1>2 DEF Arrive, Expel
<1>3. ASSUME NEW b \in Bounds, Pass(b) PROVE UsedOnce'
  BY <1>1, <1>3 DEF Pass
<1>4. CASE UNCHANGED vars
  BY <1>1, <1>4 DEF vars
<1> QED
  BY <1>2, <1>3, <1>4, CallUsedOnce, IncludeUsedOnce DEF Next

\* Two calls that signed different envelopes with one sequence number are never
\* both told success, for any number of calls (invokeContract 197-221).
THEOREM CollidingCallsNeverBothConfirmed == Spec => []CollidingCallsNotBothConfirmed
<1>1. TypeInv /\ UsedOnce => CollidingCallsNotBothConfirmed
  BY DEF TypeInv, Placed, UsedOnce, Applied, CollidingCallsNotBothConfirmed
<1> QED
  BY <1>1, TypeInvariance, InitUsedOnce, NextUsedOnce, PTL DEF Spec

-----------------------------------------------------------------------------
(* Counting errors.                                                         *)

\* Each error that was counted is an attempt that threw, and the other way
\* round.  Only finitely many did, whatever the number of calls.
ErrorsCounted ==
    /\ IsFiniteSet(Thrown)
    /\ RpcErrorsCounted

LEMMA InitErrorsCounted == Init => ErrorsCounted
<1> SUFFICES ASSUME Init PROVE ErrorsCounted
  OBVIOUS
<1>1. \A c \in Callers : Failures(c) = 0 /\ pc[c] # "unsubmitted"
  BY DEF Init, Failures
<1>2. Thrown = {}
  BY <1>1, BoundAssumption DEF Thrown
<1> QED
  BY <1>1, <1>2, FS_EmptySet DEF Init, ErrorsCounted, RpcErrorsCounted

\* Only a POST that throws is a failure of its call.
LEMMA SameFailures ==
    ASSUME TypeInv, NEW c \in Callers, CallStep(c), ~Throw(c)
    PROVE  /\ \A d \in Callers : Failures(d)' = Failures(d)
           /\ \A d \in Callers : pc'[d] = "unsubmitted" =>
                  pc[d] = "unsubmitted" /\ attempt'[d] = attempt[d]
           /\ UNCHANGED rpcErrors
<1> USE BoundAssumption DEF TypeInv, TypeOK, Placed, Goto, PCs, Failures
<1>1. CASE BuildFails(c) \/ Build(c)
  BY <1>1 DEF BuildFails, Build
<1>2. CASE Retry(c)
  BY <1>2 DEF Retry
<1>3. CASE Respond(c) \/ PollFindsNothing(c)
  BY <1>3 DEF Respond, PollFindsNothing
<1>4. CASE PollConfirms(c) \/ PollRejects(c) \/ PollThrows(c)
  BY <1>4 DEF PollConfirms, PollRejects, PollThrows, PollAnswers
<1> QED
  BY <1>1, <1>2, <1>3, <1>4 DEF CallStep

\* A POST that throws adds its attempt, which was not there before.
LEMMA ThrowAddsOne ==
    ASSUME TypeInv, NEW c \in Callers, Throw(c)
    PROVE  /\ <<c, attempt[c]>> \notin Thrown
           /\ Thrown' = Thrown \cup {<<c, attempt[c]>>}
<1> USE BoundAssumption DEF TypeInv, TypeOK, Placed, Goto, PCs
<1>1. attempt[c] \in 1..MaxAttempts
  BY DEF Throw
<1>2. Failures(c) = attempt[c] - 1 /\ Failures(c)' = attempt[c]
  BY <1>1 DEF Throw, Failures
<1>3. \A d \in Callers : d # c => Failures(d)' = Failures(d)
  BY DEF Throw, Failures
<1>4. <<c, attempt[c]>> \notin Thrown
  BY <1>1, <1>2 DEF Thrown
<1>5. ASSUME NEW d \in Callers, NEW n \in 1..MaxAttempts
      PROVE  n <= Failures(d)' <=> n <= Failures(d) \/ (d = c /\ n = attempt[c])
  BY <1>1, <1>2, <1>3
<1>6. Thrown' = Thrown \cup {<<c, attempt[c]>>}
  BY <1>1, <1>5 DEF Thrown
<1> QED
  BY <1>4, <1>6

LEMMA NextErrorsCounted == TypeInv /\ ErrorsCounted /\ [Next]_vars => ErrorsCounted'
<1> SUFFICES ASSUME TypeInv, ErrorsCounted, [Next]_vars PROVE ErrorsCounted'
  OBVIOUS
<1> USE DEF ErrorsCounted, RpcErrorsCounted
<1>1. ASSUME UNCHANGED <<pc, attempt, rpcErrors>> PROVE ErrorsCounted'
  BY <1>1 DEF Thrown, Failures
<1>2. ASSUME NEW c \in Callers, Throw(c) PROVE ErrorsCounted'
  <2>1. /\ IsFiniteSet(Thrown')
        /\ Cardinality(Thrown') = Cardinality(Thrown) + 1
    BY <1>2, ThrowAddsOne, FS_AddElement
  <2>2. \A d \in Callers : pc'[d] = "unsubmitted" => attempt'[d] = MaxAttempts
    BY <1>2, BoundAssumption DEF Throw, Goto, TypeInv, TypeOK
  <2> QED
    BY <1>2, <2>1, <2>2 DEF Throw
<1>3. ASSUME NEW c \in Callers, CallStep(c), ~Throw(c) PROVE ErrorsCounted'
  <2>1. Thrown' = Thrown
    BY <1>3, SameFailures DEF Thrown
  <2> QED
    BY <1>3, <2>1, SameFailures
<1>4. ASSUME NEW t \in Tx, Arrive(t) \/ Include(t) \/ Expel(t) PROVE ErrorsCounted'
  BY <1>1, <1>4 DEF Arrive, Include, Expel
<1>5. ASSUME NEW b \in Bounds, Pass(b) PROVE ErrorsCounted'
  BY <1>1, <1>5 DEF Pass
<1>6. CASE UNCHANGED vars
  BY <1>1, <1>6 DEF vars
<1> QED
  BY <1>2, <1>3, <1>4, <1>5, <1>6 DEF Next

\* The counter of RPC errors counts the attempts that threw, of all calls, and
\* a call gives up after its last attempt only (recordStellarRpcError at 168,
\* maxAttempts at 171).
THEOREM RpcErrorsAlwaysCounted == Spec => []RpcErrorsCounted
<1>1. ErrorsCounted => RpcErrorsCounted
  BY DEF ErrorsCounted
<1> QED
  BY <1>1, TypeInvariance, InitErrorsCounted, NextErrorsCounted, PTL DEF Spec

-----------------------------------------------------------------------------
(* Every call runs down.                                                    *)

LEMMA AwaitsLeftNat ==
    ASSUME TypeInv, NEW c \in Callers
    PROVE  AwaitsLeft(c) \in 0..(2 * MaxAttempts + MaxPolls)
<1> USE BoundAssumption DEF TypeInv, TypeOK, Placed
<1>1. pc[c] \in PCs /\ attempt[c] \in 0..MaxAttempts /\ polls[c] \in 0..MaxPolls
  OBVIOUS
<1>2. CASE pc[c] \in Ended
  BY <1>2 DEF Ended, AwaitsLeft
<1>3. CASE pc[c] \in {"idle", "sleep"}
  BY <1>1, <1>3 DEF Ended, AwaitsLeft
<1>4. CASE pc[c] = "post"
  BY <1>1, <1>4 DEF Ended, AwaitsLeft
<1>5. CASE pc[c] = "poll"
  BY <1>1, <1>5 DEF Ended, AwaitsLeft
<1> QED
  BY <1>1, <1>2, <1>3, <1>4, <1>5 DEF PCs, Ended

LEMMA StepAdvances ==
    ASSUME TypeInv, NEW c \in Callers, CallStep(c)
    PROVE  /\ AwaitsLeft(c)' < AwaitsLeft(c)
           /\ \A d \in Callers \ {c} : UNCHANGED <<pc[d], attempt[d], polls[d]>>
<1> USE BoundAssumption DEF TypeInv, TypeOK, Placed, Goto, Ended
<1>1. attempt[c] \in 0..MaxAttempts /\ polls[c] \in 0..MaxPolls
  OBVIOUS
<1>2. \A d \in Callers \ {c} : UNCHANGED <<pc[d], attempt[d], polls[d]>>
  BY DEF CallStep, BuildFails, Build, Respond, Throw, Retry, PollConfirms, PollRejects,
     PollThrows, PollAnswers, PollFindsNothing
<1>3. CASE BuildFails(c)
  BY <1>1, <1>3 DEF BuildFails, AwaitsLeft
<1>4. CASE Build(c)
  BY <1>1, <1>4 DEF Build, AwaitsLeft
<1>5. CASE Respond(c)
  BY <1>1, <1>5 DEF Respond, AwaitsLeft
<1>6. CASE Throw(c)
  BY <1>1, <1>6 DEF Throw, AwaitsLeft
<1>7. CASE Retry(c)
  BY <1>1, <1>7 DEF Retry, AwaitsLeft
<1>8. CASE PollConfirms(c) \/ PollRejects(c) \/ PollThrows(c)
  BY <1>1, <1>8 DEF PollConfirms, PollRejects, PollThrows, PollAnswers, AwaitsLeft
<1>9. CASE PollFindsNothing(c)
  BY <1>1, <1>9 DEF PollFindsNothing, AwaitsLeft
<1> QED
  BY <1>2, <1>3, <1>4, <1>5, <1>6, <1>7, <1>8, <1>9 DEF CallStep

\* Every step of a call uses up one of at most 2 * MaxAttempts + MaxPolls
\* awaits, and what others do gives it none back (the loops at 83-101 and
\* 152-181): with calls whose awaits settle, what CallsEnd rests on.
THEOREM CallsAlwaysAdvance ==
    Spec => CallsAdvance /\ [](\A c \in Callers : AwaitsLeft(c) \in 0..(2 * MaxAttempts + MaxPolls))
<1> DEFINE Advance == \A c \in Callers : \/ UNCHANGED <<pc[c], attempt[c], polls[c]>>
                                         \/ AwaitsLeft(c)' < AwaitsLeft(c)
           Bounded == \A c \in Callers : AwaitsLeft(c) \in 0..(2 * MaxAttempts + MaxPolls)
<1>1. TypeInv => Bounded
  BY AwaitsLeftNat
<1>2. TypeInv /\ [Next]_vars => [Advance]_vars
  <2> SUFFICES ASSUME TypeInv, Next PROVE Advance
    OBVIOUS
  <2>1. ASSUME NEW c \in Callers, CallStep(c) PROVE Advance
    BY <2>1, StepAdvances
  <2>2. ASSUME UNCHANGED <<pc, attempt, polls>> PROVE Advance
    BY <2>2
  <2> QED
    BY <2>1, <2>2 DEF Next, Arrive, Include, Expel, Pass
<1> QED
  BY <1>1, <1>2, TypeInvariance, PTL DEF Spec, CallsAdvance
=============================================================================
