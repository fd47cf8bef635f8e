--------------------------- MODULE ProofProcessing ---------------------------
(***************************************************************************)
(* What generating a proof promises, without stores that fail one by one,  *)
(* workers, locks, backoffs or stalls: the abstract specification that     *)
(* ProofGeneration implements.                                             *)
(*                                                                         *)
(* A proof is stored before it is queued, and only a queued one is         *)
(* promised to its caller (201).  Its job is delivered a limited number of *)
(* times; it is completed only when its work was done, and given up only   *)
(* after a delivery or more; settled, it stays so, though a delivery that  *)
(* comes late may still do the work.                                       *)
(***************************************************************************)
EXTENDS Naturals

CONSTANTS Requests,
          Limit,        \* how often a job may be delivered
          Patience      \* how often it must be, before it is given up

VARIABLES stored,       \* the requests with a row
          promised,     \* those that were answered 201
          phase,        \* the job of each
          delivered,    \* how often it was handed to a worker
          done          \* those whose stamp is stored

processing == <<stored, promised, phase, delivered, done>>

Init ==
    /\ stored    = {}
    /\ promised  = {}
    /\ phase     = [r \in Requests |-> "none"]
    /\ delivered = [r \in Requests |-> 0]
    /\ done      = {}

Store(r) ==
    /\ stored' = stored \cup {r}
    /\ UNCHANGED <<promised, phase, delivered, done>>

\* The caller may not learn of it.
Queue(r) ==
    /\ r \in stored
    /\ phase[r] = "none"
    /\ phase' = [phase EXCEPT ![r] = "open"]
    /\ promised' \in {promised, promised \cup {r}}
    /\ UNCHANGED <<stored, delivered, done>>

Deliver(r) ==
    /\ phase[r] = "open"
    /\ delivered[r] < Limit
    /\ delivered' = [delivered EXCEPT ![r] = @ + 1]
    /\ UNCHANGED <<stored, promised, phase, done>>

\* By any of its deliveries, also when the job is settled already.
Work(r) ==
    /\ delivered[r] > 0
    /\ done' = done \cup {r}
    /\ UNCHANGED <<stored, promised, phase, delivered>>

Settle(r, outcome) ==
    /\ phase[r] = "open"
    /\ phase' = [phase EXCEPT ![r] = outcome]
    /\ UNCHANGED <<stored, promised, delivered, done>>

Complete(r) == r \in done /\ Settle(r, "completed")

GiveUp(r) == delivered[r] >= Patience /\ Settle(r, "failed")

Next ==
    \E r \in Requests :
        Store(r) \/ Queue(r) \/ Deliver(r) \/ Work(r) \/ Complete(r) \/ GiveUp(r)

Spec == Init /\ [][Next]_processing
=============================================================================
