---------------------------- MODULE ProofLifecycle ----------------------------
(***************************************************************************)
(* What the status of a proof promises (ProofStatus in proof.entity.ts),   *)
(* without requests, copies or saves: the abstract specification that      *)
(* ProofVerification implements.                                           *)
(*                                                                         *)
(* A proof becomes verified only once the chain confirmed it.  It may fail *)
(* at any time, a verified one included.  The only way back to generated   *)
(* is a queue delivery saving an early copy of the row, so a proof no job  *)
(* was enqueued for never goes back, and no proof goes back to pending.    *)
(***************************************************************************)
CONSTANTS Proofs, Queued

VARIABLES status,       \* the status of each proof
          confirmed     \* the proofs whose payload the chain has confirmed

lifecycle == <<status, confirmed>>

Init ==
    /\ status \in [Proofs -> {"pending", "generated"}]
    /\ \A p \in Queued : status[p] = "generated"
    /\ confirmed = {}

\* One transaction confirms every proof that has its payload.
Confirm ==
    /\ confirmed' \in SUBSET Proofs
    /\ confirmed \subseteq confirmed'
    /\ UNCHANGED status

Verify(p) ==
    /\ p \in confirmed
    /\ status' = [status EXCEPT ![p] = "verified"]
    /\ UNCHANGED confirmed

Fail(p) ==
    /\ status' = [status EXCEPT ![p] = "failed"]
    /\ UNCHANGED confirmed

Regenerate(p) ==
    /\ p \in Queued
    /\ status' = [status EXCEPT ![p] = "generated"]
    /\ UNCHANGED confirmed

Next ==
    \/ Confirm
    \/ \E p \in Proofs : Verify(p) \/ Fail(p) \/ Regenerate(p)

Spec == Init /\ [][Next]_lifecycle
=============================================================================
