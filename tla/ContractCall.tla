----------------------------- MODULE ContractCall -----------------------------
(***************************************************************************)
(* What a verification may rely on when it calls the verifier contract:    *)
(* StellarService.invokeVerifierContract followed by waitForTransaction-   *)
(* Confirmation, without sequence numbers, attempts or polls.              *)
(* StellarSubmission implements it in detail, and ProofVerification, which *)
(* keeps only these steps of it, implements it too.                        *)
(*                                                                         *)
(* A call signs at most one envelope, so however often it is sent, one     *)
(* call changes the chain at most once.  Only signed envelopes reach the   *)
(* network.  SUCCESS and FAILED are reported truthfully; giving up says    *)
(* nothing of what became, or will become, of the envelope.                *)
(***************************************************************************)
CONSTANTS Callers, Tx, Null

VARIABLES phase,        \* how far each call is
          envelope,     \* what it signed, if it has
          ledger        \* what the network did with each envelope

Chain == INSTANCE TransactionLedger

contractCall == <<phase, envelope, ledger>>

Init ==
    /\ phase    = [c \in Callers |-> "idle"]
    /\ envelope = [c \in Callers |-> Null]
    /\ Chain!Init

Report(c, outcome) ==
    /\ phase' = [phase EXCEPT ![c] = outcome]
    /\ UNCHANGED <<envelope, ledger>>

Sign(c, t) ==
    /\ phase[c] = "idle"
    /\ envelope[c] = Null
    /\ phase'    = [phase EXCEPT ![c] = "working"]
    /\ envelope' = [envelope EXCEPT ![c] = t]
    /\ UNCHANGED ledger

Confirm(c) ==
    /\ phase[c] = "working"
    /\ ledger[envelope[c]] = "success"
    /\ Report(c, "confirmed")

Reject(c) ==
    /\ phase[c] = "working"
    /\ ledger[envelope[c]] = "failed"
    /\ Report(c, "rejected")

\* An error, five polls without an answer, or the end of the caller.
Abandon(c) == Report(c, "unknown")

Network(t) ==
    /\ \/ Chain!Accept(t) /\ \E c \in Callers : envelope[c] = t
       \/ Chain!Settle(t)
    /\ UNCHANGED <<phase, envelope>>

Next ==
    \/ \E c \in Callers : \/ \E t \in Tx : Sign(c, t)
                          \/ Confirm(c) \/ Reject(c) \/ Abandon(c)
    \/ \E t \in Tx : Network(t)

Spec == Init /\ [][Next]_contractCall
=============================================================================
