-------------------------- MODULE TransactionLedger --------------------------
(***************************************************************************)
(* The Stellar network as the backend sees it: what becomes of a signed    *)
(* transaction envelope.  External to the repository; modelled from how    *)
(* modules/stellar/stellar.service.ts sends envelopes (submitTransaction-  *)
(* WithRetry) and polls for them (waitForTransactionConfirmation).  The    *)
(* hash of an envelope identifies it, so a hash and its envelope are the   *)
(* same member of Tx here.                                                 *)
(***************************************************************************)
CONSTANT Tx                 \* the envelopes that may ever be signed

VARIABLE ledger             \* what the network did with each of them

Fates == {"unsent", "sent", "success", "failed", "dropped"}

TypeOK == ledger \in [Tx -> Fates]

Init == ledger = [t \in Tx |-> "unsent"]

-----------------------------------------------------------------------------
\* The envelope reaches the network and waits to be included in a ledger.
Accept(t) ==
    /\ ledger[t] = "unsent"
    /\ ledger' = [ledger EXCEPT ![t] = "sent"]

\* It is included in a ledger; the contract call succeeds or traps.
Apply(t) ==
    /\ ledger[t] = "sent"
    /\ \E fate \in {"success", "failed"} :
           ledger' = [ledger EXCEPT ![t] = fate]

\* It never will be: its sequence number is used up, or its time bound passed.
Drop(t) ==
    /\ ledger[t] = "sent"
    /\ ledger' = [ledger EXCEPT ![t] = "dropped"]

Settle(t) == Apply(t) \/ Drop(t)

Next == \E t \in Tx : Accept(t) \/ Settle(t)

Spec == Init /\ [][Next]_ledger
=============================================================================
