----------------------------- MODULE ProofRecord -----------------------------
(***************************************************************************)
(* The mutable columns of a row of the proofs table (proof.entity.ts), the *)
(* three ways the services change a loaded entity, and what TypeORM's      *)
(* repository.save writes back.  The columns nothing writes after the      *)
(* insert (id, userId, proofData, createdAt) are not here.                 *)
(*                                                                         *)
(* transactionHash is the envelope it is the hash of; verifiedAt is the    *)
(* request that took the time; metadata is the queue delivery whose stamp  *)
(* it carries (the rest of it never changes); Null is SQL's NULL.          *)
(***************************************************************************)
CONSTANT Null

Statuses == {"pending", "generated", "verified", "failed"}

Columns == {"status", "transactionHash", "verifiedAt", "errorMessage", "metadata"}

\* A row with a status and nothing else yet.
Inserted(status) ==
    [status |-> status, transactionHash |-> Null, verifiedAt |-> Null,
     errorMessage |-> Null, metadata |-> Null]

\* updateProofVerified changes these fields of the entity it loaded, and
\* leaves the errorMessage of an earlier failure alone.
MarkedVerified(proof, tx, at) ==
    [proof EXCEPT !.status = "verified", !.transactionHash = tx, !.verifiedAt = at]

\* updateProofFailed: neither the hash nor the time of a verification is reset.
MarkedFailed(proof, err) ==
    [proof EXCEPT !.status = "failed", !.errorMessage = err]

\* Mutant: the stamp goes to the wrong column.
StampedMessage(proof, run) == [proof EXCEPT !.errorMessage = run]

\* processJob merges the stamp of its delivery into the metadata.
Stamped(proof, run) == [proof EXCEPT !.metadata = run]

\* save first SELECTs the row: a column is dirty when the entity differs from
\* what is stored NOW, whether the caller changed it or merely read it early.
Dirty(proof, stored) == {c \in Columns : proof[c] # stored[c]}

\* The UPDATE that follows sets the dirty columns and no other.
Overwritten(stored, proof, dirty) ==
    LET Saved(c) == IF c \in dirty THEN proof[c] ELSE stored[c]
    IN  [status          |-> Saved("status"),
         transactionHash |-> Saved("transactionHash"),
         verifiedAt      |-> Saved("verifiedAt"),
         errorMessage    |-> Saved("errorMessage"),
         metadata        |-> Saved("metadata")]
=============================================================================
