------------------------- MODULE MCProofVerification -------------------------
(***************************************************************************)
(* Small instances of ProofVerification.                                   *)
(***************************************************************************)
EXTENDS ProofVerification, TLC

CONSTANTS p1, p2, r1, r2, w1, d1, blank

\* One proof, from the queue, that may expire.
OneProofData == p1 :> d1

\* The payload of the second proof is blank.
FitAndBlank == p1 :> d1 @@ p2 :> blank

\* Requests differ in nothing but their names.
Symmetry == Permutations(Requests)
=============================================================================
