------------------------- MODULE MCStellarSubmission -------------------------
(***************************************************************************)
(* Small instances of StellarSubmission.                                   *)
(***************************************************************************)
EXTENDS StellarSubmission, TLC

CONSTANTS c1, c2, d1, d2

\* Two calls about different proofs.
TwoPayloads == c1 :> d1 @@ c2 :> d2
=============================================================================
