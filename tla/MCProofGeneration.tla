-------------------------- MODULE MCProofGeneration --------------------------
(***************************************************************************)
(* Small instances of ProofGeneration.                                     *)
(***************************************************************************)
EXTENDS ProofGeneration, TLC

CONSTANTS u1, r1, r2, w1, w2

OneUser == r1 :> u1 @@ r2 :> u1

\* The user is created, and the account set, while requests come in.
AnyAccount == u1 :> {"missing", "unset", "set"}
HasAccount == u1 :> {"set"}

SameThresholds  == r1 :> 1 @@ r2 :> 1
OtherThresholds == r1 :> 0 @@ r2 :> 1
=============================================================================
