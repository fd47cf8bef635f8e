---------------------------- MODULE MCAuthSessions ----------------------------
(***************************************************************************)
(* A small instance of AuthSessions.                                       *)
(***************************************************************************)
EXTENDS AuthSessions, TLC

CONSTANTS a1, a2, l1, l2, l3, l4

\* Three logins of one wallet and one of another.
TwoWallets == l1 :> a1 @@ l2 :> a1 @@ l3 :> a1 @@ l4 :> a2
=============================================================================
