---------------------------- MODULE MCProofListing ----------------------------
(***************************************************************************)
(* Small instances of ProofListing.                                        *)
(***************************************************************************)
EXTENDS ProofListing

Query(s, from, to) ==
    [status |-> s, fromDate |-> from, toDate |-> to]

\* No filter, one status, a date from which, one until which.
SomeQueries ==
    {Query(Null, Null, Null), Query("generated", Null, Null),
     Query(Null, 2, Null), Query("verified", Null, 4)}

\* A date until which only.
UntilQuery == {Query(Null, Null, 2)}
=============================================================================
