----------------------------- MODULE AuthSessions -----------------------------
(***************************************************************************)
(* Wallet authentication: a login upserts the user of its address, signs   *)
(* two tokens and stores the refresh token's row before it answers; a      *)
(* logout revokes the rows its user has.  Calls overlap, each statement of *)
(* the database is atomic, and an error may hide that it took effect.      *)
(*                                                                         *)
(* A login stores at most one row, so rows are named by their login, and a *)
(* user by the login that created it.  Nothing mounts this code yet.       *)
(***************************************************************************)
CONSTANTS Logins,
          Logouts,
          Addresses,
          Address,   \* the wallet of each login
          Null

ASSUME AddressAssumption == Address \in [Logins -> Addresses]
ASSUME NullAssumption    == Null \notin Logins

VARIABLES
    users,   \* the table users
    rows,    \* the row of refresh_tokens each login stored
    pc,      \* where each login and each logout is
    user,    \* whom a login's tokens, or a logout's, are of
    owed     \* the logins answered to that user before a logout was called

vars == <<users, rows, pc, user, owed>>

Calls == Logins \cup Logouts
Labels == {"idle", "create", "created", "revoke", "revoked", "answered", "failed"}

Users == [id : Logins, address : Addresses]
Tokens == [user_id : Logins, revoked : BOOLEAN]

ASSUME CallAssumption == Logins \cap Logouts = {} /\ Null \notin Tokens

TypeOK ==
    /\ users \subseteq Users
    /\ rows  \in [Logins -> Tokens \cup {Null}]
    /\ pc    \in [Calls -> Labels]
    /\ user  \in [Calls -> Logins \cup {Null}]
    /\ owed  \in [Logouts -> SUBSET Logins]

Init ==
    /\ users = {}
    /\ rows  = [l \in Logins |-> Null]
    /\ pc    = [c \in Calls |-> "idle"]
    /\ user  = [c \in Calls |-> Null]
    /\ owed  = [o \in Logouts |-> {}]

Goto(c, label) == pc' = [pc EXCEPT ![c] = label]

-----------------------------------------------------------------------------
(* verifyWalletSignature.                                                   *)

\* Mutant: looked up first and created afterwards, without the unique index.
UpsertBlind(l) ==
    /\ pc[l] = "idle"
    /\ \E u \in users \cup {[id |-> l, address |-> Address[l]]} :
           /\ u.address = Address[l]
           /\ users' = users \cup {u}
           /\ user' = [user EXCEPT ![l] = u.id]
    /\ Goto(l, "create") \/ Goto(l, "failed")
    /\ UNCHANGED <<rows, owed>>

\* Mutant: ON CONFLICT DO NOTHING, which returns no row of a user there is.
UpsertDoNothing(l) ==
    LET there == {u \in users : u.address = Address[l]} IN
    /\ pc[l] = "idle"
    /\ users' = IF there = {} THEN users \cup {[id |-> l, address |-> Address[l]]} ELSE users
    /\ user' = IF there = {} THEN [user EXCEPT ![l] = l] ELSE user
    /\ Goto(l, "create") \/ Goto(l, "failed")
    /\ UNCHANGED <<rows, owed>>

\* One statement, INSERT ... ON CONFLICT (stellar_address): the user there is,
\* or a new one.
Upsert(l) ==
    LET there == {u \in users : u.address = Address[l]} IN
    /\ pc[l] = "idle"
    /\ \E u \in IF there = {} THEN {[id |-> l, address |-> Address[l]]} ELSE there :
           /\ users' = users \cup {u}
           /\ user' = [user EXCEPT ![l] = u.id]
    /\ Goto(l, "create") \/ Goto(l, "failed")
    /\ UNCHANGED <<rows, owed>>

\* Mutant: the create is not awaited, and the reply may be first.
CreateTokenUnawaited(l) ==
    /\ pc[l] = "create"
    /\ rows' \in {rows, [rows EXCEPT ![l] = [user_id |-> user[l], revoked |-> FALSE]]}
    /\ Goto(l, "created")
    /\ UNCHANGED <<users, user, owed>>

\* The tokens are signed and hashed, and the row is stored.
CreateToken(l) ==
    /\ pc[l] = "create"
    /\ rows' = [rows EXCEPT ![l] = [user_id |-> user[l], revoked |-> FALSE]]
    /\ Goto(l, "created")
    /\ UNCHANGED <<users, user, owed>>

-----------------------------------------------------------------------------
(* logout.                                                                  *)

\* The guard admits whoever holds an access token, of a login that was answered.
Call(o) ==
    /\ pc[o] = "idle"
    /\ \E l \in Logins :
           /\ pc[l] = "answered"
           /\ user' = [user EXCEPT ![o] = user[l]]
           /\ owed' = [owed EXCEPT ![o] = {k \in Logins : pc[k] = "answered" /\ user[k] = user[l]}]
    /\ Goto(o, "revoke")
    /\ UNCHANGED <<users, rows>>

Revoked(S) == [l \in Logins |-> IF l \in S THEN [rows[l] EXCEPT !.revoked = TRUE] ELSE rows[l]]

\* Mutant: the where clause is left out.
RevokeEverything(o) ==
    /\ pc[o] = "revoke"
    /\ rows' = Revoked({l \in Logins : rows[l] # Null})
    /\ Goto(o, "revoked")
    /\ UNCHANGED <<users, user, owed>>

\* Mutant: update in the place of updateMany.
RevokeOne(o) ==
    /\ pc[o] = "revoke"
    /\ \E l \in Logins :
           /\ rows[l] # Null /\ rows[l].user_id = user[o]
           /\ rows' = Revoked({l})
    /\ Goto(o, "revoked")
    /\ UNCHANGED <<users, user, owed>>

\* updateMany, one statement: a row stored later is not among its rows.
Revoke(o) ==
    /\ pc[o] = "revoke"
    /\ rows' = Revoked({l \in Logins : rows[l] # Null /\ rows[l].user_id = user[o]})
    /\ Goto(o, "revoked")
    /\ UNCHANGED <<users, user, owed>>

-----------------------------------------------------------------------------
(* Either.                                                                  *)

Answer(c) ==
    /\ pc[c] \in {"created", "revoked"}
    /\ Goto(c, "answered")
    /\ UNCHANGED <<users, rows, user, owed>>

\* The database fails, before the statement or after it, or the process ends.
Fail(c) ==
    /\ pc[c] \in {"create", "created", "revoke", "revoked"}
    /\ Goto(c, "failed")
    /\ UNCHANGED <<users, rows, user, owed>>

Next ==
    \/ \E l \in Logins : Upsert(l) \/ CreateToken(l)
    \/ \E o \in Logouts : Call(o) \/ Revoke(o)
    \/ \E c \in Calls : Answer(c) \/ Fail(c)

Spec == Init /\ [][Next]_vars

-----------------------------------------------------------------------------
(* Properties.                                                              *)

\* A wallet has one user, also when its first logins overlap
\* (verifyWalletSignature 44-57, @unique in prisma/schema.prisma:19).
OneUserPerWallet ==
    \A u, v \in users : u.address = v.address => u = v

\* Whoever was answered holds a token that is stored, and for the user of that
\* wallet, whatever else failed (verifyWalletSignature 85-103).
AnsweredIsStored ==
    \A l \in Logins : pc[l] = "answered" =>
        /\ rows[l] # Null
        /\ \E u \in users : u.address = Address[l] /\ u.id = rows[l].user_id

\* "Refresh tokens invalidated successfully": once a logout says so, every token
\* that its user was given before it was called is revoked, and stays so.  One
\* that a login under way stores later is not (logout 106-121).
LogoutInvalidates ==
    \A o \in Logouts : pc[o] = "answered" =>
        \A l \in owed[o] : rows[l] # Null /\ rows[l].revoked

\* A token is revoked only by a logout of its own user (logout 107-111).
RevokedByItsUser ==
    \A l \in Logins : rows[l] # Null /\ rows[l].revoked =>
        \E o \in Logouts : user[o] = rows[l].user_id /\ pc[o] # "idle"
=============================================================================
