-------------------------- MODULE AuthSessionsProofs --------------------------
(***************************************************************************)
(* Proofs about AuthSessions, for any number of calls, wallets and users.  *)
(*                                                                         *)
(* The invariant follows a login from the user it found to the row it      *)
(* stored (Granted), and a logout from the logins it owes to their rows    *)
(* (Settled).                                                              *)
(***************************************************************************)
EXTENDS AuthSessions, TLAPS

Granted(l) ==
    /\ pc[l] \in {"idle", "create", "created", "answered", "failed"}
    /\ pc[l] \in {"create", "created", "answered"} =>
           \E u \in users : u.address = Address[l] /\ u.id = user[l]
    /\ pc[l] \in {"created", "answered"} => rows[l] # Null
    /\ pc[l] \in {"idle", "create"} => rows[l] = Null
    /\ rows[l] # Null => rows[l].user_id = user[l]

Settled(o) ==
    /\ pc[o] \in {"idle", "revoke", "revoked", "answered", "failed"}
    /\ \A l \in owed[o] : pc[l] = "answered" /\ user[l] = user[o]
    /\ pc[o] \in {"revoked", "answered"} => \A l \in owed[o] : rows[l].revoked

IInv ==
    /\ TypeOK
    /\ OneUserPerWallet
    /\ \A l \in Logins : Granted(l)
    /\ \A o \in Logouts : Settled(o)
    /\ RevokedByItsUser

\* The rows a revocation leaves.
LEMMA RevokedRows ==
    ASSUME TypeOK, NEW S \in SUBSET Logins, \A l \in S : rows[l] # Null
    PROVE  /\ Revoked(S) \in [Logins -> Tokens \cup {Null}]
           /\ \A l \in Logins : Revoked(S)[l] = Null <=> rows[l] = Null
           /\ \A l \in Logins : rows[l] # Null =>
                  /\ Revoked(S)[l].user_id = rows[l].user_id
                  /\ Revoked(S)[l].revoked = (rows[l].revoked \/ l \in S)
  BY CallAssumption DEF TypeOK, Revoked, Tokens

LEMMA InitIInv == Init => IInv
<1> SUFFICES ASSUME Init PROVE IInv
  OBVIOUS
<1>1. TypeOK
  BY DEF Init, TypeOK, Labels, Calls
<1>2. \A l \in Logins : Granted(l)
  BY DEF Init, Granted, Calls
<1>3. \A o \in Logouts : Settled(o)
  BY DEF Init, Settled, Calls
<1>. QED
  BY <1>1, <1>2, <1>3 DEF Init, IInv, OneUserPerWallet, RevokedByItsUser

LEMMA UpsertKeepsIInv ==
    ASSUME IInv, NEW l \in Logins, Upsert(l)
    PROVE  IInv'
<1>. USE AddressAssumption, CallAssumption
<1>1. PICK u : /\ u \in Users
               /\ u.address = Address[l]
               /\ \A v \in users : v.address = Address[l] => u = v
               /\ users' = users \cup {u}
               /\ user' = [user EXCEPT ![l] = u.id]
  BY DEF IInv, Upsert, TypeOK, Users, OneUserPerWallet
<1>2. /\ pc[l] = "idle"
      /\ \E label \in {"create", "failed"} : pc' = [pc EXCEPT ![l] = label]
      /\ UNCHANGED <<rows, owed>>
  BY DEF Upsert, Goto
<1>3. TypeOK'
  BY <1>1, <1>2 DEF IInv, TypeOK, Labels, Calls, Users
<1>4. OneUserPerWallet'
  BY <1>1 DEF IInv, OneUserPerWallet
<1>5. \A k \in Logins : Granted(k)'
  BY <1>1, <1>2 DEF IInv, Granted, TypeOK, Calls
<1>6. \A o \in Logouts : Settled(o)'
  BY <1>1, <1>2 DEF IInv, Settled, TypeOK, Calls
<1>7. RevokedByItsUser'
  BY <1>1, <1>2 DEF IInv, RevokedByItsUser, TypeOK, Calls
<1>. QED
  BY <1>3, <1>4, <1>5, <1>6, <1>7 DEF IInv

LEMMA CreateTokenKeepsIInv ==
    ASSUME IInv, NEW l \in Logins, CreateToken(l)
    PROVE  IInv'
<1>. USE CallAssumption
<1>1. /\ pc[l] = "create"
      /\ rows' = [rows EXCEPT ![l] = [user_id |-> user[l], revoked |-> FALSE]]
      /\ pc' = [pc EXCEPT ![l] = "created"]
      /\ UNCHANGED <<users, user, owed>>
  BY DEF CreateToken, Goto
<1>2. [user_id |-> user[l], revoked |-> FALSE] \in Tokens
  <2>1. \E u \in users : u.id = user[l]
    BY <1>1 DEF IInv, Granted
  <2>. QED
    BY <2>1 DEF IInv, TypeOK, Users, Tokens
<1>3. TypeOK'
  BY <1>1, <1>2 DEF IInv, TypeOK, Labels, Calls
<1>4. \A k \in Logins : Granted(k)'
  BY <1>1, <1>2 DEF IInv, Granted, TypeOK, Calls
<1>5. \A o \in Logouts : Settled(o)'
  BY <1>1 DEF IInv, Settled, TypeOK, Calls
<1>6. RevokedByItsUser'
  BY <1>1 DEF IInv, RevokedByItsUser, TypeOK, Calls
<1>. QED
  BY <1>1, <1>3, <1>4, <1>5, <1>6 DEF IInv, OneUserPerWallet

LEMMA CallKeepsIInv ==
    ASSUME IInv, NEW o \in Logouts, Call(o)
    PROVE  IInv'
<1>. USE CallAssumption
<1>1. PICK l \in Logins :
          /\ pc[l] = "answered"
          /\ user' = [user EXCEPT ![o] = user[l]]
          /\ owed' = [owed EXCEPT ![o] = {k \in Logins : pc[k] = "answered" /\ user[k] = user[l]}]
  BY DEF Call
<1>2. /\ pc[o] = "idle"
      /\ pc' = [pc EXCEPT ![o] = "revoke"]
      /\ UNCHANGED <<users, rows>>
  BY DEF Call, Goto
<1>3. TypeOK'
  BY <1>1, <1>2 DEF IInv, TypeOK, Labels, Calls
<1>4. \A k \in Logins : Granted(k)'
  BY <1>1, <1>2 DEF IInv, Granted, TypeOK, Calls
<1>5. \A q \in Logouts : Settled(q)'
  BY <1>1, <1>2 DEF IInv, Settled, TypeOK, Calls
<1>6. RevokedByItsUser'
  BY <1>1, <1>2 DEF IInv, RevokedByItsUser, TypeOK, Calls
<1>. QED
  BY <1>2, <1>3, <1>4, <1>5, <1>6 DEF IInv, OneUserPerWallet

LEMMA RevokeKeepsIInv ==
    ASSUME IInv, NEW o \in Logouts, Revoke(o)
    PROVE  IInv'
<1>. DEFINE S == {l \in Logins : rows[l] # Null /\ rows[l].user_id = user[o]}
<1>1. /\ pc[o] = "revoke"
      /\ rows' = Revoked(S)
      /\ pc' = [pc EXCEPT ![o] = "revoked"]
      /\ UNCHANGED <<users, user, owed>>
  BY DEF Revoke, Goto
<1>2. /\ rows' \in [Logins -> Tokens \cup {Null}]
      /\ \A l \in Logins : rows'[l] = Null <=> rows[l] = Null
      /\ \A l \in Logins : rows[l] # Null =>
             /\ rows'[l].user_id = rows[l].user_id
             /\ rows'[l].revoked = (rows[l].revoked \/ l \in S)
  BY <1>1, RevokedRows DEF IInv
<1>. HIDE DEF S
<1>3. TypeOK'
  BY <1>1, <1>2 DEF IInv, TypeOK, Labels, Calls
<1>4. \A l \in Logins : Granted(l)'
  BY <1>1, <1>2, CallAssumption DEF IInv, Granted, TypeOK, Calls
<1>5. ASSUME NEW q \in Logouts PROVE Settled(q)'
  <2>1. \A l \in owed[q] : /\ l \in Logins /\ rows[l] # Null
                           /\ pc[l] = "answered" /\ user[l] = user[q]
                           /\ rows[l].user_id = user[l]
    BY DEF IInv, Settled, Granted, TypeOK
  <2>2. q = o => \A l \in owed[q] : l \in S
    BY <2>1 DEF S
  <2>3. \A l \in owed[q] : pc'[l] = "answered"
    BY <1>1, <2>1, CallAssumption DEF IInv, TypeOK, Calls
  <2>4. pc'[q] \in {"revoked", "answered"} => \A l \in owed[q] : rows'[l].revoked
    BY <1>1, <1>2, <2>1, <2>2 DEF IInv, Settled, TypeOK, Calls
  <2>. QED
    BY <1>1, <2>1, <2>3, <2>4 DEF IInv, Settled, TypeOK, Calls
<1>6. RevokedByItsUser'
  BY <1>1, <1>2 DEF IInv, RevokedByItsUser, TypeOK, Calls, S
<1>. QED
  BY <1>1, <1>3, <1>4, <1>5, <1>6 DEF IInv, OneUserPerWallet

LEMMA EndKeepsIInv ==
    ASSUME IInv, NEW c \in Calls, Answer(c) \/ Fail(c)
    PROVE  IInv'
<1>. USE CallAssumption
<1>1. /\ \/ pc[c] \in {"created", "revoked"} /\ pc' = [pc EXCEPT ![c] = "answered"]
         \/ pc[c] \in {"create", "created", "revoke", "revoked"} /\ pc' = [pc EXCEPT ![c] = "failed"]
      /\ UNCHANGED <<users, rows, user, owed>>
  BY DEF Answer, Fail, Goto
<1>2. TypeOK'
  BY <1>1 DEF IInv, TypeOK, Labels
<1>3. \A l \in Logins : Granted(l)'
  BY <1>1 DEF IInv, Granted, TypeOK, Calls
<1>4. \A o \in Logouts : Settled(o)'
  BY <1>1 DEF IInv, Settled, TypeOK, Calls
<1>5. RevokedByItsUser'
  BY <1>1 DEF IInv, RevokedByItsUser, TypeOK, Calls
<1>. QED
  BY <1>1, <1>2, <1>3, <1>4, <1>5 DEF IInv, OneUserPerWallet

LEMMA SpecIInv == Spec => []IInv
<1>1. IInv /\ [Next]_vars => IInv'
  <2> SUFFICES ASSUME IInv, [Next]_vars PROVE IInv'
    OBVIOUS
  <2>1. CASE UNCHANGED vars
    BY <2>1 DEF vars, IInv, TypeOK, OneUserPerWallet, Granted, Settled, RevokedByItsUser
  <2>. QED
    BY <2>1, UpsertKeepsIInv, CreateTokenKeepsIInv, CallKeepsIInv, RevokeKeepsIInv, EndKeepsIInv
       DEF Next
<1>. QED
  BY <1>1, InitIInv, PTL DEF Spec

-----------------------------------------------------------------------------
(* The theorems.                                                            *)

\* Every row of refresh_tokens names a user, for any number of calls.
THEOREM AuthTypeCorrect == Spec => []TypeOK
  BY SpecIInv, PTL DEF IInv

\* A wallet has one user, however many of its first logins overlap.
THEOREM OneUserPerWalletAlways == Spec => []OneUserPerWallet
  BY SpecIInv, PTL DEF IInv

\* A login that was answered has its row, of the user of its wallet.
THEOREM AnsweredIsAlwaysStored == Spec => []AnsweredIsStored
<1>1. IInv => AnsweredIsStored
  BY DEF IInv, Granted, AnsweredIsStored
<1>. QED
  BY <1>1, SpecIInv, PTL

\* A logout that was answered revoked every token given to its user before it.
THEOREM LogoutAlwaysInvalidates == Spec => []LogoutInvalidates
<1>1. IInv => LogoutInvalidates
  BY DEF IInv, Settled, Granted, LogoutInvalidates, TypeOK
<1>. QED
  BY <1>1, SpecIInv, PTL

\* No logout revokes a token of another user.
THEOREM RevokedOnlyByItsUser == Spec => []RevokedByItsUser
  BY SpecIInv, PTL DEF IInv
=============================================================================
