------------------------- MODULE AuthSessionsProofs -------------------------
(***************************************************************************)
(* Proofs about AuthSessions, for any sets of requests, users and          *)
(* passwords and any lifetimes.                                            *)
(*                                                                         *)
(* The inductive invariant has two parts: the types, and for each request  *)
(* the predicate Safe, which only reads that request's local state and the *)
(* token table.  Lemma Frame shows that Safe survives anything other       *)
(* requests do to the table as long as rows persist; so each action owes   *)
(* its types, the persistence of rows, and Safe for the request that takes *)
(* it.                                                                     *)
(***************************************************************************)
EXTENDS AuthSessions, TLAPS

\* What is known of request r, and of the row it minted, in every state.
Safe(r) ==
    /\ PcMatchesOp(r) /\ PresentedIsStored(r) /\ SubjectIsKnown(r)
    /\ RefreshIsChecked(r) /\ ScanAccountsForRows(r) /\ HoldsStoredRows(r)
    /\ RowMatchesGrant(r) /\ (Stored(r) => Descends(r))
    /\ SnapshotRevoked(r) /\ ParentUnexpired(r)

IndInv == TypeOK /\ \A r \in Requests : Safe(r)

\* The step is request r's: no other request moves or mints a token.
StepOf(r) == \A q \in Requests \ {r} : req'[q] = req[q] /\ (Stored(q)' => Stored(q))

-----------------------------------------------------------------------------
(* Initial states.                                                         *)

\* The initial tables and the state of a request not yet made have their types.
LEMMA TypeInit == Init => TypeOK
  <1> SUFFICES ASSUME Init PROVE TypeOK
    OBVIOUS
  <1>1. NewRequest \in RequestState
    BY NullAssumption DEF NewRequest, RequestState, Ops, Awaits, Outcomes
  <1>2. \A h \in {Hash(p) : p \in Passwords} : h \in [digest_of : Passwords]
    BY DEF Hash
  <1>3. users \in [Users -> UserRow]
    BY <1>2 DEF Init, UserRow
  <1> QED
    BY <1>1, <1>3 DEF Init, TypeOK

\* Nobody has asked for anything yet, so everything is known of everybody.
LEMMA IndInvInit == Init => IndInv
  <1> SUFFICES ASSUME Init PROVE IndInv
    OBVIOUS
  <1>1. TypeOK
    BY TypeInit
  <1>2. \A r \in Requests : req[r] = NewRequest /\ ~Stored(r)
    BY DEF Init, Stored
  <1>3. ASSUME NEW r \in Requests PROVE Safe(r)
    BY <1>2 DEF Safe, PcMatchesOp, PresentedIsStored, SubjectIsKnown, RefreshIsChecked,
                ScanAccountsForRows, HoldsStoredRows, RowMatchesGrant, SnapshotRevoked, ParentUnexpired,
                NewRequest, Awaits
  <1> QED
    BY <1>1, <1>3 DEF IndInv
-----------------------------------------------------------------------------
(* What the steps of others leave intact.                                  *)

\* Safe(q) reads the table only through rows that exist, their immutable fields
\* and whether they are revoked, none of which a later step takes back.
LEMMA Frame ==
  ASSUME TypeOK, RowsPersist, NEW q \in Requests, Safe(q),
         req'[q] = req[q], Stored(q)' => Stored(q)
  PROVE  Safe(q)'
  <1> USE DEF Safe, RowsPersist
  <1>1. req[q] \in RequestState
    BY DEF TypeOK
  <1>2. PcMatchesOp(q)' /\ SubjectIsKnown(q)' /\ RowMatchesGrant(q)'
    BY DEF PcMatchesOp, SubjectIsKnown, RowMatchesGrant
  <1>3. PresentedIsStored(q)'
    BY DEF PresentedIsStored
  <1>4. RefreshIsChecked(q)'
    BY DEF RefreshIsChecked, PresentedIsStored, Awaits
  <1>5. ScanAccountsForRows(q)'
    BY <1>1 DEF ScanAccountsForRows, RequestState
  <1>6. (Stored(q) => Descends(q))'
    BY DEF Descends, Revoked
  <1>7. SnapshotRevoked(q)'
    BY <1>1 DEF SnapshotRevoked, Revoked, RequestState
  <1>8. ParentUnexpired(q)'
    BY DEF ParentUnexpired, Descends, Revoked
  <1>9. HoldsStoredRows(q)'
    BY <1>1 DEF HoldsStoredRows, RequestState
  <1> QED
    BY <1>2, <1>3, <1>4, <1>5, <1>6, <1>7, <1>8, <1>9

\* What an action owes: the rest of the invariant follows from Frame.
LEMMA Compose ==
  ASSUME IndInv, NEW r \in Requests, TypeOK', RowsPersist, StepOf(r), Safe(r)'
  PROVE  IndInv' /\ RowsPersist
  <1>1. ASSUME NEW q \in Requests \ {r} PROVE Safe(q)'
    BY <1>1, Frame DEF IndInv, StepOf
  <1> QED
    BY <1>1 DEF IndInv

\* A handler that only moves on in its own memory owes the type of its new state
\* and what is known of it.
LEMMA LocalStep ==
  ASSUME IndInv, NEW r \in Requests, NEW x \in RequestState, Local(r, x), Safe(r)'
  PROVE  IndInv' /\ RowsPersist
  <1>1. TypeOK' /\ req'[r] = x /\ tokens' = tokens
    BY DEF IndInv, TypeOK, Local
  <1>2. \A q \in Requests \ {r} : req'[q] = req[q]
    BY DEF IndInv, TypeOK, Local
  <1>3. RowsPersist /\ StepOf(r)
    BY <1>1, <1>2 DEF RowsPersist, StepOf, Stored, Revoked
  <1> QED
    BY <1>1, <1>3, Compose
-----------------------------------------------------------------------------
(* Steps that leave the token table alone.                                 *)

\* A login has looked its user up and checked the password, or is refused.
LEMMA LoginStep ==
  ASSUME IndInv, NEW r \in Requests, NEW email \in Users \cup {NULL}, NEW p \in Passwords, Login(r, email, p)
  PROVE  IndInv' /\ RowsPersist
  <1>1. req[r] \in RequestState
    BY DEF IndInv, TypeOK
  <1>3. CASE /\ email # NULL /\ users[email].is_active
             /\ Verify(p, users[email].hashed_password)
    <2> DEFINE x == [req[r] EXCEPT !.op = "login", !.pc = "mint", !.subj = email]
    <2>1. x \in RequestState
      BY <1>1, <1>3 DEF RequestState, Awaits, Outcomes, Ops
    <2>2. Local(r, x) /\ req'[r] = x /\ tokens' = tokens
      BY <1>3 DEF Login, Local, IndInv, TypeOK
    <2>3. Safe(r)'
      BY <1>1, <1>3, <2>2
         DEF IndInv, RequestState, Login, Safe, PcMatchesOp, PresentedIsStored, SubjectIsKnown,
           RefreshIsChecked, ScanAccountsForRows, HoldsStoredRows, RowMatchesGrant, Descends,
           SnapshotRevoked, ParentUnexpired, Stored, Revoked, Awaits
    <2> QED
      BY <2>1, <2>2, <2>3, LocalStep
  <1>4. CASE ~(/\ email # NULL /\ users[email].is_active
               /\ Verify(p, users[email].hashed_password))
    <2> DEFINE x == [req[r] EXCEPT !.op = "login", !.pc = "InvalidCredentials"]
    <2>1. x \in RequestState
      BY <1>1, <1>4 DEF RequestState, Awaits, Outcomes, Ops
    <2>2. Local(r, x) /\ req'[r] = x /\ tokens' = tokens
      BY <1>4 DEF Login, Local, IndInv, TypeOK
    <2>3. Safe(r)'
      BY <1>1, <1>4, <2>2
         DEF IndInv, RequestState, Login, Safe, PcMatchesOp, PresentedIsStored, SubjectIsKnown,
           RefreshIsChecked, ScanAccountsForRows, HoldsStoredRows, RowMatchesGrant, Descends,
           SnapshotRevoked, ParentUnexpired, Stored, Revoked, Awaits
    <2> QED
      BY <2>1, <2>2, <2>3, LocalStep
  <1> QED
    BY <1>3, <1>4

\* A token is minted with the expiry of the moment, for a subject already known.
LEMMA MintStep ==
  ASSUME IndInv, NEW r \in Requests, Mint(r)
  PROVE  IndInv' /\ RowsPersist
  <1> DEFINE x == [req[r] EXCEPT !.pc = "commit", !.exp = clock + RefreshLifetime]
  <1>1. req[r] \in RequestState
    BY DEF IndInv, TypeOK
  <1>0. clock + RefreshLifetime \in Nat
    BY TimeAssumption DEF IndInv, TypeOK
  <1>2. x \in RequestState
    BY <1>1, <1>0 DEF RequestState, Awaits, Outcomes, Ops
  <1>3. Local(r, x) /\ req'[r] = x /\ tokens' = tokens
    BY DEF Mint, Local, IndInv, TypeOK
  <1>4. Safe(r)'
    BY <1>1, <1>3
       DEF IndInv, RequestState, Mint, Safe, PcMatchesOp, PresentedIsStored, SubjectIsKnown,
           RefreshIsChecked, ScanAccountsForRows, HoldsStoredRows, RowMatchesGrant, Descends,
           SnapshotRevoked, ParentUnexpired, Stored, Revoked, Awaits
  <1> QED
    BY <1>2, <1>3, <1>4, LocalStep

\* A token pair reaches its client; its row is already committed.
LEMMA RespondStep ==
  ASSUME IndInv, NEW r \in Requests, Respond(r)
  PROVE  IndInv' /\ RowsPersist
  <1> DEFINE x == [req[r] EXCEPT !.pc = "ok", !.access = clock + AccessLifetime]
  <1>1. req[r] \in RequestState
    BY DEF IndInv, TypeOK
  <1>0. clock + AccessLifetime \in Nat
    BY TimeAssumption DEF IndInv, TypeOK
  <1>2. x \in RequestState
    BY <1>1, <1>0 DEF RequestState, Awaits, Outcomes, Ops
  <1>3. Local(r, x) /\ req'[r] = x /\ tokens' = tokens
    BY DEF Respond, Local, IndInv, TypeOK
  <1>4. Safe(r)'
    BY <1>1, <1>3
       DEF IndInv, RequestState, Respond, Safe, PcMatchesOp, PresentedIsStored, SubjectIsKnown,
           RefreshIsChecked, ScanAccountsForRows, HoldsStoredRows, RowMatchesGrant, Descends,
           SnapshotRevoked, ParentUnexpired, Stored, Revoked, Awaits
  <1> QED
    BY <1>2, <1>3, <1>4, LocalStep

\* A refresh or a logout is bound to a stored row: only granted tokens decode.
LEMMA PresentRefreshTokenStep ==
  ASSUME IndInv, NEW r \in Requests, NEW op \in {"refresh", "logout"}, NEW c \in Presented,
         PresentRefreshToken(r, op, c)
  PROVE  IndInv' /\ RowsPersist
  <1>1. req[r] \in RequestState
    BY DEF IndInv, TypeOK
  <1>2. Decode(c, "refresh") \in {"valid", "InvalidToken", "TokenExpired"}
    BY DEF Decode
  <1>3. c.of \in Requests /\ Stored(c.of) /\ req[c.of].subj \in Users
    BY DEF Presented, Granted, IndInv, Safe, RowMatchesGrant, SubjectIsKnown
  <1>4. CASE Decode(c, "refresh") = "valid"
    <2> DEFINE x == [req[r] EXCEPT !.op = op, !.pc = "get_by_jti", !.tok = c.of]
    <2>1. x \in RequestState
      BY <1>1, <1>4, <1>3 DEF RequestState, Awaits, Outcomes, Ops
    <2>2. Local(r, x) /\ req'[r] = x /\ tokens' = tokens
      BY <1>4 DEF PresentRefreshToken, Local, IndInv, TypeOK
    <2>3. Safe(r)'
      BY <1>1, <1>4, <2>2, <1>3
         DEF IndInv, RequestState, PresentRefreshToken, Safe, PcMatchesOp, PresentedIsStored, SubjectIsKnown,
           RefreshIsChecked, ScanAccountsForRows, HoldsStoredRows, RowMatchesGrant, Descends,
           SnapshotRevoked, ParentUnexpired, Stored, Revoked, Awaits
    <2> QED
      BY <2>1, <2>2, <2>3, LocalStep
  <1>5. CASE Decode(c, "refresh") # "valid"
    <2> DEFINE x == [req[r] EXCEPT !.op = op, !.pc = Decode(c, "refresh")]
    <2>1. x \in RequestState
      BY <1>1, <1>5, <1>2 DEF RequestState, Awaits, Outcomes, Ops
    <2>2. Local(r, x) /\ req'[r] = x /\ tokens' = tokens
      BY <1>5 DEF PresentRefreshToken, Local, IndInv, TypeOK
    <2>3. Safe(r)'
      BY <1>1, <1>5, <2>2, <1>2
         DEF IndInv, RequestState, PresentRefreshToken, Safe, PcMatchesOp, PresentedIsStored, SubjectIsKnown,
           RefreshIsChecked, ScanAccountsForRows, HoldsStoredRows, RowMatchesGrant, Descends,
           SnapshotRevoked, ParentUnexpired, Stored, Revoked, Awaits
    <2> QED
      BY <2>1, <2>2, <2>3, LocalStep
  <1> QED
    BY <1>4, <1>5

\* A password change acts for the user of a granted access token.
LEMMA ChangePasswordStep ==
  ASSUME IndInv, NEW r \in Requests, NEW c \in Presented, ChangePassword(r, c)
  PROVE  IndInv' /\ RowsPersist
  <1>1. req[r] \in RequestState
    BY DEF IndInv, TypeOK
  <1>2. Decode(c, "access") \in {"valid", "InvalidToken", "TokenExpired"}
    BY DEF Decode
  <1>3. c.of \in Requests /\ Stored(c.of) /\ req[c.of].subj \in Users
    BY DEF Presented, Granted, IndInv, Safe, RowMatchesGrant, SubjectIsKnown
  <1>4. CASE Decode(c, "access") = "valid"
    <2> DEFINE x == [req[r] EXCEPT !.op = "change_password", !.pc = "get_current_user",
                                  !.subj = req[c.of].subj]
    <2>1. x \in RequestState
      BY <1>1, <1>4, <1>3 DEF RequestState, Awaits, Outcomes, Ops
    <2>2. Local(r, x) /\ req'[r] = x /\ tokens' = tokens
      BY <1>4 DEF ChangePassword, Local, IndInv, TypeOK
    <2>3. Safe(r)'
      BY <1>1, <1>4, <2>2, <1>3
         DEF IndInv, RequestState, ChangePassword, Safe, PcMatchesOp, PresentedIsStored, SubjectIsKnown,
           RefreshIsChecked, ScanAccountsForRows, HoldsStoredRows, RowMatchesGrant, Descends,
           SnapshotRevoked, ParentUnexpired, Stored, Revoked, Awaits
    <2> QED
      BY <2>1, <2>2, <2>3, LocalStep
  <1>5. CASE Decode(c, "access") # "valid"
    <2> DEFINE x == [req[r] EXCEPT !.op = "change_password", !.pc = Decode(c, "access")]
    <2>1. x \in RequestState
      BY <1>1, <1>5, <1>2 DEF RequestState, Awaits, Outcomes, Ops
    <2>2. Local(r, x) /\ req'[r] = x /\ tokens' = tokens
      BY <1>5 DEF ChangePassword, Local, IndInv, TypeOK
    <2>3. Safe(r)'
      BY <1>1, <1>5, <2>2, <1>2
         DEF IndInv, RequestState, ChangePassword, Safe, PcMatchesOp, PresentedIsStored, SubjectIsKnown,
           RefreshIsChecked, ScanAccountsForRows, HoldsStoredRows, RowMatchesGrant, Descends,
           SnapshotRevoked, ParentUnexpired, Stored, Revoked, Awaits
    <2> QED
      BY <2>1, <2>2, <2>3, LocalStep
  <1> QED
    BY <1>4, <1>5

\* The record read decides between replay, expiry and rotation.
LEMMA RefreshGetByJtiStep ==
  ASSUME IndInv, NEW r \in Requests, RefreshGetByJti(r)
  PROVE  IndInv' /\ RowsPersist
  <1> DEFINE x == [req[r] EXCEPT !.at = clock,
                     !.pc = IF Revoked(req[r].tok) THEN "revoke"
                            ELSE IF tokens[req[r].tok].expires_at <= clock
                                 THEN "TokenExpired" ELSE "get_user"]
  <1>1. req[r] \in RequestState
    BY DEF IndInv, TypeOK
  <1>0. clock \in Nat
    BY DEF IndInv, TypeOK
  <1>e. tokens[req[r].tok].expires_at \in Nat
    BY DEF IndInv, TypeOK, TokenRow, RefreshGetByJti, Safe, PresentedIsStored, Awaits, Stored
  <1>2. x \in RequestState
    BY <1>1, <1>0 DEF RequestState, Awaits, Outcomes, Ops
  <1>3. Local(r, x) /\ req'[r] = x /\ tokens' = tokens
    BY DEF RefreshGetByJti, Local, IndInv, TypeOK
  <1>4. Safe(r)'
    BY <1>1, <1>3, <1>0, <1>e
       DEF IndInv, RequestState, RefreshGetByJti, Safe, PcMatchesOp, PresentedIsStored, SubjectIsKnown,
           RefreshIsChecked, ScanAccountsForRows, HoldsStoredRows, RowMatchesGrant, Descends,
           SnapshotRevoked, ParentUnexpired, Stored, Revoked, Awaits
  <1> QED
    BY <1>2, <1>3, <1>4, LocalStep

\* The successor is minted for the user of the presented row.
LEMMA RefreshGetUserStep ==
  ASSUME IndInv, NEW r \in Requests, RefreshGetUser(r)
  PROVE  IndInv' /\ RowsPersist
  <1>1. req[r] \in RequestState
    BY DEF IndInv, TypeOK
  <1>3. tokens[req[r].tok].user_id \in Users
    BY DEF RefreshGetUser, IndInv, Safe, PcMatchesOp, PresentedIsStored, Awaits, Stored,
           TypeOK, TokenRow
  <1>4. CASE users[tokens[req[r].tok].user_id].is_active
    <2> DEFINE x == [req[r] EXCEPT !.pc = "mint", !.subj = tokens[req[r].tok].user_id]
    <2>1. x \in RequestState
      BY <1>1, <1>4, <1>3 DEF RequestState, Awaits, Outcomes, Ops
    <2>2. Local(r, x) /\ req'[r] = x /\ tokens' = tokens
      BY <1>4 DEF RefreshGetUser, Local, IndInv, TypeOK
    <2>3. Safe(r)'
      BY <1>1, <1>4, <2>2, <1>3
         DEF IndInv, RequestState, RefreshGetUser, Safe, PcMatchesOp, PresentedIsStored, SubjectIsKnown,
           RefreshIsChecked, ScanAccountsForRows, HoldsStoredRows, RowMatchesGrant, Descends,
           SnapshotRevoked, ParentUnexpired, Stored, Revoked, Awaits
    <2> QED
      BY <2>1, <2>2, <2>3, LocalStep
  <1>5. CASE ~users[tokens[req[r].tok].user_id].is_active
    <2> DEFINE x == [req[r] EXCEPT !.pc = "InvalidToken"]
    <2>1. x \in RequestState
      BY <1>1, <1>5 DEF RequestState, Awaits, Outcomes, Ops
    <2>2. Local(r, x) /\ req'[r] = x /\ tokens' = tokens
      BY <1>5 DEF RefreshGetUser, Local, IndInv, TypeOK
    <2>3. Safe(r)'
      BY <1>1, <1>5, <2>2
         DEF IndInv, RequestState, RefreshGetUser, Safe, PcMatchesOp, PresentedIsStored, SubjectIsKnown,
           RefreshIsChecked, ScanAccountsForRows, HoldsStoredRows, RowMatchesGrant, Descends,
           SnapshotRevoked, ParentUnexpired, Stored, Revoked, Awaits
    <2> QED
      BY <2>1, <2>2, <2>3, LocalStep
  <1> QED
    BY <1>4, <1>5

\* A logout goes on to revoke the family of its stored row.
LEMMA LogoutGetByJtiStep ==
  ASSUME IndInv, NEW r \in Requests, LogoutGetByJti(r)
  PROVE  IndInv' /\ RowsPersist
  <1> DEFINE x == [req[r] EXCEPT !.pc = "revoke", !.at = clock]
  <1>1. req[r] \in RequestState
    BY DEF IndInv, TypeOK
  <1>0. clock \in Nat
    BY DEF IndInv, TypeOK
  <1>2. x \in RequestState
    BY <1>1, <1>0 DEF RequestState, Awaits, Outcomes, Ops
  <1>3. Local(r, x) /\ req'[r] = x /\ tokens' = tokens
    BY DEF LogoutGetByJti, Local, IndInv, TypeOK
  <1>4. Safe(r)'
    BY <1>1, <1>3
       DEF IndInv, RequestState, LogoutGetByJti, Safe, PcMatchesOp, PresentedIsStored, SubjectIsKnown,
           RefreshIsChecked, ScanAccountsForRows, HoldsStoredRows, RowMatchesGrant, Descends,
           SnapshotRevoked, ParentUnexpired, Stored, Revoked, Awaits
  <1> QED
    BY <1>2, <1>3, <1>4, LocalStep

\* The dependency lets an active user through.
LEMMA GetCurrentUserStep ==
  ASSUME IndInv, NEW r \in Requests, GetCurrentUser(r)
  PROVE  IndInv' /\ RowsPersist
  <1> DEFINE x == [req[r] EXCEPT !.pc = IF users[req[r].subj].is_active
                                    THEN "get_by_id" ELSE "InvalidToken"]
  <1>1. req[r] \in RequestState
    BY DEF IndInv, TypeOK
  <1>2. x \in RequestState
    BY <1>1 DEF RequestState, Awaits, Outcomes, Ops
  <1>3. Local(r, x) /\ req'[r] = x /\ tokens' = tokens
    BY DEF GetCurrentUser, Local, IndInv, TypeOK
  <1>4. Safe(r)'
    BY <1>1, <1>3
       DEF IndInv, RequestState, GetCurrentUser, Safe, PcMatchesOp, PresentedIsStored, SubjectIsKnown,
           RefreshIsChecked, ScanAccountsForRows, HoldsStoredRows, RowMatchesGrant, Descends,
           SnapshotRevoked, ParentUnexpired, Stored, Revoked, Awaits
  <1> QED
    BY <1>2, <1>3, <1>4, LocalStep

\* The current password is checked against the hash that was read.
LEMMA ChangePasswordGetByIdStep ==
  ASSUME IndInv, NEW r \in Requests, NEW p \in Passwords, ChangePasswordGetById(r, p)
  PROVE  IndInv' /\ RowsPersist
  <1>1. req[r] \in RequestState
    BY DEF IndInv, TypeOK
  <1>2. users[req[r].subj].is_active \in BOOLEAN
    BY DEF ChangePasswordGetById, IndInv, Safe, PcMatchesOp, SubjectIsKnown, Awaits,
           TypeOK, UserRow
  <1>3. CASE Verify(p, users[req[r].subj].hashed_password)
    <2> DEFINE x == [req[r] EXCEPT !.pc = "update", !.loaded = users[req[r].subj].is_active]
    <2>1. x \in RequestState
      BY <1>1, <1>3, <1>2 DEF RequestState, Awaits, Outcomes, Ops
    <2>2. Local(r, x) /\ req'[r] = x /\ tokens' = tokens
      BY <1>3 DEF ChangePasswordGetById, Local, IndInv, TypeOK
    <2>3. Safe(r)'
      BY <1>1, <1>3, <2>2
         DEF IndInv, RequestState, ChangePasswordGetById, Safe, PcMatchesOp, PresentedIsStored, SubjectIsKnown,
           RefreshIsChecked, ScanAccountsForRows, HoldsStoredRows, RowMatchesGrant, Descends,
           SnapshotRevoked, ParentUnexpired, Stored, Revoked, Awaits
    <2> QED
      BY <2>1, <2>2, <2>3, LocalStep
  <1>4. CASE ~Verify(p, users[req[r].subj].hashed_password)
    <2> DEFINE x == [req[r] EXCEPT !.pc = "InvalidCredentials"]
    <2>1. x \in RequestState
      BY <1>1, <1>4 DEF RequestState, Awaits, Outcomes, Ops
    <2>2. Local(r, x) /\ req'[r] = x /\ tokens' = tokens
      BY <1>4 DEF ChangePasswordGetById, Local, IndInv, TypeOK
    <2>3. Safe(r)'
      BY <1>1, <1>4, <2>2
         DEF IndInv, RequestState, ChangePasswordGetById, Safe, PcMatchesOp, PresentedIsStored, SubjectIsKnown,
           RefreshIsChecked, ScanAccountsForRows, HoldsStoredRows, RowMatchesGrant, Descends,
           SnapshotRevoked, ParentUnexpired, Stored, Revoked, Awaits
    <2> QED
      BY <2>1, <2>2, <2>3, LocalStep
  <1> QED
    BY <1>3, <1>4

\* The new hash is on the tracked instance, not yet in the table.
LEMMA ChangePasswordUpdateStep ==
  ASSUME IndInv, NEW r \in Requests, ChangePasswordUpdate(r)
  PROVE  IndInv' /\ RowsPersist
  <1>1. req[r] \in RequestState /\ clock \in Nat
    BY DEF IndInv, TypeOK
  <1>2. PICK l \in {NULL, req[r].loaded} :
          Local(r, [req[r] EXCEPT !.pc = "revoke", !.at = clock, !.loaded = l])
    BY DEF ChangePasswordUpdate, WrittenBack
  <1> DEFINE x == [req[r] EXCEPT !.pc = "revoke", !.at = clock, !.loaded = l]
  <1>3. x \in RequestState
    BY <1>1 DEF RequestState, Awaits
  <1>4. Local(r, x) /\ req'[r] = x /\ tokens' = tokens
    BY <1>2 DEF Local, IndInv, TypeOK
  <1>5. Safe(r)'
    BY <1>1, <1>4
       DEF IndInv, RequestState, ChangePasswordUpdate, Safe, PcMatchesOp, PresentedIsStored, SubjectIsKnown,
           RefreshIsChecked, ScanAccountsForRows, HoldsStoredRows, RowMatchesGrant, Descends,
           SnapshotRevoked, ParentUnexpired, Stored, Revoked, Awaits
  <1> QED
    BY <1>3, <1>4, <1>5, LocalStep

\* The snapshot of a bulk UPDATE accounts for all its rows: none is visited yet.
LEMMA RevokeFamilyStep ==
  ASSUME IndInv, NEW r \in Requests, RevokeFamily(r)
  PROVE  IndInv' /\ RowsPersist
  <1> DEFINE x == [req[r] EXCEPT !.pc = "scan", !.target = FamilyRows(r), !.scan = FamilyRows(r)]
  <1>1. req[r] \in RequestState
    BY DEF IndInv, TypeOK
  <1>0. FamilyRows(r) \subseteq Requests /\ \A t \in FamilyRows(r) : Stored(t)
    BY DEF FamilyRows, Live
  <1>2. x \in RequestState
    BY <1>1, <1>0 DEF RequestState, Awaits, Outcomes, Ops
  <1>3. Local(r, x) /\ req'[r] = x /\ tokens' = tokens
    BY DEF RevokeFamily, Local, IndInv, TypeOK
  <1>4. Safe(r)'
    BY <1>1, <1>3, <1>0
       DEF IndInv, RequestState, RevokeFamily, Safe, PcMatchesOp, PresentedIsStored, SubjectIsKnown,
           RefreshIsChecked, ScanAccountsForRows, HoldsStoredRows, RowMatchesGrant, Descends,
           SnapshotRevoked, ParentUnexpired, Stored, Revoked, Awaits
  <1> QED
    BY <1>2, <1>3, <1>4, LocalStep

\* The same for the rows of a user.
LEMMA RevokeAllForUserStep ==
  ASSUME IndInv, NEW r \in Requests, RevokeAllForUser(r)
  PROVE  IndInv' /\ RowsPersist
  <1> DEFINE x == [req[r] EXCEPT !.pc = "scan", !.target = UserRows(r), !.scan = UserRows(r)]
  <1>1. req[r] \in RequestState
    BY DEF IndInv, TypeOK
  <1>0. UserRows(r) \subseteq Requests /\ \A t \in UserRows(r) : Stored(t)
    BY DEF UserRows, Live
  <1>2. x \in RequestState
    BY <1>1, <1>0 DEF RequestState, Awaits, Outcomes, Ops
  <1>3. Local(r, x) /\ req'[r] = x /\ tokens' = tokens
    BY DEF RevokeAllForUser, Local, IndInv, TypeOK
  <1>4. Safe(r)'
    BY <1>1, <1>3, <1>0
       DEF IndInv, RequestState, RevokeAllForUser, Safe, PcMatchesOp, PresentedIsStored, SubjectIsKnown,
           RefreshIsChecked, ScanAccountsForRows, HoldsStoredRows, RowMatchesGrant, Descends,
           SnapshotRevoked, ParentUnexpired, Stored, Revoked, Awaits
  <1> QED
    BY <1>2, <1>3, <1>4, LocalStep

\* A deadlock victim was scanning; it loses its locks and its transaction.
LEMMA DeadlockAbortStep ==
  ASSUME IndInv, NEW r \in Requests, DeadlockAbort(r)
  PROVE  IndInv' /\ RowsPersist
  <1> DEFINE x == [req[r] EXCEPT !.pc = "error", !.held = {}]
  <1>1. req[r] \in RequestState
    BY DEF IndInv, TypeOK
  <1>0. req[r].pc = "scan"
    BY DEF DeadlockAbort, WaitsFor
  <1>2. x \in RequestState
    BY <1>1 DEF RequestState, Awaits, Outcomes, Ops
  <1>3. Local(r, x) /\ req'[r] = x /\ tokens' = tokens
    BY DEF DeadlockAbort, Rollback, Local, IndInv, TypeOK
  <1>4. Safe(r)'
    BY <1>1, <1>3, <1>0
       DEF IndInv, RequestState, DeadlockAbort, Rollback, Safe, PcMatchesOp, PresentedIsStored, SubjectIsKnown,
           RefreshIsChecked, ScanAccountsForRows, HoldsStoredRows, RowMatchesGrant, Descends,
           SnapshotRevoked, ParentUnexpired, Stored, Revoked, Awaits
  <1> QED
    BY <1>2, <1>3, <1>4, LocalStep

\* A failed request loses its locks and whatever it had not committed.
LEMMA FailStep ==
  ASSUME IndInv, NEW r \in Requests, Fail(r)
  PROVE  IndInv' /\ RowsPersist
  <1> DEFINE x == [req[r] EXCEPT !.pc = "error", !.held = {}]
  <1>1. req[r] \in RequestState
    BY DEF IndInv, TypeOK
  <1>2. x \in RequestState
    BY <1>1 DEF RequestState, Awaits, Outcomes, Ops
  <1>3. Local(r, x) /\ req'[r] = x /\ tokens' = tokens
    BY DEF Fail, Rollback, Active, Local, IndInv, TypeOK
  <1>4. Safe(r)'
    BY <1>1, <1>3
       DEF IndInv, RequestState, Fail, Rollback, Active, Safe, PcMatchesOp, PresentedIsStored, SubjectIsKnown,
           RefreshIsChecked, ScanAccountsForRows, HoldsStoredRows, RowMatchesGrant, Descends,
           SnapshotRevoked, ParentUnexpired, Stored, Revoked, Awaits
  <1> QED
    BY <1>2, <1>3, <1>4, LocalStep

\* A bulk UPDATE locks a row nobody else holds, and only if it is still live.
LEMMA RevokeRowStep ==
  ASSUME IndInv, NEW r \in Requests, NEW t \in Requests, RevokeRow(r, t)
  PROVE  IndInv' /\ RowsPersist
  <1> DEFINE h == IF Live(t) THEN req[r].held \cup {t} ELSE req[r].held
             x == [req[r] EXCEPT !.scan = @ \ {t}, !.held = h]
  <1>1. req[r] \in RequestState
    BY DEF IndInv, TypeOK
  <1>2. x \in RequestState
    BY <1>1 DEF RequestState
  <1>3. req' = [req EXCEPT ![r] = x] /\ tokens' = tokens /\ users' = users /\ clock' = clock
    BY DEF RevokeRow, Local
  <1>4. TypeOK' /\ req'[r] = x /\ \A q \in Requests \ {r} : req'[q] = req[q]
    BY <1>2, <1>3 DEF IndInv, TypeOK
  <1>5. RowsPersist /\ StepOf(r)
    BY <1>3, <1>4 DEF RowsPersist, StepOf, Stored, Revoked
  <1>6. x.held = h /\ x.scan = req[r].scan \ {t}
    BY <1>1 DEF RequestState
  <1>7. Safe(r)'
    BY <1>1, <1>3, <1>4, <1>6
       DEF IndInv, RequestState, RevokeRow, Live, Safe, PcMatchesOp, PresentedIsStored, SubjectIsKnown,
           RefreshIsChecked, ScanAccountsForRows, HoldsStoredRows, RowMatchesGrant, Descends,
           SnapshotRevoked, ParentUnexpired, Stored, Revoked, Awaits
  <1> QED
    BY <1>4, <1>5, <1>7, Compose

\* A rotation's UPDATE locks the presented row, which exists.
LEMMA RefreshFlushStep ==
  ASSUME IndInv, NEW r \in Requests, RefreshFlush(r)
  PROVE  IndInv' /\ RowsPersist
  <1> DEFINE x == [req[r] EXCEPT !.pc = "insert", !.held = {req[r].tok}]
  <1>1. req[r] \in RequestState
    BY DEF IndInv, TypeOK
  <1>2. req[r].tok \in Requests /\ Stored(req[r].tok)
    BY DEF RefreshFlush, IndInv, Safe, PresentedIsStored, Awaits
  <1>3. x \in RequestState
    BY <1>1, <1>2 DEF RequestState, Awaits, Outcomes, Ops
  <1>4. Local(r, x) /\ req'[r] = x /\ tokens' = tokens
    BY DEF RefreshFlush, Local, IndInv, TypeOK
  <1>5. Safe(r)'
    BY <1>1, <1>2, <1>4
       DEF IndInv, RequestState, RefreshFlush, Safe, PcMatchesOp, PresentedIsStored, SubjectIsKnown,
           RefreshIsChecked, ScanAccountsForRows, HoldsStoredRows, RowMatchesGrant, Descends,
           SnapshotRevoked, ParentUnexpired, Stored, Revoked, Awaits
  <1> QED
    BY <1>3, <1>4, <1>5, LocalStep
-----------------------------------------------------------------------------
(* Commits.                                                                *)

\* A login inserts the root of its family: a new row, under a name of its own.
LEMMA LoginCommitStep ==
  ASSUME IndInv, NEW r \in Requests, LoginCommit(r)
  PROVE  IndInv' /\ RowsPersist
  <1> DEFINE x == [req[r] EXCEPT !.pc = "respond"]
             row == NewRow(req[r].subj, r, req[r].exp)
  <1>1. req[r] \in RequestState /\ req[r].subj \in Users /\ ~Stored(r)
    BY DEF IndInv, TypeOK, LoginCommit, Safe, SubjectIsKnown, RowMatchesGrant
  <1>2. x \in RequestState
    BY <1>1 DEF RequestState, Awaits
  <1>a. row \in TokenRow /\ row # NULL
    <2>1. row \in TokenRow
      BY <1>1 DEF RequestState, NewRow, TokenRow
    <2> QED
      BY <2>1, RowAssumption
  <1>3. TypeOK' /\ req'[r] = x /\ tokens'[r] = row
    BY <1>2, <1>a DEF LoginCommit, IndInv, TypeOK
  <1>4. \A q \in Requests \ {r} : req'[q] = req[q] /\ tokens'[q] = tokens[q]
    BY DEF LoginCommit, IndInv, TypeOK
  <1>5. RowsPersist /\ StepOf(r)
    BY <1>1, <1>4 DEF RowsPersist, StepOf, Stored, Revoked
  <1>6. Safe(r)'
    BY <1>1, <1>a, <1>3
       DEF IndInv, RequestState, NewRow, LoginCommit, Safe, PcMatchesOp, PresentedIsStored, SubjectIsKnown,
           RefreshIsChecked, ScanAccountsForRows, HoldsStoredRows, RowMatchesGrant, Descends,
           SnapshotRevoked, ParentUnexpired, Stored, Revoked, Awaits
  <1> QED
    BY <1>3, <1>5, <1>6, Compose

\* A rotation's commit revokes the presented row and inserts its successor: the row
\* it presented is another one, and stored.
LEMMA RefreshCommitStep ==
  ASSUME IndInv, NEW r \in Requests, RefreshCommit(r)
  PROVE  IndInv' /\ RowsPersist
  <1> DEFINE x == [req[r] EXCEPT !.pc = "respond", !.held = {}]
             t == req[r].tok
             row == NewRow(req[r].subj, tokens[t].family_id, req[r].exp)
             old == [tokens[t] EXCEPT !.revoked_at = req[r].at]
  <1>1. req[r] \in RequestState /\ req[r].subj \in Users /\ ~Stored(r)
    BY DEF IndInv, TypeOK, RefreshCommit, Safe, PcMatchesOp, SubjectIsKnown, RowMatchesGrant
  <1>2. t \in Requests /\ Stored(t) /\ t # r /\ req[r].op = "refresh"
    BY <1>1 DEF IndInv, RefreshCommit, Safe, PcMatchesOp, PresentedIsStored, Awaits
  <1>3. tokens[t] \in TokenRow
    BY <1>2 DEF IndInv, TypeOK, Stored
  <1>4. x \in RequestState /\ req[r].at \in Nat
    BY <1>1 DEF RequestState, Awaits
  <1>5. row \in TokenRow /\ row # NULL
    <2>1. row \in TokenRow
      BY <1>1, <1>3 DEF RequestState, NewRow, TokenRow
    <2> QED
      BY <2>1, RowAssumption
  <1>6. /\ old \in TokenRow /\ old # NULL /\ old.revoked_at # NULL
        /\ old.user_id = tokens[t].user_id
        /\ old.family_id = tokens[t].family_id
        /\ old.expires_at = tokens[t].expires_at
    <2>1. old \in TokenRow
      BY <1>3, <1>4 DEF TokenRow
    <2>2. old.revoked_at = req[r].at
      BY <1>3 DEF TokenRow
    <2> QED
      BY <1>3, <1>4, <2>1, <2>2, RowAssumption, NullAssumption DEF TokenRow
  <1>7. /\ req'[r] = x /\ tokens'[r] = row /\ tokens'[t] = old
        /\ \A q \in Requests \ {r, t} : tokens'[q] = tokens[q]
        /\ \A q \in Requests \ {r} : req'[q] = req[q]
    BY <1>2 DEF RefreshCommit, Rotated, IndInv, TypeOK
  <1>8. TypeOK'
    <2>1. Rotated(r) \in [Requests -> TokenRow \cup {NULL}]
      BY <1>5, <1>6 DEF Rotated, IndInv, TypeOK
    <2> QED
      BY <1>4, <2>1 DEF RefreshCommit, IndInv, TypeOK
  <1>9. RowsPersist /\ StepOf(r)
    BY <1>1, <1>2, <1>6, <1>7 DEF RowsPersist, StepOf, Stored, Revoked
  <1>10. Safe(r)'
    <2>1. /\ x.op = "refresh" /\ x.pc = "respond" /\ x.tok = t /\ x.at = req[r].at
          /\ x.subj = req[r].subj /\ x.target = {} /\ x.held = {}
      BY <1>1, <1>2 DEF RequestState, IndInv, RefreshCommit, Safe, PcMatchesOp
    <2>2. row.family_id = tokens[t].family_id /\ row.user_id = tokens[t].user_id
      BY <1>2 DEF NewRow, IndInv, RefreshCommit, Safe, RefreshIsChecked
    <2>3. req[r].at < tokens[t].expires_at
      BY <1>2 DEF IndInv, RefreshCommit, Safe, RefreshIsChecked
    <2>4. PcMatchesOp(r)' /\ PresentedIsStored(r)' /\ SubjectIsKnown(r)'
      BY <1>1, <1>2, <1>6, <1>7, <2>1
         DEF PcMatchesOp, PresentedIsStored, SubjectIsKnown, Stored
    <2>5. /\ RefreshIsChecked(r)' /\ ScanAccountsForRows(r)' /\ HoldsStoredRows(r)'
          /\ SnapshotRevoked(r)'
      BY <1>7, <2>1
         DEF RefreshIsChecked, ScanAccountsForRows, HoldsStoredRows, SnapshotRevoked
    <2>6. RowMatchesGrant(r)'
      BY <1>5, <1>7, <2>1 DEF RowMatchesGrant, Stored
    <2>7. req'[r].tok = t /\ tokens'[req'[r].tok] = old
      BY <1>7, <2>1
    <2>8. Revoked(req[r].tok)'
      BY <1>6, <2>7 DEF Revoked, Stored
    <2>9. Descends(r)'
      BY <1>2, <1>6, <1>7, <2>1, <2>2, <2>7, <2>8 DEF Descends
    <2>10. ParentUnexpired(r)'
      BY <1>6, <1>7, <2>1, <2>3, <2>7 DEF ParentUnexpired
    <2> QED
      BY <2>4, <2>5, <2>6, <2>9, <2>10 DEF Safe
  <1> QED
    BY <1>8, <1>9, <1>10, Compose

\* The commit of a bulk UPDATE: every row in its snapshot is now revoked.
LEMMA HeldRowsStep ==
  ASSUME IndInv, NEW r \in Requests, NEW outcome \in {"ok", "InvalidToken"},
         req[r].pc = "scan", req[r].scan = {}, tokens' = HeldRowsRevoked(r),
         req[r].op \in {"refresh", "logout", "change_password"},
         req[r].op = "refresh" => outcome = "InvalidToken",
         req' = [req EXCEPT ![r] = [req[r] EXCEPT !.pc = outcome, !.held = {}]],
         TypeOK'
  PROVE  IndInv' /\ RowsPersist
  <1> DEFINE x == [req[r] EXCEPT !.pc = outcome, !.held = {}]
  <1>1. req[r] \in RequestState
    BY DEF IndInv, TypeOK
  <1>2. /\ req'[r] = x /\ x.op = req[r].op /\ x.pc = outcome /\ x.tok = req[r].tok
        /\ x.target = req[r].target /\ x.held = {}
    BY <1>1 DEF RequestState, IndInv, TypeOK
  <1>3. \A q \in Requests \ {r} : req'[q] = req[q]
    BY DEF IndInv, TypeOK
  <1>4. \A t \in Requests \ req[r].held : tokens'[t] = tokens[t]
    BY DEF HeldRowsRevoked
  <1>5. ASSUME NEW t \in Requests, t \in req[r].held
        PROVE  /\ Stored(t) /\ Stored(t)' /\ Revoked(t)'
               /\ tokens'[t].user_id = tokens[t].user_id
               /\ tokens'[t].family_id = tokens[t].family_id
               /\ tokens'[t].expires_at = tokens[t].expires_at
    <2>1. Stored(t) /\ tokens[t] \in TokenRow
      BY <1>5 DEF IndInv, Safe, HoldsStoredRows, Stored, TypeOK
    <2>2. tokens'[t] = [tokens[t] EXCEPT !.revoked_at = req[r].at] /\ req[r].at \in Nat
      BY <1>1, <1>5 DEF HeldRowsRevoked, RequestState
    <2>3. tokens'[t] \in TokenRow
      BY <2>1, <2>2 DEF TokenRow
    <2>4. tokens'[t].revoked_at = req[r].at
      BY <2>1, <2>2 DEF TokenRow
    <2>5. /\ tokens'[t].user_id = tokens[t].user_id
          /\ tokens'[t].family_id = tokens[t].family_id
          /\ tokens'[t].expires_at = tokens[t].expires_at
      BY <2>1, <2>2 DEF TokenRow
    <2> QED
      BY <2>1, <2>2, <2>3, <2>4, <2>5, RowAssumption, NullAssumption DEF Stored, Revoked
  <1>6. RowsPersist
    BY <1>4, <1>5 DEF RowsPersist, Stored, Revoked
  <1>7. \A t \in Requests : Stored(t)' => Stored(t)
    BY <1>4, <1>5 DEF Stored
  <1>8. StepOf(r)
    BY <1>3, <1>7 DEF StepOf
  <1>9. Safe(r)'
    <2>1. ~Stored(r)
      BY DEF IndInv, Safe, RowMatchesGrant
    <2>2. ~Stored(r)'
      BY <1>7, <2>1
    <2>3. PcMatchesOp(r)' /\ PresentedIsStored(r)' /\ SubjectIsKnown(r)'
      BY <1>2 DEF PcMatchesOp, PresentedIsStored, SubjectIsKnown, Awaits
    <2>4. RefreshIsChecked(r)' /\ ScanAccountsForRows(r)' /\ HoldsStoredRows(r)'
      BY <1>2 DEF RefreshIsChecked, ScanAccountsForRows, HoldsStoredRows
    <2>5. RowMatchesGrant(r)' /\ ParentUnexpired(r)'
      BY <1>2, <2>2 DEF RowMatchesGrant, ParentUnexpired
    <2>6. SnapshotRevoked(r)'
      <3>1. SUFFICES ASSUME NEW t \in req[r].target PROVE Revoked(t)'
        BY <1>2 DEF SnapshotRevoked
      <3>2. t \in Requests
        BY <1>1, <3>1 DEF RequestState
      <3>3. CASE t \in req[r].held
        BY <1>5, <3>2, <3>3
      <3>4. CASE t \notin req[r].held
        <4>1. Revoked(t)
          BY <3>1, <3>4 DEF IndInv, Safe, ScanAccountsForRows
        <4> QED
          BY <1>4, <3>2, <3>4, <4>1 DEF Revoked, Stored
      <3> QED
        BY <3>3, <3>4
    <2> QED
      BY <2>2, <2>3, <2>4, <2>5, <2>6 DEF Safe
  <1> QED
    BY <1>6, <1>8, <1>9, Compose

\* Writing the held rows keeps the table's type: they are all stored.
LEMMA HeldRowsType ==
  ASSUME IndInv, NEW r \in Requests
  PROVE  HeldRowsRevoked(r) \in [Requests -> TokenRow \cup {NULL}]
  <1>1. ASSUME NEW t \in Requests, t \in req[r].held
        PROVE  [tokens[t] EXCEPT !.revoked_at = req[r].at] \in TokenRow
    <2>1. tokens[t] \in TokenRow
      BY <1>1 DEF IndInv, Safe, HoldsStoredRows, Stored, TypeOK
    <2>2. req[r].at \in Nat
      BY DEF IndInv, TypeOK, RequestState
    <2> QED
      BY <2>1, <2>2 DEF TokenRow
  <1> QED
    BY <1>1 DEF HeldRowsRevoked, IndInv, TypeOK

\* The commit of a logout, or of the revocation a replay triggers.
LEMMA RevokeCommitStep ==
  ASSUME IndInv, NEW r \in Requests, RevokeCommit(r)
  PROVE  IndInv' /\ RowsPersist
  <1>1. PICK outcome \in {"ok", "InvalidToken"} :
          /\ req[r].op = "refresh" => outcome = "InvalidToken"
          /\ req' = [req EXCEPT ![r] = [req[r] EXCEPT !.pc = outcome, !.held = {}]]
    <2>1. CASE req[r].op = "logout"
      <3>1. [req[r] EXCEPT !.held = {}, !.pc = "ok"] = [req[r] EXCEPT !.pc = "ok", !.held = {}]
        BY DEF IndInv, TypeOK, RequestState
      <3> QED
        BY <2>1, <3>1 DEF RevokeCommit
    <2>2. CASE req[r].op # "logout"
      <3>1. [req[r] EXCEPT !.held = {}, !.pc = "InvalidToken"]
              = [req[r] EXCEPT !.pc = "InvalidToken", !.held = {}]
        BY DEF IndInv, TypeOK, RequestState
      <3> QED
        BY <2>2, <3>1 DEF RevokeCommit
    <2> QED
      BY <2>1, <2>2
  <1>2. [req[r] EXCEPT !.pc = outcome, !.held = {}] \in RequestState
    <2>1. req[r] \in RequestState
      BY DEF IndInv, TypeOK
    <2> QED
      BY <2>1 DEF RequestState, Outcomes
  <1>3. TypeOK'
    BY <1>1, <1>2, HeldRowsType DEF RevokeCommit, IndInv, TypeOK
  <1> QED
    BY <1>1, <1>3, HeldRowsStep DEF RevokeCommit

\* The commit of a password change writes the user's row as well.
LEMMA ChangePasswordCommitStep ==
  ASSUME IndInv, NEW r \in Requests, NEW p \in Passwords, ChangePasswordCommit(r, p)
  PROVE  IndInv' /\ RowsPersist
  <1>1. req[r] \in RequestState /\ req[r].subj \in Users
    BY DEF IndInv, TypeOK, ChangePasswordCommit, Safe, SubjectIsKnown, Awaits
  <1>2. [req[r] EXCEPT !.pc = "ok", !.held = {}] \in RequestState
    BY <1>1 DEF RequestState, Outcomes
  <1>3. users' \in [Users -> UserRow]
    <2>1. Hash(p) \in [digest_of : Passwords]
      BY DEF Hash
    <2>2. users[req[r].subj].is_active \in BOOLEAN
      BY <1>1 DEF IndInv, TypeOK, UserRow
    <2>3. req[r].loaded # NULL => req[r].loaded \in BOOLEAN
      BY <1>1 DEF RequestState
    <2>4. PICK b \in BOOLEAN :
            users' = [users EXCEPT ![req[r].subj] =
                        [hashed_password |-> Hash(p), is_active |-> b]]
      <3>1. CASE req[r].loaded = NULL
        BY <2>2, <3>1 DEF ChangePasswordCommit
      <3>2. CASE req[r].loaded # NULL
        BY <2>3, <3>2 DEF ChangePasswordCommit
      <3> QED
        BY <3>1, <3>2
    <2>5. [hashed_password |-> Hash(p), is_active |-> b] \in UserRow
      BY <2>1 DEF UserRow
    <2> QED
      BY <2>4, <2>5 DEF IndInv, TypeOK
  <1>4. TypeOK'
    BY <1>2, <1>3, HeldRowsType DEF ChangePasswordCommit, IndInv, TypeOK
  <1> QED
    BY <1>4, HeldRowsStep DEF ChangePasswordCommit

\* The environment touches neither the token table nor any request.
LEMMA EnvironmentStep ==
  ASSUME IndInv, Environment
  PROVE  IndInv' /\ RowsPersist
  <1>1. tokens' = tokens /\ req' = req
    BY DEF Environment, Tick, Deactivate
  <1>2. TypeOK'
    <2>1. CASE Tick
      BY <2>1 DEF Tick, IndInv, TypeOK
    <2>2. CASE \E u \in Users : Deactivate(u)
      <3>1. PICK u \in Users : Deactivate(u)
        BY <2>2
      <3>2. [users[u] EXCEPT !.is_active = FALSE] \in UserRow
        BY DEF IndInv, TypeOK, UserRow
      <3> QED
        BY <3>1, <3>2 DEF Deactivate, IndInv, TypeOK
    <2> QED
      BY <2>1, <2>2 DEF Environment
  <1>3. RowsPersist
    BY <1>1 DEF RowsPersist, Stored, Revoked
  <1>4. ASSUME NEW q \in Requests PROVE Safe(q)'
    BY <1>1, <1>3, Frame DEF IndInv, Stored
  <1> QED
    BY <1>2, <1>3, <1>4 DEF IndInv
-----------------------------------------------------------------------------
(* The theorems.                                                           *)

\* Every step of the system keeps the inductive invariant, and keeps rows.
LEMMA NextStep ==
  ASSUME IndInv, Next
  PROVE  IndInv' /\ RowsPersist
  <1>1. ASSUME NEW r \in Requests, Begin(r) PROVE IndInv' /\ RowsPersist
    <2>1. CASE \E email \in Users \cup {NULL}, p \in Passwords : Login(r, email, p)
      BY <2>1, LoginStep
    <2>2. CASE \E c \in Presented : Refresh(r, c) \/ Logout(r, c)
      BY <2>2, PresentRefreshTokenStep DEF Refresh, Logout
    <2>3. CASE \E c \in Presented : ChangePassword(r, c)
      BY <2>3, ChangePasswordStep
    <2> QED
      BY <1>1, <2>1, <2>2, <2>3 DEF Begin
  <1>2. ASSUME NEW r \in Requests, Continue(r) PROVE IndInv' /\ RowsPersist
    <2>1. CASE \E p \in Passwords : ChangePasswordGetById(r, p) \/ ChangePasswordCommit(r, p)
      BY <2>1, ChangePasswordGetByIdStep, ChangePasswordCommitStep
    <2>2. CASE \E t \in Requests : RevokeRow(r, t)
      BY <2>2, RevokeRowStep
    <2>3. CASE LoginCommit(r) \/ RefreshFlush(r) \/ RefreshCommit(r) \/ RevokeCommit(r)
      BY <2>3, LoginCommitStep, RefreshFlushStep, RefreshCommitStep, RevokeCommitStep
    <2>4. CASE \/ Mint(r) \/ Respond(r) \/ RefreshGetByJti(r) \/ RefreshGetUser(r)
               \/ LogoutGetByJti(r) \/ GetCurrentUser(r) \/ ChangePasswordUpdate(r)
      BY <2>4, MintStep, RespondStep, RefreshGetByJtiStep, RefreshGetUserStep, LogoutGetByJtiStep,
         GetCurrentUserStep, ChangePasswordUpdateStep
    <2>5. CASE RevokeFamily(r) \/ RevokeAllForUser(r) \/ DeadlockAbort(r)
      BY <2>5, RevokeFamilyStep, RevokeAllForUserStep, DeadlockAbortStep
    <2> QED
      BY <1>2, <2>1, <2>2, <2>3, <2>4, <2>5 DEF Continue
  <1> QED
    BY <1>1, <1>2, FailStep, EnvironmentStep DEF Next

\* A stuttering step changes nothing the invariant reads.
LEMMA StutterStep ==
  ASSUME IndInv, UNCHANGED vars
  PROVE  IndInv'
  <1>1. tokens' = tokens /\ users' = users /\ clock' = clock /\ req' = req
    BY DEF vars
  <1>2. TypeOK'
    BY <1>1 DEF IndInv, TypeOK
  <1>3. RowsPersist
    BY <1>1 DEF RowsPersist, Stored, Revoked
  <1>4. ASSUME NEW q \in Requests PROVE Safe(q)'
    BY <1>1, <1>3, Frame DEF IndInv, Stored
  <1> QED
    BY <1>2, <1>4 DEF IndInv

\* In every reachable state, every handler's knowledge agrees with the tables.
THEOREM Invariance == Spec => []IndInv
  <1>1. Init => IndInv
    BY IndInvInit
  <1>2. IndInv /\ [Next]_vars => IndInv'
    BY NextStep, StutterStep
  <1> QED
    BY <1>1, <1>2, PTL DEF Spec

\* Type correctness of the tables, the clock and the handlers' local state.
THEOREM TypeCorrect == Spec => []TypeOK
  <1>1. IndInv => TypeOK
    BY DEF IndInv
  <1> QED
    BY <1>1, Invariance, PTL

\* A refused request never leaves a row, and a client never holds a refresh
\* token without one: "record is None" cannot happen to an issued token.
THEOREM GrantsAreStored == Spec => []GrantMatchesRow
  <1>1. IndInv => GrantMatchesRow
    BY DEF IndInv, Safe, GrantMatchesRow
  <1> QED
    BY <1>1, Invariance, PTL

\* Rotation is atomic: a token with a stored successor is revoked, and keeps
\* user and family, whatever crashes or overlapping requests there are.
THEOREM RotationKeepsLineage == Spec => []Lineage
  <1>1. IndInv => Lineage
    BY DEF IndInv, Safe, Lineage
  <1> QED
    BY <1>1, Invariance, PTL

\* A completed logout, replay or password change has revoked its whole snapshot.
THEOREM SnapshotsAreRevoked == Spec => []RevocationCovers
  <1>1. IndInv => RevocationCovers
    BY DEF IndInv, Safe, RevocationCovers
  <1> QED
    BY <1>1, Invariance, PTL

\* At every await a handler's view of its progress agrees with the tables: the
\* presented row exists, its expiry was checked, its scan has lost no row.
THEOREM HandlersAgree == Spec => []HandlerInv
  <1>1. IndInv => HandlerInv
    BY DEF IndInv, Safe, HandlerInv
  <1> QED
    BY <1>1, Invariance, PTL

\* No successor descends from a token that had expired when it was read.
THEOREM NoRotationAfterExpiry == Spec => []RotatedBeforeExpiry
  <1>1. IndInv => RotatedBeforeExpiry
    BY DEF IndInv, Safe, RotatedBeforeExpiry
  <1> QED
    BY <1>1, Invariance, PTL

\* No step deletes a row, changes its identity or revives a revoked token.
THEOREM RevocationFinal == Spec => RevocationIsFinal
  <1>1. IndInv /\ [Next]_vars => [RowsPersist]_vars
    BY NextStep
  <1> QED
    BY <1>1, Invariance, PTL DEF Spec, RevocationIsFinal
-----------------------------------------------------------------------------
(* Deactivated accounts.                                                   *)

\* A request that has not been made acts for nobody.
IdleIsNobody == \A r \in Requests : req[r].pc = "idle" => req[r].subj = NULL

\* The step is r's and leaves is_active of u alone.
QuietFor(u, r) ==
    /\ \A q \in Requests \ {r} : req'[q] = req[q]
    /\ users'[u].is_active = users[u].is_active

\* A request in flight changes nobody else's state, ends or stays in flight, and
\* learns whom it acts for only in RefreshGetUser.
Moves(r) ==
    /\ \A q \in Requests \ {r} : req'[q] = req[q]
    /\ req'[r].pc # "idle"
    /\ req'[r].subj = req[r].subj \/ RefreshGetUser(r)

\* Every step after the first await moves its own request only.
LEMMA ContinueMoves ==
  ASSUME IndInv, NEW r \in Requests, Continue(r) \/ Fail(r)
  PROVE  Moves(r)
  <1>1. req[r] \in RequestState
    BY DEF IndInv, TypeOK
  <1> USE <1>1 DEF Moves, IndInv, TypeOK, RequestState
  <1>2. CASE Mint(r)
    BY <1>2 DEF Mint, Local
  <1>3. CASE LoginCommit(r)
    BY <1>3 DEF LoginCommit
  <1>4. CASE Respond(r)
    BY <1>4 DEF Respond, Local
  <1>5. CASE RefreshGetByJti(r)
    BY <1>5 DEF RefreshGetByJti, Local
  <1>6. CASE RefreshGetUser(r)
    BY <1>6 DEF RefreshGetUser, Local
  <1>7. CASE RefreshFlush(r)
    BY <1>7 DEF RefreshFlush, Local
  <1>18. CASE RefreshCommit(r)
    BY <1>18 DEF RefreshCommit
  <1>8. CASE LogoutGetByJti(r)
    BY <1>8 DEF LogoutGetByJti, Local
  <1>9. CASE GetCurrentUser(r)
    BY <1>9 DEF GetCurrentUser, Local
  <1>10. CASE ChangePasswordUpdate(r)
    BY <1>10 DEF ChangePasswordUpdate, Local
  <1>11. CASE \E p \in Passwords : ChangePasswordGetById(r, p)
    BY <1>11 DEF ChangePasswordGetById, Local
  <1>12. CASE \E p \in Passwords : ChangePasswordCommit(r, p)
    BY <1>12 DEF ChangePasswordCommit
  <1>13. CASE RevokeFamily(r)
    BY <1>13 DEF RevokeFamily, Local
  <1>14. CASE RevokeAllForUser(r)
    BY <1>14 DEF RevokeAllForUser, Local
  <1>15. CASE RevokeCommit(r)
    BY <1>15 DEF RevokeCommit
  <1>16. CASE \E t \in Requests : RevokeRow(r, t)
    BY <1>16 DEF RevokeRow, Local
  <1>17. CASE DeadlockAbort(r) \/ Fail(r)
    <2>1. Rollback(r)
      BY <1>17 DEF DeadlockAbort, Fail
    <2> QED
      BY <2>1 DEF Rollback, Local
  <1> QED
    BY <1>2, <1>3, <1>4, <1>5, <1>6, <1>7, <1>8, <1>9, <1>10, <1>11, <1>12, <1>13, <1>14, <1>15, <1>16, <1>17, <1>18
       DEF Continue

\* A lockout ends only through a request that gets, or is, past its check.
LEMMA LockoutFrame ==
  ASSUME NEW u \in Users, LockedOut(u), NEW r \in Requests, QuietFor(u, r),
         (req'[r].pc \in Awaits /\ req'[r].subj = u) => req'[r].pc = "get_current_user"
  PROVE  LockedOut(u)'
  <1>1. ~users'[u].is_active
    BY DEF LockedOut, QuietFor
  <1>2. ASSUME NEW q \in Requests, req'[q].pc \in Awaits, req'[q].subj = u
        PROVE  req'[q].pc = "get_current_user"
    BY <1>2 DEF LockedOut, QuietFor, Active
  <1> QED
    BY <1>1, <1>2 DEF LockedOut, Active

\* A request that begins is refused, or has its check ahead of it.
LEMMA BeginKeepsLockout ==
  ASSUME IndInv, IdleIsNobody, NEW u \in Users, LockedOut(u), NEW r \in Requests, Begin(r)
  PROVE  LockedOut(u)'
  <1>1. req[r] \in RequestState /\ users' = users /\ req[r].subj = NULL /\ NULL \notin Users
    BY NullAssumption DEF IndInv, TypeOK, IdleIsNobody, Begin, Login, Refresh, Logout,
       PresentRefreshToken, ChangePassword, Local
  <1>2. CASE \E email \in Users \cup {NULL}, p \in Passwords : Login(r, email, p)
    <2>1. PICK email \in Users \cup {NULL}, p \in Passwords : Login(r, email, p)
      BY <1>2
    <2>2. ~users[u].is_active
      BY DEF LockedOut
    <2>3. QuietFor(u, r)
      BY <1>1, <2>1 DEF Login, Local, QuietFor, IndInv, TypeOK
    <2>4. req'[r].pc \in Awaits => (req'[r].subj # u)
      BY <1>1, <2>1, <2>2 DEF Login, Local, IndInv, TypeOK, RequestState, Awaits
    <2> QED
      BY <2>3, <2>4, LockoutFrame
  <1>3. ASSUME NEW c \in Presented, NEW op \in {"refresh", "logout"},
               PresentRefreshToken(r, op, c)
        PROVE  LockedOut(u)'
    <2>1. req'[r].subj # u /\ QuietFor(u, r)
      BY <1>1, <1>3 DEF PresentRefreshToken, Local, QuietFor, IndInv, TypeOK, RequestState
    <2> QED
      BY <2>1, LockoutFrame
  <1>4. ASSUME NEW c \in Presented, ChangePassword(r, c)
        PROVE  LockedOut(u)'
    <2>1. Decode(c, "access") \in {"valid", "InvalidToken", "TokenExpired"}
      BY DEF Decode
    <2>2. QuietFor(u, r)
      BY <1>1, <1>4 DEF ChangePassword, Local, QuietFor, IndInv, TypeOK
    <2>3. req'[r].pc \in Awaits => req'[r].pc = "get_current_user"
      BY <1>1, <1>4, <2>1
         DEF ChangePassword, Local, IndInv, TypeOK, RequestState, Awaits
    <2> QED
      BY <2>2, <2>3, LockoutFrame
  <1> QED
    BY <1>2, <1>3, <1>4 DEF Begin, Refresh, Logout

\* A request in flight is another user's, or its check refuses it.
LEMMA ContinueKeepsLockout ==
  ASSUME IndInv, NEW u \in Users, LockedOut(u), NEW r \in Requests, Continue(r) \/ Fail(r)
  PROVE  LockedOut(u)'
  <1>1. req[r] \in RequestState /\ ~users[u].is_active
    BY DEF IndInv, TypeOK, LockedOut
  <1>2. CASE GetCurrentUser(r)
    <2>1. QuietFor(u, r)
      BY <1>1, <1>2 DEF GetCurrentUser, Local, QuietFor, IndInv, TypeOK
    <2>2. (req'[r].pc \in Awaits) => req'[r].subj # u
      BY <1>1, <1>2 DEF GetCurrentUser, Local, IndInv, TypeOK, RequestState, Awaits
    <2> QED
      BY <2>1, <2>2, LockoutFrame
  <1>3. CASE RefreshGetUser(r)
    <2>1. QuietFor(u, r)
      BY <1>1, <1>3 DEF RefreshGetUser, Local, QuietFor, IndInv, TypeOK
    <2>2. (req'[r].pc \in Awaits) => req'[r].subj # u
      BY <1>1, <1>3 DEF RefreshGetUser, Local, IndInv, TypeOK, RequestState, Awaits
    <2> QED
      BY <2>1, <2>2, LockoutFrame
  <1>4. CASE DeadlockAbort(r) \/ Fail(r)
    <2>1. Rollback(r)
      BY <1>4 DEF DeadlockAbort, Fail
    <2>2. QuietFor(u, r) /\ req'[r].pc \notin Awaits
      BY <1>1, <2>1 DEF Rollback, Local, QuietFor, IndInv, TypeOK, RequestState, Awaits
    <2> QED
      BY <2>2, LockoutFrame
  <1>5. CASE \E p \in Passwords : ChangePasswordCommit(r, p)
    <2>1. PICK p \in Passwords : ChangePasswordCommit(r, p)
      BY <1>5
    <2>2. req[r].subj # u
      BY <2>1 DEF ChangePasswordCommit, LockedOut, Active, Awaits
    <2>3. QuietFor(u, r) /\ req'[r].pc = "ok"
      BY <1>1, <2>1, <2>2
         DEF ChangePasswordCommit, QuietFor, IndInv, TypeOK, RequestState
    <2> QED
      BY <2>3, LockoutFrame DEF Awaits
  <1>6. ASSUME Active(r), req[r].pc \notin {"get_current_user", "get_user"}, users' = users
        PROVE  LockedOut(u)'
    <2>1. req[r].subj # u
      BY <1>6 DEF LockedOut
    <2>2. QuietFor(u, r) /\ req'[r].subj # u
      BY <1>6, <2>1, ContinueMoves DEF Moves, QuietFor, RefreshGetUser
    <2> QED
      BY <2>2, LockoutFrame
  <1>7. CASE \/ Mint(r) \/ LoginCommit(r) \/ Respond(r) \/ RefreshGetByJti(r)
             \/ RefreshFlush(r) \/ RefreshCommit(r) \/ LogoutGetByJti(r)
    BY <1>6, <1>7 DEF Mint, LoginCommit, Respond, RefreshGetByJti, RefreshFlush,
       RefreshCommit, LogoutGetByJti, Local, Active, Awaits
  <1>8. CASE \/ ChangePasswordUpdate(r) \/ \E p \in Passwords : ChangePasswordGetById(r, p)
             \/ RevokeFamily(r) \/ RevokeAllForUser(r) \/ RevokeCommit(r)
             \/ \E t \in Requests : RevokeRow(r, t)
    BY <1>6, <1>8 DEF ChangePasswordUpdate, ChangePasswordGetById, RevokeFamily,
       RevokeAllForUser, RevokeCommit, RevokeRow, Local, Active, Awaits
  <1> QED
    BY <1>2, <1>3, <1>4, <1>5, <1>7, <1>8 DEF Continue

\* A request's step leaves it begun or ended, and no other request moves.
LEMMA StepMoves ==
  ASSUME IndInv, NEW r \in Requests, Begin(r) \/ Continue(r) \/ Fail(r)
  PROVE  req'[r].pc # "idle" /\ \A q \in Requests \ {r} : req'[q] = req[q]
  <1>1. req[r] \in RequestState
    BY DEF IndInv, TypeOK
  <1>2. CASE \E email \in Users \cup {NULL}, p \in Passwords : Login(r, email, p)
    BY <1>1, <1>2 DEF Login, Local, IndInv, TypeOK, RequestState
  <1>3. ASSUME NEW c \in Presented, Refresh(r, c) \/ Logout(r, c) \/ ChangePassword(r, c)
        PROVE  req'[r].pc # "idle" /\ \A q \in Requests \ {r} : req'[q] = req[q]
    <2>1. Decode(c, "access") # "idle" /\ Decode(c, "refresh") # "idle"
      BY DEF Decode
    <2>2. CASE Refresh(r, c)
      BY <1>1, <2>1, <2>2 DEF Refresh, PresentRefreshToken, Local, IndInv, TypeOK, RequestState
    <2>3. CASE Logout(r, c)
      BY <1>1, <2>1, <2>3 DEF Logout, PresentRefreshToken, Local, IndInv, TypeOK, RequestState
    <2>4. CASE ChangePassword(r, c)
      BY <1>1, <2>1, <2>4 DEF ChangePassword, Local, IndInv, TypeOK, RequestState
    <2> QED
      BY <1>3, <2>2, <2>3, <2>4
  <1> QED
    BY <1>2, <1>3, ContinueMoves DEF Begin, Moves

\* No step makes a request idle again.
LEMMA IdleStep ==
  ASSUME IndInv, IdleIsNobody, Next
  PROVE  IdleIsNobody'
  <1>1. CASE Environment
    BY <1>1 DEF Environment, Tick, Deactivate, IdleIsNobody
  <1> QED
    BY <1>1, StepMoves DEF Next, IdleIsNobody

\* An account that is inactive, with no request left that saw it active, stays
\* locked out: no login, refresh or access token gets past a check again, and no
\* password change restores is_active (user_repository.py:39).
THEOREM DeactivationIsFinal == Spec => DeactivationLocksOut
  <1>1. Init => IdleIsNobody
    BY DEF Init, NewRequest, IdleIsNobody
  <1>2. IdleIsNobody /\ IndInv /\ [Next]_vars => IdleIsNobody'
    <2>1. ASSUME IdleIsNobody, UNCHANGED vars PROVE IdleIsNobody'
      BY <2>1 DEF vars, IdleIsNobody
    <2> QED
      BY <2>1, IdleStep
  <1>3. ASSUME IndInv, IdleIsNobody, Next, NEW u \in Users, LockedOut(u)
        PROVE  LockedOut(u)'
    <2>1. CASE Environment
      BY <1>3, <2>1 DEF Environment, Tick, Deactivate, LockedOut, Active, IndInv, TypeOK
    <2> QED
      BY <1>3, <2>1, BeginKeepsLockout, ContinueKeepsLockout DEF Next
  <1>4. IndInv /\ IdleIsNobody /\ [Next]_vars
          => [\A u \in Users : LockedOut(u) => LockedOut(u)']_vars
    BY <1>3
  <1> QED
    BY <1>1, <1>2, <1>4, Invariance, PTL DEF Spec, DeactivationLocksOut
=============================================================================
