----------------------- MODULE SessionPromisesProofs -----------------------
(***************************************************************************)
(* What the token table as a whole promises, for any sets of requests,     *)
(* users and passwords, on top of the invariant of AuthSessionsProofs.     *)
(*                                                                         *)
(* Under every interleaving: AuthSessions implements TokenLedger, and no   *)
(* session ends but by its own user's doing.  Four actions write the token *)
(* table.  What they write is known from that invariant and OwnershipInv:  *)
(* a bulk UPDATE has only locked rows of its own family or user, and a     *)
(* family has one owner.                                                   *)
(*                                                                         *)
(* For requests that do not overlap (SerialSpec): what the documentation   *)
(* says of token families.  The runs family_forks and family_outlived show *)
(* that overlap breaks it.  Without overlap what a handler read is still   *)
(* so when it commits: a rotation commits on a token that is live, and a   *)
(* bulk UPDATE has, of the live rows its WHERE clause names, visited or    *)
(* still to visit each.                                                    *)
(***************************************************************************)
EXTENDS AuthSessionsProofs

(* Under every interleaving.                                               *)

\* The step is request r's commit: the only ones that write the table.
Commits(r) ==
    \/ LoginCommit(r) \/ RefreshCommit(r) \/ RevokeCommit(r)
    \/ \E p \in Passwords : ChangePasswordCommit(r, p)

\* The step starts or continues a bulk UPDATE of r.
Scans(r) ==
    \/ RevokeFamily(r) \/ RevokeAllForUser(r)
    \/ \E t \in Requests : RevokeRow(r, t)

\* A step commits, or leaves the table alone.
LEMMA OnlyCommitsWrite ==
  ASSUME Next
  PROVE  tokens' = tokens \/ \E r \in Requests : Commits(r)
  <1>1. ASSUME NEW r \in Requests, Begin(r) PROVE tokens' = tokens
    BY <1>1 DEF Begin, Login, Refresh, Logout, PresentRefreshToken, ChangePassword, Local
  <1>2. ASSUME NEW r \in Requests, Continue(r), ~Commits(r) PROVE tokens' = tokens
    BY <1>2 DEF Continue, Commits, Mint, Respond, RefreshGetByJti, RefreshGetUser,
       RefreshFlush, LogoutGetByJti, GetCurrentUser, ChangePasswordUpdate, ChangePasswordGetById,
       RevokeFamily, RevokeAllForUser, RevokeRow, DeadlockAbort, Rollback, Local
  <1>3. ASSUME NEW r \in Requests, Fail(r) PROVE tokens' = tokens
    BY <1>3 DEF Fail, Rollback, Local
  <1>4. CASE Environment
    BY <1>4 DEF Environment, Tick, Deactivate
  <1> QED
    BY <1>1, <1>2, <1>3, <1>4 DEF Next

\* How a request gets into a bulk UPDATE, or on to the commit of a rotation.
Enters(r) ==
    /\ req'[r].pc = "scan" => Scans(r)
    /\ req'[r].pc = "get_user" => RefreshGetByJti(r)
    /\ req'[r].pc = "mint" /\ req'[r].op = "refresh" => RefreshGetUser(r)
    /\ req'[r].pc = "commit" => Mint(r)
    /\ req'[r].pc = "insert" => RefreshFlush(r)

\* Every other step leads elsewhere.
LEMMA StepEnters ==
  ASSUME IndInv, NEW r \in Requests, Begin(r) \/ Continue(r) \/ Fail(r)
  PROVE  Enters(r)
  <1>1. req[r] \in RequestState
    BY DEF IndInv, TypeOK
  <1> DEFINE Elsewhere == /\ req'[r].pc \notin {"scan", "get_user", "commit", "insert"}
                          /\ req'[r].pc = "mint" => req'[r].op # "refresh"
  <1> USE <1>1 DEF IndInv, TypeOK, RequestState
  <1>2. ASSUME NEW email \in Users \cup {NULL}, NEW p \in Passwords, Login(r, email, p)
        PROVE  Elsewhere
    BY <1>2 DEF Login, Local
  <1>3. ASSUME NEW c \in Presented, NEW op \in {"refresh", "logout"},
               PresentRefreshToken(r, op, c)
        PROVE  Elsewhere
    <2>1. Decode(c, "refresh") \in {"valid", "InvalidToken", "TokenExpired"}
      BY DEF Decode
    <2> QED
      BY <1>3, <2>1 DEF PresentRefreshToken, Local
  <1>4. ASSUME NEW c \in Presented, ChangePassword(r, c)
        PROVE  Elsewhere
    <2>1. Decode(c, "access") \in {"valid", "InvalidToken", "TokenExpired"}
      BY DEF Decode
    <2> QED
      BY <1>4, <2>1 DEF ChangePassword, Local
  <1>5. CASE LoginCommit(r)
    BY <1>5 DEF LoginCommit, Enters
  <1>6. CASE Respond(r)
    BY <1>6 DEF Respond, Local, Enters
  <1>7. CASE RefreshCommit(r)
    BY <1>7 DEF RefreshCommit, Enters
  <1>8. CASE LogoutGetByJti(r)
    BY <1>8 DEF LogoutGetByJti, Local, Enters
  <1>9. CASE GetCurrentUser(r)
    BY <1>9 DEF GetCurrentUser, Local, Enters
  <1>10. CASE ChangePasswordUpdate(r)
    BY <1>10 DEF ChangePasswordUpdate, Local, Enters
  <1>11. ASSUME NEW p \in Passwords, ChangePasswordGetById(r, p) PROVE Elsewhere
    BY <1>11 DEF ChangePasswordGetById, Local
  <1>12. ASSUME NEW p \in Passwords, ChangePasswordCommit(r, p) PROVE Elsewhere
    BY <1>12 DEF ChangePasswordCommit
  <1>13. CASE RevokeCommit(r)
    BY <1>13 DEF RevokeCommit, Enters
  <1>14. CASE DeadlockAbort(r) \/ Fail(r)
    <2>1. Rollback(r)
      BY <1>14 DEF DeadlockAbort, Fail
    <2> QED
      BY <2>1 DEF Rollback, Local, Enters
  <1>15. CASE Mint(r)
    BY <1>15 DEF Mint, Local, Enters
  <1>16. CASE RefreshGetByJti(r)
    BY <1>16 DEF RefreshGetByJti, Local, Enters
  <1>17. CASE RefreshGetUser(r)
    BY <1>17 DEF RefreshGetUser, Local, Enters
  <1>18. CASE Scans(r)
    <2>1. CASE RevokeFamily(r)
      BY <1>18, <2>1 DEF RevokeFamily, Local, Enters
    <2>2. CASE RevokeAllForUser(r)
      BY <1>18, <2>2 DEF RevokeAllForUser, Local, Enters
    <2>3. CASE \E t \in Requests : RevokeRow(r, t)
      BY <1>18, <2>3 DEF RevokeRow, Local, Enters
    <2> QED
      BY <1>18, <2>1, <2>2, <2>3 DEF Scans
  <1>19. Elsewhere => Enters(r)
    BY DEF Enters
  <1>22. CASE RefreshFlush(r)
    BY <1>22 DEF RefreshFlush, Local, Enters
  <1>20. CASE Begin(r)
    BY <1>2, <1>3, <1>4, <1>19, <1>20 DEF Begin, Refresh, Logout
  <1>21. CASE Continue(r)
    BY <1>5, <1>6, <1>7, <1>8, <1>9, <1>10, <1>11, <1>12, <1>13, <1>14, <1>15, <1>16, <1>17,
       <1>18, <1>19, <1>21, <1>22 DEF Continue, Scans
  <1> QED
    BY <1>14, <1>20, <1>21
-----------------------------------------------------------------------------
(* Ownership.                                                              *)

\* What a request knows of the rows it visits survives the steps of others.
LEMMA OwnRowsFrame ==
  ASSUME IndInv, RowsPersist, NEW q \in Requests, ScansOwnRows(q), req'[q] = req[q]
  PROVE  ScansOwnRows(q)'
  <1>1. req[q] \in RequestState /\ PcMatchesOp(q) /\ PresentedIsStored(q)
    BY DEF IndInv, TypeOK, Safe
  <1>2. SUFFICES ASSUME req[q].pc = "scan", NEW t \in req[q].scan \cup req[q].held
                 PROVE  Stored(t)' /\ MayEnd(q, t)'
    BY DEF ScansOwnRows
  <1>3. t \in Requests /\ Stored(t) /\ MayEnd(q, t)
    BY <1>1, <1>2 DEF ScansOwnRows, RequestState
  <1>4. req[q].op # "change_password" => req[q].tok \in Requests /\ Stored(req[q].tok)
    BY <1>1, <1>2 DEF PcMatchesOp, PresentedIsStored, Awaits
  <1> QED
    BY <1>2, <1>3, <1>4 DEF MayEnd, RowsPersist

\* The rows a bulk UPDATE sets out to visit are its own, and visiting adds none.
LEMMA ScansStep ==
  ASSUME IndInv, NEW r \in Requests, ScansOwnRows(r), Scans(r)
  PROVE  ScansOwnRows(r)'
  <1>1. req[r] \in RequestState /\ PcMatchesOp(r)
    BY DEF IndInv, TypeOK, Safe
  <1> USE DEF IndInv, TypeOK, RequestState
  <1>2. CASE RevokeFamily(r)
    <2>1. req'[r] = [req[r] EXCEPT !.pc = "scan", !.target = FamilyRows(r),
                                   !.scan = FamilyRows(r)] /\ tokens' = tokens
      BY <1>2 DEF RevokeFamily, Local
    <2>2. req[r].held = {} /\ req[r].op # "change_password"
      BY <1>1, <1>2 DEF RevokeFamily, PcMatchesOp
    <2> QED
      BY <1>1, <2>1, <2>2 DEF ScansOwnRows, FamilyRows, MayEnd, Stored, Live
  <1>3. CASE RevokeAllForUser(r)
    <2>1. req'[r] = [req[r] EXCEPT !.pc = "scan", !.target = UserRows(r),
                                   !.scan = UserRows(r)] /\ tokens' = tokens
      BY <1>3 DEF RevokeAllForUser, Local
    <2>2. req[r].held = {} /\ req[r].op = "change_password"
      BY <1>1, <1>3 DEF RevokeAllForUser, PcMatchesOp
    <2> QED
      BY <1>1, <2>1, <2>2 DEF ScansOwnRows, UserRows, MayEnd, Stored, Live
  <1>4. ASSUME NEW t \in Requests, RevokeRow(r, t) PROVE ScansOwnRows(r)'
    <2>1. req'[r] = [req[r] EXCEPT !.scan = @ \ {t},
                                   !.held = IF Live(t) THEN @ \cup {t} ELSE @]
          /\ tokens' = tokens
      BY <1>4 DEF RevokeRow, Local
    <2>2. req[r].pc = "scan" /\ t \in req[r].scan
      BY <1>4 DEF RevokeRow
    <2>3. /\ req'[r].scan \cup req'[r].held \subseteq req[r].scan \cup req[r].held
          /\ req'[r].pc = req[r].pc /\ req'[r].op = req[r].op
          /\ req'[r].subj = req[r].subj /\ req'[r].tok = req[r].tok
      BY <1>1, <2>1, <2>2
    <2> QED
      BY <2>1, <2>2, <2>3 DEF ScansOwnRows, MayEnd, Stored
  <1> QED
    BY <1>2, <1>3, <1>4 DEF Scans

\* A new token joins the family of its own user.
LEMMA FamilyOwnerStep ==
  ASSUME IndInv, RowsPersist, Next, \A t \in Requests : FamilyHasOneOwner(t)
  PROVE  \A t \in Requests : FamilyHasOneOwner(t)'
  <1>1. \A t \in Requests : Stored(t) => tokens[t].family_id \in Requests
    BY DEF IndInv, TypeOK, TokenRow, Stored
  <1>2. ASSUME NEW t \in Requests, Stored(t) PROVE FamilyHasOneOwner(t)'
    BY <1>1, <1>2 DEF FamilyHasOneOwner, RowsPersist
  <1>3. ASSUME NEW t \in Requests, ~Stored(t), Stored(t)' PROVE FamilyHasOneOwner(t)'
    <2>1. PICK r \in Requests : Commits(r)
      BY <1>3, OnlyCommitsWrite DEF Stored
    <2>2. CASE LoginCommit(r)
      <3>1. t = r /\ tokens'[r] = NewRow(req[r].subj, r, req[r].exp)
        BY <1>3, <2>2 DEF LoginCommit, Stored, IndInv, TypeOK
      <3> QED
        BY <1>3, <3>1 DEF FamilyHasOneOwner, NewRow, Stored
    <2>3. CASE RefreshCommit(r)
      <3> DEFINE p == req[r].tok
      <3>1. /\ p \in Requests /\ Stored(p)
            /\ req[r].subj = tokens[p].user_id
        BY <2>3 DEF IndInv, Safe, PcMatchesOp, PresentedIsStored, RefreshIsChecked,
                    RefreshCommit, Awaits
      <3>2. t = r /\ tokens'[r] = NewRow(req[r].subj, tokens[p].family_id, req[r].exp)
        BY <1>3, <2>3, <3>1 DEF RefreshCommit, Rotated, Stored, IndInv, TypeOK
      <3>3. PICK f \in Requests : f = tokens[p].family_id
        BY <1>1, <3>1
      <3>4. Stored(f) /\ tokens[f].user_id = tokens[p].user_id
        BY <3>1, <3>3 DEF FamilyHasOneOwner
      <3>5. Stored(f)' /\ tokens'[f].user_id = tokens[p].user_id
        BY <3>4 DEF RowsPersist
      <3>6. tokens'[r].family_id = f /\ tokens'[r].user_id = tokens[p].user_id
        BY <3>1, <3>2, <3>3 DEF NewRow
      <3> QED
        BY <3>2, <3>5, <3>6 DEF FamilyHasOneOwner
    <2>4. ASSUME tokens' = HeldRowsRevoked(r) PROVE FALSE
      BY <1>3, <2>4 DEF HeldRowsRevoked, Stored, IndInv, Safe, HoldsStoredRows
    <2> QED
      BY <2>1, <2>2, <2>3, <2>4 DEF Commits, RevokeCommit, ChangePasswordCommit
  <1> QED
    BY <1>2, <1>3 DEF FamilyHasOneOwner

\* Every step keeps both parts of the ownership invariant.
LEMMA OwnershipStep ==
  ASSUME IndInv, OwnershipInv, Next
  PROVE  OwnershipInv'
  <1>1. RowsPersist
    BY NextStep
  <1>2. \A t \in Requests : FamilyHasOneOwner(t)'
    BY <1>1, FamilyOwnerStep DEF OwnershipInv
  <1>3. ASSUME NEW q \in Requests, req'[q] = req[q] PROVE ScansOwnRows(q)'
    BY <1>1, <1>3, OwnRowsFrame DEF OwnershipInv
  <1>4. ASSUME NEW r \in Requests, Begin(r) \/ Continue(r) \/ Fail(r),
               NEW q \in Requests
        PROVE  ScansOwnRows(q)'
    <2>1. CASE q = r
      <3>1. CASE req'[r].pc = "scan"
        BY <1>4, <2>1, <3>1, StepEnters, ScansStep DEF OwnershipInv, Enters
      <3>2. CASE req'[r].pc # "scan"
        BY <2>1, <3>2 DEF ScansOwnRows
      <3> QED
        BY <3>1, <3>2
    <2>2. CASE q # r
      BY <1>3, <1>4, <2>2, StepMoves
    <2> QED
      BY <2>1, <2>2
  <1>5. CASE Environment
    <2>1. req' = req
      BY <1>5 DEF Environment, Tick, Deactivate
    <2> QED
      BY <1>2, <1>3, <2>1 DEF OwnershipInv
  <1> QED
    BY <1>2, <1>4, <1>5 DEF Next, OwnershipInv

\* In every reachable state, transactions act on rows of one user.
THEOREM OwnershipInvariance == Spec => []OwnershipInv
  <1>1. Init => OwnershipInv
    BY DEF Init, NewRequest, OwnershipInv, ScansOwnRows, FamilyHasOneOwner, Stored
  <1>2. IndInv /\ OwnershipInv /\ [Next]_vars => OwnershipInv'
    <2>1. ASSUME OwnershipInv, UNCHANGED vars PROVE OwnershipInv'
      BY <2>1 DEF vars, OwnershipInv, ScansOwnRows, FamilyHasOneOwner, MayEnd, Stored
    <2> QED
      BY <2>1, OwnershipStep
  <1> QED
    BY <1>1, <1>2, Invariance, PTL DEF Spec
-----------------------------------------------------------------------------
(* Sessions end by their own user's doing.                                 *)

\* What each commit writes.
LEMMA CommitWrites ==
  ASSUME IndInv, NEW r \in Requests, Commits(r)
  PROVE  \/ LoginCommit(r)
         \/ RefreshCommit(r)
         \/ /\ req[r].pc = "scan" /\ req'[r].pc \in {"ok", "InvalidToken"}
            /\ tokens' = HeldRowsRevoked(r)
  <1>1. req[r] \in RequestState
    BY DEF IndInv, TypeOK
  <1>2. CASE RevokeCommit(r)
    BY <1>1, <1>2 DEF RevokeCommit, IndInv, TypeOK, RequestState
  <1>3. ASSUME NEW p \in Passwords, ChangePasswordCommit(r, p)
        PROVE  /\ req[r].pc = "scan" /\ req'[r].pc \in {"ok", "InvalidToken"}
               /\ tokens' = HeldRowsRevoked(r)
    BY <1>1, <1>3 DEF ChangePasswordCommit, IndInv, TypeOK, RequestState
  <1> QED
    BY <1>2, <1>3 DEF Commits

\* A session ends only through its own rotation, a logout or replay in its own
\* family, or a password change of its own user, however requests interleave.
THEOREM OnlyOwnEnd == Spec => OnlyOwnSessionsEnd
  <1>1. ASSUME IndInv, OwnershipInv, Next, NEW t \in Requests, Live(t), Revoked(t)'
        PROVE  \E r \in Requests : /\ req[r].pc \in {"insert", "scan"}
                                   /\ req'[r].pc # req[r].pc
                                   /\ MayEnd(r, t)
    <2>1. PICK r \in Requests : Commits(r)
      BY <1>1, OnlyCommitsWrite DEF Live, Revoked
    <2>2. req[r] \in RequestState
      BY <1>1 DEF IndInv, TypeOK
    <2>3. CASE LoginCommit(r)
      <3>1. ~Stored(r)
        BY <1>1, <2>3 DEF LoginCommit, IndInv, Safe, RowMatchesGrant
      <3>2. tokens'[t] = tokens[t]
        BY <1>1, <2>3, <3>1 DEF LoginCommit, IndInv, TypeOK, Live
      <3> QED
        BY <1>1, <3>2 DEF Live, Revoked
    <2>4. CASE RefreshCommit(r)
      <3>1. ~Stored(r)
        BY <1>1, <2>4 DEF RefreshCommit, IndInv, Safe, PcMatchesOp, RowMatchesGrant
      <3>2. t = req[r].tok
        <4>1. t # req[r].tok => tokens'[t] = tokens[t]
          BY <1>1, <2>4, <3>1 DEF RefreshCommit, Rotated, Live
        <4> QED
          BY <1>1, <4>1 DEF Live, Revoked
      <3>3. req[r].pc = "insert" /\ req[r].op = "refresh" /\ req'[r].pc = "respond"
        BY <1>1, <2>2, <2>4 DEF RefreshCommit, IndInv, TypeOK, RequestState, Safe, PcMatchesOp
      <3> QED
        BY <3>2, <3>3 DEF MayEnd
    <2>5. CASE /\ req[r].pc = "scan" /\ req'[r].pc \in {"ok", "InvalidToken"}
               /\ tokens' = HeldRowsRevoked(r)
      <3>1. t \in req[r].held
        <4>1. t \notin req[r].held => tokens'[t] = tokens[t]
          BY <2>5 DEF HeldRowsRevoked
        <4> QED
          BY <1>1, <4>1 DEF Live, Revoked
      <3>2. MayEnd(r, t)
        BY <1>1, <2>5, <3>1 DEF OwnershipInv, ScansOwnRows
      <3> QED
        BY <2>5, <3>2
    <2> QED
      BY <1>1, <2>1, <2>3, <2>4, <2>5, CommitWrites
  <1>2. IndInv /\ OwnershipInv /\ [Next]_vars
          => [\A t \in Requests : Live(t) /\ Revoked(t)' =>
                 \E r \in Requests : /\ req[r].pc \in {"insert", "scan"}
                                     /\ req'[r].pc # req[r].pc
                                     /\ MayEnd(r, t)]_vars
    BY <1>1
  <1> QED
    BY <1>2, Invariance, OwnershipInvariance, PTL DEF Spec, OnlyOwnSessionsEnd

\* A token is used up only together with the arrival of its successor, or by the
\* commit of a bulk UPDATE: a refresh that dies before its commit, between its
\* UPDATE and its INSERT too, leaves the client a token it can try again.
THEOREM RotationsHandOver == Spec => RotationHandsOver
  <1>1. ASSUME IndInv, Next, NEW t \in Requests, Live(t), Revoked(t)'
        PROVE  Succeeded(t) \/ RevokedInBulk(t)
    <2>1. PICK r \in Requests : Commits(r)
      BY <1>1, OnlyCommitsWrite DEF Live, Revoked
    <2>2. CASE LoginCommit(r)
      <3>1. ~Stored(r)
        BY <1>1, <2>2 DEF LoginCommit, IndInv, Safe, RowMatchesGrant
      <3>2. tokens'[t] = tokens[t]
        BY <1>1, <2>2, <3>1 DEF LoginCommit, IndInv, TypeOK, Live
      <3> QED
        BY <1>1, <3>2 DEF Live, Revoked
    <2>3. CASE RefreshCommit(r)
      <3>1. req[r].op = "refresh" /\ ~Stored(r)
        BY <1>1, <2>3 DEF RefreshCommit, IndInv, Safe, PcMatchesOp, RowMatchesGrant
      <3>2. t = req[r].tok
        <4>1. t # req[r].tok => tokens'[t] = tokens[t]
          BY <1>1, <2>3, <3>1 DEF RefreshCommit, Rotated, Live
        <4> QED
          BY <1>1, <4>1 DEF Live, Revoked
      <3>3. Stored(r)'
        <4>1. Safe(r)' /\ req'[r].op = "refresh" /\ req'[r].pc = "respond"
          BY <1>1, <2>3, <3>1, NextStep DEF RefreshCommit, IndInv, TypeOK, RequestState
        <4> QED
          BY <4>1 DEF Safe, RowMatchesGrant
      <3> QED
        BY <3>1, <3>2, <3>3 DEF Succeeded
    <2>4. CASE /\ req[r].pc = "scan" /\ req'[r].pc \in {"ok", "InvalidToken"}
               /\ tokens' = HeldRowsRevoked(r)
      <3>1. t \in req[r].held
        <4>1. t \notin req[r].held => tokens'[t] = tokens[t]
          BY <2>4 DEF HeldRowsRevoked
        <4> QED
          BY <1>1, <4>1 DEF Live, Revoked
      <3> QED
        BY <2>4, <3>1 DEF RevokedInBulk
    <2> QED
      BY <1>1, <2>1, <2>2, <2>3, <2>4, CommitWrites
  <1>2. IndInv /\ [Next]_vars
          => [\A t \in Requests : Live(t) /\ Revoked(t)' => Succeeded(t) \/ RevokedInBulk(t)]_vars
    BY <1>1
  <1> QED
    BY <1>2, Invariance, PTL DEF Spec, RotationHandsOver
-----------------------------------------------------------------------------
(* The table implements the ledger.                                        *)

\* The ledger's entry for a row.
Entry(row) == [owner |-> row.user_id, family |-> row.family_id,
               revoked |-> row.revoked_at # NULL]

\* The view, entry by entry, before and after a step.
LEMMA ViewOf ==
  /\ LedgerView = [t \in Requests |-> IF tokens[t] # NULL THEN Entry(tokens[t]) ELSE NULL]
  /\ LedgerView' = [t \in Requests |-> IF tokens'[t] # NULL THEN Entry(tokens'[t]) ELSE NULL]
  BY DEF LedgerView, Stored, Revoked, Entry

\* A row's entry is a ledger token, so it is not NULL.
LEMMA EntryIsToken ==
  ASSUME NEW row \in TokenRow
  PROVE  Entry(row) \in Ledger!Token /\ Entry(row) # NULL
  <1>1. Entry(row) \in Ledger!Token
    BY DEF Entry, TokenRow, Ledger!Token
  <1> QED
    BY <1>1, LedgerAssumption

\* Rows that differ in expiry and revocation have entries that differ in revoked.
LEMMA EntryDiffers ==
  ASSUME NEW a, NEW b, a.user_id = b.user_id, a.family_id = b.family_id
  PROVE  /\ b.revoked_at = NULL => Entry(b) = [Entry(a) EXCEPT !.revoked = FALSE]
         /\ b.revoked_at # NULL => Entry(b) = [Entry(a) EXCEPT !.revoked = TRUE]
  <1>1. ASSUME NEW x, NEW y, NEW v, NEW w
        PROVE  [[owner |-> x, family |-> y, revoked |-> v] EXCEPT !.revoked = w]
                 = [owner |-> x, family |-> y, revoked |-> w]
    OBVIOUS
  <1>2. ASSUME NEW w, w = (b.revoked_at # NULL)
        PROVE  Entry(b) = [Entry(a) EXCEPT !.revoked = w]
    <2>1. Entry(b) = [owner |-> a.user_id, family |-> a.family_id, revoked |-> w]
      BY <1>2, Zenon DEF Entry
    <2>2. \E v : v = (a.revoked_at # NULL)
      OBVIOUS
    <2>3. PICK v : Entry(a) = [owner |-> a.user_id, family |-> a.family_id, revoked |-> v]
      BY <2>2, Zenon DEF Entry
    <2> QED
      BY <1>1, <2>1, <2>3
  <1>3. b.revoked_at = NULL => FALSE = (b.revoked_at # NULL)
    OBVIOUS
  <1>4. b.revoked_at # NULL => TRUE = (b.revoked_at # NULL)
    OBVIOUS
  <1> QED
    BY <1>2, <1>3, <1>4, Zenon

\* A login's commit opens a family.
LEMMA LoginOpens ==
  ASSUME IndInv, NEW r \in Requests, LoginCommit(r)
  PROVE  req[r].subj \in Users /\ Ledger!Open(r, req[r].subj)
  <1>1. ~Stored(r) /\ req[r].subj \in Users /\ req[r] \in RequestState
    BY DEF LoginCommit, IndInv, TypeOK, Safe, RowMatchesGrant, SubjectIsKnown
  <1>2. NewRow(req[r].subj, r, req[r].exp) \in TokenRow
    BY <1>1 DEF NewRow, TokenRow, RequestState
  <1>3. tokens' = [tokens EXCEPT ![r] = NewRow(req[r].subj, r, req[r].exp)]
        /\ tokens \in [Requests -> TokenRow \cup {NULL}]
    BY DEF LoginCommit, IndInv, TypeOK
  <1>4. Entry(NewRow(req[r].subj, r, req[r].exp))
          = [owner |-> req[r].subj, family |-> r, revoked |-> FALSE]
    BY DEF Entry, NewRow
  <1>5. tokens'[r] # NULL /\ tokens'[r] = NewRow(req[r].subj, r, req[r].exp)
        /\ \A t \in Requests \ {r} : tokens'[t] = tokens[t]
    BY <1>2, <1>3, RowAssumption
  <1>6. LedgerView[r] = NULL
    BY <1>1, ViewOf DEF Stored
  <1>7. LedgerView' = [LedgerView EXCEPT ![r] =
                         [owner |-> req[r].subj, family |-> r, revoked |-> FALSE]]
    BY <1>4, <1>5, ViewOf
  <1> QED
    BY <1>1, <1>6, <1>7 DEF Ledger!Open, Ledger!Known

\* A refresh's commit rotates the presented token.
LEMMA RefreshRotates ==
  ASSUME IndInv, NEW r \in Requests, RefreshCommit(r)
  PROVE  req[r].tok \in Requests /\ Ledger!Rotate(req[r].tok, r)
  <1> DEFINE p == req[r].tok
             new == NewRow(req[r].subj, tokens[p].family_id, req[r].exp)
             old == [tokens[p] EXCEPT !.revoked_at = req[r].at]
  <1>1. /\ ~Stored(r) /\ p \in Requests /\ Stored(p) /\ req[r] \in RequestState
        /\ req[r].subj = tokens[p].user_id
    BY DEF RefreshCommit, IndInv, TypeOK, Safe, PcMatchesOp, RowMatchesGrant,
           PresentedIsStored, RefreshIsChecked, Awaits
  <1>2. tokens \in [Requests -> TokenRow \cup {NULL}] /\ tokens[p] \in TokenRow
    BY <1>1 DEF IndInv, TypeOK, Stored
  <1>3. new \in TokenRow /\ old \in TokenRow
    BY <1>1, <1>2 DEF NewRow, TokenRow, RequestState
  <1>4. p # r /\ tokens'[r] = new /\ tokens'[p] = old
        /\ \A t \in Requests \ {r, p} : tokens'[t] = tokens[t]
    BY <1>1 DEF RefreshCommit, Rotated
  <1>5. new # NULL /\ old # NULL
    BY <1>3, RowAssumption
  <1>6. Entry(new) = [Entry(tokens[p]) EXCEPT !.revoked = FALSE]
    <2>1. /\ new.user_id = tokens[p].user_id /\ new.family_id = tokens[p].family_id
          /\ new.revoked_at = NULL
      BY <1>1 DEF NewRow
    <2> QED
      BY <2>1, EntryDiffers
  <1>7. Entry(old) = [Entry(tokens[p]) EXCEPT !.revoked = TRUE]
    <2>1. req[r].at # NULL
      BY <1>1, NullAssumption DEF RequestState
    <2>2. old.user_id = tokens[p].user_id /\ old.family_id = tokens[p].family_id
          /\ old.revoked_at = req[r].at
      BY <1>2 DEF TokenRow
    <2> QED
      BY <2>1, <2>2, EntryDiffers
  <1>8. LedgerView[r] = NULL /\ LedgerView[p] = Entry(tokens[p])
    BY <1>1, ViewOf DEF Stored
  <1>9. Entry(tokens[p]) # NULL
    BY <1>2, EntryIsToken
  <1> HIDE DEF new, old
  <1>10. LedgerView' = [i \in Requests |->
                          IF i = r THEN [LedgerView[p] EXCEPT !.revoked = FALSE]
                          ELSE IF i = p THEN [LedgerView[p] EXCEPT !.revoked = TRUE]
                          ELSE LedgerView[i]]
    <2>1. LedgerView'[r] = Entry(new) /\ LedgerView'[p] = Entry(old)
      BY <1>1, <1>4, <1>5, ViewOf
    <2>2. \A i \in Requests \ {r, p} : LedgerView'[i] = LedgerView[i]
      BY <1>4, ViewOf
    <2>3. LedgerView' = [i \in Requests |-> LedgerView'[i]]
      BY ViewOf
    <2> HIDE DEF p
    <2> QED
      BY <1>6, <1>7, <1>8, <2>1, <2>2, <2>3
  <1> QED
    BY <1>1, <1>8, <1>9, <1>10 DEF Ledger!Rotate, Ledger!Known

\* The rows a bulk UPDATE has locked are one user's.
LEMMA HeldHasOneOwner ==
  ASSUME IndInv, OwnershipInv, NEW r \in Requests, req[r].pc = "scan"
  PROVE  \E u \in Users : \A t \in req[r].held : t \in Requests /\ tokens[t].user_id = u
  <1>1. req[r] \in RequestState /\ PcMatchesOp(r) /\ PresentedIsStored(r) /\ SubjectIsKnown(r)
    BY DEF IndInv, TypeOK, Safe
  <1>2. \A t \in req[r].held : t \in Requests /\ Stored(t) /\ MayEnd(r, t)
    BY <1>1 DEF OwnershipInv, ScansOwnRows, RequestState
  <1>3. CASE req[r].op = "change_password"
    BY <1>1, <1>2, <1>3 DEF MayEnd, SubjectIsKnown, Awaits
  <1>4. CASE req[r].op # "change_password"
    <2>1. req[r].tok \in Requests /\ Stored(req[r].tok)
      BY <1>1, <1>4 DEF PcMatchesOp, PresentedIsStored, Awaits
    <2>2. \A t \in req[r].held :
             tokens[t].family_id = tokens[req[r].tok].family_id
      BY <1>2, <1>4 DEF MayEnd
    <2>3. \A t \in req[r].held : tokens[t].user_id = tokens[req[r].tok].user_id
      BY <1>2, <2>1, <2>2 DEF OwnershipInv, FamilyHasOneOwner
    <2>4. tokens[req[r].tok].user_id \in Users
      BY <2>1 DEF IndInv, TypeOK, Stored, TokenRow
    <2> QED
      BY <1>2, <2>3, <2>4
  <1> QED
    BY <1>3, <1>4

\* The commit of a bulk UPDATE revokes tokens of one user.
LEMMA BulkCommitRevokes ==
  ASSUME IndInv, OwnershipInv, NEW r \in Requests, req[r].pc = "scan",
         tokens' = HeldRowsRevoked(r)
  PROVE  \E u \in Users, S \in SUBSET Requests : Ledger!Revoke(u, S)
  <1> DEFINE S == req[r].held
             new(t) == [tokens[t] EXCEPT !.revoked_at = req[r].at]
  <1>1. PICK u \in Users : \A t \in S : t \in Requests /\ tokens[t].user_id = u
    BY HeldHasOneOwner
  <1>2. req[r] \in RequestState /\ \A t \in S : Stored(t)
    BY DEF IndInv, TypeOK, Safe, HoldsStoredRows
  <1>3. ASSUME NEW t \in S
        PROVE  /\ tokens'[t] = new(t) /\ new(t) # NULL
               /\ LedgerView[t] = Entry(tokens[t]) /\ Entry(tokens[t]) # NULL
               /\ Entry(new(t)) = [Entry(tokens[t]) EXCEPT !.revoked = TRUE]
               /\ Entry(tokens[t]).owner = u
    <2>1. t \in Requests /\ tokens[t] \in TokenRow
      BY <1>1, <1>2 DEF IndInv, TypeOK, Stored
    <2>2. new(t) \in TokenRow
      BY <1>2, <2>1 DEF TokenRow, RequestState
    <2>3. req[r].at # NULL
      BY <1>2, NullAssumption DEF RequestState
    <2>4. new(t).user_id = tokens[t].user_id /\ new(t).family_id = tokens[t].family_id
          /\ new(t).revoked_at = req[r].at
      BY <2>1 DEF TokenRow
    <2>5. Entry(new(t)) = [Entry(tokens[t]) EXCEPT !.revoked = TRUE]
      BY <2>3, <2>4, EntryDiffers
    <2>6. tokens'[t] = new(t)
      BY <2>1 DEF HeldRowsRevoked
    <2>7. LedgerView[t] = Entry(tokens[t])
      BY <1>2, <2>1, ViewOf DEF Stored
    <2>8. Entry(tokens[t]).owner = u
      BY <1>1 DEF Entry
    <2> QED
      BY <2>1, <2>2, <2>5, <2>6, <2>7, <2>8, RowAssumption, EntryIsToken
  <1>4. \A t \in Requests \ S : tokens'[t] = tokens[t]
    BY DEF HeldRowsRevoked
  <1> HIDE DEF new
  <1>5. LedgerView' = [t \in Requests |-> IF t \in S THEN [LedgerView[t] EXCEPT !.revoked = TRUE]
                                          ELSE LedgerView[t]]
    BY <1>3, <1>4, ViewOf
  <1>6. \A t \in S : LedgerView[t] # NULL /\ LedgerView[t].owner = u
    BY <1>3
  <1>7. S \in SUBSET Requests
    BY <1>1
  <1> QED
    BY <1>5, <1>6, <1>7 DEF Ledger!Revoke, Ledger!Known

\* The committed table only ever opens a family, rotates a token or revokes
\* tokens of one user, each in one step: AuthSessions refines TokenLedger.
THEOREM TableImplementsLedger == Spec => ImplementsLedger
  <1>1. Init => Ledger!Init
    BY DEF Init, Ledger!Init, LedgerView, Stored
  <1>2. ASSUME IndInv, OwnershipInv, [Next]_vars PROVE [Ledger!Next]_LedgerView
    <2>1. CASE tokens' = tokens
      BY <2>1, ViewOf
    <2>2. ASSUME NEW r \in Requests, Commits(r) PROVE Ledger!Next
      <3>1. CASE LoginCommit(r)
        BY <1>2, <3>1, LoginOpens DEF Ledger!Next
      <3>2. CASE RefreshCommit(r)
        BY <1>2, <3>2, RefreshRotates DEF Ledger!Next
      <3>3. CASE req[r].pc = "scan" /\ tokens' = HeldRowsRevoked(r)
        BY <1>2, <3>3, BulkCommitRevokes DEF Ledger!Next
      <3> QED
        BY <1>2, <2>2, <3>1, <3>2, <3>3, CommitWrites
    <2> QED
      BY <1>2, <2>1, <2>2, OnlyCommitsWrite DEF vars
  <1> QED
    BY <1>1, <1>2, Invariance, OwnershipInvariance, PTL DEF Spec, ImplementsLedger, Ledger!Spec
-----------------------------------------------------------------------------
(* Requests that do not overlap.                                           *)

\* At most one request is at an await.
OneAtATime == \A r, q \in Requests : Active(r) /\ Active(q) => r = q

\* What r read is not stale.
NotStale(r) ==
    /\ req[r].op = "refresh" /\ req[r].pc \in {"get_user", "mint", "commit", "insert"}
          => Live(req[r].tok)
    /\ req[r].pc = "scan"
          => \A t \in Requests : Live(t) /\ MayEnd(r, t) => t \in req[r].scan \cup req[r].held

SerialInv == OneAtATime /\ FamilyIsChain /\ \A r \in Requests : NotStale(r)

\* Serial behaviours are behaviours.
LEMMA SerialIsSpec == SerialSpec => Spec
  <1>1. [SerialNext]_vars => [Next]_vars
    BY DEF SerialNext, Next
  <1> QED
    BY <1>1, PTL DEF SerialSpec, Spec

\* A step that leaves the table alone keeps what its own request read fresh.
LEMMA NotStaleStep ==
  ASSUME IndInv, NEW r \in Requests, Begin(r) \/ Continue(r) \/ Fail(r), NotStale(r),
         tokens' = tokens
  PROVE  NotStale(r)'
  <1>1. req[r] \in RequestState /\ PcMatchesOp(r) /\ PresentedIsStored(r) /\ Enters(r)
    BY StepEnters DEF IndInv, TypeOK, Safe
  <1>2. ASSUME NEW t PROVE Live(t)' <=> Live(t)
    BY DEF Live, Stored
  <1> USE DEF IndInv, TypeOK, RequestState
  <1>3. CASE req'[r].pc = "get_user"
    <2>1. RefreshGetByJti(r)
      BY <1>1, <1>3 DEF Enters
    <2>2. req'[r].tok = req[r].tok /\ ~Revoked(req[r].tok)
      BY <1>1, <1>3, <2>1 DEF RefreshGetByJti, Local
    <2>3. Stored(req[r].tok)
      BY <1>1, <2>1 DEF RefreshGetByJti, PresentedIsStored, Awaits
    <2> QED
      BY <1>3, <2>2, <2>3 DEF NotStale, Live, Revoked, Stored
  <1>4. CASE req'[r].pc = "mint" /\ req'[r].op = "refresh"
    <2>1. RefreshGetUser(r)
      BY <1>1, <1>4 DEF Enters
    <2>2. req[r].pc = "get_user" /\ req'[r].tok = req[r].tok
      BY <1>1, <2>1 DEF RefreshGetUser, Local
    <2>3. Live(req[r].tok)
      BY <1>1, <2>2 DEF PcMatchesOp, NotStale
    <2> QED
      BY <1>4, <2>2, <2>3 DEF NotStale, Live, Stored
  <1>5. CASE req'[r].pc = "commit"
    <2>1. Mint(r)
      BY <1>1, <1>5 DEF Enters
    <2>2. req[r].pc = "mint" /\ req'[r].tok = req[r].tok /\ req'[r].op = req[r].op
      BY <1>1, <2>1 DEF Mint, Local
    <2> QED
      BY <1>5, <2>2 DEF NotStale, Live, Stored
  <1>7. CASE req'[r].pc = "insert"
    <2>1. RefreshFlush(r)
      BY <1>1, <1>7 DEF Enters
    <2>2. req[r].pc = "commit" /\ req'[r].tok = req[r].tok /\ req[r].op = "refresh"
      BY <1>1, <2>1 DEF RefreshFlush, Local
    <2> QED
      BY <1>7, <2>2 DEF NotStale, Live, Stored
  <1>6. CASE req'[r].pc = "scan"
    <2>1. Scans(r)
      BY <1>1, <1>6 DEF Enters
    <2>2. CASE RevokeFamily(r)
      <3>1. /\ req'[r].scan = FamilyRows(r) /\ req'[r].op = req[r].op
            /\ req'[r].tok = req[r].tok /\ req[r].op # "change_password"
        BY <1>1, <2>2 DEF RevokeFamily, Local
      <3> QED
        BY <1>2, <1>6, <3>1 DEF NotStale, FamilyRows, MayEnd
    <2>3. CASE RevokeAllForUser(r)
      <3>1. /\ req'[r].scan = UserRows(r) /\ req'[r].op = req[r].op
            /\ req'[r].subj = req[r].subj /\ req[r].op = "change_password"
        BY <1>1, <2>3 DEF RevokeAllForUser, Local
      <3> QED
        BY <1>2, <1>6, <3>1 DEF NotStale, UserRows, MayEnd
    <2>4. ASSUME NEW t \in Requests, RevokeRow(r, t) PROVE NotStale(r)'
      <3>1. /\ req[r].pc = "scan"
            /\ req'[r].scan = req[r].scan \ {t}
            /\ req'[r].held = IF Live(t) THEN req[r].held \cup {t} ELSE req[r].held
            /\ req'[r].op = req[r].op /\ req'[r].tok = req[r].tok
            /\ req'[r].subj = req[r].subj
        BY <1>1, <2>4 DEF RevokeRow, Local
      <3>2. ASSUME NEW u \in Requests, Live(u), MayEnd(r, u)'
            PROVE  u \in req'[r].scan \cup req'[r].held
        <4>1. MayEnd(r, u)
          BY <1>6, <3>1, <3>2 DEF MayEnd
        <4>2. u \in req[r].scan \cup req[r].held
          BY <3>1, <3>2, <4>1 DEF NotStale
        <4> QED
          BY <3>1, <3>2, <4>2
      <3> QED
        BY <1>2, <1>6, <3>2 DEF NotStale
    <2> QED
      BY <2>1, <2>2, <2>3, <2>4 DEF Scans
  <1> QED
    BY <1>3, <1>4, <1>5, <1>6, <1>7 DEF NotStale

\* A commit leaves its request at no await that reads the table again.
LEMMA CommitLeaves ==
  ASSUME IndInv, NEW r \in Requests, Commits(r)
  PROVE  /\ req'[r].pc \in {"respond", "ok", "InvalidToken"}
         /\ \A q \in Requests \ {r} : req'[q] = req[q]
  <1>1. req[r] \in RequestState
    BY DEF IndInv, TypeOK
  <1> USE <1>1 DEF IndInv, TypeOK, RequestState
  <1>2. CASE LoginCommit(r)
    BY <1>2 DEF LoginCommit
  <1>3. CASE RefreshCommit(r)
    BY <1>3 DEF RefreshCommit
  <1>4. CASE RevokeCommit(r)
    BY <1>4 DEF RevokeCommit
  <1>5. CASE \E p \in Passwords : ChangePasswordCommit(r, p)
    BY <1>5 DEF ChangePasswordCommit
  <1> QED
    BY <1>2, <1>3, <1>4, <1>5 DEF Commits

\* What a commit makes or leaves usable: a login the root of its own family, a
\* rotation the successor in place of the presented token, a bulk UPDATE nothing new.
LEMMA LiveAfterCommit ==
  ASSUME IndInv, NEW r \in Requests, Commits(r), NEW t \in Requests, Live(t)'
  PROVE  \/ /\ t = r /\ LoginCommit(r) /\ tokens'[t].family_id = r
         \/ /\ t = r /\ RefreshCommit(r)
            /\ tokens'[t].family_id = tokens[req[r].tok].family_id
         \/ /\ Live(t) /\ tokens'[t] = tokens[t]
            /\ RefreshCommit(r) => t # req[r].tok
            /\ req[r].pc = "scan" => t \notin req[r].held
  <1>1. req[r] \in RequestState /\ req[r].at # NULL /\ PcMatchesOp(r)
    BY NullAssumption DEF IndInv, TypeOK, RequestState, Safe
  <1>2. tokens \in [Requests -> TokenRow \cup {NULL}]
    BY DEF IndInv, TypeOK
  <1>3. CASE LoginCommit(r)
    <2>1. req[r].pc # "scan" /\ ~RefreshCommit(r)
      BY <1>3 DEF LoginCommit, RefreshCommit
    <2> QED
      BY <1>2, <1>3, <2>1 DEF LoginCommit, NewRow, Live, Stored
  <1>4. CASE RefreshCommit(r)
    <2>1. req[r].pc # "scan" /\ req[r].op = "refresh"
      BY <1>1, <1>4 DEF RefreshCommit, PcMatchesOp
    <2>2. CASE t = r
      BY <1>4, <2>2 DEF RefreshCommit, Rotated, NewRow
    <2>3. CASE t # r /\ t = req[r].tok
      <3>1. Stored(t)
        BY <1>4, <2>1, <2>3 DEF IndInv, Safe, PresentedIsStored, RefreshCommit, Awaits
      <3>2. tokens[t] \in TokenRow /\ tokens'[t] = [tokens[t] EXCEPT !.revoked_at = req[r].at]
        BY <1>2, <1>4, <2>3, <3>1 DEF RefreshCommit, Rotated, Stored
      <3>3. tokens'[t].revoked_at = req[r].at
        BY <3>2 DEF TokenRow
      <3> QED
        BY <1>1, <3>3 DEF Live
    <2>4. CASE t # r /\ t # req[r].tok
      BY <1>4, <2>1, <2>4 DEF RefreshCommit, Rotated, Live, Stored
    <2> QED
      BY <2>2, <2>3, <2>4
  <1>5. CASE req[r].pc = "scan" /\ tokens' = HeldRowsRevoked(r)
    <2>1. ~RefreshCommit(r)
      BY <1>5 DEF RefreshCommit
    <2>2. t \notin req[r].held
      <3>1. SUFFICES ASSUME t \in req[r].held PROVE FALSE
        OBVIOUS
      <3>2. tokens[t] \in TokenRow
        BY <1>2, <3>1 DEF IndInv, Safe, HoldsStoredRows, Stored
      <3>3. tokens'[t].revoked_at = req[r].at
        BY <1>5, <3>1, <3>2 DEF HeldRowsRevoked, TokenRow
      <3> QED
        BY <1>1, <3>3 DEF Live
    <2> QED
      BY <1>5, <2>1, <2>2 DEF HeldRowsRevoked, Live, Stored
  <1> QED
    BY <1>3, <1>4, <1>5, CommitWrites

\* A commit of the only request in flight keeps every family a chain.
LEMMA ChainCommit ==
  ASSUME IndInv, OwnershipInv, RowsPersist, FamilyIsChain, NEW r \in Requests, NotStale(r),
         Commits(r)
  PROVE  FamilyIsChain'
  <1> SUFFICES ASSUME NEW t \in Requests, NEW u \in Requests, Live(t)', Live(u)',
                      tokens'[t].family_id = tokens'[u].family_id
               PROVE  t = u
    BY DEF FamilyIsChain
  <1>1. CASE Live(t) /\ Live(u) /\ tokens'[t] = tokens[t] /\ tokens'[u] = tokens[u]
    BY <1>1 DEF FamilyIsChain
  <1>2. ASSUME NEW x \in Requests, Live(x), tokens'[x] = tokens[x],
               LoginCommit(r), tokens'[x].family_id = r
        PROVE  FALSE
    <2>1. Stored(r)
      BY <1>2 DEF OwnershipInv, FamilyHasOneOwner, Live
    <2> QED
      BY <1>2, <2>1 DEF IndInv, Safe, RowMatchesGrant, LoginCommit
  <1>3. ASSUME NEW x \in Requests, Live(x), tokens'[x] = tokens[x], RefreshCommit(r),
               x # req[r].tok, tokens'[x].family_id = tokens[req[r].tok].family_id
        PROVE  FALSE
    <2>1. Live(req[r].tok) /\ req[r].tok \in Requests
      BY <1>3 DEF NotStale, RefreshCommit, IndInv, Safe, PcMatchesOp, PresentedIsStored, Awaits
    <2> QED
      BY <1>3, <2>1 DEF FamilyIsChain
  <1>4. ~(LoginCommit(r) /\ RefreshCommit(r))
    BY DEF LoginCommit, RefreshCommit
  <1>5. /\ \/ t = r /\ LoginCommit(r) /\ tokens'[t].family_id = r
           \/ t = r /\ RefreshCommit(r) /\ tokens'[t].family_id = tokens[req[r].tok].family_id
           \/ Live(t) /\ tokens'[t] = tokens[t] /\ (RefreshCommit(r) => t # req[r].tok)
        /\ \/ u = r /\ LoginCommit(r) /\ tokens'[u].family_id = r
           \/ u = r /\ RefreshCommit(r) /\ tokens'[u].family_id = tokens[req[r].tok].family_id
           \/ Live(u) /\ tokens'[u] = tokens[u] /\ (RefreshCommit(r) => u # req[r].tok)
    BY LiveAfterCommit
  <1> QED
    BY <1>1, <1>2, <1>3, <1>4, <1>5

\* Every serial step keeps the serial invariant.
LEMMA SerialStep ==
  ASSUME IndInv, OwnershipInv, SerialInv, SerialNext
  PROVE  SerialInv'
  <1>1. CASE Environment
    <2>1. req' = req /\ tokens' = tokens
      BY <1>1 DEF Environment, Tick, Deactivate
    <2> QED
      BY <2>1 DEF SerialInv, OneAtATime, FamilyIsChain, NotStale, MayEnd, Active, Live, Stored
  <1>2. ASSUME NEW r \in Requests, \A q \in Requests \ {r} : ~Active(q),
               Begin(r) \/ Continue(r) \/ Fail(r)
        PROVE  SerialInv'
    <2>1. \A q \in Requests \ {r} : req'[q] = req[q]
      BY <1>2, StepMoves
    <2>2. \A q \in Requests \ {r} : ~Active(q)'
      BY <1>2, <2>1 DEF Active
    <2>3. OneAtATime'
      BY <2>2 DEF OneAtATime
    <2>4. ASSUME NEW q \in Requests \ {r} PROVE NotStale(q)'
      BY <2>2 DEF NotStale, Active, Awaits
    <2>5. CASE tokens' = tokens
      <3>1. FamilyIsChain'
        BY <2>5 DEF SerialInv, FamilyIsChain, Live, Stored
      <3>2. NotStale(r)'
        BY <1>2, <2>5, NotStaleStep DEF SerialInv
      <3> QED
        BY <2>3, <2>4, <3>1, <3>2 DEF SerialInv
    <2>6. ASSUME NEW p \in Requests, Commits(p), tokens' # tokens PROVE SerialInv'
      <3>1. req'[p] # req[p]
        <4>1. req'[p].pc \in {"respond", "ok", "InvalidToken"}
          BY <2>6, CommitLeaves
        <4>2. req[p].pc \in {"commit", "insert", "scan"}
          BY <2>6 DEF Commits, LoginCommit, RefreshCommit, RevokeCommit, ChangePasswordCommit
        <4> QED
          BY <4>1, <4>2
      <3>2. p = r
        BY <2>1, <3>1
      <3>3. RowsPersist
        BY <1>2, NextStep DEF Next
      <3>4. FamilyIsChain'
        BY <2>6, <3>3, ChainCommit DEF SerialInv
      <3>5. NotStale(r)'
        BY <2>6, <3>2, CommitLeaves DEF NotStale
      <3> QED
        BY <2>3, <2>4, <3>4, <3>5 DEF SerialInv
    <2> QED
      BY <1>2, <2>5, <2>6, OnlyCommitsWrite DEF Next
  <1> QED
    BY <1>1, <1>2 DEF SerialNext

\* Without overlap, what a handler read is still so when it commits.
THEOREM SerialInvariance == SerialSpec => []SerialInv
  <1>1. Init => SerialInv
    BY DEF Init, NewRequest, SerialInv, OneAtATime, FamilyIsChain, NotStale, Active, Awaits,
           Live, Stored
  <1>2. IndInv /\ OwnershipInv /\ SerialInv /\ [SerialNext]_vars => SerialInv'
    <2>1. ASSUME SerialInv, UNCHANGED vars PROVE SerialInv'
      BY <2>1 DEF vars, SerialInv, OneAtATime, FamilyIsChain, NotStale, MayEnd, Active,
                  Live, Stored
    <2> QED
      BY <2>1, SerialStep
  <1> QED
    BY <1>1, <1>2, SerialIsSpec, Invariance, OwnershipInvariance, PTL DEF SerialSpec

\* "the chain of tokens produced by rotating one original login": a family has at
\* most one usable token as long as requests do not overlap.
THEOREM FamiliesAreChains == SerialSpec => []FamilyIsChain
  <1>1. SerialInv => FamilyIsChain
    BY DEF SerialInv
  <1> QED
    BY <1>1, SerialInvariance, PTL
-----------------------------------------------------------------------------
(* What a revocation promises when it is answered.                         *)

\* A bulk UPDATE ends well only through its commit, once it has visited all rows.
LEMMA ScanEnds ==
  ASSUME IndInv, Next, NEW r \in Requests, req[r].pc = "scan",
         req'[r].pc \in {"ok", "InvalidToken"}
  PROVE  /\ Commits(r) /\ req[r].scan = {}
         /\ req'[r].op = req[r].op /\ req'[r].tok = req[r].tok /\ req'[r].subj = req[r].subj
  <1>1. req[r] \in RequestState
    BY DEF IndInv, TypeOK
  <1>2. Begin(r) \/ Continue(r) \/ Fail(r)
    <2>1. req'[r] # req[r]
      OBVIOUS
    <2>2. ~Environment
      BY <2>1 DEF Environment, Tick, Deactivate
    <2> QED
      BY <2>1, <2>2, StepMoves DEF Next
  <1>3. ~Begin(r)
    BY DEF Begin, Login, Refresh, Logout, PresentRefreshToken, ChangePassword
  <1>4. ~Fail(r) /\ ~DeadlockAbort(r)
    <2>1. ASSUME Rollback(r) PROVE req'[r].pc = "error"
      BY <1>1, <2>1 DEF Rollback, Local, IndInv, TypeOK, RequestState
    <2> QED
      BY <2>1 DEF Fail, DeadlockAbort
  <1>5. ASSUME NEW t \in Requests, RevokeRow(r, t) PROVE FALSE
    <2>1. req'[r].pc = "scan"
      BY <1>1, <1>5 DEF RevokeRow, Local, IndInv, TypeOK, RequestState
    <2> QED
      BY <2>1
  <1>6. RevokeCommit(r) \/ \E p \in Passwords : ChangePasswordCommit(r, p)
    BY <1>2, <1>3, <1>4, <1>5 DEF Continue, Mint, LoginCommit, Respond, RefreshGetByJti,
       RefreshGetUser, RefreshFlush, RefreshCommit, LogoutGetByJti, GetCurrentUser,
       ChangePasswordUpdate, ChangePasswordGetById, RevokeFamily, RevokeAllForUser
  <1>7. CASE RevokeCommit(r)
    BY <1>1, <1>7 DEF RevokeCommit, Commits, IndInv, TypeOK, RequestState
  <1>8. CASE \E p \in Passwords : ChangePasswordCommit(r, p)
    <2>1. /\ req[r].scan = {}
          /\ req'[r] = [req[r] EXCEPT !.pc = "ok", !.held = {}]
      BY <1>8 DEF ChangePasswordCommit, IndInv, TypeOK
    <2> QED
      BY <1>1, <1>8, <2>1 DEF Commits, RequestState
  <1> QED
    BY <1>6, <1>7, <1>8

\* When a bulk UPDATE commits, what stays usable is outside its WHERE clause.
LEMMA RevocationIsComplete ==
  ASSUME IndInv, SerialInv, Next, NEW r \in Requests, req[r].pc = "scan",
         req'[r].pc \in {"ok", "InvalidToken"}, NEW t \in Requests, Live(t)'
  PROVE  Live(t) /\ tokens'[t] = tokens[t] /\ ~MayEnd(r, t)
  <1>1. Commits(r) /\ req[r].scan = {}
    BY ScanEnds
  <1>2. Live(t) /\ tokens'[t] = tokens[t] /\ t \notin req[r].held
    BY <1>1, LiveAfterCommit DEF LoginCommit, RefreshCommit
  <1> QED
    BY <1>1, <1>2 DEF SerialInv, NotStale

\* "Revoking the family invalidates every descendant at once": when a logout or a
\* replay is answered, no token of the family is usable.
THEOREM LogoutEndsFamily == SerialSpec => LogoutAndReplayEndFamily
  <1>1. ASSUME IndInv, OwnershipInv, SerialInv, Next, NEW r \in Requests,
               req[r].op \in {"logout", "refresh"}, req[r].pc = "scan",
               req'[r].pc \in {"ok", "InvalidToken"}
        PROVE  FamilyDead(tokens[req[r].tok].family_id)'
    <2>1. req'[r].tok = req[r].tok /\ req[r].tok \in Requests /\ Stored(req[r].tok)
      BY <1>1, ScanEnds DEF IndInv, Safe, PresentedIsStored, Awaits
    <2>2. RowsPersist
      BY <1>1, NextStep
    <2>3. PICK f \in Requests : f = tokens[req[r].tok].family_id
      BY <1>1, <2>1 DEF IndInv, TypeOK, TokenRow, Stored
    <2>4. tokens'[req'[r].tok].family_id = f
      BY <2>1, <2>2, <2>3 DEF RowsPersist
    <2>5. Stored(f)'
      BY <1>1, <2>1, <2>2, <2>3 DEF OwnershipInv, FamilyHasOneOwner, RowsPersist
    <2>6. ASSUME NEW t \in Requests, Live(t)' PROVE tokens'[t].family_id # f
      <3>1. tokens'[t] = tokens[t] /\ ~MayEnd(r, t)
        BY <1>1, <2>6, RevocationIsComplete
      <3> QED
        BY <1>1, <2>3, <3>1 DEF MayEnd
    <2> QED
      BY <2>4, <2>5, <2>6 DEF FamilyDead
  <1>2. IndInv /\ OwnershipInv /\ SerialInv /\ [Next]_vars
          => [\A r \in Requests :
                (/\ req[r].op \in {"logout", "refresh"} /\ req[r].pc = "scan"
                 /\ req'[r].pc \in {"ok", "InvalidToken"})
                   => FamilyDead(tokens[req[r].tok].family_id)']_vars
    BY <1>1
  <1> QED
    BY <1>2, SerialIsSpec, Invariance, OwnershipInvariance, SerialInvariance, PTL
       DEF Spec, LogoutAndReplayEndFamily

\* "A changed password ends every existing session.": when the change commits,
\* none of the user's tokens is usable.
THEOREM ChangedPasswordEndsSessions == SerialSpec => PasswordChangeEndsSessions
  <1>1. ASSUME IndInv, SerialInv, Next, NEW r \in Requests,
               req[r].op = "change_password", req[r].pc = "scan", req'[r].pc = "ok",
               NEW t \in Requests, Live(t)'
        PROVE  tokens'[t].user_id # req[r].subj
    <2>1. tokens'[t] = tokens[t] /\ ~MayEnd(r, t)
      BY <1>1, RevocationIsComplete
    <2> QED
      BY <1>1, <2>1 DEF MayEnd
  <1>2. IndInv /\ SerialInv /\ [Next]_vars
          => [\A r \in Requests :
                (req[r].op = "change_password" /\ req[r].pc = "scan" /\ req'[r].pc = "ok")
                   => \A t \in Requests : Live(t)' => tokens'[t].user_id # req[r].subj]_vars
    BY <1>1
  <1> QED
    BY <1>2, SerialIsSpec, Invariance, SerialInvariance, PTL
       DEF Spec, PasswordChangeEndsSessions

\* No handler brings back a session that logout, replay detection or a password
\* change has ended.
THEOREM DeadStaysDead == SerialSpec => DeadFamilyStaysDead
  <1>1. ASSUME IndInv, SerialInv, Next, NEW f \in Requests, FamilyDead(f)
        PROVE  FamilyDead(f)'
    <2>1. Stored(f)'
      BY <1>1, NextStep DEF FamilyDead, RowsPersist
    <2>2. ASSUME NEW t \in Requests, Live(t)' PROVE tokens'[t].family_id # f
      <3>1. CASE tokens' = tokens
        BY <1>1, <2>2, <3>1 DEF FamilyDead, Live, Stored
      <3>2. ASSUME NEW r \in Requests, Commits(r) PROVE tokens'[t].family_id # f
        <4>1. CASE Live(t) /\ tokens'[t] = tokens[t]
          BY <1>1, <4>1 DEF FamilyDead
        <4>2. CASE LoginCommit(r) /\ tokens'[t].family_id = r
          <5>1. ~Stored(r)
            BY <1>1, <4>2 DEF LoginCommit, IndInv, Safe, RowMatchesGrant
          <5> QED
            BY <1>1, <4>2, <5>1 DEF FamilyDead
        <4>3. CASE RefreshCommit(r) /\ tokens'[t].family_id = tokens[req[r].tok].family_id
          <5>1. Live(req[r].tok) /\ req[r].tok \in Requests
            BY <1>1, <4>3 DEF SerialInv, NotStale, RefreshCommit, IndInv, Safe,
                              PcMatchesOp, PresentedIsStored, Awaits
          <5> QED
            BY <1>1, <4>3, <5>1 DEF FamilyDead
        <4> QED
          BY <1>1, <2>2, <3>2, <4>1, <4>2, <4>3, LiveAfterCommit
      <3> QED
        BY <1>1, <3>1, <3>2, OnlyCommitsWrite
    <2> QED
      BY <2>1, <2>2 DEF FamilyDead
  <1>2. IndInv /\ SerialInv /\ [Next]_vars
          => [\A f \in Requests : FamilyDead(f) => FamilyDead(f)']_vars
    BY <1>1
  <1> QED
    BY <1>2, SerialIsSpec, Invariance, SerialInvariance, PTL DEF Spec, DeadFamilyStaysDead
=============================================================================
