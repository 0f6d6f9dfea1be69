---------------------------- MODULE AuthSessions ----------------------------
(***************************************************************************)
(* Login, refresh-token rotation, logout and password change, as they run  *)
(* concurrently against one PostgreSQL database at READ COMMITTED.         *)
(*                                                                         *)
(* A request is a process.  One action is one SQL statement together with  *)
(* the synchronous code that runs until the next await.  Inserts and ORM   *)
(* updates reach the database only in the flush of session.commit(): the   *)
(* session is built with autoflush=False.  The two bulk UPDATEs of the     *)
(* refresh-token repository run at once, lock row by row and re-evaluate   *)
(* their WHERE clause on a row they had to wait for.  The flush of a       *)
(* rotation updates its row and then inserts the successor: two statements *)
(* of one transaction, which can die between them.                         *)
(*                                                                         *)
(* A request mints at most one refresh token and, at login, one family, so *)
(* the uuid4() of both is named by the request that drew it.               *)
(***************************************************************************)
EXTENDS Integers, FiniteSets

CONSTANTS
    Requests,        \* HTTP requests; also the jti and family_id they draw
    Users,           \* registered accounts
    Passwords,       \* plain-text passwords clients type
    NULL,            \* SQL NULL, Python None
    Second,          \* clock ticks in the one second JWT times are cut to
    RefreshLifetime, \* refresh_token_expire_days, in ticks
    AccessLifetime,  \* access_token_expire_minutes, in ticks
    MaxTime          \* bound on the clock

ASSUME NullAssumption == /\ NULL \notin Requests
                         /\ NULL \notin Users
                         /\ NULL \notin Int
                         /\ NULL \notin BOOLEAN

ASSUME TimeAssumption == /\ Second \in Nat \ {0}
                         /\ RefreshLifetime \in Nat \ {0}
                         /\ AccessLifetime \in Nat \ {0}
                         /\ MaxTime \in Nat

VARIABLES
    tokens,  \* table refresh_tokens, committed rows by jti
    users,   \* table users, committed rows
    clock,   \* Clock.now()
    req      \* per request: where its handler is and its local variables

vars == <<tokens, users, clock, req>>
-----------------------------------------------------------------------------
(* Rows, credentials and request-local state.                              *)

\* password_hasher.hash: the salted digest, of which only what it verifies matters.
Hash(password) == [digest_of |-> password]

\* password_hasher.verify, evaluated in a worker thread on the hash that was read.
Verify(password, hashed) == hashed.digest_of = password

UserRow == [hashed_password : [digest_of : Passwords], is_active : BOOLEAN]

TokenRow == [user_id : Users, family_id : Requests, expires_at : Nat,
             revoked_at : Nat \cup {NULL}]

ASSUME RowAssumption == NULL \notin TokenRow

Ops == {"none", "login", "refresh", "logout", "change_password"}

\* The awaits a request can be suspended at.
Awaits == {"get_by_jti", "get_user", "get_current_user", "get_by_id", "update",
           "mint", "revoke", "scan", "commit", "insert", "respond"}

\* How a request ends: a success, a domain error mapped to 401, or a 500 or lost answer.
Outcomes == {"ok", "InvalidToken", "TokenExpired", "InvalidCredentials", "error"}

RequestState ==
    [op : Ops, pc : {"idle"} \cup Awaits \cup Outcomes,
     tok : Requests \cup {NULL},      \* the presented refresh token's jti
     subj : Users \cup {NULL},        \* the user the request acts for
     at : Nat,                        \* clock.now() captured for revoked_at
     exp : Nat,                       \* expires_at of the token it mints
     access : Nat,                    \* expiry of the access token it returned
     loaded : BOOLEAN \cup {NULL},    \* is_active to write back, NULL if clean
     target : SUBSET Requests,        \* rows in the bulk UPDATE's snapshot
     scan : SUBSET Requests,          \* of those, rows not yet visited
     held : SUBSET Requests]          \* rows its transaction has updated and locked

NewRequest ==
    [op |-> "none", pc |-> "idle", tok |-> NULL, subj |-> NULL, at |-> 0,
     exp |-> 0, access |-> 0, loaded |-> NULL, target |-> {}, scan |-> {},
     held |-> {}]

Active(r) == req[r].pc \in Awaits
Stored(t) == tokens[t] # NULL
Revoked(t) == Stored(t) /\ tokens[t].revoked_at # NULL
Live(t) == Stored(t) /\ tokens[t].revoked_at = NULL

\* to_model(RefreshTokenRecord(...)) of a fresh record.
NewRow(user, family, expires) ==
    [user_id |-> user, family_id |-> family, expires_at |-> expires,
     revoked_at |-> NULL]

\* int(expires_at.timestamp()): the exp claim loses the fraction of a second.
ExpClaim(expires) == expires - (expires % Second)

\* Requests whose token pair reached a client: what anybody can present later.
Granted == {g \in Requests : req[g].pc = "ok" /\ req[g].op \in {"login", "refresh"}}

\* A bearer string: a token of a granted pair, or one that fails PyJWT's checks.
Presented == [type : {"refresh", "access", "forged"}, of : Granted]

\* JwtTokenService.decode followed by the caller's check of token_type.
Decode(c, wanted) ==
    LET expires == IF c.type = "access" THEN req[c.of].access
                                        ELSE tokens[c.of].expires_at
    IN  IF c.type = "forged" THEN "InvalidToken"
        ELSE IF ExpClaim(expires) <= clock THEN "TokenExpired"
        ELSE IF c.type # wanted THEN "InvalidToken"
        ELSE "valid"
-----------------------------------------------------------------------------
Init ==
    /\ tokens = [t \in Requests |-> NULL]
    /\ users \in [Users -> [hashed_password : {Hash(p) : p \in Passwords},
                            is_active : {TRUE}]]
    /\ clock = 0
    /\ req = [r \in Requests |-> NewRequest]

\* Request r's handler moves on, in its own memory only.
Local(r, state) ==
    /\ req' = [req EXCEPT ![r] = state]
    /\ UNCHANGED <<tokens, users, clock>>

(***************************************************************************)
(* POST /auth/login                                                        *)
(***************************************************************************)

\* get_by_email, and the verdict on the password from the hash that was read.
\* email = NULL stands for an address that is malformed or not registered.
Login(r, email, password) ==
    LET known == /\ email # NULL
                 /\ users[email].is_active
                 /\ Verify(password, users[email].hashed_password)
    IN  /\ req[r].pc = "idle"
        /\ Local(r, IF known
                    THEN [req[r] EXCEPT !.op = "login", !.pc = "mint", !.subj = email]
                    ELSE [req[r] EXCEPT !.op = "login", !.pc = "InvalidCredentials"])

\* create_refresh_token, after a further await: login verifies in a worker thread,
\* and refresh reads the record again in refresh_tokens.update.
Mint(r) ==
    /\ req[r].pc = "mint"
    /\ Local(r, [req[r] EXCEPT !.pc = "commit", !.exp = clock + RefreshLifetime])

\* Mutant: the handler forgets refresh_tokens.add.
LoginCommitNoAdd(r) ==
    /\ req[r].pc = "commit" /\ req[r].op = "login"
    /\ Local(r, [req[r] EXCEPT !.pc = "respond"])

\* uow.commit(): INSERT the root of a new family.
LoginCommit(r) ==
    /\ req[r].pc = "commit" /\ req[r].op = "login"
    /\ tokens' = [tokens EXCEPT ![r] = NewRow(req[r].subj, r, req[r].exp)]
    /\ req' = [req EXCEPT ![r] = [req[r] EXCEPT !.pc = "respond"]]
    /\ UNCHANGED <<users, clock>>

\* create_access_token and the response that carries the pair to the client.
Respond(r) ==
    /\ req[r].pc = "respond"
    /\ Local(r, [req[r] EXCEPT !.pc = "ok", !.access = clock + AccessLifetime])

(***************************************************************************)
(* POST /auth/refresh and POST /auth/logout                                *)
(***************************************************************************)

\* Both decode the presented token before they touch the database.
PresentRefreshToken(r, op, c) ==
    /\ req[r].pc = "idle"
    /\ Local(r, IF Decode(c, "refresh") = "valid"
                THEN [req[r] EXCEPT !.op = op, !.pc = "get_by_jti", !.tok = c.of]
                ELSE [req[r] EXCEPT !.op = op, !.pc = Decode(c, "refresh")])

Refresh(r, c) == PresentRefreshToken(r, "refresh", c)

\* Mutant: the record's own expiry is not checked after the JWT's.
RefreshGetByJtiNoExpiry(r) ==
    /\ req[r].pc = "get_by_jti" /\ req[r].op = "refresh"
    /\ Local(r, [req[r] EXCEPT !.at = clock, !.pc = IF Revoked(req[r].tok) THEN "revoke"
                                                    ELSE "get_user"])

\* Mutant: no replay detection.
RefreshGetByJtiNoReplay(r) ==
    /\ req[r].pc = "get_by_jti" /\ req[r].op = "refresh"
    /\ Local(r, [req[r] EXCEPT !.at = clock, !.pc = "get_user"])

\* The record is read once; a revoked one is a replay, an expired one is refused.
RefreshGetByJti(r) ==
    LET t == req[r].tok
    IN  /\ req[r].pc = "get_by_jti" /\ req[r].op = "refresh"
        /\ Local(r, [req[r] EXCEPT
                       !.at = clock,
                       !.pc = IF Revoked(t) THEN "revoke"
                              ELSE IF tokens[t].expires_at <= clock THEN "TokenExpired"
                              ELSE "get_user"])

\* Mutant: the successor is minted without its user_id.
RefreshGetUserNoSubject(r) ==
    /\ req[r].pc = "get_user"
    /\ Local(r, [req[r] EXCEPT !.pc = "mint"])

\* Mutant: a refresh does not look at the account again.
RefreshGetUserUnchecked(r) ==
    /\ req[r].pc = "get_user"
    /\ Local(r, [req[r] EXCEPT !.pc = "mint", !.subj = tokens[req[r].tok].user_id])

\* users.get_by_id, then record.revoke and update, which reach the database only
\* in the flush.
RefreshGetUser(r) ==
    LET user == tokens[req[r].tok].user_id
    IN  /\ req[r].pc = "get_user"
        /\ Local(r, IF users[user].is_active
                    THEN [req[r] EXCEPT !.pc = "mint", !.subj = user]
                    ELSE [req[r] EXCEPT !.pc = "InvalidToken"])

\* Another transaction has updated this row and not ended yet.
LockedByOther(r, t) == \E q \in Requests \ {r} : t \in req[q].held

\* Mutant: update() is not called on the revoked record.
RotatedNotRevoking(r) ==
    [tokens EXCEPT ![r] = NewRow(req[r].subj, tokens[req[r].tok].family_id, req[r].exp)]

\* Mutant: update() writes back the record as it was read, before record.revoke.
RotatedStale(r) ==
    [j \in Requests |->
        IF j = r THEN NewRow(req[r].subj, tokens[req[r].tok].family_id, req[r].exp)
        ELSE IF j = req[r].tok THEN [tokens[j] EXCEPT !.revoked_at = NULL]
        ELSE tokens[j]]

\* Mutant: the successor draws a family of its own.
RotatedNewFamily(r) ==
    [j \in Requests |->
        IF j = r THEN NewRow(req[r].subj, r, req[r].exp)
        ELSE IF j = req[r].tok THEN [tokens[j] EXCEPT !.revoked_at = req[r].at]
        ELSE tokens[j]]

\* The table after r's rotation: the presented row is updated by primary key,
\* whatever it has become since it was read, and the successor inserted.
Rotated(r) ==
    [j \in Requests |->
        IF j = r THEN NewRow(req[r].subj, tokens[req[r].tok].family_id, req[r].exp)
        ELSE IF j = req[r].tok THEN [tokens[j] EXCEPT !.revoked_at = req[r].at]
        ELSE tokens[j]]

\* Mutant: the revocation is committed on its own, before the successor is added.
RefreshFlushCommitting(r) ==
    /\ req[r].pc = "commit" /\ req[r].op = "refresh"
    /\ ~LockedByOther(r, req[r].tok)
    /\ tokens' = [tokens EXCEPT ![req[r].tok].revoked_at = req[r].at]
    /\ req' = [req EXCEPT ![r] = [req[r] EXCEPT !.pc = "insert"]]
    /\ UNCHANGED <<users, clock>>

\* uow.commit() flushes the UPDATE first; it waits for the row, whatever the row has
\* become, and nobody sees it before the commit.
RefreshFlush(r) ==
    /\ req[r].pc = "commit" /\ req[r].op = "refresh"
    /\ ~LockedByOther(r, req[r].tok)
    /\ Local(r, [req[r] EXCEPT !.pc = "insert", !.held = {req[r].tok}])

\* Then the INSERT of the successor, and COMMIT publishes both.
RefreshCommit(r) ==
    /\ req[r].pc = "insert"
    /\ tokens' = Rotated(r)
    /\ req' = [req EXCEPT ![r] = [req[r] EXCEPT !.pc = "respond", !.held = {}]]
    /\ UNCHANGED <<users, clock>>

Logout(r, c) == PresentRefreshToken(r, "logout", c)

LogoutGetByJti(r) ==
    /\ req[r].pc = "get_by_jti" /\ req[r].op = "logout"
    /\ Local(r, [req[r] EXCEPT !.pc = "revoke", !.at = clock])

(***************************************************************************)
(* The bulk UPDATEs: revoke_family and revoke_all_for_user                 *)
(***************************************************************************)

\* Mutant: WHERE user_id = ..., so a logout reaches the user's other devices.
FamilyRowsOfUser(r) ==
    {t \in Requests : Live(t) /\ tokens[t].user_id = tokens[req[r].tok].user_id}

\* Mutant: WHERE jti = ..., so only the presented token is revoked.
FamilyRowsPresented(r) == {t \in {req[r].tok} : Live(t)}

\* WHERE family_id = the presented record's AND revoked_at IS NULL
FamilyRows(r) ==
    {t \in Requests : Live(t) /\ tokens[t].family_id = tokens[req[r].tok].family_id}

\* WHERE user_id = the current user's AND revoked_at IS NULL
UserRows(r) == {t \in Requests : Live(t) /\ tokens[t].user_id = req[r].subj}

\* The statement fixes the rows it will visit: later commits are not seen.
RevokeFamily(r) ==
    /\ req[r].pc = "revoke" /\ req[r].op \in {"refresh", "logout"}
    /\ Local(r, [req[r] EXCEPT !.pc = "scan", !.target = FamilyRows(r),
                                              !.scan = FamilyRows(r)])

RevokeAllForUser(r) ==
    /\ req[r].pc = "revoke" /\ req[r].op = "change_password"
    /\ Local(r, [req[r] EXCEPT !.pc = "scan", !.target = UserRows(r),
                                              !.scan = UserRows(r)])

\* Mutant: SKIP LOCKED.
RevokeRowSkipLocked(r, t) ==
    /\ req[r].pc = "scan" /\ t \in req[r].scan
    /\ Local(r, [req[r] EXCEPT !.scan = @ \ {t},
                               !.held = IF Live(t) /\ ~LockedByOther(r, t)
                                        THEN @ \cup {t} ELSE @])

\* Lock the next row once its holder has ended, and re-check revoked_at IS NULL.
RevokeRow(r, t) ==
    /\ req[r].pc = "scan" /\ t \in req[r].scan
    /\ ~LockedByOther(r, t)
    /\ Local(r, [req[r] EXCEPT !.scan = @ \ {t},
                               !.held = IF Live(t) THEN @ \cup {t} ELSE @])

\* The table once the rows r's bulk UPDATE has written are committed.
HeldRowsRevoked(r) ==
    [t \in Requests |-> IF t \in req[r].held
                        THEN [tokens[t] EXCEPT !.revoked_at = req[r].at]
                        ELSE tokens[t]]

\* Mutant: the replay raises before it commits the revocation.
RevokeCommitRaisingFirst(r) ==
    /\ req[r].pc = "scan" /\ req[r].scan = {} /\ req[r].op \in {"refresh", "logout"}
    /\ tokens' = IF req[r].op = "logout" THEN HeldRowsRevoked(r) ELSE tokens
    /\ req' = [req EXCEPT ![r] =
                 [req[r] EXCEPT !.held = {},
                                !.pc = IF req[r].op = "logout" THEN "ok" ELSE "InvalidToken"]]
    /\ UNCHANGED <<users, clock>>

\* uow.commit() of a logout (204) or of a replayed refresh (InvalidTokenError).
RevokeCommit(r) ==
    /\ req[r].pc = "scan" /\ req[r].scan = {} /\ req[r].op \in {"refresh", "logout"}
    /\ tokens' = HeldRowsRevoked(r)
    /\ req' = [req EXCEPT ![r] =
                 [req[r] EXCEPT !.held = {},
                                !.pc = IF req[r].op = "logout" THEN "ok" ELSE "InvalidToken"]]
    /\ UNCHANGED <<users, clock>>

(***************************************************************************)
(* PUT /users/me/password                                                  *)
(***************************************************************************)

ChangePassword(r, c) ==
    /\ req[r].pc = "idle"
    /\ Local(r, IF Decode(c, "access") = "valid"
                THEN [req[r] EXCEPT !.op = "change_password", !.pc = "get_current_user",
                                    !.subj = req[c.of].subj]
                ELSE [req[r] EXCEPT !.op = "change_password", !.pc = Decode(c, "access")])

\* The dependency get_current_user: its own SELECT in the request's session.
GetCurrentUser(r) ==
    /\ req[r].pc = "get_current_user"
    /\ Local(r, [req[r] EXCEPT !.pc = IF users[req[r].subj].is_active
                                      THEN "get_by_id" ELSE "InvalidToken"])

\* The handler reads the user again and verifies against the hash it read (were
\* the first read's instance still tracked, it would be as if this one came at once).
ChangePasswordGetById(r, current) ==
    LET user == users[req[r].subj]
    IN  /\ req[r].pc = "get_by_id"
        /\ Local(r, IF Verify(current, user.hashed_password)
                    THEN [req[r] EXCEPT !.pc = "update", !.loaded = user.is_active]
                    ELSE [req[r] EXCEPT !.pc = "InvalidCredentials"])

\* apply_to_model copies every field onto the tracked instance; the flush writes
\* only a field that the copy changed.
WrittenBack(copied, tracked) == IF copied = tracked THEN NULL ELSE copied

\* users.update after hashing: session.get returns the tracked instance, or reads
\* the row again if that instance was collected.
ChangePasswordUpdate(r) ==
    /\ req[r].pc = "update"
    /\ \E tracked \in {req[r].loaded, users[req[r].subj].is_active} :
          Local(r, [req[r] EXCEPT !.pc = "revoke", !.at = clock,
                                  !.loaded = WrittenBack(@, tracked)])

\* Mutant: the password change does not revoke the sessions.
ChangePasswordCommitOnly(r, new) ==
    /\ req[r].pc = "scan" /\ req[r].scan = {} /\ req[r].op = "change_password"
    /\ users' = [users EXCEPT ![req[r].subj] =
                   [hashed_password |-> Hash(new), is_active |-> @.is_active]]
    /\ req' = [req EXCEPT ![r] = [req[r] EXCEPT !.pc = "ok", !.held = {}]]
    /\ UNCHANGED <<tokens, clock>>

\* uow.commit(): the password, a dirty is_active and the bulk revocation together.
ChangePasswordCommit(r, new) ==
    /\ req[r].pc = "scan" /\ req[r].scan = {} /\ req[r].op = "change_password"
    /\ users' = [users EXCEPT ![req[r].subj] =
                   [hashed_password |-> Hash(new),
                    is_active |-> IF req[r].loaded = NULL THEN @.is_active
                                                          ELSE req[r].loaded]]
    /\ tokens' = HeldRowsRevoked(r)
    /\ req' = [req EXCEPT ![r] = [req[r] EXCEPT !.pc = "ok", !.held = {}]]
    /\ UNCHANGED clock

(***************************************************************************)
(* Failures and the environment                                            *)
(***************************************************************************)

\* r waits for a row q has locked.
WaitsFor(r, q) == req[r].pc = "scan" /\ req[r].scan \cap req[q].held # {}

\* Mutant: the session of a failed request is not closed.
RollbackHolding(r) == Local(r, [req[r] EXCEPT !.pc = "error"])

\* The transaction is rolled back and its locks are released.
Rollback(r) == Local(r, [req[r] EXCEPT !.pc = "error", !.held = {}])

\* PostgreSQL's deadlock detector aborts a transaction of a cycle of waits: 500.
DeadlockAbort(r) ==
    /\ \E S \in SUBSET Requests :
          r \in S /\ \A q \in S : \E p \in S \ {q} : WaitsFor(q, p)
    /\ Rollback(r)

\* The process dies, its shutdown cancels the request or the database fails:
\* closing the session rolls back what was not committed; a committed answer can be lost.
Fail(r) == Active(r) /\ Rollback(r)

\* An operator clears users.is_active; no endpoint does.
Deactivate(u) ==
    /\ users[u].is_active
    /\ users' = [users EXCEPT ![u].is_active = FALSE]
    /\ UNCHANGED <<tokens, clock, req>>

Tick ==
    /\ clock < MaxTime
    /\ clock' = clock + 1
    /\ UNCHANGED <<tokens, users, req>>
-----------------------------------------------------------------------------
\* A request arrives and runs to its first await.
Begin(r) ==
    \/ \E email \in Users \cup {NULL}, p \in Passwords : Login(r, email, p)
    \/ \E c \in Presented : Refresh(r, c) \/ Logout(r, c) \/ ChangePassword(r, c)

\* A suspended request takes its next step.
Continue(r) ==
    \/ Mint(r) \/ LoginCommit(r) \/ Respond(r)
    \/ RefreshGetByJti(r) \/ RefreshGetUser(r) \/ RefreshFlush(r) \/ RefreshCommit(r)
    \/ LogoutGetByJti(r)
    \/ GetCurrentUser(r) \/ ChangePasswordUpdate(r)
    \/ \E p \in Passwords : ChangePasswordGetById(r, p) \/ ChangePasswordCommit(r, p)
    \/ RevokeFamily(r) \/ RevokeAllForUser(r) \/ RevokeCommit(r)
    \/ \E t \in Requests : RevokeRow(r, t)
    \/ DeadlockAbort(r)

Environment == Tick \/ \E u \in Users : Deactivate(u)

Next == (\E r \in Requests : Begin(r) \/ Continue(r) \/ Fail(r)) \/ Environment

Spec == Init /\ [][Next]_vars

\* The event loop and the database keep serving a request that has begun.
FairSpec == Spec /\ \A r \in Requests : WF_vars(Continue(r))

\* One request at a time: what a single client, or a test, can make happen.
SerialNext ==
    \/ \E r \in Requests : /\ \A q \in Requests \ {r} : ~Active(q)
                           /\ Begin(r) \/ Continue(r) \/ Fail(r)
    \/ Environment

SerialSpec == Init /\ [][SerialNext]_vars
-----------------------------------------------------------------------------
(* What holds however requests interleave.                                 *)

\* Every variable has its type: the rows of both tables, the clock, and the
\* local state of each handler.
TypeOK ==
    /\ tokens \in [Requests -> TokenRow \cup {NULL}]
    /\ users \in [Users -> UserRow]
    /\ clock \in Nat
    /\ req \in [Requests -> RequestState]

\* Request r has a refresh-token row exactly if it is a login or refresh that got
\* past its commit.
RowMatchesGrant(r) ==
    /\ Stored(r) => /\ req[r].op \in {"login", "refresh"}
                    /\ req[r].pc \in {"respond", "ok", "error"}
    /\ (req[r].op \in {"login", "refresh"} /\ req[r].pc \in {"respond", "ok"})
          => Stored(r)

\* A refused request leaves no row, and a client never holds a token without a
\* row, so the handlers' "record is None" branches (refresh_token.py:39,
\* logout.py:31) are dead code.
GrantMatchesRow == \A r \in Requests : RowMatchesGrant(r)

\* Token r is a family's root, or the successor of a stored, revoked token of the
\* same user and family.
Descends(r) ==
    \/ req[r].op = "login" /\ tokens[r].family_id = r
    \/ /\ req[r].op = "refresh"
       /\ req[r].tok \in Requests \ {r} /\ Revoked(req[r].tok)
       /\ tokens[r].family_id = tokens[req[r].tok].family_id
       /\ tokens[r].user_id = tokens[req[r].tok].user_id

\* Rotation is atomic and keeps the lineage: every token is the root of the
\* family its login opened, or the successor of a token that is stored, already
\* revoked, and of the same user and family.  No crash or race leaves a token
\* usable beside its own successor.
Lineage == \A r \in Requests : Stored(r) => Descends(r)

\* The rows request r set out to revoke are revoked once it has answered.
SnapshotRevoked(r) ==
    req[r].pc \in {"ok", "InvalidToken"} => \A t \in req[r].target : Revoked(t)

\* A completed logout, replay or password change has revoked every row that its
\* bulk UPDATE had in its snapshot, whoever else was updating those rows.
RevocationCovers == \A r \in Requests : SnapshotRevoked(r)

\* The refresh that minted r read the clock before the presented token expired.
ParentUnexpired(r) ==
    (Stored(r) /\ req[r].op = "refresh") => req[r].at < tokens[req[r].tok].expires_at

\* A successor descends from a token that had not expired when the refresh read
\* the clock (refresh_token.py:48), even if time passed after the JWT check.
RotatedBeforeExpiry == \A r \in Requests : ParentUnexpired(r)

\* A step keeps every row, its user, family and expiry, and its revocation.
RowsPersist ==
    \A t \in Requests : Stored(t) =>
        /\ Stored(t)'
        /\ tokens[t].user_id = tokens'[t].user_id
        /\ tokens[t].family_id = tokens'[t].family_id
        /\ tokens[t].expires_at = tokens'[t].expires_at
        /\ Revoked(t) => Revoked(t)'

\* A step never deletes a row, never changes its user, family or expiry, and
\* never makes a revoked token usable again: the UPDATE by primary key in
\* RefreshCommit may run on a row that changed after it was read.
RevocationIsFinal == [][RowsPersist]_vars

\* r's transaction may end token t: its own rotation, a revocation of its
\* family, or a password change of its user.
MayEnd(r, t) ==
    IF req[r].op = "change_password" THEN tokens[t].user_id = req[r].subj
    ELSE IF req[r].pc = "insert" THEN t = req[r].tok
    ELSE tokens[t].family_id = tokens[req[r].tok].family_id

\* A session ends only through its own rotation, a logout or replay in its own
\* family, or a password change of its own user: another device or another
\* account is never logged out.
OnlyOwnSessionsEnd ==
    [][\A t \in Requests : Live(t) /\ Revoked(t)' =>
          \E r \in Requests : /\ req[r].pc \in {"insert", "scan"}
                              /\ req'[r].pc # req[r].pc
                              /\ MayEnd(r, t)]_vars

\* The step revokes t along with adding a successor of t.
Succeeded(t) == \E s \in Requests : /\ ~Stored(s) /\ Stored(s)'
                                    /\ req[s].op = "refresh" /\ req[s].tok = t

\* The step is the commit of a bulk UPDATE that has locked t.
RevokedInBulk(t) == \E r \in Requests : /\ req[r].pc = "scan" /\ t \in req[r].held
                                        /\ req'[r].pc \in {"ok", "InvalidToken"}

\* A token is used up only together with the arrival of its successor: a refresh
\* that dies anywhere before its commit, between the UPDATE and the INSERT too
\* (refresh_token.py:62-74), leaves the client a token it can try again.
RotationHandsOver ==
    [][\A t \in Requests : Live(t) /\ Revoked(t)' => Succeeded(t) \/ RevokedInBulk(t)]_vars

\* The account is inactive, and every request that saw it active has ended.
LockedOut(u) ==
    /\ ~users[u].is_active
    /\ \A r \in Requests :
          (Active(r) /\ req[r].subj = u) => req[r].pc = "get_current_user"

\* A deactivated account stays locked out: once the requests that were past their
\* is_active check have ended, no login, refresh or bearer token gets past one
\* again, and no password change writes a stale is_active back
\* (user_repository.py:39).
DeactivationLocksOut ==
    [][\A u \in Users : LockedOut(u) => LockedOut(u)']_vars

\* Every request that begins is answered or fails: waits for row locks, and
\* deadlocks among bulk UPDATEs, are always resolved.
EveryRequestEnds ==
    \A r \in Requests : Active(r) ~> req[r].pc \in Outcomes
-----------------------------------------------------------------------------
(* The abstract specification the table implements.                        *)

LedgerView ==
    [t \in Requests |->
        IF Stored(t) THEN [owner |-> tokens[t].user_id, family |-> tokens[t].family_id,
                           revoked |-> Revoked(t)]
        ELSE NULL]

Ledger == INSTANCE TokenLedger WITH Jtis <- Requests, ledger <- LedgerView

ASSUME LedgerAssumption == NULL \notin Ledger!Token

\* Whatever the handlers do, the committed table only ever opens a family,
\* rotates a token or revokes tokens of one user, each atomically: no commit
\* mixes them, and no reader sees half of one.
ImplementsLedger == Ledger!Spec
-----------------------------------------------------------------------------
(* The inductive invariant: what the handlers know at each await.          *)

\* Which handler can be at which await; locks are held by a bulk UPDATE or by a
\* rotation that has flushed its own, and a snapshot exists only from its start on.
PcMatchesOp(r) ==
    /\ req[r].pc = "idle" <=> req[r].op = "none"
    /\ req[r].pc \in {"mint", "commit", "respond"} => req[r].op \in {"login", "refresh"}
    /\ req[r].pc = "get_by_jti" => req[r].op \in {"refresh", "logout"}
    /\ req[r].pc = "get_user" => req[r].op = "refresh"
    /\ req[r].pc \in {"get_current_user", "get_by_id", "update"}
          => req[r].op = "change_password"
    /\ req[r].pc \in {"revoke", "scan"}
          => req[r].op \in {"refresh", "logout", "change_password"}
    /\ req[r].pc = "insert" => req[r].op = "refresh"
    /\ req[r].held # {} => req[r].pc \in {"scan", "insert"}
    /\ req[r].target # {} => req[r].pc \in {"scan", "ok", "InvalidToken", "error"}

\* A handler at work on a presented token works on a stored row.
PresentedIsStored(r) ==
    (req[r].op \in {"refresh", "logout"} /\ req[r].pc \in Awaits)
        => req[r].tok \in Requests /\ Stored(req[r].tok)

\* A handler that acts for a user knows which one.
SubjectIsKnown(r) ==
    (\/ /\ req[r].op \in {"login", "refresh"}
        /\ req[r].pc \in {"mint", "commit", "insert", "respond", "ok"}
     \/ req[r].op = "change_password" /\ req[r].pc \in Awaits)
        => req[r].subj \in Users

\* A refresh past its checks saw an unexpired record, and mints for its user.
RefreshIsChecked(r) ==
    req[r].op = "refresh" =>
        /\ req[r].pc \in {"get_user", "mint", "commit", "insert"}
              => req[r].at < tokens[req[r].tok].expires_at
        /\ req[r].pc \in {"mint", "commit", "insert"}
              => req[r].subj = tokens[req[r].tok].user_id

\* A bulk UPDATE has locked, found revoked, or still to visit each of its rows.
ScanAccountsForRows(r) ==
    req[r].pc = "scan" =>
        \A t \in req[r].target :
            /\ Stored(t)
            /\ t \in req[r].scan \/ t \in req[r].held \/ Revoked(t)

\* A row that a transaction has updated exists.
HoldsStoredRows(r) == \A t \in req[r].held : Stored(t)

\* At every await, every handler's view of its own progress agrees with the
\* tables it acts on.
HandlerInv ==
    \A r \in Requests : /\ PcMatchesOp(r)
                        /\ PresentedIsStored(r)
                        /\ SubjectIsKnown(r)
                        /\ RefreshIsChecked(r)
                        /\ ScanAccountsForRows(r)
                        /\ HoldsStoredRows(r)

\* A bulk UPDATE visits and locks rows of its own family or user only.
ScansOwnRows(r) ==
    req[r].pc = "scan" =>
        \A t \in req[r].scan \cup req[r].held : Stored(t) /\ MayEnd(r, t)

\* A token belongs to the user who opened its family.
FamilyHasOneOwner(t) ==
    Stored(t) => LET root == tokens[t].family_id
                 IN  Stored(root) /\ tokens[root].user_id = tokens[t].user_id

\* Transactions act on rows of one user, and a family is one user's.
OwnershipInv == \A r \in Requests : ScansOwnRows(r) /\ FamilyHasOneOwner(r)
-----------------------------------------------------------------------------
(* What the documentation says, true when requests do not overlap.         *)

\* "the chain of tokens produced by rotating one original login"
\* (domain/auth/entities.py:7): a family has at most one usable token.
FamilyIsChain ==
    \A t, u \in Requests : (/\ Live(t) /\ Live(u)
                            /\ tokens[t].family_id = tokens[u].family_id) => t = u

\* A family that was opened and has no usable token left.
FamilyDead(f) == /\ Stored(f)
                 /\ \A t \in Requests : Live(t) => tokens[t].family_id # f

\* "Revoking the family invalidates every descendant at once"
\* (domain/auth/entities.py:8) and "Presenting an already-revoked token is treated
\* as replay/theft: the entire family is revoked" (refresh_token.py:4): when a
\* logout or a replay is answered, no token of the presented token's family is
\* usable, however far down the chain it is.
LogoutAndReplayEndFamily ==
    [][\A r \in Requests :
          (/\ req[r].op \in {"logout", "refresh"} /\ req[r].pc = "scan"
           /\ req'[r].pc \in {"ok", "InvalidToken"})
             => FamilyDead(tokens[req[r].tok].family_id)']_vars

\* "A changed password ends every existing session." (change_password.py:47):
\* when the change commits, none of the user's tokens is usable.
PasswordChangeEndsSessions ==
    [][\A r \in Requests :
          (req[r].op = "change_password" /\ req[r].pc = "scan" /\ req'[r].pc = "ok")
             => \A t \in Requests : Live(t)' => tokens'[t].user_id # req[r].subj]_vars

\* "Revoking the family invalidates every descendant at once - the primitive
\* behind logout, reuse detection, and password-change revocation"
\* (domain/auth/entities.py:8): when a revocation commits, no family in which it
\* found a usable token has one left.
RevokingEndsFamily ==
    [][\A r \in Requests :
          (req[r].pc = "scan" /\ req'[r].pc \in {"ok", "InvalidToken"})
             => \A t \in req[r].target : FamilyDead(tokens[t].family_id)']_vars

\* A dead family stays dead: no handler brings a session back that logout,
\* replay detection or a password change has ended.
DeadFamilyStaysDead ==
    [][\A f \in Requests : FamilyDead(f) => FamilyDead(f)']_vars
=============================================================================
