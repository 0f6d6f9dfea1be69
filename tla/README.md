# Verification of fastapi-starter

TLA+ models, TLC runs and TLAPS proofs for the service under `src/`: a FastAPI
application with JWT sessions, registration, a Redis rate limiter and a
problem+json error contract, on PostgreSQL through SQLAlchemy's async session,
with the migrations and the compose file that bring it up.

- [The system](#the-system)
- [Modules and the code they model](#modules-and-the-code-they-model)
- [Runs](#runs)
- [Where code and documentation disagree](#where-code-and-documentation-disagree)
- [Bounds and fairness](#bounds-and-fairness)
- [Proofs](#proofs)
- [Not modelled](#not-modelled)
- [Plan](#plan)

## The system

| Component | State | Operations | What makes it correct |
|---|---|---|---|
| Sessions (`application/auth`, `refresh_token_repository`) | table `refresh_tokens`: jti, user, family, expiry, `revoked_at` | login, refresh (rotation, replay detection), logout | rotation is atomic and keeps user and family; revocation is final and covers the family; nobody else's session ends |
| Password change (`change_password`, `get_current_user`) | table `users`: hash, `is_active` | change password, which revokes every session of the user | no session of the user survives |
| Registration (`create_user`, `unit_of_work`, `in_process`, `seed`) | `users.email` with its unique index; events of the aggregate; registered handlers | register, dispatch | one account per mailbox; a 409 is real; events only after a commit, at most once |
| Rate limiter (`rate_limiter`, `rate_limit`) | a Redis counter with TTL per route and client | check | bounded burst; a window ends; sensible `Retry-After` |
| Listing (`list_users`, `user_query_service`) | none of its own; the client holds a cursor | list a page | pages are complete, ordered, without repetition, and end |
| HTTP pipeline (`middleware`, `exception_handlers`, `main`, `config`) | per request: exception, context variable, scope state, started response | nine nested layers | answered once, with its id, as a problem, and logged as answered |
| Process (`main`, `container`, `ioc/providers`, `session`, `health`, `password_hasher`) | APP-scope engine and Redis client; the connection pool; request scopes; worker threads | boot, serve, check out and return connections, drain, cancel, close | no slot of the pool is lost; every request is answered; a dead database is noticed; shutdown leaves nothing open |
| Migrations (`migrations/env`, `versions`, `models`) | schema and `alembic_version` | upgrade, downgrade | the schema is always the one its version names, and the models' at the head |
| Deployment (`docker-compose.yml`, `Dockerfile`, `Makefile`) | which service has run | migrate, then api; alembic by hand at any time | the api has its models' tables until somebody takes them away |
| Logging and telemetry set-up | one-time configuration | - | not modelled, see below |

Components meet in four places. Every write handler shares one `AsyncSession`
per request, created with `autoflush=False` and committed once by the unit of
work, so everything a handler "saves" reaches the database in the flush of
`commit()`, except the two bulk UPDATEs, which run at once. Handlers of
different requests meet only in PostgreSQL and Redis, in any order, at every
`await`. The pipeline wraps all of them, and closes the session on the way out.
And all requests of a process share one connection pool, one thread limit and one
container, which the lifespan closes when the process ends.

The hard behaviours are therefore: a record read, checked and written back
across awaits; a bulk UPDATE on a snapshot that misses rows committed beside it;
row-lock waits and deadlocks between bulk UPDATEs; a crash or a cancelling
shutdown after a commit and before the answer or the event; the gap between INCR
and EXPIRE; inserts under a moving cursor; the order in which layers unwind; a
pool slot held while another resource is waited for; a database that restarts
under pooled connections; a shutdown beside requests that still unwind; and
migrations that race or die half-way.
`PROJECT.json` lists each hazard at its line with the properties that watch it.

## Modules and the code they model

**AuthSessions** has the two tables (`tokens`, `users`), the clock, and for each
request its program counter (the await it is suspended at) and local variables.
One action is one SQL statement with the synchronous code up to the next await.
`Login`, `Mint`, `LoginCommit`, `Respond` are `login.py`;
`Refresh`, `RefreshGetByJti`, `RefreshGetUser`, `Mint`, `RefreshFlush`,
`RefreshCommit`, `Respond` are `refresh_token.py`; `Logout`, `LogoutGetByJti` are `logout.py`;
`ChangePassword`, `GetCurrentUser` are the bearer dependency and
`ChangePasswordGetById`, `ChangePasswordUpdate`, `ChangePasswordCommit` the
password handler. The two bulk UPDATEs share their mechanics: `RevokeFamily` or
`RevokeAllForUser` fixes the snapshot, `RevokeRow` locks one row after another,
waiting for other holders and re-checking `revoked_at IS NULL`, and
`RevokeCommit` or `ChangePasswordCommit` publishes. `Fail` may end any request
at any await: uncommitted work is rolled back, committed work stays although the
client hears nothing. Details that matter:

- A token is presented only if its pair reached a client (`Granted`); it may be
  presented as the wrong type or damaged (`forged`), and any number of times.
- JWT expiry is cut to seconds (`ExpClaim`), the record's is not, and both are
  checked, at different times.
- `session.get` keeps weak references. `users.update` may find the instance the
  request loaded, or read the row again, so a stale `is_active` is either
  unchanged, and not flushed, or changed, and written back (`WrittenBack`).
- The commit of a rotation is two steps. `RefreshFlush` is the UPDATE of
  `revoked_at` by primary key, whatever the row has become; it waits for the row,
  keeps it locked and shows nothing to others. `RefreshCommit` inserts the
  successor and publishes both. The request may fail between them.
- A uuid is named by the request that drew it. A request mints one token, and a
  login one family, so requests, jtis and families share a set of names.

**TokenLedger** is the abstract specification: tokens are opened, rotated or
revoked, each in one step, and a revocation takes tokens of one user.
`AuthSessions!ImplementsLedger` maps the committed table to it. It deliberately
does not promise that a family is a chain, which the code does not keep.

**Registration** has the users table by email, each request's progress, its
aggregate's events, and what each handler was told. `InsertUser` is the flush: it
waits for an uncommitted duplicate and turns a committed one into the 409 of
`unit_of_work.py`. `DispatchNext` passes the event to one handler, which may
raise. `seed.py` is one more caller.

**RateLimiter** has Redis' counters and TTLs in ticks of its clock. `Incr`,
`Expire` and `Ttl` are the commands of one `check`; a slot is used again by later
requests. `recent` is a history variable for the sliding-window property: for each
key and age, how many checks were admitted in that many ticks up to now.

**UserListing** has the ids in the table and one client's walk. Page contents are
sets: the order by primary key is the order of the ids.

**RequestPipeline** sends one request in through the nine layers and out again. A
response passes the send wrappers of all enclosing layers when it is sent; the
call stack unwinds later and may still raise. CORS, TrustedHost, Starlette's two
error middlewares and Dishka's request scope are external and modelled from how
`setup_middleware` and `create_app` use them. Settings are the ones
`_reject_unsafe_production_config` lets start.

**ServiceProcess** is one uvicorn process. A request is the *program* of its
endpoint: the order in which it waits for Redis, the database, a worker thread and
event handlers, with the points where the handler may refuse. What it computes is
in the modules above. `Checkout`, `Execute`, `Commit` and `Respond` are the life of
its session's connection: taken for the first statement, kept while a password is
hashed, released by the commit or when Dishka closes the scope, which is after the
response was sent. `idle`, `opened` are SQLAlchemy's QueuePool; a connection that
dies with the database (`Outage`) is found by `pool_pre_ping` in `Checkout` or by
the statement that uses it. `Boot`, `Terminate`, `Drained`, `GraceOver`, `Unwind`,
`Close`, `Exit`, `Abort` are the lifespan and uvicorn's shutdown: it waits for
requests, cancels them after the grace period of the Dockerfile, and closes the
container, possibly beside requests that still unwind.

**Migrations** has the committed schema, the version table, and each alembic
command's progress. The revisions are the operations of the two version files, the
models with their naming convention are a second, independent description, and
the property compares them. A command plans from the version it reads, runs its
statements in one transaction, waits for tables that other open transactions have
touched, fails on an object that exists or is missing, and may be interrupted.

**Deployment** composes the two. `ComposeUp` starts the one-shot `migrate` service,
`StartApi` the api once that has completed, and `OperatorStart` a `make migrate` or
`make downgrade` at any time, the api running or not: compose and Makefile guard
against nothing else. The api's SQL needs the tables of its models (`Uses`); a
statement that does not find one, or that PostgreSQL aborts to break a deadlock
over table locks, fails (`StatementFails`). `undone` is a history variable: a
downgrade has committed since `migrate` read the version.

`MCAuthSessions` adds a symmetry set and an initial state in which some requests
have already logged in; `MCDeployment` keeps operators' commands and heavy traffic
apart. The other modules are run as they are. Operators named after a
`Mutant` comment are plausible bugs: each property is violated when the
definition after it is replaced by one of them (`mutants` in `PROJECT.json`).

## Runs

Passing runs; the type invariants of sessions, registration, limiter and service are
checked in `sessions_concurrent`, `registration`, `limiter` and `deployment`:

| Run | Question | Instance |
|---|---|---|
| `sessions_concurrent` | `GrantMatchesRow`, `Lineage`, `RevocationCovers`, `RevocationIsFinal`, `RotationHandsOver`, `DeactivationLocksOut`, `ImplementsLedger` | 4 requests, 1 user, 2 passwords, empty table; 123k states |
| `sessions_owners` | `OnlyOwnSessionsEnd`, `EveryRequestEnds` | 2 sessions of equal or different users, 2 more requests, fair; 128k states |
| `sessions_serial` | the documented promises, one request at a time: `FamilyIsChain`, `LogoutAndReplayEndFamily`, `PasswordChangeEndsSessions`, `DeadFamilyStaysDead`; and `RotatedBeforeExpiry` | 1 session, 3 more requests, a clock; 1.06M states |
| `registration` | `OneAccountPerMailbox`, `ConflictIsReal`, `EventsFollowCommit`, `EveryRegistrationEnds` | 3 requests, 2 addresses in 3 spellings, 2 handlers, fair; 23k states |
| `limiter` | `BurstIsBounded`, `RetryAfterInRange`, `LimitIsLifted` | 3 concurrent checks, limit 2, window of 2 s in half-second ticks, failures; 52k states |
| `user_listing` | `WalkIsComplete`, `PagesAdvance`, `NextPageHasRows`, `WalkEnds` | 5 ids, limits 0, 1, 2 and one over the maximum; 5k states |
| `pipeline` | `AnsweredOnce`, `AnswersCarryRequestId`, `RoutedErrorsAreProblems`, `AccessLogAgrees` | every request shape, ending and accepted configuration; 62k states |
| `deployment` | `SchemaMatchesVersion`, `ServingOnHead`, `SlotsAccountedFor`, `FailuresHaveCause`, `ExternalWaitsHoldNothing`, `CleanShutdown`, `EveryRequestIsAnswered` | a pool of 1 + 1, 1 thread, shutdown, fair; 3 operators' commands at any time beside `migrate` and 1 request of any endpoint, or 3 requests, one a probe, and 1 outage; 416k states |

What they show together: under arbitrary interleaving and failure the token
table itself stays sound (each commit is one abstract step, lineage and
ownership hold, nothing is revived, nobody else is logged out, no refresh that dies
uses its token up), and every request ends. What does not survive interleaving is
the promise that ending a family leaves nothing usable; it holds when requests do
not overlap, which is all that the repository's tests exercise. A deactivated account stays out once the
requests that saw it active have ended; one of those may still write the old
`is_active` back, which is why the property waits for them.

`deployment` shows that holding a pool slot while queueing for a worker thread
never becomes a circle (threads are released without needing the pool), so that
nobody depends on the pool's timeout; that through errors, cancellation and
outages each slot is idle or held by a request in flight; and that
racing, failing and interrupted migrations leave whole versions only, and that the
api then runs on its own tables. What takes them away is a downgrade that commits
after `migrate` has read the version: one that was under way when compose came up,
or one beside the running api. Nothing in the repository prevents either, and
`ServingOnHead` promises nothing after it. A shutdown that ran out of time
promises less: requests that are still unwinding return their connection to a pool
that has been disposed of, and the end of the process is what closes it.

## Where code and documentation disagree

Each of these runs checks one sentence of the repository and is violated.

| Run | Sentence | Behaviour |
|---|---|---|
| `family_forks` | `domain/auth/entities.py:7`, a family is a "chain" | two overlapping refreshes with one token both succeed |
| `family_outlived` | `entities.py:8`, "invalidates every descendant at once" | a refresh in flight adds a usable token beside the UPDATE that ends its family, whether that is a logout, replay detection (`refresh_token.py:4`, "the entire family is revoked") or a password change (`change_password.py:47`, "ends every existing session") |
| `limiter_lockout` | `rate_limiter.py:6`, "creates the counter with a TTL" | a check that dies after INCR leaves a counter for ever |
| `pipeline_untraced` | `exception_handlers.py:10`, "logged with the bound request id" | the id is cleared before the catch-all handler logs |

The security headers are less than `middleware.py:87` says ("on every response"):
preflights, refused hosts and the catch-all 500 are answered outside the layer that
adds them. `AnswersCarryRequestId` states where they do appear.

The two session findings have one cause: the UPDATE of a rotation is not
conditional on `revoked_at IS NULL`, and nothing serialises a family.

`RoutedErrorsAreProblems` is about requests that reach a route. The plain-text 400s
of TrustedHost and of CORS for a refused host or preflight are outside it, although
`tests/integration/test_error_contract.py:4` speaks of "every error path".

## Bounds and fairness

Four requests are enough for each race: one login, two that overlap and one to
observe; two logins and two password changes for a deadlock over two rows. With
`MaxTime = 0` lifetimes do not matter; `sessions_serial` has a clock to 3, two
ticks a second, a refresh lifetime of 3 ticks, so not a whole number of seconds,
and an access lifetime of 2. The limiter counts up to `MaxCount`, above the limit
and above one, and all larger counts take the same branches, so no request is held
back by the bound. The listing's five ids leave rows before, between and after two
pages of every size. The pipeline is finite as it is. Requests that have ended
stop, so session, registration, listing and pipeline runs do not check deadlock; a
wait without end would show in `EveryRequestEnds`, `EveryRegistrationEnds` and
`WalkEnds`.

`deployment` has the smallest pool with both an idle slot and an overflow slot, one
request more than slots, and one thread for two requests that hash. Its third
request is a health or readiness probe, which keeps the product of ten endpoints
over three requests small; two requests take any endpoint. One outage is enough: it
may meet requests in any position, and may end or last.

It has the `migrate` service and three operators' commands, each an upgrade
or a downgrade, started before, beside or after `migrate` or under the api: two
racing upgrades with a downgrade between them, a downgrade that plans before
`migrate` and commits after it, and a stale plan met by both. `docker compose up`
happens once. `MCDeployment` bounds the product of the two: operators' commands
start beside one request at most and without an outage, and more requests and the
outage come without operators. Requests meet each other in the pool and the thread
limit, which no schema changes, and meet the schema only through their own
statements. What the api's transactions lock is
left out: it can delay an alembic command, or abort one of the two, which
`StatementFails` and the failing of commands cover. `Outage` and `Terminate` are
free, the process may stop for good, so deadlock is not checked.

Fairness is weak fairness of each begun request's `Continue`: the event loop
resumes a task whose await is done, PostgreSQL grants a lock that is free and
runs its deadlock detector. `Fail`, arriving requests, ticks and deactivation are
not fair in the session models. The limiter's clock is fair (time passes), its
requests and failures are not; `LimitIsLifted` starts from a counter that has a
TTL, and `limiter_lockout` shows that one without it can stay. `WalkEnds` assumes
that the client keeps asking. In `deployment` only the event loop is fair, as a
whole: it does not stop while some request can go on. Each request has finitely many
steps, so nothing stronger is needed; the pool's timeout, the grace period, the end
of an outage and the shutdown are not fair.

External behaviour is modelled from how the code uses it: PostgreSQL's snapshots,
row and table locks, deadlock detector and transactional DDL; Redis' single
commands; SQLAlchemy's session and QueuePool; Alembic's version table; Starlette's
and FastAPI's error middlewares; Dishka's request scope, which is left after the
response has been sent; anyio's thread limit, and threads that a cancellation does
not interrupt; uvicorn's graceful shutdown. `PROJECT.json` marks these definitions.

## Proofs

The proof modules hold for all sets of requests, users and addresses, any number
of handlers, any limit, window, lifetime, table and page limit, any pool and any
number of alembic commands. Assumptions are the ASSUMEs of the modules: `NULL` is
none of the other values (`LedgerAssumption`, `CursorAssumption` and
`PipelineAssumption` say so of token records, cursors and exceptions), lifetimes,
seconds, windows and the page limit are positive, ids are naturals and finitely
many, there is at least one handler. TLC evaluates them in every run.

Every safety property that a passing run checks, invariant or action property, is
also a theorem; `PROJECT.json` pairs them.

*AuthSessionsProofs.* None of the listed invariants is inductive alone: that a
rotated token has a revoked parent needs to know that a refresh about to commit
works on a stored row of the user it mints for; that a revocation has covered its
snapshot needs to know that a scan has locked, found revoked, or still to visit
each row. `HandlerInv` collects this, await by await. `IndInv` is `TypeOK`
and, for each request, `Safe`, which joins `HandlerInv`'s parts with the per-request
form of the properties. Lemma `Frame` shows that
`Safe(q)` survives any step of another request that keeps rows (`RowsPersist`),
so that each action owes only its types, `RowsPersist` and `Safe` of its own
request; `Compose` and `LocalStep` package that, and there is one lemma per
action. From `Invariance` follow `TypeCorrect`, `GrantsAreStored`,
`RotationKeepsLineage`, `SnapshotsAreRevoked`, `HandlersAgree`, `NoRotationAfterExpiry`, and from `RowsPersist` the action property
`RevocationFinal`. `DeactivationIsFinal` needs one more fact, that a request not yet
made acts for nobody (`IdleIsNobody`): a lockout could only end through a request
that gets past its check, and each of the three checks reads `is_active`, or
through the write-back of one that is past it, of which there is none.

*SessionPromisesProofs, first part.* `OwnershipInv` adds that the rows a bulk UPDATE
has locked or still visits belong to the family or user it acts for, and that a
family has one owner. Four actions write the token table (`OnlyCommitsWrite`), and
with the two invariants each maps to one step of the ledger: a login opens, a
refresh rotates, a revocation revokes rows of one user (`TableImplementsLedger`).
`OnlyOwnEnd` and `RotationsHandOver` are the same case distinction, seen from the
token that ends.

*Second part*, about `SerialSpec`. `SerialInv` says that at most one request is at an
await, that the token a refresh is rotating is live, and that a scan's live rows are
all locked or still to visit. These are false under overlap, as `family_forks` and
`family_outlived` show. `FamiliesAreChains`, `LogoutEndsFamily`,
`ChangedPasswordEndsSessions` and `DeadStaysDead` follow.

*RegistrationProofs.* A row and an INSERT in flight both claim their email;
claims exclude each other because the flush waits and then checks. With it,
`MailboxesAreUnique`, `ConflictsAreReal` and `EventsAreDelivered`.

*RateLimiterProofs.* TTLs stay in the window, so the rounded reply does
(`RetryAfterBounded`); without failures every counter has a TTL or the request
that will set it (`CountersExpire`). `BurstsAreBounded` rests on `BurstInv`: what
was admitted in the last window is at most the limit plus what the present counter
has let through, and a counter with `t` ticks to go accounts alone for the
`Window - t` ticks since its TTL was set. The second fact is what makes the first
survive the moment the counter is deleted. It needs no assumption on who calls
EXPIRE, or when: a later EXPIRE only makes the counter live longer.

*UserListingProofs.* Pages are cut by rank, so the first lemmas are about `First`: it
is a lower part of its set, has at most `n` members, and is everything if it has
fewer. Least and greatest ids of a set come from the well-foundedness of the
naturals. `WalkInv` says that what was there at the start is shown or ahead of
the cursor, that nothing shown is ahead of it, and that a cursor handed out has rows
after it, which inserts cannot take away.

*RequestPipelineProofs.* `PipelineInv` describes what the next layer finds, in both
directions. On the way out there is an answer or an exception, inside the exception
layer not both, and after the outermost layer an answer (`RequestsAreAnsweredOnce`).
Each answer is shown to be good where it is sent (`AnswersCarryId`,
`ErrorsAreProblems`), and the access log entry holds the status that was sent or,
if nothing was, the 500 that will be (`LogAgreesWithAnswer`). The module has no
parameter but `NULL`, so its run is exhaustive already; the proof adds the reason.

*MigrationsProofs* has lemmas only: `Start` and `Migrate` keep `MigrationsInv`. A
command reads the version before it holds any lock, so its plan may be stale. The
invariant says that a transaction that has executed a statement is at the committed
version, with one exception that the foreign key of `refresh_tokens` then stops, and
that no two open transactions have touched the same table. A complete plan has
locked a table every competing plan needs, so a command commits alone.

*DeploymentProofs.* `DeploymentInv` is inductive and has three parts. `DeployInv` adds
to `MigrationsInv` what the order of docker compose gives: the api has started only
after `migrate` has completed; and unless a downgrade has committed since `migrate`
read the version (`~undone`), the database is at the head once `migrate` has completed,
and already when it read that there is nothing to do. Other commands may still hold
any plan then; the upgrades among them change no revision, and a downgrade that commits
sets `undone`. `SchemaErrorsHaveCause` says that a request meets a missing table only
after such a commit; with `DeployInv` it gives `ApiServesOnHead`, and it rests on every
program asking for tables of the models only. `ServiceInv` says of each request what
its program still has to do given the connection it holds, who holds the slots that
are not idle, which requests know of an outage, and what is open in each phase. The
parts need each other: a request that Redis or a handler fails gives nothing back to
the pool, which loses no slot only because every program has committed before it waits
for either (`WaitsHoldNothing`).

Only model-checked: liveness (`EveryRequestEnds`, `EveryRegistrationEnds`,
`LimitIsLifted`, `WalkEnds`, `EveryRequestIsAnswered`), which is outside the prover's
reach, and the four violations, which are counterexamples.

## Not modelled

- Signatures, claim parsing and Argon2: libraries; tokens are authentic or not.
- Redis' failures other than as `Fail`, or as a refused check; its client's own
  connection pool, which the code leaves unbounded.
- Logging and telemetry set-up, and the switch that loads it: one-time configuration
  without state of its own. The context variable of the access log is in
  RequestPipeline.
- Protocols (`application/shared/interfaces.py`), DTOs, request and response schemas:
  declarations; what implements them is modelled.
- Alembic's offline mode, which prints SQL; autogeneration.
- Restarts of the api container and its health check, which are the platform's: a
  restarted process is a new `Boot` on the same schema.
- SQLite, which only the fast tests use: a single connection, no row locks.
- GZip, streaming bodies, OpenAPI texts, header wording, and TrustedHost's redirect
  to the `www.` form of a host, which only an allowed-hosts list with such names
  reaches. No property depends on them.

## Plan

Built: sessions first (the races that matter most), then registration, limiter,
listing and pipeline, each with its runs and mutants; proofs of sessions,
registration and limiter; then the process, the migrations and their composition;
then proofs of every safety property of the passing runs, with the refinement of
the ledger.

Next, prove:

1. Which step of each liveness argument is safety: for `WalkEnds` that every page
   shows something new, for `EveryRequestIsAnswered` that a request which can go on
   stays so until it does.
2. That no deadlock of the bulk UPDATEs involves a rotation: `RefreshFlush` waits
   before it holds a lock, and `RefreshCommit` waits for nothing.

Next, model, if the code grows towards it:

1. The rotation as a conditional UPDATE, with `FamilyIsChain` and the session
   promises as passing properties of the concurrent runs.
2. Password histories: overlapping password changes both succeed and the later
   commit wins; nothing in the repository promises more.
