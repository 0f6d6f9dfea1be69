--------------------------- MODULE ServiceProcess ---------------------------
(***************************************************************************)
(* One uvicorn process from startup to shutdown: the requests it serves,   *)
(* the resources the Dishka container gives them and takes back, and a     *)
(* database that may go away and come back.                                *)
(*                                                                         *)
(* What a request computes is in the other modules; here it is the program *)
(* of its endpoint, the order in which it waits for Redis, the database,   *)
(* a worker thread and the event handlers.  Its session takes a connection *)
(* from SQLAlchemy's pool for the first statement and gives it back when   *)
(* it commits, or when Dishka leaves the request scope: after the response *)
(* was sent, and before the catch-all 500.                                 *)
(***************************************************************************)
EXTENDS Naturals, Sequences, FiniteSets

CONSTANTS
    Requests,     \* HTTP requests the process receives
    Probes,       \* of those, the orchestrator's health and readiness probes
    PoolSize,     \* database.pool_size
    MaxOverflow,  \* database.max_overflow
    Threads,      \* anyio's limit on worker threads
    MaxOutages    \* bound on how often the database goes away

ASSUME ServiceAssumption == /\ Probes \subseteq Requests
                            /\ PoolSize \in Nat \ {0}
                            /\ MaxOverflow \in Nat
                            /\ Threads \in Nat \ {0}
                            /\ MaxOutages \in Nat

VARIABLES
    phase,     \* the process: lifespan and uvicorn's shutdown
    resources, \* APP-scope objects created and not closed yet
    idle,      \* pooled connections nobody uses: how many work, how many are dead
    opened,    \* slots of the pool in use: idle ones and checked-out ones
    database,  \* [up, outages]
    requests   \* per request: where it is and what it holds

serviceVars == <<phase, resources, idle, opened, database, requests>>
-----------------------------------------------------------------------------
(* The endpoints.  After a step that may refuse, the handler may answer an *)
(* error at once; otherwise it goes on to the next step.  A step names the *)
(* tables its SQL needs.                                                   *)

Step(kind, tables) == [on |-> kind, uses |-> tables, may_refuse |-> FALSE]
Check(kind, tables) == [on |-> kind, uses |-> tables, may_refuse |-> TRUE]

\* GET /health and GET /health/ready
Liveness == <<>>
Readiness == <<Step("sql", {})>>

\* GET /users/me, /users/{user_id} and /users: get_current_user reads first.
ReadMe == <<Step("sql", {"users"})>>
GetUser == <<Step("sql", {"users"})>>
ListUsers == <<Step("sql", {"users"})>>

\* POST /auth/refresh and /auth/logout
RefreshTokens == <<Check("sql", {"refresh_tokens", "users"}),
                   Step("commit", {"refresh_tokens"})>>
Logout == <<Check("sql", {"refresh_tokens"}), Step("commit", {})>>

\* POST /auth/login: the limiter is a dependency of the route; an unknown user
\* costs a hash too.
Login == <<Check("redis", {}), Step("sql", {"users"}), Check("hash", {}),
           Step("commit", {"refresh_tokens"})>>

\* Mutant: the events are dispatched before the commit.
RegisterDispatchingFirst ==
    <<Check("redis", {}), Check("sql", {"users"}), Step("hash", {}), Step("events", {}),
      Check("commit", {"users"})>>

\* POST /auth/register: a duplicate is found by the pre-check or by the commit.
Register == <<Check("redis", {}), Check("sql", {"users"}), Step("hash", {}),
              Check("commit", {"users"}), Step("events", {})>>

\* PUT /users/me/password: verify, then hash the new password.
ChangePassword == <<Check("sql", {"users"}), Check("hash", {}), Step("hash", {}),
                    Step("sql", {"users", "refresh_tokens"}), Step("commit", {"users"})>>

Endpoints == {Liveness, Readiness, ReadMe, GetUser, ListUsers, RefreshTokens, Logout,
              Login, Register, ChangePassword}
-----------------------------------------------------------------------------
(* Requests and the pool.                                                  *)

NewRequest == [pc |-> "new", todo |-> <<>>, conn |-> "none", outage |-> FALSE]

InFlight == {r \in Requests : requests[r].pc \in {"run", "hashing"}}
Hashing == {r \in Requests : requests[r].pc = "hashing"}
Serving == phase \in {"serving", "draining"}

\* Request r's handler runs and its next step waits for kind.
At(r, kind) ==
    /\ Serving /\ requests[r].pc = "run"
    /\ requests[r].todo # <<>> /\ Head(requests[r].todo).on = kind

Capacity == PoolSize + MaxOverflow

\* The states a request can be in once its next step is done.
Advanced(state) ==
    {[state EXCEPT !.pc = "run", !.todo = Tail(@)]} \cup
    IF Head(state.todo).may_refuse THEN {[state EXCEPT !.pc = "run", !.todo = <<>>]} ELSE {}

Becomes(r, state) == requests' = [requests EXCEPT ![r] = state]

\* The container creates an APP-scope object when it is first asked for it.
Provided(resource) == resources' = resources \cup {resource}

\* QueuePool._do_return_conn: the connection is kept while the queue has room
\* for it; beyond pool_size it is closed and its slot is free.
Return(conn) ==
    IF conn = "none" THEN UNCHANGED <<idle, opened>>
    ELSE IF idle.ok + idle.dead < PoolSize
    THEN idle' = [idle EXCEPT ![conn] = @ + 1] /\ UNCHANGED opened
    ELSE opened' = opened - 1 /\ UNCHANGED idle

\* Request r has been answered and its scope is closed.
Done(r) == Becomes(r, [NewRequest EXCEPT !.pc = "done"])

\* A statement of r cannot reach the database, an error no handler is registered
\* for: the scope is closed and the catch-all 500 follows.
DatabaseError(r) ==
    Becomes(r, [NewRequest EXCEPT !.pc = "DatabaseError", !.outage = requests[r].outage])

\* A statement of r names a table that is not there: answered in the same way.
SchemaError(r) == Becomes(r, [NewRequest EXCEPT !.pc = "SchemaError"])

\* The tables the SQL of r's next step needs.
Uses(r) == Head(requests[r].todo).uses
-----------------------------------------------------------------------------
InitService ==
    /\ phase = "stopped"
    /\ resources = {}
    /\ idle = [ok |-> 0, dead |-> 0]
    /\ opened = 0
    /\ database = [up |-> TRUE, outages |-> 0]
    /\ requests = [r \in Requests |-> NewRequest]

\* create_app has run and the lifespan reaches its yield.  Nothing is connected
\* yet: the container creates the engine and the Redis client when first asked.
Boot ==
    /\ phase = "stopped"
    /\ phase' = "serving"
    /\ UNCHANGED <<resources, idle, opened, database, requests>>

\* A request reaches the router, or a layer before it turns it away.
Arrive(r, program) ==
    /\ phase = "serving" /\ requests[r].pc = "new"
    /\ r \in Probes => program \in {Liveness, Readiness}
    /\ Becomes(r, [NewRequest EXCEPT !.pc = "run", !.todo = program,
                                     !.outage = ~database.up])
    /\ UNCHANGED <<phase, resources, idle, opened, database>>

\* Mutant: poolclass=NullPool, a connection of its own for every session.
CheckoutNullPool(r) ==
    /\ At(r, "sql") /\ requests[r].conn = "none" /\ Provided("engine")
    /\ IF database.up
       THEN /\ opened' = opened + 1
            /\ Becomes(r, [requests[r] EXCEPT !.conn = "ok"])
       ELSE DatabaseError(r) /\ UNCHANGED opened
    /\ UNCHANGED <<phase, idle, database>>

\* Mutant: create_async_engine without pool_pre_ping.
CheckoutUnchecked(r) ==
    /\ At(r, "sql") /\ requests[r].conn = "none" /\ Provided("engine")
    /\ \/ \E c \in {"ok", "dead"} :
             /\ idle[c] > 0
             /\ idle' = [idle EXCEPT ![c] = @ - 1] /\ UNCHANGED opened
             /\ Becomes(r, [requests[r] EXCEPT !.conn = c])
       \/ /\ idle.ok + idle.dead = 0 /\ opened < Capacity
          /\ IF database.up
             THEN /\ opened' = opened + 1
                  /\ Becomes(r, [requests[r] EXCEPT !.conn = "ok"])
             ELSE DatabaseError(r) /\ UNCHANGED opened
          /\ UNCHANGED idle
    /\ UNCHANGED <<phase, database>>

\* The session's first statement checks a connection out: an idle one first,
\* which pool_pre_ping tests and replaces if it is dead, else a new one.
Checkout(r) ==
    /\ At(r, "sql") /\ requests[r].conn = "none" /\ Provided("engine")
    /\ \/ \E c \in {"ok", "dead"} :
             /\ idle[c] > 0
             /\ IF c = "ok" \/ database.up
                THEN /\ idle' = [idle EXCEPT ![c] = @ - 1]
                     /\ Becomes(r, [requests[r] EXCEPT !.conn = "ok"])
                ELSE DatabaseError(r) /\ UNCHANGED idle
             /\ UNCHANGED opened
       \/ /\ idle.ok + idle.dead = 0 /\ opened < Capacity
          /\ IF database.up
             THEN /\ opened' = opened + 1
                  /\ Becomes(r, [requests[r] EXCEPT !.conn = "ok"])
             ELSE DatabaseError(r) /\ UNCHANGED opened
          /\ UNCHANGED idle
    /\ UNCHANGED <<phase, database>>

\* Waiting for a connection took longer than the pool's timeout.
PoolTimeout(r) ==
    /\ At(r, "sql") /\ requests[r].conn = "none"
    /\ idle.ok + idle.dead = 0 /\ opened = Capacity
    /\ Done(r)
    /\ UNCHANGED <<phase, resources, idle, opened, database>>

\* The SQL of a step, all its statements on the connection the session holds.
Execute(r, tables) ==
    /\ At(r, "sql") /\ requests[r].conn # "none"
    /\ requests[r].conn = "ok" => Uses(r) \subseteq tables
    /\ IF requests[r].conn = "ok"
       THEN /\ \E s \in Advanced(requests[r]) : Becomes(r, s)
            /\ UNCHANGED <<idle, opened>>
       ELSE DatabaseError(r) /\ Return("dead")
    /\ UNCHANGED <<phase, resources, database>>

\* uow.commit(): the session lets go of its connection, also when it rolls back
\* a violated constraint.
Commit(r, tables) ==
    /\ At(r, "commit")
    /\ requests[r].conn = "ok" => Uses(r) \subseteq tables
    /\ IF requests[r].conn = "ok"
       THEN \E s \in Advanced(requests[r]) : Becomes(r, [s EXCEPT !.conn = "none"])
       ELSE DatabaseError(r)
    /\ Return(requests[r].conn)
    /\ UNCHANGED <<phase, resources, database>>

\* PostgreSQL refuses the SQL of a step, or of the flush before a commit, because
\* a table is missing or to break a deadlock: the session rolls back.
StatementFails(r, tables) ==
    /\ At(r, "sql") \/ At(r, "commit")
    /\ requests[r].conn = "ok"
    /\ \/ ~(Uses(r) \subseteq tables) /\ SchemaError(r)
       \/ Uses(r) # {} /\ Done(r)
    /\ Return("ok")
    /\ UNCHANGED <<phase, resources, database>>

\* RedisRateLimiter.check: allowed, refused with 429, or Redis cannot be reached.
CheckLimit(r) ==
    /\ At(r, "redis") /\ Provided("redis")
    /\ \/ \E s \in Advanced(requests[r]) : Becomes(r, s)
       \/ Done(r)
    /\ UNCHANGED <<phase, idle, opened, database>>

\* hash and verify run in a worker thread, once there is one.
StartHash(r) ==
    /\ At(r, "hash") /\ Cardinality(Hashing) < Threads
    /\ Becomes(r, [requests[r] EXCEPT !.pc = "hashing"])
    /\ UNCHANGED <<phase, resources, idle, opened, database>>

\* A thread is not interrupted, not even by a cancellation.
FinishHash(r) ==
    /\ requests[r].pc = "hashing"
    /\ \E s \in Advanced(requests[r]) : Becomes(r, s)
    /\ UNCHANGED <<phase, resources, idle, opened, database>>

\* InProcessEventDispatcher.dispatch; a handler that raises fails the request.
Dispatch(r) ==
    /\ At(r, "events")
    /\ \/ \E s \in Advanced(requests[r]) : Becomes(r, s)
       \/ Done(r)
    /\ UNCHANGED <<phase, resources, idle, opened, database>>

\* Mutant: the session is handed out without its context manager.
RespondUnclosed(r) ==
    /\ Serving /\ requests[r].pc = "run" /\ requests[r].todo = <<>>
    /\ Done(r)
    /\ UNCHANGED <<phase, resources, idle, opened, database>>

\* The response has been sent, for as long as the client took to receive it, and
\* Dishka leaves the request scope: the session is closed, which rolls back and
\* returns the connection it still holds.
Respond(r) ==
    /\ Serving /\ requests[r].pc = "run" /\ requests[r].todo = <<>>
    /\ Return(requests[r].conn)
    /\ Done(r)
    /\ UNCHANGED <<phase, resources, database>>
-----------------------------------------------------------------------------
(* The database and the process.                                           *)

\* The database restarts or cannot be reached: every connection to it is dead.
Outage ==
    /\ phase \notin {"stopped", "exited", "aborted"}
    /\ database.up /\ database.outages < MaxOutages
    /\ database' = [up |-> FALSE, outages |-> database.outages + 1]
    /\ idle' = [ok |-> 0, dead |-> idle.ok + idle.dead]
    /\ requests' = [r \in Requests |->
                      IF r \in InFlight
                      THEN [requests[r] EXCEPT !.outage = TRUE,
                                               !.conn = IF @ = "ok" THEN "dead" ELSE @]
                      ELSE requests[r]]
    /\ UNCHANGED <<phase, resources, opened>>

Recover ==
    /\ ~database.up
    /\ database' = [database EXCEPT !.up = TRUE]
    /\ UNCHANGED <<phase, resources, idle, opened, requests>>

\* SIGTERM: uvicorn stops accepting and waits for the requests in flight.
Terminate ==
    /\ phase = "serving"
    /\ phase' = "draining"
    /\ UNCHANGED <<resources, idle, opened, database, requests>>

\* All of them are done.
Drained ==
    /\ phase = "draining" /\ InFlight = {}
    /\ phase' = "closing"
    /\ UNCHANGED <<resources, idle, opened, database, requests>>

\* --timeout-graceful-shutdown is over: uvicorn cancels the others, which run no
\* further step, and goes on without waiting for them.
GraceOver ==
    /\ phase = "draining" /\ InFlight # {}
    /\ phase' = "aborting"
    /\ requests' = [r \in Requests |->
                      IF r \in InFlight
                      THEN [requests[r] EXCEPT !.outage = FALSE,
                               !.todo = IF r \in Hashing THEN <<Step("hash", {})>> ELSE <<>>]
                      ELSE requests[r]]
    /\ UNCHANGED <<resources, idle, opened, database>>

\* A cancelled request leaves its scope while the container is being closed.
Unwind(r) ==
    /\ phase = "aborting" /\ requests[r].pc = "run"
    /\ Return(requests[r].conn)
    /\ Done(r)
    /\ UNCHANGED <<phase, resources, database>>

\* container.close() after the lifespan's yield: engine.dispose() closes the idle
\* connections, redis.aclose() the client.
Close(resource) ==
    /\ phase \in {"closing", "aborting"} /\ resource \in resources
    /\ resources' = resources \ {resource}
    /\ IF resource = "engine"
       THEN /\ idle' = [ok |-> 0, dead |-> 0]
            /\ opened' = opened - (idle.ok + idle.dead)
       ELSE UNCHANGED <<idle, opened>>
    /\ UNCHANGED <<phase, database, requests>>

\* Mutant: the lifespan does not close the container.
ExitUnclosed ==
    /\ phase = "closing"
    /\ phase' = "exited"
    /\ UNCHANGED <<resources, idle, opened, database, requests>>

\* The shutdown is complete and the process ends.
Exit ==
    /\ phase = "closing" /\ resources = {}
    /\ phase' = "exited"
    /\ UNCHANGED <<resources, idle, opened, database, requests>>

\* The process ends, and with it whatever was cancelled and has not unwound.
Abort ==
    /\ phase = "aborting" /\ resources = {}
    /\ phase' = "aborted"
    /\ idle' = [ok |-> 0, dead |-> 0] /\ opened' = 0
    /\ requests' = [r \in Requests |->
                      IF r \in InFlight THEN [NewRequest EXCEPT !.pc = "done"] ELSE requests[r]]
    /\ UNCHANGED <<resources, database>>
-----------------------------------------------------------------------------
\* A request in flight takes its next step, without waiting for a timeout.
Continue(r, tables) ==
    \/ Checkout(r) \/ Execute(r, tables) \/ Commit(r, tables)
    \/ StatementFails(r, tables) \/ CheckLimit(r)
    \/ StartHash(r) \/ FinishHash(r) \/ Dispatch(r)
    \/ Respond(r) \/ Unwind(r)

\* What the process and its environment do once it has started, on a database
\* with these tables.
Run(tables) ==
    \/ \E r \in Requests : \/ \E program \in Endpoints : Arrive(r, program)
                           \/ Continue(r, tables) \/ PoolTimeout(r)
    \/ Outage \/ Recover \/ Terminate \/ Drained \/ GraceOver \/ Exit \/ Abort
    \/ \E resource \in {"engine", "redis"} : Close(resource)
-----------------------------------------------------------------------------
\* Every variable has its type: the pool holds at most pool_size idle connections
\* and hands out at most pool_size + max_overflow (session.py:27).
ServiceTypeOK ==
    /\ phase \in {"stopped", "serving", "draining", "closing", "aborting", "exited",
                  "aborted"}
    /\ resources \subseteq {"engine", "redis"}
    /\ idle \in [ok : 0..PoolSize, dead : 0..PoolSize]
    /\ opened \in 0..Capacity
    /\ database \in [up : BOOLEAN, outages : 0..MaxOutages]
    /\ \A r \in Requests :
          /\ requests[r].pc \in {"new", "run", "hashing", "done", "DatabaseError", "SchemaError"}
          /\ requests[r].conn \in {"none", "ok", "dead"}
          /\ requests[r].outage \in BOOLEAN

\* The pool never loses a slot: at every await, each slot in use is an idle
\* connection or one that a request in flight still holds, whatever failed, was
\* cancelled or died with the database; and there are never more than
\* pool_size + max_overflow of them, nor more than pool_size idle.
SlotsAccountedFor ==
    /\ opened = idle.ok + idle.dead
                  + Cardinality({r \in InFlight : requests[r].conn # "none"})
    /\ opened <= Capacity /\ idle.ok + idle.dead <= PoolSize

\* A request fails for lack of a database only if the database was away at some
\* moment of that request: connections that died while they were pooled are
\* noticed and replaced (session.py:29, pool_pre_ping), however many there are.
FailuresHaveCause ==
    \A r \in Requests : requests[r].pc = "DatabaseError" => requests[r].outage

\* No request keeps a database connection, and so a slot of the pool, while it
\* waits for Redis or for event handlers: the limiter runs before the session's
\* first statement, and events are dispatched after the commit has released it.
ExternalWaitsHoldNothing ==
    \A r \in Requests :
        (requests[r].todo # <<>> /\ Head(requests[r].todo).on \in {"redis", "events"})
            => requests[r].conn = "none"

\* Every request that arrives is answered, with an error if need be, or cancelled
\* by a shutdown that ran out of time: waiting for pool slots while others wait
\* for threads never becomes a circle, so nobody depends on the pool's timeout.  A
\* request arrives once: it ends if and only if there are times without any.
EveryRequestIsAnswered == []<>(InFlight = {})

\* A shutdown that waited for its requests leaves nothing open: every connection
\* to the database and the Redis client are closed (main.py:60).
CleanShutdown == phase = "exited" => (resources = {} /\ opened = 0)
=============================================================================
