---------------------------- MODULE RateLimiter ----------------------------
(***************************************************************************)
(* RedisRateLimiter.check behind the dependency rate_limit_auth: a counter *)
(* per route and client address, INCRemented by every request, given a     *)
(* TTL by the request that created it, and read with TTL by a request that *)
(* is over the limit.  Each Redis command is atomic; the commands of one   *)
(* check are not, and the process can die between them.                    *)
(*                                                                         *)
(* Time passes in ticks, Second of them a second.  A slot of Requests is   *)
(* one check at a time, and is used again by a later request.              *)
(***************************************************************************)
EXTENDS Integers

CONSTANTS
    Requests,       \* slots for concurrent checks
    Keys,           \* "<path>:<client host>"
    Limit,          \* RateLimitSettings.auth_requests
    WindowSeconds,  \* RateLimitSettings.auth_window_seconds
    Second,         \* ticks in a second
    MaxCount,       \* where the model stops counting: all larger counts act alike
    NULL

ASSUME LimiterAssumption == /\ Limit \in Nat
                            /\ WindowSeconds \in Nat \ {0}
                            /\ Second \in Nat \ {0}
                            /\ MaxCount \in Nat /\ MaxCount > 1 /\ MaxCount > Limit
                            /\ NULL \notin Int
                            /\ NULL \notin Keys

VARIABLES
    counter,  \* Redis: the value at each key, 0 when the key does not exist
    ttl,      \* Redis: ticks until the key is deleted, NULL if it has no expiry
    recent,   \* history: how many checks each key admitted in the last a + 1 ticks
    req       \* per slot: where the check is, and its local variables

vars == <<counter, ttl, recent, req>>

Window == WindowSeconds * Second
Ages == 0..(Window - 1)

\* The two awaits a check can be suspended at, and how it ends.
Awaits == {"expire", "ttl"}
Outcomes == {"allowed", "denied", "error"}

CheckState == [pc : {"idle"} \cup Awaits \cup Outcomes,
               key : Keys \cup {NULL},
               count : Nat,                    \* what INCR returned
               retry : Nat]                    \* retry_after_seconds

Init ==
    /\ counter = [k \in Keys |-> 0]
    /\ ttl = [k \in Keys |-> NULL]
    /\ recent = [k \in Keys |-> [a \in Ages |-> 0]]
    /\ req = [r \in Requests |-> [pc |-> "idle", key |-> NULL, count |-> 0, retry |-> 0]]
-----------------------------------------------------------------------------
\* Mutant: one more than the limit is let through.
OverByOne(count) == count > Limit + 1

\* The comparison that decides.
Over(count) == count > Limit

\* Where a check goes once its counter has a TTL.
Decide(count) == IF Over(count) THEN "ttl" ELSE "allowed"

\* Mutant: the TTL is set by every request, not only by the first.
AfterIncrAlways(count) == "expire"

\* if count == 1: the request that created the counter sets its TTL.
AfterIncr(count) == IF count = 1 THEN "expire" ELSE Decide(count)

\* What INCR returns: 1 when the key did not exist, and from there on up to
\* MaxCount, which is over the limit and is not 1.
Incremented(k) == IF counter[k] < MaxCount THEN counter[k] + 1 ELSE MaxCount

\* INCR, by a new request.
Incr(r, k) ==
    LET count == Incremented(k)
    IN  /\ req[r].pc \notin Awaits
        /\ counter' = [counter EXCEPT ![k] = count]
        /\ recent' = [recent EXCEPT ![k] = IF Over(count) THEN recent[k]
                                           ELSE [a \in Ages |-> recent[k][a] + 1]]
        /\ req' = [req EXCEPT ![r] = [pc |-> AfterIncr(count),
                                      key |-> k, count |-> count, retry |-> 0]]
        /\ UNCHANGED ttl

\* Mutant: the window is taken for minutes.
ExpireMinutes(r) ==
    /\ req[r].pc = "expire"
    /\ ttl' = [ttl EXCEPT ![req[r].key] = IF counter[req[r].key] > 0 THEN 60 * Window ELSE @]
    /\ req' = [req EXCEPT ![r] = [req[r] EXCEPT !.pc = Decide(req[r].count)]]
    /\ UNCHANGED <<counter, recent>>

\* EXPIRE, by the request that created the counter.
Expire(r) ==
    /\ req[r].pc = "expire"
    /\ ttl' = [ttl EXCEPT ![req[r].key] = IF counter[req[r].key] > 0 THEN Window ELSE @]
    /\ req' = [req EXCEPT ![r] = [req[r] EXCEPT !.pc = Decide(req[r].count)]]
    /\ UNCHANGED <<counter, recent>>

\* What the TTL command returns: -2 without the key, -1 without an expiry, and
\* otherwise the remaining time rounded to seconds.
TtlReply(k) ==
    IF counter[k] = 0 THEN -2
    ELSE IF ttl[k] = NULL THEN -1
    ELSE (ttl[k] + (Second \div 2)) \div Second

\* Mutant: the reply is passed on as it is.
RetryAfterRaw(k) == TtlReply(k)

\* max(ttl, 1)
RetryAfter(k) == IF TtlReply(k) > 1 THEN TtlReply(k) ELSE 1

\* TTL, by a request over the limit, and the 429 with its Retry-After.
Ttl(r) ==
    /\ req[r].pc = "ttl"
    /\ req' = [req EXCEPT ![r] = [req[r] EXCEPT !.pc = "denied",
                                                !.retry = RetryAfter(req[r].key)]]
    /\ UNCHANGED <<counter, ttl, recent>>

\* The process dies, its shutdown cancels the request or the Redis connection breaks.
Fail(r) ==
    /\ req[r].pc \in Awaits
    /\ req' = [req EXCEPT ![r] = [req[r] EXCEPT !.pc = "error"]]
    /\ UNCHANGED <<counter, ttl, recent>>

\* Redis deletes k in this tick.
Expires(k) == ttl[k] = 1

\* A tick of Redis' clock.
Tick ==
    /\ counter' = [k \in Keys |-> IF Expires(k) THEN 0 ELSE counter[k]]
    /\ ttl' = [k \in Keys |-> IF ttl[k] = NULL \/ Expires(k) THEN NULL ELSE ttl[k] - 1]
    /\ recent' = [k \in Keys |-> [a \in Ages |-> IF a = 0 THEN 0 ELSE recent[k][a - 1]]]
    /\ UNCHANGED req
-----------------------------------------------------------------------------
Continue(r) == Expire(r) \/ Ttl(r)

Step(r) == Continue(r) \/ \E k \in Keys : Incr(r, k)

Next == Tick \/ \E r \in Requests : Step(r) \/ Fail(r)

Spec == Init /\ [][Next]_vars

\* Time passes, and the event loop resumes every check.
FairSpec == /\ Spec
            /\ WF_vars(Tick)
            /\ \A r \in Requests : WF_vars(Continue(r))

\* No check is cut short.
ReliableNext == Tick \/ \E r \in Requests : Step(r)

ReliableSpec == Init /\ [][ReliableNext]_vars
-----------------------------------------------------------------------------
\* Every variable has its type.
TypeOK ==
    /\ counter \in [Keys -> Nat]
    /\ ttl \in [Keys -> (1..Window) \cup {NULL}]
    /\ recent \in [Keys -> [Ages -> Nat]]
    /\ req \in [Requests -> CheckState]

\* Checks admitted at k within the last Window ticks.
Admitted(k) == recent[k][Window - 1]

\* The burst a fixed window allows, and no more: any period as long as the
\* window, wherever it starts, admits at most twice the limit, however checks
\* interleave and wherever they die.
BurstIsBounded == \A k \in Keys : Admitted(k) <= 2 * Limit

\* A 429 tells the caller to wait at least a second, which
\* tests/integration/test_rate_limit.py:24 asserts, and never longer than a
\* window, also when the key has expired or has no TTL yet when it is read.
RetryAfterInRange ==
    \A r \in Requests : req[r].pc = "denied" => req[r].retry \in 1..WindowSeconds

\* Somebody is about to set the TTL of k.
ExpirePending(k) == \E r \in Requests : req[r].pc = "expire" /\ req[r].key = k

\* "the first hit in a window creates the counter with a TTL"
\* (rate_limiter.py:6): a counter that nobody is about to give a TTL has one, so
\* its window ends.
CounterHasTtl ==
    \A k \in Keys : counter[k] > 0 => ttl[k] # NULL \/ ExpirePending(k)

\* A client that was refused is not refused for ever, once the counter of its key
\* has a TTL: neither more requests nor failed or late checks keep it alive.
LimitIsLifted ==
    \A k \in Keys : (Over(counter[k]) /\ ttl[k] # NULL) ~> counter[k] = 0
=============================================================================
