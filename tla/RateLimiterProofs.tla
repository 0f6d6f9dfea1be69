------------------------- MODULE RateLimiterProofs -------------------------
(***************************************************************************)
(* Proofs about RateLimiter, for any number of concurrent checks and keys, *)
(* any limit and any window.                                               *)
(*                                                                         *)
(* IndInv keeps types and the keys of suspended checks.  BurstInv, for the *)
(* bound on bursts, ties the history of admitted checks to the counter and *)
(* its remaining time.                                                     *)
(***************************************************************************)
EXTENDS RateLimiter, TLAPS

\* A check that is suspended knows its key.
KeyIsKnown == \A r \in Requests : req[r].pc \in Awaits => req[r].key \in Keys

IndInv == TypeOK /\ KeyIsKnown /\ RetryAfterInRange
-----------------------------------------------------------------------------
\* A window lasts at least a tick.
LEMMA WindowType == Window \in Nat \ {0} /\ 0 \in Ages
  <1>1. WindowSeconds \in Nat /\ WindowSeconds > 0 /\ Second \in Nat /\ Second > 0
    BY LimiterAssumption
  <1>2. WindowSeconds * Second \in Nat /\ WindowSeconds * Second > 0
    BY <1>1
  <1> QED
    BY <1>2 DEF Window, Ages

\* A remaining time of at most a window, rounded to seconds, is at most the window.
LEMMA RoundedTtl ==
  ASSUME NEW t \in 1..Window
  PROVE  /\ (t + (Second \div 2)) \div Second \in Int
         /\ (t + (Second \div 2)) \div Second <= WindowSeconds
  <1> DEFINE h == Second \div 2
             q == (t + h) \div Second
  <1>1. WindowSeconds \in Nat /\ WindowSeconds > 0 /\ Second \in Nat /\ Second > 0
    BY LimiterAssumption
  <1>2. h \in Nat /\ h < Second
    BY <1>1
  <1>3. t \in Nat /\ t <= WindowSeconds * Second /\ t + h \in Nat
    BY <1>1, <1>2, WindowType DEF Window
  <1> HIDE DEF h
  <1>4. q \in Int /\ Second * q <= t + h
    BY <1>1, <1>3
  <1> HIDE DEF q
  <1>5. ASSUME q >= WindowSeconds + 1 PROVE FALSE
    <2>1. Second * q >= Second * (WindowSeconds + 1)
      BY <1>1, <1>4, <1>5
    <2>2. Second * (WindowSeconds + 1) = WindowSeconds * Second + Second
      BY <1>1
    <2> QED
      BY <1>1, <1>2, <1>3, <1>4, <2>1, <2>2
  <1> QED
    BY <1>1, <1>4, <1>5 DEF q, h

\* Whatever TTL replies, the answer is a number of seconds within the window.
LEMMA RetryAfterType ==
  ASSUME TypeOK, NEW k \in Keys
  PROVE  RetryAfter(k) \in 1..WindowSeconds
  <1>1. WindowSeconds \in Nat \ {0}
    BY LimiterAssumption
  <1>2. CASE counter[k] = 0 \/ ttl[k] = NULL
    BY <1>1, <1>2 DEF RetryAfter, TtlReply
  <1>3. CASE ~(counter[k] = 0 \/ ttl[k] = NULL)
    <2>1. ttl[k] \in 1..Window
      BY <1>3 DEF TypeOK
    <2>2. TtlReply(k) = (ttl[k] + (Second \div 2)) \div Second
      BY <1>3 DEF TtlReply
    <2>3. TtlReply(k) \in Int /\ TtlReply(k) <= WindowSeconds
      BY <2>1, <2>2, RoundedTtl
    <2> QED
      BY <1>1, <2>3 DEF RetryAfter
  <1> QED
    BY <1>2, <1>3

\* A check that changes only its own state owes that state's type.
LEMMA CheckStep ==
  ASSUME IndInv, NEW r \in Requests, NEW x \in CheckState, req' = [req EXCEPT ![r] = x],
         x.pc \in Awaits => x.key \in Keys,
         x.pc = "denied" => x.retry \in 1..WindowSeconds
  PROVE  req' \in [Requests -> CheckState] /\ KeyIsKnown' /\ RetryAfterInRange'
  <1>1. req' \in [Requests -> CheckState] /\ req'[r] = x
        /\ \A q \in Requests \ {r} : req'[q] = req[q]
    BY DEF IndInv, TypeOK
  <1> QED
    BY <1>1 DEF IndInv, KeyIsKnown, RetryAfterInRange

\* INCR keeps the types: the counter, the history and the new check's state.
LEMMA IncrStep ==
  ASSUME IndInv, NEW r \in Requests, NEW k \in Keys, Incr(r, k)
  PROVE  IndInv'
  <1> DEFINE count == Incremented(k)
             x == [pc |-> AfterIncr(count), key |-> k, count |-> count, retry |-> 0]
  <1>1. counter[k] \in Nat /\ count \in Nat /\ recent[k] \in [Ages -> Nat]
    BY LimiterAssumption DEF IndInv, TypeOK, Incremented
  <1>2. AfterIncr(count) \in {"expire", "ttl", "allowed"}
    BY DEF AfterIncr, Decide
  <1>3. x \in CheckState /\ x.key \in Keys /\ x.pc # "denied"
    BY <1>1, <1>2 DEF CheckState, Awaits, Outcomes
  <1>4. req' = [req EXCEPT ![r] = x]
    BY DEF Incr
  <1>5. counter' \in [Keys -> Nat] /\ ttl' = ttl
    BY <1>1 DEF Incr, IndInv, TypeOK
  <1>6. [a \in Ages |-> recent[k][a] + 1] \in [Ages -> Nat]
    BY <1>1
  <1>7. recent' \in [Keys -> [Ages -> Nat]]
    BY <1>1, <1>6 DEF Incr, IndInv, TypeOK
  <1> HIDE DEF x
  <1> QED
    BY <1>3, <1>4, <1>5, <1>7, CheckStep DEF IndInv, TypeOK

\* EXPIRE keeps the types, and acts on a key.
LEMMA ExpireStep ==
  ASSUME IndInv, NEW r \in Requests, Expire(r)
  PROVE  IndInv' /\ req[r].key \in Keys
  <1> DEFINE x == [req[r] EXCEPT !.pc = Decide(req[r].count)]
  <1>1. req[r] \in CheckState /\ req[r].key \in Keys
    BY DEF IndInv, TypeOK, KeyIsKnown, Expire, Awaits
  <1>2. Decide(req[r].count) \in {"ttl", "allowed"}
    BY DEF Decide
  <1>3. x \in CheckState /\ x.key \in Keys /\ x.pc # "denied"
    BY <1>1, <1>2 DEF CheckState, Awaits, Outcomes
  <1>4. req' = [req EXCEPT ![r] = x] /\ counter' = counter /\ recent' = recent
    BY DEF Expire
  <1>5. ttl' \in [Keys -> (1..Window) \cup {NULL}]
    BY <1>1, WindowType DEF Expire, IndInv, TypeOK
  <1> HIDE DEF x
  <1> QED
    BY <1>1, <1>3, <1>4, <1>5, CheckStep DEF IndInv, TypeOK

\* TTL and the 429 keep the types, and the answer is in range.
LEMMA TtlStep ==
  ASSUME IndInv, NEW r \in Requests, Ttl(r)
  PROVE  IndInv'
  <1> DEFINE x == [req[r] EXCEPT !.pc = "denied", !.retry = RetryAfter(req[r].key)]
  <1>1. req[r] \in CheckState /\ req[r].key \in Keys
    BY DEF IndInv, TypeOK, KeyIsKnown, Ttl, Awaits
  <1>2. RetryAfter(req[r].key) \in 1..WindowSeconds /\ WindowSeconds \in Nat
    BY <1>1, RetryAfterType, LimiterAssumption DEF IndInv
  <1>3. x \in CheckState /\ x.pc = "denied" /\ x.retry \in 1..WindowSeconds
    <2> DEFINE a == RetryAfter(req[r].key)
    <2>1. a \in Nat
      BY <1>2
    <2>2. x = [req[r] EXCEPT !.pc = "denied", !.retry = a] /\ a \in 1..WindowSeconds
      BY <1>2
    <2> HIDE DEF a, x
    <2> QED
      BY <1>1, <2>1, <2>2 DEF CheckState, Outcomes
  <1>4. req' = [req EXCEPT ![r] = x] /\ UNCHANGED <<counter, ttl, recent>>
    BY DEF Ttl
  <1> HIDE DEF x
  <1> QED
    BY <1>3, <1>4, CheckStep DEF IndInv, TypeOK, Awaits

\* A failure only ends the check.
LEMMA FailStep ==
  ASSUME IndInv, NEW r \in Requests, Fail(r)
  PROVE  IndInv'
  <1> DEFINE x == [req[r] EXCEPT !.pc = "error"]
  <1>1. x \in CheckState /\ x.pc = "error"
    BY DEF IndInv, TypeOK, CheckState, Outcomes
  <1>2. req' = [req EXCEPT ![r] = x] /\ UNCHANGED <<counter, ttl, recent>>
    BY DEF Fail
  <1> HIDE DEF x
  <1> QED
    BY <1>1, <1>2, CheckStep DEF IndInv, TypeOK, Awaits

\* A tick shortens the TTLs and ages the history, within their ranges.
LEMMA TickStep ==
  ASSUME IndInv, Tick
  PROVE  IndInv'
  <1>1. counter' \in [Keys -> Nat]
    BY DEF Tick, IndInv, TypeOK
  <1>2. ttl' \in [Keys -> (1..Window) \cup {NULL}]
    BY WindowType DEF Tick, IndInv, TypeOK, Expires
  <1>3. ASSUME NEW k \in Keys, NEW a \in Ages
        PROVE  (IF a = 0 THEN 0 ELSE recent[k][a - 1]) \in Nat
    BY <1>3, WindowType DEF Ages, IndInv, TypeOK
  <1>4. recent' \in [Keys -> [Ages -> Nat]]
    BY <1>3 DEF Tick
  <1> QED
    BY <1>1, <1>2, <1>4 DEF Tick, IndInv, TypeOK, KeyIsKnown, RetryAfterInRange
-----------------------------------------------------------------------------
\* The inductive invariant holds in every reachable state, failures included.
THEOREM LimiterInvariance == Spec => []IndInv
  <1>1. Init => IndInv
    BY WindowType DEF Init, IndInv, TypeOK, KeyIsKnown, RetryAfterInRange, CheckState, Awaits
  <1>2. IndInv /\ [Next]_vars => IndInv'
    <2> SUFFICES ASSUME IndInv, [Next]_vars PROVE IndInv'
      OBVIOUS
    <2>1. CASE UNCHANGED vars
      BY <2>1 DEF IndInv, TypeOK, KeyIsKnown, RetryAfterInRange, vars
    <2>2. CASE Next
      BY <2>2, TickStep, IncrStep, ExpireStep, TtlStep, FailStep DEF Next, Step, Continue
    <2> QED
      BY <2>1, <2>2
  <1> QED
    BY <1>1, <1>2, PTL DEF Spec

\* Every Retry-After is between one second and the window, whatever TTL replied.
THEOREM RetryAfterBounded == Spec => []RetryAfterInRange
  <1>1. IndInv => RetryAfterInRange
    BY DEF IndInv
  <1> QED
    BY <1>1, LimiterInvariance, PTL

\* Every variable has its type, however many checks run and wherever they die.
THEOREM LimiterTypes == Spec => []TypeOK
  <1>1. IndInv => TypeOK
    BY DEF IndInv
  <1> QED
    BY <1>1, LimiterInvariance, PTL
-----------------------------------------------------------------------------
(* The burst.  A counter lives for at least a window, so a period as long  *)
(* as the window meets the lives of at most two.                           *)

\* What a counter with this value has let through.
Passed(count) == IF Over(count) THEN Limit ELSE count

\* Of the checks admitted in the last Window ticks, the present counter has let
\* through what it counts, and the one before it at most the limit; a counter with
\* t ticks to go has lived for the Window - t ticks before.
BurstInv(k) ==
    /\ counter[k] = 0 => ttl[k] = NULL
    /\ \A a \in Ages : a > 0 => recent[k][a - 1] <= recent[k][a]
    /\ recent[k][Window - 1] <= Limit + Passed(counter[k])
    /\ \A t \in 1..(Window - 1) : ttl[k] = t => recent[k][Window - t - 1] <= Passed(counter[k])

\* INCR counts what it admits.
LEMMA PassedIncr ==
  ASSUME NEW n \in Nat, NEW m \in Nat, m = IF n < MaxCount THEN n + 1 ELSE MaxCount
  PROVE  /\ Passed(n) \in Nat /\ Passed(m) \in Nat /\ m > 0
         /\ ~Over(m) => Passed(m) = Passed(n) + 1
         /\ Passed(n) <= Passed(m)
         /\ Passed(n) <= Limit
  BY LimiterAssumption DEF Passed, Over

\* A check that is admitted adds one to what its counter has let through.
LEMMA IncrBurst ==
  ASSUME IndInv, \A j \in Keys : BurstInv(j), NEW r \in Requests, NEW k \in Keys, Incr(r, k)
  PROVE  \A j \in Keys : BurstInv(j)'
  <1> DEFINE n == counter[k]
             m == Incremented(k)
  <1>1. /\ n \in Nat /\ m \in Nat /\ m = (IF n < MaxCount THEN n + 1 ELSE MaxCount)
        /\ recent[k] \in [Ages -> Nat] /\ Limit \in Nat
    BY LimiterAssumption DEF IndInv, TypeOK, Incremented
  <1>2. /\ counter'[k] = m /\ ttl' = ttl
        /\ recent'[k] = IF Over(m) THEN recent[k] ELSE [a \in Ages |-> recent[k][a] + 1]
        /\ \A j \in Keys \ {k} : counter'[j] = counter[j] /\ recent'[j] = recent[j]
    BY DEF Incr, IndInv, TypeOK
  <1> HIDE DEF m, n
  <1>3. /\ Passed(n) \in Nat /\ Passed(m) \in Nat /\ m > 0
        /\ ~Over(m) => Passed(m) = Passed(n) + 1
        /\ Passed(n) <= Passed(m)
    BY <1>1, PassedIncr
  <1>4. ASSUME NEW j \in Keys \ {k} PROVE BurstInv(j)'
    BY <1>2 DEF BurstInv
  <1>5. BurstInv(k)'
    <2>1. \A a \in Ages : /\ recent[k][a] \in Nat /\ recent'[k][a] \in Nat
                          /\ recent'[k][a] = recent[k][a] + (IF Over(m) THEN 0 ELSE 1)
      BY <1>1, <1>2
    <2>2. /\ \A a \in Ages : a > 0 => recent[k][a - 1] <= recent[k][a]
          /\ recent[k][Window - 1] <= Limit + Passed(n)
          /\ \A t \in 1..(Window - 1) : ttl[k] = t => recent[k][Window - t - 1] <= Passed(n)
      BY DEF BurstInv, n
    <2>3. ASSUME NEW a \in Ages, NEW bound \in Nat, recent[k][a] <= bound + Passed(n)
          PROVE  recent'[k][a] <= bound + Passed(m)
      BY <1>3, <2>1, <2>3
    <2>4. Window \in Nat /\ Window > 0 /\ Window - 1 \in Ages
          /\ (\A t \in 1..(Window - 1) : Window - t - 1 \in Ages)
          /\ (\A a \in Ages : a > 0 => a - 1 \in Ages)
      BY WindowType DEF Ages
    <2>5. recent'[k][Window - 1] <= Limit + Passed(m)
      BY <1>1, <2>2, <2>3, <2>4
    <2>6. ASSUME NEW t \in 1..(Window - 1), ttl[k] = t
          PROVE  recent'[k][Window - t - 1] <= Passed(m)
      <3>1. Window - t - 1 \in Ages /\ recent[k][Window - t - 1] <= Passed(n)
        BY <2>2, <2>4, <2>6
      <3>2. recent'[k][Window - t - 1] <= 0 + Passed(m)
        BY <1>3, <2>1, <2>3, <3>1
      <3> QED
        BY <1>3, <3>2
    <2>7. \A a \in Ages : a > 0 => recent'[k][a - 1] <= recent'[k][a]
      BY <2>1, <2>2, <2>4
    <2>8. counter'[k] # 0
      BY <1>1, <1>2, <1>3
    <2> QED
      BY <1>2, <2>5, <2>6, <2>7, <2>8 DEF BurstInv
  <1> QED
    BY <1>4, <1>5

\* EXPIRE only ever makes a life longer.
LEMMA ExpireBurst ==
  ASSUME IndInv, \A j \in Keys : BurstInv(j), NEW r \in Requests, Expire(r)
  PROVE  \A j \in Keys : BurstInv(j)'
  <1> SUFFICES ASSUME NEW j \in Keys PROVE BurstInv(j)'
    OBVIOUS
  <1>1. /\ counter' = counter /\ recent' = recent
        /\ ttl'[j] = ttl[j] \/ (counter[j] > 0 /\ ttl'[j] = Window)
    BY ExpireStep DEF Expire, IndInv, TypeOK
  <1>2. CASE ttl'[j] = ttl[j]
    BY <1>1, <1>2 DEF BurstInv
  <1>3. CASE counter[j] > 0 /\ ttl'[j] = Window
    <2>1. counter[j] # 0 /\ \A t \in 1..(Window - 1) : Window # t
      BY <1>3, WindowType DEF IndInv, TypeOK
    <2> QED
      BY <1>1, <1>3, <2>1 DEF BurstInv
  <1> QED
    BY <1>1, <1>2, <1>3

\* A tick ages the checks by as much as it shortens the life; a counter that is
\* deleted leaves no more behind than it has let through itself.
LEMMA TickBurst ==
  ASSUME IndInv, \A j \in Keys : BurstInv(j), Tick
  PROVE  \A j \in Keys : BurstInv(j)'
  <1> SUFFICES ASSUME NEW k \in Keys PROVE BurstInv(k)'
    OBVIOUS
  <1> DEFINE n == counter[k]
             old == recent[k]
             new == recent'[k]
  <1>1. n \in Nat /\ old \in [Ages -> Nat] /\ Limit \in Nat /\ MaxCount \in Nat
    BY LimiterAssumption DEF IndInv, TypeOK
  <1>2. Window \in Nat /\ Window > 0 /\ Window - 1 \in Ages
    BY WindowType DEF Ages
  <1>3. \A a \in Ages : new[a] = IF a = 0 THEN 0 ELSE old[a - 1]
    BY DEF Tick
  <1>4. /\ \A a \in Ages : a > 0 => old[a - 1] <= old[a]
        /\ old[Window - 1] <= Limit + Passed(n)
        /\ \A t \in 1..(Window - 1) : ttl[k] = t => old[Window - t - 1] <= Passed(n)
        /\ n = 0 => ttl[k] = NULL
    BY DEF BurstInv
  <1>5. /\ counter'[k] = IF Expires(k) THEN 0 ELSE n
        /\ ttl'[k] = IF ttl[k] = NULL \/ Expires(k) THEN NULL ELSE ttl[k] - 1
    BY DEF Tick
  <1> HIDE DEF n, old, new
  <1>6. Passed(n) \in Nat /\ Passed(n) <= Limit /\ Passed(0) = 0
    <2>1. Passed(n) \in Nat /\ Passed(n) <= Limit
      BY <1>1 DEF Passed, Over
    <2>2. Passed(0) = 0
      BY <1>1 DEF Passed, Over
    <2> QED
      BY <2>1, <2>2
  <1>7. \A a \in Ages : /\ old[a] \in Nat /\ new[a] \in Nat
                        /\ a > 0 => a - 1 \in Ages /\ new[a] = old[a - 1]
                        /\ a = 0 => new[a] = 0
    BY <1>1, <1>2, <1>3 DEF Ages
  <1>8. \A a \in Ages : a > 0 => new[a - 1] <= new[a]
    <2> SUFFICES ASSUME NEW a \in Ages, a > 0 PROVE new[a - 1] <= new[a]
      OBVIOUS
    <2>1. a - 1 \in Ages /\ new[a] = old[a - 1] /\ old[a - 1] \in Nat
      BY <1>7
    <2>2. CASE a - 1 = 0
      BY <1>7, <2>1, <2>2
    <2>3. CASE a - 1 # 0
      <3>1. a - 1 > 0
        BY <2>1, <2>3 DEF Ages
      <3>2. new[a - 1] = old[a - 1 - 1] /\ old[a - 1 - 1] <= old[a - 1]
        BY <1>4, <1>7, <2>1, <3>1
      <3> QED
        BY <2>1, <3>2
    <2> QED
      BY <2>2, <2>3
  <1>9. CASE Expires(k)
    <2>1. counter'[k] = 0 /\ ttl'[k] = NULL /\ ttl[k] = 1
      BY <1>5, <1>9 DEF Expires
    <2>2. new[Window - 1] <= Limit
      <3>1. CASE Window - 1 = 0
        BY <1>1, <1>2, <1>7, <3>1
      <3>2. CASE Window - 1 # 0
        <4>1. 1 \in 1..(Window - 1) /\ Window - 1 > 0
          BY <1>2, <3>2
        <4>2. new[Window - 1] = old[Window - 1 - 1] /\ old[Window - 1 - 1] \in Nat
          BY <1>2, <1>7, <4>1
        <4>3. old[Window - 1 - 1] <= Passed(n)
          BY <1>4, <2>1, <4>1
        <4> QED
          BY <1>1, <1>6, <4>2, <4>3
      <3> QED
        BY <3>1, <3>2
    <2>3. \A t \in 1..(Window - 1) : ttl'[k] # t
      <3>1. \A t \in 1..(Window - 1) : t \in Int
        BY <1>2
      <3> QED
        BY <2>1, <3>1, LimiterAssumption
    <2>4. new[Window - 1] <= Limit + Passed(0)
      BY <1>1, <1>6, <2>2
    <2> QED
      BY <1>8, <2>1, <2>3, <2>4 DEF BurstInv, new
  <1>10. CASE ~Expires(k)
    <2>1. counter'[k] = n
      BY <1>5, <1>10
    <2>2. new[Window - 1] <= Limit + Passed(n)
      <3>1. CASE Window - 1 = 0
        BY <1>1, <1>2, <1>6, <1>7, <3>1
      <3>2. CASE Window - 1 # 0
        <4>1. Window - 1 > 0
          BY <1>2, <3>2
        <4>2. new[Window - 1] = old[Window - 1 - 1] /\ old[Window - 1 - 1] <= old[Window - 1]
              /\ old[Window - 1 - 1] \in Nat /\ old[Window - 1] \in Nat
          BY <1>2, <1>4, <1>7, <4>1
        <4> QED
          BY <1>1, <1>4, <1>6, <4>2
      <3> QED
        BY <3>1, <3>2
    <2>3. n = 0 => ttl'[k] = NULL
      BY <1>4, <1>5
    <2>4. ASSUME NEW t \in 1..(Window - 1), ttl'[k] = t
          PROVE  new[Window - t - 1] <= Passed(n)
      <3>1. t \in Int /\ t # NULL
        BY <1>2, LimiterAssumption
      <3>2. ttl[k] # NULL /\ ttl'[k] = ttl[k] - 1
        BY <1>5, <1>10, <2>4, <3>1
      <3>3. ttl[k] \in 1..Window
        BY <3>2 DEF IndInv, TypeOK
      <3>4. PICK u \in 1..Window : ttl[k] = u
        BY <3>3
      <3>5. u = t + 1
        BY <1>2, <2>4, <3>2, <3>4
      <3>6. CASE t = Window - 1
        <4>1. Window - t - 1 = 0
          BY <1>2, <3>6
        <4>2. 0 \in Ages
          BY <1>2 DEF Ages
        <4>3. new[0] = 0
          BY <1>7, <4>2
        <4> QED
          BY <1>6, <4>1, <4>3
      <3>7. CASE t # Window - 1
        <4>1. u \in 1..(Window - 1) /\ Window - t - 1 \in Ages /\ Window - t - 1 > 0
          BY <1>2, <3>5, <3>7 DEF Ages
        <4>2. new[Window - t - 1] = old[Window - t - 1 - 1]
          BY <1>7, <4>1
        <4>3. Window - t - 1 - 1 = Window - u - 1
          BY <1>2, <3>5
        <4>4. old[Window - u - 1] <= Passed(n)
          BY <1>4, <3>4, <4>1
        <4> QED
          BY <4>2, <4>3, <4>4
      <3> QED
        BY <3>6, <3>7
    <2> QED
      BY <1>8, <2>1, <2>2, <2>3, <2>4 DEF BurstInv, new
  <1> QED
    BY <1>9, <1>10

\* Any period as long as the window admits at most twice the limit, however checks
\* interleave, wherever they die and however late an EXPIRE comes
\* (RedisRateLimiter.check).
THEOREM BurstsAreBounded == Spec => []BurstIsBounded
  <1> DEFINE Inv == IndInv /\ \A k \in Keys : BurstInv(k)
  <1>1. Init => Inv
    <2> SUFFICES ASSUME Init PROVE Inv
      OBVIOUS
    <2>1. IndInv
      BY WindowType DEF Init, IndInv, TypeOK, KeyIsKnown, RetryAfterInRange, CheckState, Awaits
    <2>2. ASSUME NEW k \in Keys PROVE BurstInv(k)
      <3>1. /\ counter[k] = 0 /\ ttl[k] = NULL /\ \A a \in Ages : recent[k][a] = 0
            /\ Limit \in Nat
        BY LimiterAssumption DEF Init
      <3>2. Window \in Nat /\ Window > 0 /\ Window - 1 \in Ages
            /\ (\A a \in Ages : a > 0 => a - 1 \in Ages)
        BY WindowType DEF Ages
      <3>3. Passed(0) = 0
        BY <3>1 DEF Passed, Over
      <3>4. \A t \in 1..(Window - 1) : t \in Int
        BY <3>2
      <3>5. \A t \in 1..(Window - 1) : ttl[k] # t
        BY <3>1, <3>4, LimiterAssumption
      <3> QED
        BY <3>1, <3>2, <3>3, <3>5 DEF BurstInv
    <2> QED
      BY <2>1, <2>2
  <1>2. Inv /\ [Next]_vars => Inv'
    <2> SUFFICES ASSUME Inv, [Next]_vars PROVE Inv'
      OBVIOUS
    <2>1. ASSUME UNCHANGED <<counter, ttl, recent>> PROVE \A k \in Keys : BurstInv(k)'
      BY <2>1 DEF BurstInv
    <2>2. CASE UNCHANGED vars
      <3>1. IndInv'
        BY <2>2 DEF IndInv, TypeOK, KeyIsKnown, RetryAfterInRange, vars
      <3> QED
        BY <2>1, <2>2, <3>1 DEF vars
    <2>3. CASE Tick
      BY <2>3, TickStep, TickBurst
    <2>4. ASSUME NEW r \in Requests, Step(r) \/ Fail(r) PROVE Inv'
      <3>1. CASE Ttl(r) \/ Fail(r)
        <4>1. UNCHANGED <<counter, ttl, recent>>
          BY <3>1 DEF Ttl, Fail
        <4> QED
          BY <2>1, <3>1, <4>1, TtlStep, FailStep
      <3>2. CASE Expire(r)
        BY <3>2, ExpireStep, ExpireBurst
      <3>3. ASSUME NEW k \in Keys, Incr(r, k) PROVE Inv'
        BY <3>3, IncrStep, IncrBurst
      <3> QED
        BY <2>4, <3>1, <3>2, <3>3 DEF Step, Continue
    <2> QED
      BY <2>2, <2>3, <2>4 DEF Next
  <1>3. Inv => BurstIsBounded
    <2> SUFFICES ASSUME Inv, NEW k \in Keys PROVE Admitted(k) <= 2 * Limit
      BY DEF BurstIsBounded
    <2>1. recent[k][Window - 1] <= Limit + Passed(counter[k]) /\ counter[k] \in Nat
          /\ recent[k] \in [Ages -> Nat]
      BY DEF BurstInv, IndInv, TypeOK
    <2>2. Limit \in Nat /\ Passed(counter[k]) \in Nat /\ Passed(counter[k]) <= Limit
      BY <2>1, LimiterAssumption DEF Passed, Over
    <2>3. recent[k][Window - 1] \in Nat
      BY <2>1, WindowType DEF Ages
    <2> QED
      BY <2>1, <2>2, <2>3 DEF Admitted
  <1> QED
    BY <1>1, <1>2, <1>3, PTL DEF Spec
-----------------------------------------------------------------------------
(* Without failures, a counter never outlives its window.                  *)

\* A counter that INCR creates has its creator about to set the TTL.
LEMMA IncrKeepsTtl ==
  ASSUME IndInv, CounterHasTtl, NEW r \in Requests, NEW k \in Keys, Incr(r, k)
  PROVE  CounterHasTtl'
  <1>1. counter[k] \in Nat /\ ttl' = ttl
    BY DEF IndInv, TypeOK, Incr
  <1>2. \A j \in Keys \ {k} : counter'[j] = counter[j]
    BY DEF IndInv, TypeOK, Incr
  <1>3. \A q \in Requests \ {r} : req'[q] = req[q]
    BY DEF IndInv, TypeOK, Incr
  <1>4. \A j \in Keys : ExpirePending(j) => ExpirePending(j)'
    BY <1>3 DEF ExpirePending, Incr, Awaits
  <1>5. counter[k] = 0 => ExpirePending(k)'
    <2>1. counter[k] = 0 => Incremented(k) = 1
      BY LimiterAssumption DEF Incremented
    <2> QED
      BY <2>1 DEF ExpirePending, Incr, AfterIncr, IndInv, TypeOK
  <1> QED
    BY <1>1, <1>2, <1>4, <1>5 DEF CounterHasTtl

\* EXPIRE sets the TTL of its own key and leaves the others' creators alone.
LEMMA ExpireKeepsTtl ==
  ASSUME IndInv, CounterHasTtl, NEW r \in Requests, Expire(r)
  PROVE  CounterHasTtl'
  <1> DEFINE k == req[r].key
  <1>1. k \in Keys /\ counter' = counter /\ Window # NULL
    <2>1. Window \in Int
      BY WindowType
    <2>2. k \in Keys
      BY ExpireStep
    <2> QED
      BY <2>1, <2>2, LimiterAssumption DEF Expire
  <1>2. counter[k] > 0 => ttl'[k] = Window
    BY <1>1 DEF Expire, IndInv, TypeOK
  <1>3. \A j \in Keys \ {k} : ttl'[j] = ttl[j]
    BY DEF Expire, IndInv, TypeOK
  <1>4. \A q \in Requests \ {r} : req'[q] = req[q]
    BY DEF Expire, IndInv, TypeOK
  <1>5. \A j \in Keys \ {k} : ExpirePending(j) => ExpirePending(j)'
    BY <1>4 DEF ExpirePending
  <1> QED
    BY <1>1, <1>2, <1>3, <1>5 DEF CounterHasTtl

\* Reading a TTL changes none.
LEMMA TtlKeepsTtl ==
  ASSUME IndInv, CounterHasTtl, NEW r \in Requests, Ttl(r)
  PROVE  CounterHasTtl'
  <1>1. UNCHANGED <<counter, ttl>> /\ \A q \in Requests \ {r} : req'[q] = req[q]
    BY DEF Ttl, IndInv, TypeOK
  <1>2. \A j \in Keys : ExpirePending(j) => ExpirePending(j)'
    BY <1>1 DEF ExpirePending, Ttl
  <1> QED
    BY <1>1, <1>2 DEF CounterHasTtl

\* A tick deletes a counter before it could be left without TTL.
LEMMA TickKeepsTtl ==
  ASSUME IndInv, CounterHasTtl, Tick
  PROVE  CounterHasTtl'
  <1>1. \A j \in Keys : ExpirePending(j)' = ExpirePending(j)
    BY DEF ExpirePending, Tick
  <1>2. ASSUME NEW j \in Keys, counter'[j] > 0, ttl[j] # NULL PROVE ttl'[j] # NULL
    <2>1. ~Expires(j) /\ ttl[j] \in 1..Window
      BY <1>2 DEF Tick, IndInv, TypeOK
    <2>2. ttl'[j] = ttl[j] - 1
      BY <1>2, <2>1 DEF Tick
    <2>3. ttl[j] - 1 \in Int
      BY <2>1, WindowType
    <2> QED
      BY <2>2, <2>3, LimiterAssumption
  <1>3. \A j \in Keys : counter'[j] > 0 => counter[j] > 0
    BY DEF Tick, IndInv, TypeOK
  <1> QED
    BY <1>1, <1>2, <1>3 DEF CounterHasTtl

\* If no check is cut short, the first hit of a window gives the counter its TTL:
\* no interleaving of INCR and EXPIRE leaves a key refused for ever.
THEOREM CountersExpire == ReliableSpec => []CounterHasTtl
  <1> DEFINE Inv == IndInv /\ CounterHasTtl
  <1>1. Init => Inv
    <2>1. Init => IndInv
      BY WindowType DEF Init, IndInv, TypeOK, KeyIsKnown, RetryAfterInRange, CheckState, Awaits
    <2> QED
      BY <2>1 DEF Init, CounterHasTtl
  <1>2. Inv /\ [ReliableNext]_vars => Inv'
    <2> SUFFICES ASSUME Inv, [ReliableNext]_vars PROVE Inv'
      OBVIOUS
    <2>1. CASE UNCHANGED vars
      BY <2>1 DEF IndInv, TypeOK, KeyIsKnown, RetryAfterInRange, CounterHasTtl,
                  ExpirePending, vars
    <2>2. CASE Tick
      BY <2>2, TickStep, TickKeepsTtl
    <2>3. ASSUME NEW r \in Requests, Step(r) PROVE Inv'
      BY <2>3, IncrStep, ExpireStep, TtlStep, IncrKeepsTtl, ExpireKeepsTtl, TtlKeepsTtl
         DEF Step, Continue
    <2> QED
      BY <2>1, <2>2, <2>3 DEF ReliableNext
  <1> QED
    BY <1>1, <1>2, PTL DEF ReliableSpec
=============================================================================
