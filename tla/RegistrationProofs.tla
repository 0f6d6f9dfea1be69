------------------------- MODULE RegistrationProofs -------------------------
(***************************************************************************)
(* Proofs about Registration, for any number of registrations, mailboxes   *)
(* and event handlers.                                                     *)
(*                                                                         *)
(* The inductive invariant says what each request has achieved (Sound) and *)
(* that no two requests hold a claim to one email, a claim being a         *)
(* committed row or an index entry of a transaction in flight.             *)
(***************************************************************************)
EXTENDS Registration, TLAPS

\* Request r has its email's entry in the unique index.
Claims(r) == Stored(r) \/ req[r].pc = "commit"

\* r's row and email agree, and both are in normal form.
RowIsOwn(r) ==
    /\ Stored(r) => rows[r] = req[r].email /\ req[r].pc \in {"dispatch", "ok", "error"}
    /\ req[r].pc \in {"dispatch", "ok"} => Stored(r)
    /\ req[r].email # NULL => req[r].email.form = "normal"
    /\ req[r].pc \in Awaits \cup {"EmailAlreadyExists"} => req[r].email # NULL

\* How far r's event has come.
EventIsOwn(r) ==
    /\ req[r].events \in {<<>>, <<r>>}
    /\ req[r].pc \in {"flush", "commit"} => req[r].events = <<r>> /\ req[r].next = 1
    /\ req[r].pc = "dispatch" =>
          IF req[r].events = <<>> THEN Len(delivered[r]) = Handlers
          ELSE req[r].next \in 1..Handlers /\ Len(delivered[r]) = req[r].next - 1
    /\ req[r].pc \notin {"dispatch", "ok", "error"} => delivered[r] = <<>>
    /\ req[r].pc = "hash" => req[r].next = 1
    /\ req[r].pc \in {"idle", "exists_by_email"} => req[r].next = 1

\* A duplicate was refused because of a committed row.
RefusalIsReal(r) ==
    req[r].pc = "EmailAlreadyExists" => \E u \in Requests \ {r} : rows[u] = req[r].email

Sound(r) == RowIsOwn(r) /\ EventIsOwn(r) /\ DeliveredInOrder(r) /\ RefusalIsReal(r)

ClaimsDiffer ==
    \A u, v \in Requests : (/\ Claims(u) /\ Claims(v)
                            /\ req[u].email = req[v].email) => u = v

IndInv == TypeOK /\ ClaimsDiffer /\ \A r \in Requests : Sound(r)

\* Committed rows stay as they are.
RowsStay == \A u \in Requests : Stored(u) => rows'[u] = rows[u]
-----------------------------------------------------------------------------
\* No request has been made.
LEMMA IndInvInit == Init => IndInv
  <1> SUFFICES ASSUME Init PROVE IndInv
    OBVIOUS
  <1>1. <<>> \in Seq(Requests) /\ <<>> \in Seq(Nat) /\ Len(<<>>) = 0
    OBVIOUS
  <1>2. TypeOK
    BY <1>1 DEF Init, TypeOK, RequestState
  <1>3. \A r \in Requests : ~Stored(r) /\ req[r].pc = "idle" /\ req[r].email = NULL
                            /\ req[r].events = <<>> /\ req[r].next = 1
                            /\ delivered[r] = <<>>
    BY DEF Init, Stored
  <1>4. ClaimsDiffer
    BY <1>3 DEF ClaimsDiffer, Claims
  <1>5. ASSUME NEW r \in Requests PROVE Sound(r)
    <2>1. RowIsOwn(r) /\ EventIsOwn(r) /\ RefusalIsReal(r)
      BY <1>3 DEF RowIsOwn, EventIsOwn, RefusalIsReal, Awaits
    <2>2. DeliveredInOrder(r)
      BY <1>1, <1>3, RegistrationAssumption DEF DeliveredInOrder
    <2> QED
      BY <2>1, <2>2 DEF Sound
  <1> QED
    BY <1>2, <1>4, <1>5 DEF IndInv

\* What is known of a request survives the steps of others: it reads nothing of
\* theirs but rows, and rows stay.
LEMMA Frame ==
  ASSUME NEW q \in Requests, Sound(q), RowsStay, RegistrationAssumption, TypeOK,
         req'[q] = req[q], delivered'[q] = delivered[q], rows'[q] = rows[q]
  PROVE  Sound(q)'
  <1>1. RowIsOwn(q)' /\ EventIsOwn(q)' /\ DeliveredInOrder(q)'
    BY DEF Sound, RowIsOwn, EventIsOwn, DeliveredInOrder, Stored
  <1>2. ASSUME req[q].pc = "EmailAlreadyExists" PROVE RefusalIsReal(q)'
    <2>1. PICK u \in Requests \ {q} : rows[u] = req[q].email
      BY <1>2 DEF Sound, RefusalIsReal
    <2>2. Stored(u)
      BY <2>1, <1>2 DEF Stored, Sound, RowIsOwn
    <2> QED
      BY <2>1, <2>2 DEF RowsStay, RefusalIsReal
  <1>3. RefusalIsReal(q)'
    BY <1>2 DEF RefusalIsReal
  <1> QED
    BY <1>1, <1>3 DEF Sound

\* A step in a request's own memory owes the type of its new state, what is known
\* of it, and that it claims an email nobody else claims.
LEMMA LocalStep ==
  ASSUME IndInv, NEW r \in Requests, NEW x \in RequestState, Local(r, x), Sound(r)',
         x.pc = "commit" => \A q \in Requests \ {r} : Claims(q) => req[q].email # x.email,
         Stored(r) => x.email = req[r].email
  PROVE  IndInv'
  <1>1. TypeOK' /\ req'[r] = x /\ rows' = rows /\ delivered' = delivered
    BY DEF IndInv, TypeOK, Local
  <1>2. \A q \in Requests \ {r} : req'[q] = req[q]
    BY DEF IndInv, TypeOK, Local
  <1>3. \A q \in Requests \ {r} : Sound(q)'
    BY <1>1, <1>2, Frame, RegistrationAssumption DEF IndInv, RowsStay
  <1>4. \A q \in Requests : Stored(q)' = Stored(q)
    BY <1>1 DEF Stored
  <1>5. ClaimsDiffer'
    BY <1>1, <1>2, <1>4 DEF IndInv, ClaimsDiffer, Claims
  <1> QED
    BY <1>1, <1>3, <1>5 DEF IndInv
-----------------------------------------------------------------------------
\* Handlers is a number, and every request's state has its type.
LEMMA Typed ==
  ASSUME IndInv, NEW r \in Requests
  PROVE  /\ req[r] \in RequestState /\ delivered[r] \in Seq(Nat) /\ Sound(r)
         /\ Handlers \in Nat \ {0}
  BY RegistrationAssumption DEF IndInv, TypeOK

\* The email is normalised, or the request refused.
LEMMA RegisterStep ==
  ASSUME IndInv, NEW r \in Requests, NEW s \in Spellings \cup {NULL}, Register(r, s)
  PROVE  IndInv'
  <1>1. req[r] \in RequestState /\ Sound(r) /\ ~Stored(r)
    BY Typed DEF Register, Sound, RowIsOwn
  <1>2. CASE s = NULL
    <2> DEFINE x == [req[r] EXCEPT !.pc = "ValidationError"]
    <2>1. x \in RequestState /\ Local(r, x)
      BY <1>1, <1>2 DEF RequestState, Register, Outcomes
    <2>2. req'[r] = x /\ rows' = rows /\ delivered' = delivered
      BY <2>1 DEF Local, IndInv, TypeOK
    <2>3. Sound(r)'
      BY <1>1, <2>2 DEF Sound, RowIsOwn, EventIsOwn, RefusalIsReal, DeliveredInOrder,
                        Stored, Register, RequestState, Awaits
    <2> QED
      BY <1>1, <2>1, <2>3, LocalStep DEF RequestState
  <1>3. CASE s # NULL
    <2> DEFINE x == [req[r] EXCEPT !.pc = "exists_by_email", !.email = Email(s)]
    <2>1. Email(s) \in Spellings /\ Email(s).form = "normal" /\ Email(s) # NULL
      BY <1>3, SpellingAssumption DEF Email, Spellings
    <2>2. x \in RequestState /\ Local(r, x)
      BY <1>1, <1>3, <2>1 DEF RequestState, Register, Awaits
    <2>3. req'[r] = x /\ rows' = rows /\ delivered' = delivered
      BY <2>2 DEF Local, IndInv, TypeOK
    <2>4. x.pc = "exists_by_email" /\ x.email = Email(s) /\ x.events = req[r].events
          /\ x.next = req[r].next
      BY <1>1 DEF RequestState
    <2>5. Sound(r)'
      BY <1>1, <2>1, <2>3, <2>4 DEF Sound, RowIsOwn, EventIsOwn, RefusalIsReal,
                                    DeliveredInOrder, Stored, Register, Awaits
    <2> QED
      BY <1>1, <2>2, <2>4, <2>5, LocalStep
  <1> QED
    BY <1>2, <1>3

\* The fast path refuses only what a committed row justifies.
LEMMA ExistsByEmailStep ==
  ASSUME IndInv, NEW r \in Requests, ExistsByEmail(r)
  PROVE  IndInv'
  <1> DEFINE x == [req[r] EXCEPT !.pc = IF Taken(req[r].email) THEN "EmailAlreadyExists"
                                                               ELSE "hash"]
  <1>1. req[r] \in RequestState /\ Sound(r) /\ ~Stored(r)
    BY Typed DEF ExistsByEmail, Sound, RowIsOwn
  <1>2. x \in RequestState /\ Local(r, x) /\ x.email = req[r].email
        /\ x.events = req[r].events /\ x.next = req[r].next
        /\ x.pc = IF Taken(req[r].email) THEN "EmailAlreadyExists" ELSE "hash"
    BY <1>1 DEF RequestState, ExistsByEmail, Outcomes, Awaits
  <1>3. req'[r] = x /\ rows' = rows /\ delivered' = delivered
    BY <1>2 DEF Local, IndInv, TypeOK
  <1>4. Taken(req[r].email) => \E u \in Requests \ {r} : rows[u] = req[r].email
    BY <1>1 DEF Taken, Sound, RowIsOwn, Stored, ExistsByEmail, Awaits
  <1>5. Sound(r)'
    BY <1>1, <1>2, <1>3, <1>4 DEF Sound, RowIsOwn, EventIsOwn, RefusalIsReal,
                                  DeliveredInOrder, Stored, ExistsByEmail, Awaits
  <1>6. x.pc # "commit"
    BY <1>2
  <1> HIDE DEF x
  <1> QED
    BY <1>1, <1>2, <1>5, <1>6, LocalStep

\* The aggregate is created with its one event.
LEMMA CreateUserStep ==
  ASSUME IndInv, NEW r \in Requests, CreateUser(r)
  PROVE  IndInv'
  <1> DEFINE x == [req[r] EXCEPT !.pc = "flush", !.events = <<r>>]
  <1>1. req[r] \in RequestState /\ Sound(r) /\ ~Stored(r)
    BY Typed DEF CreateUser, UserCreated, Sound, RowIsOwn
  <1>2. x \in RequestState /\ Local(r, x) /\ x.email = req[r].email /\ x.pc = "flush"
        /\ x.events = <<r>> /\ x.next = req[r].next
    <2>1. <<r>> \in Seq(Requests)
      OBVIOUS
    <2> QED
      BY <1>1, <2>1 DEF RequestState, CreateUser, UserCreated, Awaits
  <1>3. req'[r] = x /\ rows' = rows /\ delivered' = delivered
    BY <1>2 DEF Local, IndInv, TypeOK
  <1>4. Sound(r)'
    BY <1>1, <1>2, <1>3 DEF Sound, RowIsOwn, EventIsOwn, RefusalIsReal,
                            DeliveredInOrder, Stored, CreateUser, UserCreated, Awaits
  <1> QED
    BY <1>1, <1>2, <1>4, LocalStep

\* The INSERT gets the index entry only if nobody else claims the email, which is
\* what it waits and checks for.
LEMMA InsertUserStep ==
  ASSUME IndInv, NEW r \in Requests, InsertUser(r)
  PROVE  IndInv'
  <1> DEFINE x == [req[r] EXCEPT !.pc = IF Taken(req[r].email) THEN "EmailAlreadyExists"
                                                               ELSE "commit"]
  <1>1. req[r] \in RequestState /\ Sound(r) /\ ~Stored(r)
    BY Typed DEF InsertUser, Sound, RowIsOwn
  <1>2. x \in RequestState /\ Local(r, x) /\ x.email = req[r].email
        /\ x.events = req[r].events /\ x.next = req[r].next
        /\ x.pc = IF Taken(req[r].email) THEN "EmailAlreadyExists" ELSE "commit"
    BY <1>1 DEF RequestState, InsertUser, Outcomes, Awaits
  <1>3. req'[r] = x /\ rows' = rows /\ delivered' = delivered
    BY <1>2 DEF Local, IndInv, TypeOK
  <1>4. Taken(req[r].email) => \E u \in Requests \ {r} : rows[u] = req[r].email
    BY <1>1 DEF Taken, Sound, RowIsOwn, Stored, InsertUser, Awaits
  <1>5. Sound(r)'
    BY <1>1, <1>2, <1>3, <1>4 DEF Sound, RowIsOwn, EventIsOwn, RefusalIsReal,
                                  DeliveredInOrder, Stored, InsertUser, Awaits
  <1>6. ASSUME x.pc = "commit", NEW q \in Requests \ {r}, Claims(q)
        PROVE  req[q].email # x.email
    <2>1. ~Taken(req[r].email) /\ ~InFlight(r)
      BY <1>2, <1>6 DEF InsertUser
    <2>2. Sound(q)
      BY Typed
    <2>3. CASE Stored(q)
      BY <1>2, <2>1, <2>2, <2>3 DEF Taken, Sound, RowIsOwn
    <2>4. CASE req[q].pc = "commit"
      BY <1>2, <2>1, <2>4 DEF InFlight
    <2> QED
      BY <1>6, <2>3, <2>4 DEF Claims
  <1> HIDE DEF x
  <1> QED
    BY <1>1, <1>2, <1>5, <1>6, LocalStep

\* The COMMIT turns the claim of an index entry into that of a row.
LEMMA CommitUserStep ==
  ASSUME IndInv, NEW r \in Requests, CommitUser(r)
  PROVE  IndInv'
  <1> DEFINE x == [req[r] EXCEPT !.pc = "dispatch"]
  <1>1. req[r] \in RequestState /\ Sound(r) /\ ~Stored(r) /\ Handlers \in Nat \ {0}
    BY Typed DEF CommitUser, Sound, RowIsOwn
  <1>2. req[r].email \in Spellings /\ req[r].email # NULL
    BY <1>1 DEF Sound, RowIsOwn, CommitUser, Awaits, RequestState
  <1>3. x \in RequestState /\ x.email = req[r].email /\ x.pc = "dispatch"
        /\ x.events = req[r].events /\ x.next = req[r].next
    BY <1>1 DEF RequestState, Awaits
  <1>4. TypeOK' /\ req'[r] = x /\ rows'[r] = req[r].email /\ delivered' = delivered
    BY <1>2, <1>3 DEF CommitUser, IndInv, TypeOK
  <1>5. \A q \in Requests \ {r} : req'[q] = req[q] /\ rows'[q] = rows[q]
    BY DEF CommitUser, IndInv, TypeOK
  <1>6. Sound(r)'
    <2>1. <<r>> # <<>> /\ Len(<<>>) = 0
      OBVIOUS
    <2>2. delivered'[r] = <<>> /\ req'[r].next = 1 /\ req'[r].events = <<r>>
      BY <1>1, <1>3, <1>4 DEF CommitUser, Sound, EventIsOwn
    <2>3. RowIsOwn(r)' /\ RefusalIsReal(r)'
      BY <1>1, <1>2, <1>3, <1>4 DEF Sound, RowIsOwn, RefusalIsReal, Stored, Awaits
    <2>4. EventIsOwn(r)'
      <3>1. req'[r].pc = "dispatch"
        BY <1>3, <1>4
      <3>2. Len(delivered'[r]) = req'[r].next - 1 /\ req'[r].next \in 1..Handlers
        BY <1>1, <2>1, <2>2
      <3> QED
        BY <2>1, <2>2, <3>1, <3>2 DEF EventIsOwn
    <2>5. DeliveredInOrder(r)'
      BY <1>1, <1>3, <1>4, <2>1, <2>2 DEF DeliveredInOrder
    <2> QED
      BY <2>3, <2>4, <2>5 DEF Sound
  <1>7. \A q \in Requests \ {r} : Sound(q)'
    BY <1>1, <1>4, <1>5, Frame, RegistrationAssumption DEF IndInv, RowsStay
  <1>8. Claims(r) /\ \A q \in Requests : req'[q].email = req[q].email
    BY <1>3, <1>4, <1>5 DEF Claims, CommitUser
  <1>9. \A q \in Requests : Claims(q)' => Claims(q)
    BY <1>5, <1>8 DEF Claims, Stored
  <1>10. ClaimsDiffer'
    BY <1>8, <1>9 DEF ClaimsDiffer, IndInv
  <1> QED
    BY <1>4, <1>6, <1>7, <1>10 DEF IndInv

\* A handler is passed the event once, in its turn; then the loop moves on, or the
\* request ends if the handler raised.
LEMMA DispatchNextStep ==
  ASSUME IndInv, NEW r \in Requests, DispatchNext(r)
  PROVE  IndInv'
  <1> DEFINE n == req[r].next
             d == delivered[r]
             e == Append(d, n)
  <1>1. req[r] \in RequestState /\ Sound(r) /\ d \in Seq(Nat) /\ Handlers \in Nat \ {0}
    BY Typed
  <1>2. req[r].events = <<r>> /\ n \in 1..Handlers /\ Len(d) = n - 1 /\ Stored(r)
        /\ req[r].email # NULL
    BY <1>1 DEF DispatchNext, Sound, EventIsOwn, RowIsOwn, Awaits
  <1>3. Head(req[r].events) = r /\ Tail(req[r].events) = <<>>
    BY <1>2
  <1>4. e \in Seq(Nat) /\ Len(e) = n /\ e # <<>>
    BY <1>1, <1>2
  <1>5. \A i \in 1..Len(e) : e[i] = i
    BY <1>1, <1>2, <1>4 DEF Sound, DeliveredInOrder
  <1>6. /\ delivered' = [delivered EXCEPT ![r] = e]
        /\ \E raised \in BOOLEAN :
              req' = [req EXCEPT ![r] = IF raised THEN [req[r] EXCEPT !.pc = "error"]
                                                  ELSE Advanced(req[r])]
    BY <1>3 DEF DispatchNext, IndInv, TypeOK
  <1>7. PICK x : /\ req' = [req EXCEPT ![r] = x]
                 /\ x \in {[req[r] EXCEPT !.pc = "error"], Advanced(req[r])}
    BY <1>6
  <1>8. <<>> \in Seq(Requests) /\ n + 1 \in Nat /\ <<r>> # <<>>
    BY <1>1, <1>2
  <1>9. x \in RequestState /\ x.email = req[r].email
    <2>1. CASE x = [req[r] EXCEPT !.pc = "error"]
      BY <1>1, <2>1 DEF RequestState, Outcomes
    <2>2. CASE x = [req[r] EXCEPT !.next = n + 1]
      BY <1>1, <1>8, <2>2 DEF RequestState
    <2>3. CASE x = [req[r] EXCEPT !.next = 1, !.events = <<>>]
      BY <1>1, <1>8, <2>3 DEF RequestState
    <2>4. Advanced(req[r]) \in {[req[r] EXCEPT !.next = n + 1],
                                [req[r] EXCEPT !.next = 1, !.events = <<>>]}
      BY <1>1, <1>3 DEF Advanced, RequestState
    <2> QED
      BY <1>7, <2>1, <2>2, <2>3, <2>4
  <1>10. \/ x.pc = "error" /\ x.events = <<r>>
         \/ x.pc = "dispatch" /\ x.events = <<r>> /\ x.next = n + 1 /\ n < Handlers
         \/ x.pc = "dispatch" /\ x.events = <<>> /\ n = Handlers
    <2>1. CASE x = [req[r] EXCEPT !.pc = "error"]
      BY <1>1, <1>2, <2>1 DEF RequestState
    <2>2. CASE x = Advanced(req[r]) /\ n < Handlers
      BY <1>1, <1>2, <2>2 DEF RequestState, Advanced, DispatchNext
    <2>3. CASE x = Advanced(req[r]) /\ ~(n < Handlers)
      BY <1>1, <1>2, <1>3, <2>3 DEF RequestState, Advanced, DispatchNext
    <2> QED
      BY <1>7, <2>1, <2>2, <2>3
  <1>11. TypeOK' /\ req'[r] = x /\ delivered'[r] = e /\ rows' = rows
    BY <1>4, <1>6, <1>7, <1>9 DEF IndInv, TypeOK, DispatchNext
  <1>12. \A q \in Requests \ {r} : req'[q] = req[q] /\ delivered'[q] = delivered[q]
    BY <1>6, <1>7 DEF IndInv, TypeOK
  <1> HIDE DEF e
  <1>13. Sound(r)'
    <2>1. RowIsOwn(r)' /\ RefusalIsReal(r)'
      BY <1>1, <1>2, <1>9, <1>10, <1>11 DEF Sound, RowIsOwn, RefusalIsReal, Stored
    <2>2. EventIsOwn(r)'
      <3>1. x.events \in {<<>>, <<r>>} /\ x.pc \in {"error", "dispatch"}
        BY <1>10
      <3>2. ASSUME x.pc = "dispatch"
            PROVE  IF x.events = <<>> THEN Len(e) = Handlers
                   ELSE x.next \in 1..Handlers /\ Len(e) = x.next - 1
        <4> HIDE DEF n
        <4>1. CASE x.events = <<>>
          BY <1>4, <1>8, <1>10, <3>2, <4>1
        <4>2. CASE x.events # <<>>
          <5>1. x.next = n + 1 /\ n < Handlers
            BY <1>10, <3>2, <4>2
          <5>2. x.next \in 1..Handlers /\ n = x.next - 1
            BY <1>1, <1>2, <5>1
          <5> QED
            BY <1>4, <4>2, <5>2
        <4> QED
          BY <4>1, <4>2
      <3> QED
        BY <1>11, <3>1, <3>2 DEF EventIsOwn
    <2>3. DeliveredInOrder(r)'
      BY <1>1, <1>2, <1>4, <1>5, <1>10, <1>11 DEF DeliveredInOrder, Stored
    <2> QED
      BY <2>1, <2>2, <2>3 DEF Sound
  <1>14. \A q \in Requests \ {r} : Sound(q)'
    BY <1>11, <1>12, Frame, RegistrationAssumption DEF IndInv, RowsStay
  <1>15. ClaimsDiffer'
    BY <1>2, <1>9, <1>11, <1>12 DEF IndInv, ClaimsDiffer, Claims, Stored
  <1> QED
    BY <1>11, <1>13, <1>14, <1>15 DEF IndInv

\* The 201 comes after the last handler.
LEMMA RespondStep ==
  ASSUME IndInv, NEW r \in Requests, Respond(r)
  PROVE  IndInv'
  <1> DEFINE x == [req[r] EXCEPT !.pc = "ok"]
  <1>1. req[r] \in RequestState /\ Sound(r)
    BY Typed
  <1>2. x \in RequestState /\ Local(r, x) /\ x.email = req[r].email /\ x.pc = "ok"
        /\ x.events = req[r].events
    BY <1>1 DEF RequestState, Respond, Outcomes
  <1>3. req'[r] = x /\ rows' = rows /\ delivered' = delivered
    BY <1>2 DEF Local, IndInv, TypeOK
  <1>4. Sound(r)'
    BY <1>1, <1>2, <1>3 DEF Sound, RowIsOwn, EventIsOwn, RefusalIsReal,
                            DeliveredInOrder, Stored, Respond, Awaits
  <1> QED
    BY <1>2, <1>4, LocalStep

\* A failure undoes a claim that was not committed and nothing else.
LEMMA FailStep ==
  ASSUME IndInv, NEW r \in Requests, Fail(r)
  PROVE  IndInv'
  <1> DEFINE x == [req[r] EXCEPT !.pc = "error"]
  <1>1. req[r] \in RequestState /\ Sound(r)
    BY Typed
  <1>2. x \in RequestState /\ Local(r, x) /\ x.email = req[r].email /\ x.pc = "error"
        /\ x.events = req[r].events
    BY <1>1 DEF RequestState, Fail, Outcomes
  <1>3. req'[r] = x /\ rows' = rows /\ delivered' = delivered
    BY <1>2 DEF Local, IndInv, TypeOK
  <1>4. Sound(r)'
    BY <1>1, <1>2, <1>3 DEF Sound, RowIsOwn, EventIsOwn, RefusalIsReal,
                            DeliveredInOrder, Stored, Fail, Awaits
  <1> QED
    BY <1>2, <1>4, LocalStep
-----------------------------------------------------------------------------
\* The inductive invariant holds in every reachable state.
THEOREM RegistrationInvariance == Spec => []IndInv
  <1>1. IndInv /\ [Next]_vars => IndInv'
    <2> SUFFICES ASSUME IndInv, [Next]_vars PROVE IndInv'
      OBVIOUS
    <2>1. CASE UNCHANGED vars
      BY <2>1 DEF IndInv, TypeOK, ClaimsDiffer, Claims, Sound, RowIsOwn, EventIsOwn,
                  RefusalIsReal, DeliveredInOrder, Stored, vars
    <2>2. ASSUME NEW r \in Requests, Begin(r) PROVE IndInv'
      BY <2>2, RegisterStep DEF Begin
    <2>3. ASSUME NEW r \in Requests, Continue(r) PROVE IndInv'
      BY <2>3, ExistsByEmailStep, CreateUserStep, InsertUserStep, CommitUserStep,
         DispatchNextStep, RespondStep DEF Continue
    <2>4. ASSUME NEW r \in Requests, Fail(r) PROVE IndInv'
      BY <2>4, FailStep
    <2> QED
      BY <2>1, <2>2, <2>3, <2>4 DEF Next
  <1> QED
    BY <1>1, IndInvInit, PTL DEF Spec

\* Every variable of the registration keeps its type.
THEOREM RegistrationTypes == Spec => []TypeOK
  <1>1. IndInv => TypeOK
    BY DEF IndInv
  <1> QED
    BY <1>1, RegistrationInvariance, PTL

\* One account per mailbox, however addresses are spelled and registrations race:
\* rows are in normal form, and the unique index keeps claims apart.
THEOREM MailboxesAreUnique == Spec => []OneAccountPerMailbox
  <1>1. IndInv => OneAccountPerMailbox
    <2> SUFFICES ASSUME IndInv, NEW u \in Requests, NEW v \in Requests,
                        Stored(u), Stored(v), rows[u].address = rows[v].address
                 PROVE  u = v
      BY DEF OneAccountPerMailbox
    <2>1. /\ rows[u] = req[u].email /\ rows[u] \in Spellings /\ rows[u].form = "normal"
          /\ rows[v] = req[v].email /\ rows[v] \in Spellings /\ rows[v].form = "normal"
      BY DEF IndInv, Sound, RowIsOwn, TypeOK, Stored
    <2>2. rows[u] = rows[v]
      BY <2>1 DEF Spellings
    <2> QED
      BY <2>1, <2>2 DEF IndInv, ClaimsDiffer, Claims
  <1> QED
    BY <1>1, RegistrationInvariance, PTL

\* A 409 is only ever answered because of somebody else's committed account.
THEOREM ConflictsAreReal == Spec => []ConflictIsReal
  <1>1. IndInv => ConflictIsReal
    BY DEF IndInv, Sound, RefusalIsReal, ConflictIsReal
  <1> QED
    BY <1>1, RegistrationInvariance, PTL

\* Handlers hear of an account after its commit, in order and at most once, and
\* all of them before the 201.
THEOREM EventsAreDelivered == Spec => []EventsFollowCommit
  <1>1. IndInv => EventsFollowCommit
    BY DEF IndInv, Sound, EventsFollowCommit
  <1> QED
    BY <1>1, RegistrationInvariance, PTL
=============================================================================
