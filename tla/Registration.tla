---------------------------- MODULE Registration ----------------------------
(***************************************************************************)
(* CreateUserHandler, run concurrently by POST /auth/register requests and *)
(* by scripts/seed.py, with the unique index on users.email and the        *)
(* in-process dispatch of UserRegistered after the commit.                 *)
(*                                                                         *)
(* One action is one await.  session.commit() is two of them: the INSERT   *)
(* of the flush, which takes the index entry or waits for the transaction  *)
(* that holds it, and the COMMIT.  A user id is named by the request that  *)
(* drew it with uuid4().                                                   *)
(***************************************************************************)
EXTENDS Naturals, Sequences

CONSTANTS
    Requests,    \* registrations; also the user ids they draw
    Addresses,   \* mailboxes
    Handlers,    \* event handlers registered with the dispatcher
    NULL

ASSUME RegistrationAssumption == /\ NULL \notin Requests
                                 /\ Handlers \in Nat \ {0}

VARIABLES
    rows,       \* table users, committed: by user id, the email column
    req,        \* per request: where its handler is and its local variables
    delivered   \* per user id: the handlers UserRegistered was passed to, in order

vars == <<rows, req, delivered>>
-----------------------------------------------------------------------------
\* The ways a client can spell one mailbox.
Spellings == [address : Addresses, form : {"normal", "upper", "padded"}]

ASSUME SpellingAssumption == NULL \notin Spellings

\* Mutant: the value object keeps the spelling it was given.
EmailAsTyped(spelling) == spelling

\* Email.__post_init__: strip().lower().
Email(spelling) == [spelling EXCEPT !.form = "normal"]

Awaits == {"exists_by_email", "hash", "flush", "commit", "dispatch"}

\* 201, 422, 409, and a 500 or no answer at all.
Outcomes == {"ok", "ValidationError", "EmailAlreadyExists", "error"}

RequestState ==
    [pc : {"idle"} \cup Awaits \cup Outcomes,
     email : Spellings \cup {NULL},
     events : Seq(Requests),           \* the aggregate's events, by user id
     next : Nat]                       \* the dispatcher's place in its handlers

Active(r) == req[r].pc \in Awaits
Stored(r) == rows[r] # NULL

Init ==
    /\ rows = [r \in Requests |-> NULL]
    /\ req = [r \in Requests |-> [pc |-> "idle", email |-> NULL, events |-> <<>>,
                                  next |-> 1]]
    /\ delivered = [r \in Requests |-> <<>>]

\* Request r's handler moves on, in its own memory only.
Local(r, state) ==
    /\ req' = [req EXCEPT ![r] = state]
    /\ UNCHANGED <<rows, delivered>>

\* The request arrives.  NULL stands for input the schema or the Email value
\* object rejects.
Register(r, spelling) ==
    /\ req[r].pc = "idle"
    /\ Local(r, IF spelling = NULL
                THEN [req[r] EXCEPT !.pc = "ValidationError"]
                ELSE [req[r] EXCEPT !.pc = "exists_by_email", !.email = Email(spelling)])

\* A committed row has this email.
Taken(email) == \E u \in Requests : rows[u] = email

\* The fast-path check, which sees committed rows only.
ExistsByEmail(r) ==
    /\ req[r].pc = "exists_by_email"
    /\ Local(r, [req[r] EXCEPT !.pc = IF Taken(req[r].email) THEN "EmailAlreadyExists"
                                                             ELSE "hash"])

\* Mutant: the event is recorded before the aggregate has its id.
UserCreatedNoId(id) == <<NULL>>

\* User.create: a new aggregate has recorded one UserRegistered.
UserCreated(id) == <<id>>

\* The password is hashed in a worker thread, the aggregate created, and its row
\* put in the session by users.add.
CreateUser(r) ==
    /\ req[r].pc = "hash"
    /\ Local(r, [req[r] EXCEPT !.pc = "flush", !.events = UserCreated(r)])

\* Mutant: the connection of a failed request is not rolled back.
InFlightOrphaned(r) ==
    \E q \in Requests \ {r} : req[q].pc \in {"commit", "error"} /\ req[q].email = req[r].email

\* Another transaction has inserted this email and not ended yet.
InFlight(r) ==
    \E q \in Requests \ {r} : req[q].pc = "commit" /\ req[q].email = req[r].email

\* Mutant: no unique index on users.email.
InsertUserNoIndex(r) ==
    /\ req[r].pc = "flush"
    /\ Local(r, [req[r] EXCEPT !.pc = "commit"])

\* Mutant: a duplicate in flight is refused before it is known to commit.
InsertUserNoWait(r) ==
    /\ req[r].pc = "flush"
    /\ Local(r, [req[r] EXCEPT !.pc = IF Taken(req[r].email) \/ InFlight(r)
                                      THEN "EmailAlreadyExists" ELSE "commit"])

\* INSERT: waits for a duplicate in flight; a committed duplicate is an
\* IntegrityError, rolled back and translated to EmailAlreadyExistsError.
InsertUser(r) ==
    /\ req[r].pc = "flush"
    /\ ~InFlight(r)
    /\ Local(r, [req[r] EXCEPT !.pc = IF Taken(req[r].email) THEN "EmailAlreadyExists"
                                                             ELSE "commit"])

\* Mutant: the handler forgets uow.commit().
CommitUserForgotten(r) ==
    /\ req[r].pc = "commit"
    /\ Local(r, [req[r] EXCEPT !.pc = "dispatch"])

\* COMMIT, and the call of dispatch(user.pull_events()).
CommitUser(r) ==
    /\ req[r].pc = "commit"
    /\ rows' = [rows EXCEPT ![r] = req[r].email]
    /\ req' = [req EXCEPT ![r] = [req[r] EXCEPT !.pc = "dispatch"]]
    /\ UNCHANGED delivered

\* The dispatcher's loop after a handler has returned.
Advanced(state) ==
    IF state.next < Handlers
    THEN [state EXCEPT !.next = @ + 1]
    ELSE [state EXCEPT !.next = 1, !.events = Tail(@)]

\* The next handler is awaited with the event; one that raises ends the request.
DispatchNext(r) ==
    /\ req[r].pc = "dispatch" /\ req[r].events # <<>>
    /\ delivered' = [delivered EXCEPT ![Head(req[r].events)] = Append(@, req[r].next)]
    /\ \E raised \in BOOLEAN :
          req' = [req EXCEPT ![r] = IF raised THEN [req[r] EXCEPT !.pc = "error"]
                                              ELSE Advanced(req[r])]
    /\ UNCHANGED rows

\* 201, or seed.py's "seed.user_created".
Respond(r) ==
    /\ req[r].pc = "dispatch" /\ req[r].events = <<>>
    /\ Local(r, [req[r] EXCEPT !.pc = "ok"])

\* The process dies, its shutdown cancels the request or the database fails: an open
\* transaction is rolled back, an event not yet dispatched is lost.
Fail(r) ==
    /\ Active(r)
    /\ Local(r, [req[r] EXCEPT !.pc = "error"])

Begin(r) == \E spelling \in Spellings \cup {NULL} : Register(r, spelling)

Continue(r) ==
    \/ ExistsByEmail(r) \/ CreateUser(r) \/ InsertUser(r) \/ CommitUser(r)
    \/ DispatchNext(r) \/ Respond(r)

Next == \E r \in Requests : Begin(r) \/ Continue(r) \/ Fail(r)

Spec == Init /\ [][Next]_vars

\* The event loop and the database keep serving a request that has begun.
FairSpec == Spec /\ \A r \in Requests : WF_vars(Continue(r))
-----------------------------------------------------------------------------
\* Every variable has its type.
TypeOK ==
    /\ rows \in [Requests -> Spellings \cup {NULL}]
    /\ req \in [Requests -> RequestState]
    /\ delivered \in [Requests -> Seq(Nat)]

\* A mailbox has one account, however its address is spelled and however many
\* registrations race past exists_by_email.
OneAccountPerMailbox ==
    \A u, v \in Requests : (/\ Stored(u) /\ Stored(v)
                            /\ rows[u].address = rows[v].address) => u = v

\* A registration is refused as a duplicate only if somebody else's account for
\* the address is committed: a rival that rolls back never costs a 409.
ConflictIsReal ==
    \A r \in Requests : req[r].pc = "EmailAlreadyExists" =>
        \E u \in Requests \ {r} : rows[u] = req[r].email

\* r's event was passed to the handlers in registration order, each at most
\* once, only for a committed account, and to all of them before a 201.
DeliveredInOrder(r) ==
    /\ Len(delivered[r]) <= Handlers
    /\ \A i \in 1..Len(delivered[r]) : delivered[r][i] = i
    /\ delivered[r] # <<>> => Stored(r)
    /\ req[r].pc = "ok" => Len(delivered[r]) = Handlers

\* "Events are delivered only after the transaction is durable."
\* (create_user.py:55) and "at-most-once" (in_process.py:7): no handler hears of
\* an account that a crash or the unique index undoes, or hears twice.
EventsFollowCommit == \A r \in Requests : DeliveredInOrder(r)

\* Every registration is answered or fails: waiting for a rival's INSERT ends.
EveryRegistrationEnds ==
    \A r \in Requests : Active(r) ~> req[r].pc \in Outcomes
=============================================================================
