---------------------------- MODULE UserListing ----------------------------
(***************************************************************************)
(* GET /users: keyset pagination over the primary key, walked page by page *)
(* by a client that may ask for another limit each time, while other       *)
(* requests register accounts.  A user id is a uuid4, so a new row may     *)
(* land anywhere in the order; no code deletes a row.                      *)
(***************************************************************************)
EXTENDS Integers, FiniteSets

CONSTANTS
    Ids,        \* user ids, numbered in the order of the primary key
    MaxLimit,   \* _MAX_LIMIT
    Limits,     \* limits callers pass to ListUsersHandler
    NULL,       \* None
    Malformed   \* a cursor that does not decode

ASSUME ListingAssumption == /\ Ids \subseteq Nat /\ IsFiniteSet(Ids)
                            /\ MaxLimit \in Nat \ {0}
                            /\ Limits \subseteq Int
                            /\ NULL \notin Nat

\* _encode_cursor: a string that stands for an id and for nothing else.
EncodeCursor(id) == [base64 |-> id]

\* No string is None.
ASSUME CursorAssumption == \A id \in Ids : EncodeCursor(id) # NULL

Cursors == {EncodeCursor(id) : id \in Ids} \cup {NULL, Malformed}

VARIABLES
    rows,    \* table users, by id
    pc,      \* "idle", "walking", "done" or "ValidationError"
    cursor,  \* the cursor the client sends next
    before,  \* history: rows after the first cursor when the walk began
    page,    \* the items of the page the client received last
    seen     \* history: the ids of all pages so far

vars == <<rows, pc, cursor, before, page, seen>>
-----------------------------------------------------------------------------
\* Rows in key order: the n smallest of S (ORDER BY id LIMIT n).
First(S, n) == {i \in S : Cardinality({j \in S : j < i}) < n}

\* The largest id of a page, visible[-1].
Last(S) == CHOOSE i \in S : \A j \in S : j <= i

\* max(1, min(limit, _MAX_LIMIT))
Clamp(limit) ==
    IF limit < 1 THEN 1 ELSE IF limit > MaxLimit THEN MaxLimit ELSE limit

\* Mutant: WHERE id >= cursor.
AfterOrAt(c) == IF c = NULL THEN rows ELSE {i \in rows : i >= c.base64}

\* WHERE id > _decode_cursor(cursor)
After(c) == IF c = NULL THEN rows ELSE {i \in rows : i > c.base64}

\* Mutant: has_more is len(rows) >= limit, so a full last page promises another.
PageOffByOne(c, limit) ==
    LET visible == First(After(c), limit)
    IN  [items |-> visible,
         next_cursor |-> IF Cardinality(visible) >= limit
                         THEN EncodeCursor(Last(visible)) ELSE NULL]

\* Mutant: the cursor is the extra row that was fetched, not the last one shown.
PageSkipping(c, limit) ==
    LET fetched == First(After(c), limit + 1)
    IN  [items |-> First(fetched, limit),
         next_cursor |-> IF Cardinality(fetched) > limit
                         THEN EncodeCursor(Last(fetched)) ELSE NULL]

\* Mutant: there is a cursor after every page, and an empty page repeats it.
PageEchoing(c, limit) ==
    LET visible == First(After(c), limit)
    IN  [items |-> visible,
         next_cursor |-> IF visible # {} THEN EncodeCursor(Last(visible)) ELSE c]

\* SqlAlchemyUserQueryService.list: one row more than asked for tells whether a
\* page follows.
Page(c, limit) ==
    LET fetched == First(After(c), limit + 1)
        visible == First(fetched, limit)
    IN  [items |-> visible,
         next_cursor |-> IF Cardinality(fetched) > limit /\ visible # {}
                         THEN EncodeCursor(Last(visible)) ELSE NULL]

Init ==
    /\ rows \in SUBSET Ids
    /\ pc = "idle" /\ cursor = NULL /\ before = {}
    /\ page = {} /\ seen = {}

\* The client starts from the first page, or from a cursor of its own.
StartWalk(c) ==
    /\ pc = "idle"
    /\ cursor' = c
    /\ IF c = Malformed
       THEN pc' = "ValidationError" /\ UNCHANGED before
       ELSE pc' = "walking" /\ before' = After(c)
    /\ UNCHANGED <<rows, page, seen>>

\* GET /users?limit&cursor, by a client that follows next_cursor to the end.
ListUsers(limit) ==
    /\ pc = "walking"
    /\ LET answer == Page(cursor, Clamp(limit))
       IN  /\ page' = answer.items
           /\ seen' = seen \cup answer.items
           /\ cursor' = answer.next_cursor
           /\ pc' = IF answer.next_cursor = NULL THEN "done" ELSE "walking"
    /\ UNCHANGED <<rows, before>>

\* A registration commits.
InsertUser(id) ==
    /\ id \notin rows
    /\ rows' = rows \cup {id}
    /\ UNCHANGED <<pc, cursor, before, page, seen>>

Next ==
    \/ \E c \in Cursors : StartWalk(c)
    \/ \E limit \in Limits : ListUsers(limit)
    \/ \E id \in Ids : InsertUser(id)

Spec == Init /\ [][Next]_vars

\* The client keeps asking for the next page.
FairSpec == Spec /\ WF_vars(\E limit \in Limits : ListUsers(limit))
-----------------------------------------------------------------------------
\* Every variable has its type.
TypeOK ==
    /\ rows \in SUBSET Ids
    /\ pc \in {"idle", "walking", "done", "ValidationError"}
    /\ cursor \in Cursors
    /\ before \in SUBSET Ids
    /\ page \in SUBSET Ids
    /\ seen \in SUBSET Ids

\* Every row that existed when the walk began is on some page, whatever limits
\* the client chose and whatever was inserted before, at or after the cursor.
WalkIsComplete == pc = "done" => before \subseteq seen

\* A page starts after everything already shown: no account is listed twice,
\* and the pages, put together, are in key order.
PagesAdvance ==
    [][(pc = "walking" /\ UNCHANGED rows) => \A i \in page', j \in seen : j < i]_vars

\* A next_cursor the server handed out promises a page that is not empty: the
\* extra row that was fetched is still there, whatever was inserted meanwhile.
NextPageHasRows == (pc = "walking" /\ seen # {}) => After(cursor) # {}

\* The walk ends: every page shows something new, so inserts cannot keep it
\* going for ever.
WalkEnds == pc = "walking" ~> pc = "done"
=============================================================================
