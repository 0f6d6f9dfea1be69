------------------------- MODULE UserListingProofs -------------------------
(***************************************************************************)
(* Proofs about UserListing, for any finite set of ids and any limits.     *)
(*                                                                         *)
(* The query takes the least rows after the cursor, one more than the      *)
(* page holds. Page sizes are cardinalities, so the first part proves what *)
(* First(S, n) is for a finite set S: a lower part of it, of at most n     *)
(* members, and all of it when S has no more or First(S, n) has fewer.     *)
(* WalkInv then says where a walk stands: everything present at its start  *)
(* has been shown or is still ahead of the cursor, and nothing shown lies  *)
(* ahead of it.                                                            *)
(***************************************************************************)
EXTENDS UserListing, FiniteSetTheorems, WellFoundedInduction, TLAPS

(* Least and greatest ids.                                                 *)

\* A set of ids that is not empty has a least one.
LEMMA LeastExists ==
  ASSUME NEW T \in SUBSET Nat, T # {}
  PROVE  \E m \in T : \A k \in T : m <= k
  <1>1. PICK m \in T : \A k \in T : ~(<<k, m>> \in OpToRel(<, Nat))
    BY NatLessThanWellFounded, WFMin, Zenon
  <1>2. \A k \in T : ~(k < m)
    BY <1>1 DEF OpToRel
  <1> QED
    BY <1>2

\* A finite one has a greatest one too: the id with the fewest ids above it.
LEMMA GreatestExists ==
  ASSUME NEW T \in SUBSET Nat, IsFiniteSet(T), T # {}
  PROVE  \E m \in T : \A k \in T : k <= m
  <1> DEFINE above(i) == {j \in T : j > i}
             counts == {Cardinality(above(i)) : i \in T}
  <1>1. \A i \in T : IsFiniteSet(above(i)) /\ Cardinality(above(i)) \in Nat
    BY FS_Subset, FS_CardinalityType
  <1>2. counts \in SUBSET Nat /\ counts # {}
    BY <1>1
  <1>3. PICK m \in T : \A i \in T : Cardinality(above(m)) <= Cardinality(above(i))
    <2>1. PICK n \in counts : \A k \in counts : n <= k
      BY <1>2, LeastExists
    <2> QED
      BY <2>1
  <1>4. ASSUME NEW k \in T, ~(k <= m) PROVE FALSE
    <2>1. above(k) \in SUBSET above(m) /\ k \in above(m) /\ k \notin above(k)
      <3>1. k \in Nat /\ m \in Nat /\ \A j \in T : j \in Nat
        OBVIOUS
      <3>2. k > m /\ ~(k > k) /\ \A j \in T : j > k => j > m
        BY <1>4, <3>1
      <3> QED
        BY <3>2
    <2>2. Cardinality(above(k)) <= Cardinality(above(m))
          /\ (Cardinality(above(m)) = Cardinality(above(k)) => above(m) = above(k))
      BY <1>1, <2>1, FS_Subset
    <2>3. Cardinality(above(k)) = Cardinality(above(m))
      BY <1>1, <1>3, <2>2
    <2> QED
      BY <2>1, <2>2, <2>3
  <1> QED
    BY <1>4
-----------------------------------------------------------------------------
(* Pages.                                                                  *)

\* The ids of S below i.
Below(S, i) == {j \in S : j < i}

\* A page is the lower end of what it was taken from: an id below one of its ids
\* is on it.
LEMMA FirstIsLower ==
  ASSUME NEW S \in SUBSET Nat, IsFiniteSet(S), NEW n \in Nat
  PROVE  /\ First(S, n) \in SUBSET S /\ IsFiniteSet(First(S, n))
         /\ \A i \in First(S, n), j \in S : j <= i => j \in First(S, n)
  <1>1. First(S, n) \in SUBSET S /\ IsFiniteSet(First(S, n))
    BY FS_Subset DEF First
  <1>2. ASSUME NEW i \in First(S, n), NEW j \in S, j <= i PROVE j \in First(S, n)
    <2>1. i \in S /\ Cardinality(Below(S, i)) < n
      BY DEF First, Below
    <2>2. Below(S, j) \in SUBSET Below(S, i)
      <3>1. i \in Nat /\ j \in Nat /\ \A k \in S : k \in Nat
        BY <2>1
      <3>2. \A k \in S : k < j => k < i
        BY <1>2, <3>1
      <3> QED
        BY <3>2 DEF Below
    <2>3. IsFiniteSet(Below(S, i)) /\ IsFiniteSet(Below(S, j))
      BY FS_Subset DEF Below
    <2>4. /\ Cardinality(Below(S, j)) <= Cardinality(Below(S, i))
          /\ Cardinality(Below(S, j)) \in Nat /\ Cardinality(Below(S, i)) \in Nat
      BY <2>2, <2>3, FS_Subset, FS_CardinalityType
    <2>5. Cardinality(Below(S, j)) < n
      BY <2>1, <2>4
    <2> QED
      BY <2>5 DEF First, Below
  <1> QED
    BY <1>1, <1>2

\* LIMIT n returns at most n rows.
LEMMA FirstIsBounded ==
  ASSUME NEW S \in SUBSET Nat, IsFiniteSet(S), NEW n \in Nat
  PROVE  Cardinality(First(S, n)) <= n
  <1> DEFINE F == First(S, n)
  <1>1. F \in SUBSET S /\ IsFiniteSet(F)
    BY FirstIsLower
  <1>2. CASE F = {}
    BY <1>2, FS_EmptySet
  <1>3. CASE F # {}
    <2>1. F \in SUBSET Nat
      BY <1>1
    <2> HIDE DEF F
    <2>2. PICK m \in F : \A k \in F : k <= m
      BY <1>1, <1>3, <2>1, GreatestExists
    <2>3. Cardinality(Below(S, m)) < n /\ m \in S
      BY <2>2 DEF F, First, Below
    <2>4. F \in SUBSET (Below(S, m) \cup {m})
      <3>1. \A k \in F : k \in S /\ (k < m \/ k = m)
        BY <1>1, <2>1, <2>2
      <3> QED
        BY <3>1 DEF Below
    <2>5. IsFiniteSet(Below(S, m)) /\ m \notin Below(S, m)
      <3>1. Below(S, m) \in SUBSET S /\ m \in Nat
        BY <2>3 DEF Below
      <3>2. m \notin Below(S, m)
        BY <3>1 DEF Below
      <3> QED
        BY <3>1, <3>2, FS_Subset
    <2>6. /\ IsFiniteSet(Below(S, m) \cup {m})
          /\ Cardinality(Below(S, m) \cup {m}) = Cardinality(Below(S, m)) + 1
      BY <2>5, FS_AddElement
    <2>7. Cardinality(F) <= Cardinality(Below(S, m) \cup {m})
      BY <2>4, <2>6, FS_Subset
    <2>8. Cardinality(Below(S, m)) \in Nat /\ Cardinality(F) \in Nat
      BY <1>1, <2>5, FS_CardinalityType
    <2>9. Cardinality(F) <= n
      BY <2>3, <2>6, <2>7, <2>8
    <2> QED
      BY <2>9 DEF F
  <1> QED
    BY <1>2, <1>3

\* If there are not n of them, all are returned.
LEMMA FirstOfFew ==
  ASSUME NEW S \in SUBSET Nat, IsFiniteSet(S), NEW n \in Nat, Cardinality(First(S, n)) < n
  PROVE  First(S, n) = S
  <1>1. First(S, n) \in SUBSET S /\ IsFiniteSet(First(S, n))
    BY FirstIsLower
  <1>2. ASSUME S \ First(S, n) # {} PROVE FALSE
    <2>1. S \ First(S, n) \in SUBSET Nat
      OBVIOUS
    <2>2. PICK m \in S \ First(S, n) : \A k \in S \ First(S, n) : m <= k
      BY <1>2, <2>1, LeastExists
    <2>3. ~(Cardinality(Below(S, m)) < n)
      BY DEF First, Below
    <2>4. Below(S, m) \in SUBSET First(S, n)
      <3>1. ASSUME NEW k \in S, k < m PROVE k \in First(S, n)
        <4>1. k \in Nat /\ m \in Nat
          OBVIOUS
        <4>2. ~(m <= k)
          BY <3>1, <4>1
        <4> QED
          BY <2>2, <4>2
      <3> QED
        BY <3>1 DEF Below
    <2>5. Cardinality(Below(S, m)) <= Cardinality(First(S, n)) /\ IsFiniteSet(Below(S, m))
      BY <1>1, <2>4, FS_Subset
    <2>6. Cardinality(Below(S, m)) \in Nat /\ Cardinality(First(S, n)) \in Nat
      BY <1>1, <2>5, FS_CardinalityType
    <2> QED
      BY <2>3, <2>5, <2>6
  <1> QED
    BY <1>1, <1>2

\* All of n rows or fewer are returned.
LEMMA FirstOfAll ==
  ASSUME NEW S \in SUBSET Nat, IsFiniteSet(S), NEW n \in Nat, Cardinality(S) <= n
  PROVE  First(S, n) = S
  <1>1. ASSUME NEW i \in S PROVE Cardinality(Below(S, i)) < n
    <2>1. Below(S, i) \in SUBSET S /\ i \notin Below(S, i)
      BY DEF Below
    <2>2. /\ IsFiniteSet(Below(S, i)) /\ Cardinality(Below(S, i)) <= Cardinality(S)
          /\ Cardinality(S) = Cardinality(Below(S, i)) => S = Below(S, i)
      BY <2>1, FS_Subset
    <2>3. Cardinality(Below(S, i)) \in Nat /\ Cardinality(S) \in Nat
      BY <2>2, FS_CardinalityType
    <2>4. Cardinality(S) # Cardinality(Below(S, i))
      BY <2>1, <2>2
    <2> QED
      BY <2>2, <2>3, <2>4
  <1> QED
    BY <1>1 DEF First, Below

\* What the query service answers on the rows S after the cursor: either all of
\* them and no cursor, or the rows up to the last one shown, with more after it.
LEMMA PageAnswers ==
  ASSUME NEW c, NEW n \in Nat \ {0}, After(c) \in SUBSET Ids
  PROVE  /\ Page(c, n).items \in SUBSET After(c)
         /\ \/ Page(c, n).next_cursor = NULL /\ Page(c, n).items = After(c)
            \/ \E last \in Page(c, n).items :
                  /\ Page(c, n).next_cursor = EncodeCursor(last)
                  /\ \A i \in Page(c, n).items : i <= last
                  /\ \A i \in After(c) : i <= last => i \in Page(c, n).items
                  /\ \E i \in After(c) : i > last
  <1> DEFINE S == After(c)
             fetched == First(S, n + 1)
             visible == First(fetched, n)
  <1>1. S \in SUBSET Nat /\ IsFiniteSet(S) /\ n \in Nat /\ n + 1 \in Nat
    <2>1. Ids \subseteq Nat /\ IsFiniteSet(Ids) /\ S \in SUBSET Ids
      BY ListingAssumption
    <2> HIDE DEF S
    <2>2. IsFiniteSet(S)
      BY <2>1, FS_Subset
    <2> QED
      BY <2>1, <2>2
  <1> HIDE DEF S
  <1>2. /\ fetched \in SUBSET S /\ IsFiniteSet(fetched)
        /\ \A i \in fetched, j \in S : j <= i => j \in fetched
    BY <1>1, FirstIsLower
  <1>3. fetched \in SUBSET Nat
    BY <1>1, <1>2
  <1> HIDE DEF fetched
  <1>4. /\ visible \in SUBSET fetched /\ IsFiniteSet(visible) /\ Cardinality(visible) <= n
        /\ \A i \in visible, j \in fetched : j <= i => j \in visible
    BY <1>1, <1>2, <1>3, FirstIsLower, FirstIsBounded
  <1>5. Cardinality(fetched) \in Nat /\ Cardinality(visible) \in Nat
    BY <1>2, <1>4, FS_CardinalityType
  <1>6. CASE Cardinality(fetched) <= n
    <2>1. fetched = S
      <3>1. Cardinality(First(S, n + 1)) < n + 1
        BY <1>1, <1>5, <1>6 DEF fetched
      <3> QED
        BY <1>1, <3>1, FirstOfFew DEF fetched
    <2>2. visible = S
      BY <1>1, <1>6, <2>1, FirstOfAll
    <2>3. ~(Cardinality(fetched) > n)
      BY <1>1, <1>5, <1>6
    <2> HIDE DEF visible
    <2>4. Page(c, n) = [items |-> visible, next_cursor |-> NULL]
      BY <2>3 DEF Page, visible, fetched, S
    <2> QED
      BY <2>2, <2>4 DEF S
  <1>7. CASE ~(Cardinality(fetched) <= n)
    <2>1. visible # {}
      <3>1. fetched # {}
        <4>1. Cardinality({}) = 0
          BY FS_EmptySet
        <4> QED
          BY <1>1, <1>7, <4>1
      <3>2. PICK m \in fetched : \A k \in fetched : m <= k
        BY <1>3, <3>1, LeastExists
      <3>3. Below(fetched, m) = {}
        <4>1. \A k \in fetched : k \in Nat /\ ~(k < m)
          BY <1>3, <3>2
        <4> QED
          BY <4>1 DEF Below
      <3>4. Cardinality(Below(fetched, m)) < n
        <4>1. Cardinality({}) = 0
          BY FS_EmptySet
        <4> QED
          BY <3>3, <4>1
      <3> QED
        BY <3>4 DEF First, Below
    <2>2. visible # fetched
      BY <1>4, <1>7
    <2>3. Cardinality(fetched) > n
      BY <1>1, <1>5, <1>7
    <2> HIDE DEF visible
    <2>4. Page(c, n) = [items |-> visible, next_cursor |-> EncodeCursor(Last(visible))]
      BY <2>1, <2>3 DEF Page, visible, fetched, S
    <2>5. /\ Last(visible) \in visible /\ \A i \in visible : i <= Last(visible)
      <3>1. visible \in SUBSET Nat
        BY <1>3, <1>4
      <3>2. \E m \in visible : \A k \in visible : k <= m
        BY <1>4, <2>1, <3>1, GreatestExists
      <3> QED
        BY <3>2, Zenon DEF Last
    <2>6. PICK last \in visible : last = Last(visible)
      BY <2>5
    <2>7. \A i \in visible : i <= last
      BY <2>5, <2>6
    <2>8. \A i \in S : i <= last => i \in visible
      BY <1>2, <1>4
    <2>9. \E i \in S : i > last
      <3>1. PICK i \in fetched : i \notin visible
        BY <1>4, <2>2
      <3>2. ~(i <= last) /\ i \in S /\ i \in Nat /\ last \in Nat
        BY <1>2, <1>3, <1>4, <3>1
      <3> QED
        BY <3>2
    <2> QED
      BY <1>2, <1>4, <2>4, <2>6, <2>7, <2>8, <2>9 DEF S
  <1> QED
    BY <1>6, <1>7
-----------------------------------------------------------------------------
(* The walk.                                                               *)

\* While the client walks, everything shown is at or before its cursor, whatever
\* was there at the start is shown or still after it, and a cursor of the server
\* has rows after it.
WalkInv ==
    /\ rows \in SUBSET Ids
    /\ pc = "idle" => seen = {}
    /\ pc = "done" => before \subseteq seen
    /\ pc = "walking" =>
          /\ cursor = NULL \/ \E i \in Ids : cursor = EncodeCursor(i)
          /\ cursor = NULL => seen = {}
          /\ cursor # NULL => \A j \in seen : j \in Nat /\ j <= cursor.base64
          /\ before \subseteq seen \cup After(cursor)
          /\ seen # {} => After(cursor) # {}

\* A limit that is passed on is at least one.
LEMMA ClampIsPositive ==
  ASSUME NEW limit \in Limits
  PROVE  Clamp(limit) \in Nat \ {0}
  <1>1. limit \in Int /\ MaxLimit \in Nat \ {0}
    BY ListingAssumption
  <1> QED
    BY <1>1 DEF Clamp

\* The walk begins with nothing shown.
LEMMA StartWalkStep ==
  ASSUME WalkInv, NEW c \in Cursors, StartWalk(c)
  PROVE  WalkInv'
  <1>1. pc = "idle" /\ cursor' = c /\ UNCHANGED <<rows, page, seen>> /\ seen = {}
    BY DEF StartWalk, WalkInv
  <1>2. CASE c = Malformed
    BY <1>1, <1>2 DEF StartWalk, WalkInv
  <1>3. CASE c # Malformed
    <2>1. pc' = "walking" /\ before' = After(c)
      BY <1>3 DEF StartWalk
    <2>2. c = NULL \/ \E i \in Ids : c = EncodeCursor(i)
      BY <1>3 DEF Cursors
    <2>3. After(cursor)' = After(c)
      BY <1>1 DEF After
    <2> QED
      BY <1>1, <2>1, <2>2, <2>3 DEF WalkInv
  <1> QED
    BY <1>2, <1>3

\* A page: what the answer says of the rows after the cursor.
LEMMA PageStep ==
  ASSUME WalkInv, NEW limit \in Limits, ListUsers(limit)
  PROVE  /\ WalkInv'
         /\ page' \subseteq After(cursor) /\ seen' = seen \cup page'
  <1> DEFINE n == Clamp(limit)
             answer == Page(cursor, n)
  <1>1. n \in Nat \ {0}
    BY ClampIsPositive
  <1>2. /\ pc = "walking" /\ UNCHANGED <<rows, before>>
        /\ page' = answer.items /\ seen' = seen \cup answer.items
        /\ cursor' = answer.next_cursor
        /\ pc' = IF answer.next_cursor = NULL THEN "done" ELSE "walking"
    BY DEF ListUsers
  <1> HIDE DEF n
  <1>3. rows \in SUBSET Ids /\ After(cursor) \in SUBSET rows
    BY DEF WalkInv, After
  <1>4. /\ answer.items \in SUBSET After(cursor)
        /\ \/ answer.next_cursor = NULL /\ answer.items = After(cursor)
           \/ \E last \in answer.items :
                 /\ answer.next_cursor = EncodeCursor(last)
                 /\ \A i \in answer.items : i <= last
                 /\ \A i \in After(cursor) : i <= last => i \in answer.items
                 /\ \E i \in After(cursor) : i > last
    BY <1>1, <1>3, PageAnswers
  <1> HIDE DEF answer
  <1>5. before \subseteq seen \cup After(cursor)
    BY <1>2 DEF WalkInv
  <1>6. CASE answer.next_cursor = NULL /\ answer.items = After(cursor)
    <2>1. pc' = "done" /\ before' \subseteq seen'
      BY <1>2, <1>5, <1>6
    <2> QED
      BY <1>2, <1>3, <1>4, <2>1 DEF WalkInv
  <1>7. ASSUME NEW last \in answer.items, answer.next_cursor = EncodeCursor(last),
               \A i \in answer.items : i <= last,
               \A i \in After(cursor) : i <= last => i \in answer.items,
               \E i \in After(cursor) : i > last
        PROVE  WalkInv'
    <2>1. last \in Ids /\ last \in Nat /\ \A i \in Ids : i \in Nat
      BY <1>3, <1>4, ListingAssumption
    <2>2. /\ cursor' = EncodeCursor(last) /\ cursor' # NULL /\ cursor'.base64 = last
          /\ pc' = "walking"
      <3>1. EncodeCursor(last) # NULL /\ EncodeCursor(last).base64 = last
        BY <2>1, CursorAssumption DEF EncodeCursor
      <3> QED
        BY <1>2, <1>7, <3>1
    <2>3. After(cursor)' = {i \in rows : i > last}
      BY <1>2, <2>2 DEF After
    <2>4. last \in After(cursor)
      BY <1>4
    <2>5. ASSUME NEW j \in seen PROVE j \in Nat /\ j <= last
      <3>1. cursor # NULL /\ j \in Nat /\ j <= cursor.base64
        BY <1>2 DEF WalkInv
      <3>2. PICK id \in Ids : cursor = EncodeCursor(id)
        BY <1>2, <3>1 DEF WalkInv
      <3>3. cursor.base64 = id /\ id \in Nat
        BY <2>1, <3>2 DEF EncodeCursor
      <3>4. last > cursor.base64
        BY <2>4, <3>1 DEF After
      <3> QED
        BY <2>1, <3>1, <3>3, <3>4
    <2>6. \A j \in seen' : j \in Nat /\ j <= last
      <3>1. \A j \in answer.items : j \in Nat /\ j <= last
        BY <1>3, <1>4, <1>7, <2>1
      <3> QED
        BY <1>2, <2>5, <3>1
    <2>7. before' \subseteq seen' \cup After(cursor)'
      <3>1. ASSUME NEW i \in After(cursor), i \notin answer.items PROVE i \in rows /\ i > last
        <4>1. i \in rows /\ i \in Nat
          BY <1>3, <2>1
        <4> QED
          BY <1>7, <2>1, <3>1, <4>1
      <3> QED
        BY <1>2, <1>5, <2>3, <3>1
    <2>8. After(cursor)' # {}
      BY <1>3, <1>7, <2>3
    <2> QED
      BY <1>2, <1>3, <2>1, <2>2, <2>6, <2>7, <2>8 DEF WalkInv
  <1> QED
    BY <1>2, <1>4, <1>6, <1>7

\* A new row only adds to what is after the cursor.
LEMMA InsertStep ==
  ASSUME WalkInv, NEW id \in Ids, InsertUser(id)
  PROVE  WalkInv'
  <1>1. rows' = rows \cup {id} /\ UNCHANGED <<pc, cursor, before, page, seen>>
    BY DEF InsertUser
  <1>2. After(cursor) \subseteq After(cursor)'
    BY <1>1 DEF After
  <1> QED
    BY <1>1, <1>2 DEF WalkInv

\* The walk's invariant, for any ids, any limits and any inserts.
THEOREM WalkInvariance == Spec => []WalkInv
  <1>1. Init => WalkInv
    BY DEF Init, WalkInv
  <1>2. WalkInv /\ [Next]_vars => WalkInv'
    <2> SUFFICES ASSUME WalkInv, [Next]_vars PROVE WalkInv'
      OBVIOUS
    <2>1. CASE Next
      BY <2>1, StartWalkStep, PageStep, InsertStep DEF Next
    <2>2. CASE UNCHANGED vars
      BY <2>2 DEF vars, WalkInv, After
    <2> QED
      BY <2>1, <2>2
  <1> QED
    BY <1>1, <1>2, PTL DEF Spec

\* A walk that has come to its end has shown every row that existed when it began,
\* whatever the limits and whatever was inserted (ListUsersHandler).
THEOREM WalksAreComplete == Spec => []WalkIsComplete
  <1>1. WalkInv => WalkIsComplete
    BY DEF WalkInv, WalkIsComplete
  <1> QED
    BY <1>1, WalkInvariance, PTL

\* A next_cursor promises a page that is not empty.
THEOREM CursorsPromiseRows == Spec => []NextPageHasRows
  <1>1. WalkInv => NextPageHasRows
    BY DEF WalkInv, NextPageHasRows
  <1> QED
    BY <1>1, WalkInvariance, PTL

\* No account is listed twice, and the pages are in key order.
THEOREM PagesAreInOrder == Spec => PagesAdvance
  <1> DEFINE Advance == (pc = "walking" /\ UNCHANGED rows) => \A i \in page', j \in seen : j < i
  <1>1. ASSUME WalkInv, Next PROVE Advance
    <2> SUFFICES ASSUME pc = "walking", UNCHANGED rows, NEW i \in page', NEW j \in seen
                 PROVE  j < i
      OBVIOUS
    <2>1. PICK limit \in Limits : ListUsers(limit)
      <3>1. ASSUME NEW c \in Cursors, StartWalk(c) PROVE FALSE
        BY <3>1 DEF StartWalk
      <3>2. ASSUME NEW id \in Ids, InsertUser(id) PROVE FALSE
        BY <3>2 DEF InsertUser
      <3> QED
        BY <1>1, <3>1, <3>2 DEF Next
    <2>2. i \in After(cursor)
      BY <1>1, <2>1, PageStep
    <2>3. cursor # NULL /\ j \in Nat /\ j <= cursor.base64
      BY <1>1 DEF WalkInv
    <2>4. PICK id \in Ids : cursor = EncodeCursor(id)
      BY <1>1, <2>3 DEF WalkInv
    <2>5. cursor.base64 = id /\ id \in Nat
      BY <2>4, ListingAssumption DEF EncodeCursor
    <2>6. i \in rows /\ i > cursor.base64
      BY <2>2, <2>3 DEF After
    <2>7. i \in Nat
      BY <1>1, <2>6, ListingAssumption DEF WalkInv
    <2> QED
      BY <2>3, <2>5, <2>6, <2>7
  <1>2. WalkInv /\ [Next]_vars => [Advance]_vars
    BY <1>1
  <1> QED
    BY <1>2, WalkInvariance, PTL DEF Spec, PagesAdvance
=============================================================================
