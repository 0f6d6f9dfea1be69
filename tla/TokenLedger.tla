---------------------------- MODULE TokenLedger ----------------------------
(***************************************************************************)
(* What the refresh-token table promises, with no handlers, locks or       *)
(* clocks: tokens are only ever opened, rotated or revoked, each in one    *)
(* step, and a revocation takes tokens of one user.                        *)
(* RefreshTokenRecord and its docstring are the abstraction's source; the  *)
(* chain it speaks of is not promised: a token may be rotated twice.       *)
(***************************************************************************)
CONSTANTS Jtis, Users, NULL

VARIABLE ledger   \* by jti: owner, family and whether it is revoked

Token == [owner : Users, family : Jtis, revoked : BOOLEAN]

Known(j) == ledger[j] # NULL

\* A login opens a family with a usable token.
Open(j, u) ==
    /\ ~Known(j)
    /\ ledger' = [ledger EXCEPT ![j] = [owner |-> u, family |-> j, revoked |-> FALSE]]

\* A refresh revokes the presented token and adds its successor, both or neither.
Rotate(p, j) ==
    /\ Known(p) /\ ~Known(j)
    /\ ledger' = [i \in Jtis |-> IF i = j THEN [ledger[p] EXCEPT !.revoked = FALSE]
                                 ELSE IF i = p THEN [ledger[p] EXCEPT !.revoked = TRUE]
                                 ELSE ledger[i]]

\* Logout, replay detection and password change revoke tokens of one user.
Revoke(u, S) ==
    /\ \A j \in S : Known(j) /\ ledger[j].owner = u
    /\ ledger' = [j \in Jtis |-> IF j \in S THEN [ledger[j] EXCEPT !.revoked = TRUE]
                                            ELSE ledger[j]]

Init == ledger = [j \in Jtis |-> NULL]

Next ==
    \/ \E j \in Jtis, u \in Users : Open(j, u)
    \/ \E p, j \in Jtis : Rotate(p, j)
    \/ \E u \in Users, S \in SUBSET Jtis : Revoke(u, S)

Spec == Init /\ [][Next]_ledger
=============================================================================
