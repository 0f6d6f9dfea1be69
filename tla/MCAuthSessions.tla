--------------------------- MODULE MCAuthSessions ---------------------------
(***************************************************************************)
(* AuthSessions on small instances.  A run may start from the state after  *)
(* the requests in Seeds have logged in, which Init reaches, to spend its  *)
(* requests on what happens to those sessions.                             *)
(***************************************************************************)
EXTENDS AuthSessions, TLC

CONSTANT Seeds

ASSUME Seeds \subseteq Requests

\* Names are only compared, and interchangeable among seeds and among the rest.
Symmetry == Permutations(Seeds) \cup Permutations(Requests \ Seeds)
              \cup Permutations(Users)

\* Every seed has logged in at time 0 and its client holds the token pair.
SeededInit ==
    /\ users \in [Users -> [hashed_password : {Hash(p) : p \in Passwords},
                            is_active : {TRUE}]]
    /\ clock = 0
    /\ \E owner \in [Seeds -> Users] :
         /\ tokens = [t \in Requests |->
               IF t \in Seeds THEN NewRow(owner[t], t, RefreshLifetime) ELSE NULL]
         /\ req = [r \in Requests |->
               IF r \in Seeds
               THEN [NewRequest EXCEPT !.op = "login", !.pc = "ok", !.subj = owner[r],
                                       !.exp = RefreshLifetime, !.access = AccessLifetime]
               ELSE NewRequest]

SeededSpec == SeededInit /\ [][Next]_vars
SeededSerialSpec == SeededInit /\ [][SerialNext]_vars
SeededFairSpec == SeededSpec /\ \A r \in Requests : WF_vars(Continue(r))
=============================================================================
