---------------------------- MODULE MCDeployment ----------------------------
(***************************************************************************)
(* Deployment on one small instance.  It explores the operators' commands  *)
(* with one request and no outage, and the traffic of all requests with no *)
(* command but the migrate service's, never both at once.                  *)
(***************************************************************************)
EXTENDS Deployment

CONSTANT alone   \* the request that may arrive beside operators' commands

ASSUME AloneAssumption == alone \in Requests

\* No operator has started a command.
NoOperators == \A c \in Operators : commands[c].pc = "ready"

\* One request at most, and the database has not gone away.
NoTraffic == /\ \A r \in Requests \ {alone} : requests[r].pc = "new"
             /\ database.outages = 0

BoundedNext == Next /\ (NoOperators \/ NoTraffic)'

BoundedSpec == /\ Init /\ [][BoundedNext]_vars
               /\ WF_vars(/\ \E r \in Requests : Continue(r, Tables)
                          /\ UNCHANGED <<schemaVars, undone>>)
=============================================================================
