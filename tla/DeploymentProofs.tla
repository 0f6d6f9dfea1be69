-------------------------- MODULE DeploymentProofs --------------------------
(***************************************************************************)
(* The deployment: the schema the api runs on, and the service's pool,     *)
(* requests and shutdown.                                                  *)
(*                                                                         *)
(* DeploymentInv is inductive.  Its first part says what the order of      *)
(* docker compose adds to MigrationsInv.  Its second part says of every    *)
(* request what its program still has to do, given whether it holds a      *)
(* connection; who holds the slots of the pool that are not idle; which    *)
(* requests know of an outage; and what is left open in each phase.  The   *)
(* third joins them: only a downgrade takes tables from under a request.   *)
(*                                                                         *)
(* The parts need each other: a request that Redis or an event handler     *)
(* fails returns nothing to the pool, which loses no slot only because     *)
(* every program has committed before it waits for either; and what a      *)
(* request finds missing depends on what the migrate service has left.     *)
(***************************************************************************)
EXTENDS Deployment, MigrationsProofs

(* The schema.                                                             *)

\* The migrate service upgrades.  Unless a downgrade undoes it: if it has nothing
\* to do, the database is at the newest revision, and once it is done, it stays
\* there.  The api runs only when it is done.
DeployInv ==
    /\ MigrationsInv
    /\ undone \in BOOLEAN
    /\ Running(migrate) => commands[migrate].kind = "upgrade"
    /\ ~undone =>
          /\ (Running(migrate) /\ commands[migrate].at = 2) => revisions = {2}
          /\ commands[migrate].pc = "done" => revisions = {2}
    /\ phase # "stopped" => commands[migrate].pc = "done"

\* The schema is empty, and nothing runs.
LEMMA InitDeploy == Init => DeployInv
  <1> SUFFICES ASSUME Init PROVE DeployInv
    OBVIOUS
  <1>1. MigrationsInv
    BY InitMigrations DEF Init
  <1>2. commands[migrate].pc = "ready" /\ phase = "stopped" /\ undone \in BOOLEAN
    BY MigrateAssumption DEF Init, InitSchema, InitService, Ready
  <1> QED
    BY <1>1, <1>2 DEF DeployInv, Running

\* A command that starts is at a committed version, or fails at once.
LEMMA StartedCommand ==
  ASSUME MigrationsInv, NEW c \in Commands, NEW kind \in {"upgrade", "downgrade"},
         Start(c, kind)
  PROVE  /\ commands[c].pc = "ready" /\ UNCHANGED <<schema, revisions>>
         /\ \A d \in Commands \ {c} : commands'[d] = commands[d]
         /\ commands'[c].pc \in {"running", "failed"}
         /\ Running(c)' => commands'[c].kind = kind
         /\ (Running(c)' /\ commands'[c].at = 2) => revisions = {2}
  <1>1. commands[c].pc = "ready" /\ UNCHANGED <<schema, revisions>>
        /\ SchemaSafe /\ commands \in [Commands -> CommandState]
    BY DEF Start, MigrationsInv
  <1>2. PICK at \in IF revisions = {} THEN {0} ELSE revisions :
           IF kind = "downgrade" /\ at = 0 THEN EndAs(c, "failed")
           ELSE commands' = [commands EXCEPT ![c] =
                    [pc |-> "running", kind |-> kind, at |-> at, next |-> 1,
                     fresh |-> at = 0 /\ AlembicVersion \notin schema]]
    BY DEF Start
  <1>3. CASE EndAs(c, "failed")
    <2>1. /\ commands' \in [Commands -> CommandState] /\ ~Running(c)'
          /\ \A d \in Commands \ {c} : commands'[d] = commands[d]
          /\ commands'[c].pc = "failed"
      BY <1>1, <1>3, EndedCommand
    <2> QED
      BY <1>1, <2>1
  <1>4. ASSUME NEW fresh,
               commands' = [commands EXCEPT ![c] =
                   [pc |-> "running", kind |-> kind, at |-> at, next |-> 1, fresh |-> fresh]]
        PROVE  /\ \A d \in Commands \ {c} : commands'[d] = commands[d]
               /\ commands'[c].pc = "running"
               /\ commands'[c].kind = kind
               /\ commands'[c].at = 2 => revisions = {2}
    <2>1. at = 2 => revisions = {2}
      BY <1>1 DEF SchemaSafe
    <2> QED
      BY <1>1, <1>4, <2>1
  <1> QED
    BY <1>1, <1>2, <1>3, <1>4

\* Somebody starts a command, whatever else runs.
LEMMA OperatorStep ==
  ASSUME DeployInv, NEW c \in Operators, NEW kind \in {"upgrade", "downgrade"},
         OperatorStart(c, kind)
  PROVE  DeployInv'
  <1>1. c \in Commands /\ c # migrate /\ Start(c, kind) /\ phase' = phase /\ undone' = undone
    BY DEF OperatorStart, Operators, serviceVars
  <1>2. MigrationsInv /\ MigrationsInv'
    BY <1>1, StartStep DEF DeployInv
  <1>3. commands'[migrate] = commands[migrate] /\ revisions' = revisions
    BY <1>1, <1>2, StartedCommand, MigrateAssumption
  <1> QED
    BY <1>1, <1>2, <1>3 DEF DeployInv, Running

\* The migrate service starts beside whatever runs.
LEMMA ComposeStep == DeployInv /\ ComposeUp => DeployInv'
  <1> SUFFICES ASSUME DeployInv, ComposeUp PROVE DeployInv'
    OBVIOUS
  <1>1. Start(migrate, "upgrade") /\ phase' = phase /\ undone' = undone
    BY DEF ComposeUp, serviceVars
  <1>2. MigrationsInv /\ MigrationsInv'
    BY <1>1, StartStep, MigrateAssumption DEF DeployInv
  <1>3. /\ commands[migrate].pc = "ready" /\ UNCHANGED <<schema, revisions>>
        /\ commands'[migrate].pc \in {"running", "failed"}
        /\ Running(migrate)' => commands'[migrate].kind = "upgrade"
        /\ (Running(migrate)' /\ commands'[migrate].at = 2) => revisions = {2}
    BY <1>1, <1>2, StartedCommand, MigrateAssumption
  <1>4. phase' = "stopped"
    BY <1>1, <1>3 DEF DeployInv
  <1> QED
    BY <1>1, <1>2, <1>3, <1>4 DEF DeployInv

\* What a running command reads of itself does not change, and the others go on.
LEMMA MigratingCommand ==
  ASSUME MigrationsInv, NEW c \in Commands, Migrate(c)
  PROVE  /\ Running(c)
         /\ \A d \in Commands \ {c} : commands'[d] = commands[d]
         /\ Running(c)' => /\ commands'[c].kind = commands[c].kind
                           /\ commands'[c].at = commands[c].at
         /\ commands'[c].pc \in {"running", "failed"} => UNCHANGED revisions
         /\ commands'[c].pc = "done" => CommitMigrations(c)
         /\ commands'[c].pc \in {"running", "failed", "done"}
  <1>1. commands \in [Commands -> CommandState]
    BY DEF MigrationsInv
  <1>2. ASSUME EndAs(c, "failed"), Running(c), UNCHANGED revisions
        PROVE  /\ ~Running(c)' /\ commands'[c].pc = "failed"
               /\ \A d \in Commands \ {c} : commands'[d] = commands[d]
    BY <1>1, <1>2, EndedCommand
  <1>3. CASE RunStatement(c)
    <2>1. /\ Running(c) /\ UNCHANGED revisions
          /\ \/ commands' = [commands EXCEPT ![c].next = @ + 1]
             \/ EndAs(c, "failed")
      BY <1>3 DEF RunStatement
    <2>2. CASE EndAs(c, "failed")
      BY <1>2, <2>1, <2>2
    <2>3. CASE commands' = [commands EXCEPT ![c].next = @ + 1]
      BY <1>1, <2>1, <2>3 DEF CommandState, Running
    <2> QED
      BY <2>1, <2>2, <2>3
  <1>4. CASE CommitMigrations(c)
    <2>1. Running(c) /\ EndAs(c, "done")
      BY <1>4 DEF CommitMigrations
    <2>2. /\ ~Running(c)' /\ commands'[c].pc = "done"
          /\ \A d \in Commands \ {c} : commands'[d] = commands[d]
      BY <1>1, <2>1, EndedCommand
    <2> QED
      BY <1>4, <2>1, <2>2
  <1>5. CASE Interrupt(c)
    BY <1>2, <1>5 DEF Interrupt
  <1> QED
    BY <1>3, <1>4, <1>5 DEF Migrate

\* An upgrade that commits leaves the newest revision.
LEMMA UpgradeCommitted ==
  ASSUME MigrationsInv, NEW c \in Commands, CommitMigrations(c),
         commands[c].kind = "upgrade", commands[c].at = 2 => revisions = {2}
  PROVE  revisions' = {2}
  <1>1. Running(c)
    BY DEF CommitMigrations
  <1>2. CASE PlanOf(c) # <<>>
    BY <1>2, CommitSchema
  <1>3. CASE PlanOf(c) = <<>>
    <2>1. commands[c].at = 2
      <3>1. Plan("upgrade", 0, TRUE) # <<>> /\ Plan("upgrade", 0, FALSE) # <<>>
            /\ Plan("upgrade", 1, FALSE) # <<>>
        <4>1. ASSUME NEW s, NEW n \in {4, 7, 8}, Len(s) = n PROVE s # <<>>
          BY <4>1
        <4>2. 4 \in {4, 7, 8} /\ 7 \in {4, 7, 8} /\ 8 \in {4, 7, 8}
          OBVIOUS
        <4> QED
          BY <4>1, <4>2, PlanHeads, Zenon
      <3> QED
        BY <1>1, <1>3, <3>1, PlanCases
    <2> QED
      BY <1>3, <2>1, CommitSchema
  <1> QED
    BY <1>2, <1>3

\* Every step of a command: only a downgrade takes the newest revision away once
\* the migrate service has read the version.
LEMMA MigratingStep ==
  ASSUME DeployInv, NEW c \in Commands, Migrating(c)
  PROVE  DeployInv'
  <1>1. Migrate(c) /\ phase' = phase /\ undone' = (undone \/ Undoes(c))
    BY DEF Migrating, serviceVars
  <1>2. MigrationsInv /\ MigrationsInv' /\ commands[c] \in CommandState
    BY <1>1, MigrateStep DEF DeployInv, MigrationsInv
  <1>3. /\ Running(c)
        /\ \A d \in Commands \ {c} : commands'[d] = commands[d]
        /\ Running(c)' => /\ commands'[c].kind = commands[c].kind
                          /\ commands'[c].at = commands[c].at
        /\ commands'[c].pc \in {"running", "failed"} => UNCHANGED revisions
        /\ commands'[c].pc = "done" => CommitMigrations(c)
        /\ commands'[c].pc \in {"running", "failed", "done"}
    BY <1>1, <1>2, MigratingCommand
  <1>4. undone' \in BOOLEAN
    BY <1>1
  <1>5. Running(migrate)' => /\ Running(migrate)
                            /\ commands'[migrate].kind = commands[migrate].kind
                            /\ commands'[migrate].at = commands[migrate].at
    BY <1>3, MigrateAssumption DEF Running
  <1>6. phase' # "stopped" => commands'[migrate].pc = "done"
    BY <1>1, <1>3, MigrateAssumption DEF DeployInv, Running
  <1>7. ASSUME ~undone'
        PROVE  /\ (Running(migrate)' /\ commands'[migrate].at = 2) => revisions' = {2}
               /\ commands'[migrate].pc = "done" => revisions' = {2}
    <2>1. ~undone /\ ~Undoes(c)
      BY <1>1, <1>7
    <2>2. /\ (Running(migrate) /\ commands[migrate].at = 2) => revisions = {2}
          /\ commands[migrate].pc = "done" => revisions = {2}
          /\ Running(migrate) => commands[migrate].kind = "upgrade"
      BY <2>1 DEF DeployInv
    <2>3. CASE commands[migrate].pc = "ready"
      <3>1. c # migrate
        BY <1>3, <2>3 DEF Running
      <3> QED
        BY <1>3, <2>3, <3>1, MigrateAssumption DEF Running
    <2>4. CASE commands[migrate].pc # "ready"
      <3>1. ASSUME revisions' # revisions PROVE revisions' = {2}
        <4>1. CommitMigrations(c)
          BY <1>3, <3>1
        <4>2. commands[c].kind = "upgrade"
          BY <1>2, <2>1, <2>4, <4>1 DEF Undoes, CommandState
        <4>3. CASE PlanOf(c) = <<>>
          BY <1>2, <3>1, <4>1, <4>3, CommitSchema
        <4>4. CASE PlanOf(c) # <<>>
          BY <1>2, <4>1, <4>2, <4>4, CommitSchema
        <4> QED
          BY <4>3, <4>4
      <3>2. ASSUME commands'[migrate].pc = "done" PROVE revisions' = {2}
        <4>1. CASE c = migrate
          BY <1>2, <1>3, <2>2, <3>2, <4>1, UpgradeCommitted
        <4>2. CASE c # migrate
          BY <1>3, <2>2, <3>1, <3>2, <4>2, MigrateAssumption
        <4> QED
          BY <4>1, <4>2
      <3>3. (Running(migrate)' /\ commands'[migrate].at = 2) => revisions' = {2}
        BY <1>5, <2>2, <3>1
      <3> QED
        BY <3>2, <3>3
    <2> QED
      BY <2>3, <2>4
  <1> QED
    BY <1>2, <1>4, <1>5, <1>6, <1>7 DEF DeployInv

\* What leaves the commands and the schema alone, and does not start the api before
\* the migrate service is done.
LEMMA SchemaFrame ==
  ASSUME DeployInv, UNCHANGED <<schemaVars, undone>>,
         phase' = "stopped" \/ commands[migrate].pc = "done"
  PROVE  DeployInv'
  <1>1. UNCHANGED <<schema, revisions, commands, undone>>
    BY DEF schemaVars
  <1>2. MigrationsInv'
    BY <1>1 DEF DeployInv, MigrationsInv, SchemaSafe, Version, CommandSafe, HasPlan,
           AtVersion, PlanOf, Running, TouchesDisjoint, Executed
  <1> QED
    BY <1>1, <1>2 DEF DeployInv, Running

\* The api finds its tables unless a downgrade has taken them.
ApiTables == {"users", "refresh_tokens"}

LEMMA TablesServed ==
  ASSUME DeployInv, phase # "stopped", ~undone
  PROVE  /\ revisions = {HeadRevision} /\ schema \ {AlembicVersion} = Metadata
         /\ ApiTables \subseteq Tables
  <1>1. revisions = {2} /\ SchemaSafe
    BY DEF DeployInv, MigrationsInv
  <1>2. HeadRevision = 2
    BY DEF HeadRevision, Revisions
  <1>3. Version = 2 /\ SchemaOf(2) = Metadata
    BY <1>1 DEF Version, SchemaOf
  <1>4. schema \ {AlembicVersion} = Metadata
    BY <1>1, <1>3 DEF SchemaSafe
  <1>5. UsersTable \in schema /\ TokensTable \in schema
    BY <1>4, Models
  <1>6. /\ UsersTable.kind = "table" /\ UsersTable.table = "users"
        /\ TokensTable.kind = "table" /\ TokensTable.table = "refresh_tokens"
    BY Objects
  <1>7. "users" \in Tables /\ "refresh_tokens" \in Tables
    BY <1>5, <1>6 DEF Tables
  <1> QED
    BY <1>1, <1>2, <1>4, <1>7 DEF ApiTables
-----------------------------------------------------------------------------
(* The service: programs.                                                  *)

\* What a step waits for.
Kinds == {"sql", "commit", "redis", "hash", "events"}
Steps == [on : Kinds, uses : SUBSET ApiTables, may_refuse : BOOLEAN]

\* Every wait for Redis or for event handlers comes after a commit.
Releases(todo) ==
    \A k \in 1..Len(todo) : todo[k].on \in {"redis", "events"} =>
        \E j \in 1..(k - 1) : todo[j].on = "commit"

\* Every commit comes after a statement.
Connects(todo) ==
    \A k \in 1..Len(todo) : todo[k].on = "commit" =>
        \E j \in 1..(k - 1) : todo[j].on = "sql"

\* Between a statement and a wait for Redis or for event handlers there is a
\* commit, and between two commits there is a statement.
Ordered(todo) ==
    \A i, k \in 1..Len(todo) : i < k =>
        /\ (todo[i].on = "sql" /\ todo[k].on \in {"redis", "events"}) =>
              \E j \in (i + 1)..(k - 1) : todo[j].on = "commit"
        /\ (todo[i].on = "commit" /\ todo[k].on = "commit") =>
              \E j \in (i + 1)..(k - 1) : todo[j].on = "sql"

\* The states of a request.
RequestState ==
    [pc : {"new", "run", "hashing", "done", "DatabaseError", "SchemaError"},
     todo : Seq(Steps), conn : {"none", "ok", "dead"}, outage : BOOLEAN]

\* What holds of the state q of a request, whatever else happens.
RequestSafe(q) ==
    /\ Ordered(q.todo)
    /\ q.conn # "none" => Releases(q.todo)
    /\ q.conn = "none" => Connects(q.todo)
    /\ q.pc = "hashing" => q.todo # <<>> /\ q.todo[1].on = "hash"
    /\ q.pc \notin {"run", "hashing"} => q.conn = "none" /\ q.todo = <<>>
    /\ q.pc = "DatabaseError" => q.outage = TRUE

\* A request in flight knows of the outage it runs in or has a connection from.
KnowsOutage(r) ==
    (Serving /\ r \in InFlight /\ (requests[r].conn = "dead" \/ ~database.up))
        => requests[r].outage = TRUE

\* The requests that hold a connection.
Holders == {r \in InFlight : requests[r].conn # "none"}

\* The types of the service's variables, without the limits of the pool.
ServiceTypes ==
    /\ phase \in {"stopped", "serving", "draining", "closing", "aborting", "exited",
                  "aborted"}
    /\ resources \subseteq {"engine", "redis"}
    /\ idle \in [ok : Nat, dead : Nat]
    /\ opened \in Nat
    /\ database \in [up : BOOLEAN, outages : 0..MaxOutages]
    /\ requests \in [Requests -> RequestState]

\* The slots in use are the idle connections and the holders'.
PoolInv ==
    /\ IsFiniteSet(Holders)
    /\ opened = idle.ok + idle.dead + Cardinality(Holders)
    /\ opened <= Capacity
    /\ idle.ok + idle.dead <= PoolSize

\* Nothing is in flight outside the phases that serve or abort, and without an
\* engine there are no connections, unless requests are being cancelled.
ShutdownInv ==
    /\ phase \in {"stopped", "closing", "exited"} => InFlight = {}
    /\ (phase \notin {"aborting", "aborted"} /\ "engine" \notin resources) => opened = 0
    /\ phase = "exited" => resources = {}

\* The service's half of the inductive invariant.
ServiceInv ==
    /\ ServiceTypes
    /\ \A r \in Requests : RequestSafe(requests[r]) /\ KnowsOutage(r)
    /\ PoolInv
    /\ ShutdownInv

\* The rest of a program keeps its order, and what the step before did for it.
LEMMA TailSafe ==
  ASSUME NEW todo \in Seq(Steps), todo # <<>>, Ordered(todo)
  PROVE  /\ Tail(todo) \in Seq(Steps)
         /\ Ordered(Tail(todo))
         /\ todo[1].on = "commit" => Connects(Tail(todo))
         /\ (Connects(todo) /\ todo[1].on # "sql") => Connects(Tail(todo))
         /\ (Releases(todo) /\ todo[1].on # "commit") => Releases(Tail(todo))
  <1> DEFINE t == Tail(todo)
  <1>1. /\ t \in Seq(Steps) /\ Len(todo) \in Nat /\ Len(t) \in Nat /\ Len(t) = Len(todo) - 1
        /\ Len(todo) >= 1
        /\ \A i \in 1..Len(t) : t[i] = todo[i + 1]
    OBVIOUS
  <1> HIDE DEF t
  <1>2. \A i \in 1..Len(t) : i + 1 \in 1..Len(todo)
    BY <1>1
  <1>3. Ordered(t)
    <2> SUFFICES ASSUME NEW i \in 1..Len(t), NEW k \in 1..Len(t), i < k
                 PROVE  /\ (t[i].on = "sql" /\ t[k].on \in {"redis", "events"}) =>
                              \E j \in (i + 1)..(k - 1) : t[j].on = "commit"
                        /\ (t[i].on = "commit" /\ t[k].on = "commit") =>
                              \E j \in (i + 1)..(k - 1) : t[j].on = "sql"
      BY DEF Ordered
    <2>1. i + 1 \in 1..Len(todo) /\ k + 1 \in 1..Len(todo) /\ i + 1 < k + 1
          /\ t[i] = todo[i + 1] /\ t[k] = todo[k + 1]
      BY <1>1, <1>2
    <2>2. ASSUME NEW kind, NEW j \in (i + 2)..k, todo[j].on = kind
          PROVE  \E m \in (i + 1)..(k - 1) : t[m].on = kind
      <3>1. j - 1 \in (i + 1)..(k - 1) /\ j - 1 \in 1..Len(t) /\ j - 1 + 1 = j
        BY <1>1
      <3> QED
        BY <1>1, <2>2, <3>1
    <2>3. PICK a \in 1..Len(todo), b \in 1..Len(todo) :
            a = i + 1 /\ b = k + 1 /\ a < b /\ t[i] = todo[a] /\ t[k] = todo[b]
      BY <2>1, Zenon
    <2>4. /\ (todo[a].on = "sql" /\ todo[b].on \in {"redis", "events"}) =>
                 \E j \in (a + 1)..(b - 1) : todo[j].on = "commit"
          /\ (todo[a].on = "commit" /\ todo[b].on = "commit") =>
                 \E j \in (a + 1)..(b - 1) : todo[j].on = "sql"
      BY <2>3, Zenon DEF Ordered
    <2>5. a + 1 = i + 2 /\ b - 1 = k
      BY <1>1, <2>3
    <2>6. ASSUME t[i].on = "sql", t[k].on \in {"redis", "events"}
          PROVE  \E j \in (i + 2)..k : todo[j].on = "commit"
      BY <2>3, <2>4, <2>5, <2>6, Zenon
    <2>7. ASSUME t[i].on = "commit", t[k].on = "commit"
          PROVE  \E j \in (i + 2)..k : todo[j].on = "sql"
      BY <2>3, <2>4, <2>5, <2>7, Zenon
    <2> QED
      BY <2>2, <2>6, <2>7
  <1>4. ASSUME todo[1].on = "commit" PROVE Connects(t)
    <2> SUFFICES ASSUME NEW k \in 1..Len(t), t[k].on = "commit"
                 PROVE  \E j \in 1..(k - 1) : t[j].on = "sql"
      BY DEF Connects
    <2>1. 1 \in 1..Len(todo) /\ k + 1 \in 1..Len(todo) /\ 1 < k + 1 /\ todo[k + 1].on = "commit"
      BY <1>1, <1>2
    <2>2. PICK j \in (1 + 1)..((k + 1) - 1) : todo[j].on = "sql"
      BY <1>4, <2>1 DEF Ordered
    <2>3. j - 1 \in 1..(k - 1) /\ j - 1 \in 1..Len(t) /\ j - 1 + 1 = j
      BY <1>1
    <2> QED
      BY <1>1, <2>2, <2>3
  <1>5. ASSUME Connects(todo), todo[1].on # "sql" PROVE Connects(t)
    <2> SUFFICES ASSUME NEW k \in 1..Len(t), t[k].on = "commit"
                 PROVE  \E j \in 1..(k - 1) : t[j].on = "sql"
      BY DEF Connects
    <2>1. k + 1 \in 1..Len(todo) /\ todo[k + 1].on = "commit"
      BY <1>1, <1>2
    <2>2. PICK j \in 1..((k + 1) - 1) : todo[j].on = "sql"
      BY <1>5, <2>1 DEF Connects
    <2>3. j - 1 \in 1..(k - 1) /\ j - 1 \in 1..Len(t) /\ j - 1 + 1 = j
      BY <1>1, <1>5, <2>2
    <2> QED
      BY <1>1, <2>2, <2>3
  <1>6. ASSUME Releases(todo), todo[1].on # "commit" PROVE Releases(t)
    <2> SUFFICES ASSUME NEW k \in 1..Len(t), t[k].on \in {"redis", "events"}
                 PROVE  \E j \in 1..(k - 1) : t[j].on = "commit"
      BY DEF Releases
    <2>1. k + 1 \in 1..Len(todo) /\ todo[k + 1].on \in {"redis", "events"}
      BY <1>1, <1>2
    <2>2. PICK j \in 1..((k + 1) - 1) : todo[j].on = "commit"
      BY <1>6, <2>1 DEF Releases
    <2>3. j - 1 \in 1..(k - 1) /\ j - 1 \in 1..Len(t) /\ j - 1 + 1 = j
      BY <1>1, <1>6, <2>2
    <2> QED
      BY <1>1, <2>2, <2>3
  <1> QED
    BY <1>1, <1>3, <1>4, <1>5, <1>6 DEF t

\* What the step a request is at says of its connection.
LEMMA HeadSafe ==
  ASSUME NEW todo \in Seq(Steps), todo # <<>>
  PROVE  /\ Head(todo) = todo[1] /\ Head(todo) \in Steps
         /\ Releases(todo) => todo[1].on \notin {"redis", "events"}
         /\ Connects(todo) => todo[1].on # "commit"
         /\ (Ordered(todo) /\ todo[1].on = "sql") => Releases(todo)
  <1>1. Len(todo) \in Nat /\ 1 \in 1..Len(todo) /\ Head(todo) = todo[1] /\ Head(todo) \in Steps
    OBVIOUS
  <1>2. Releases(todo) => todo[1].on \notin {"redis", "events"}
    BY <1>1 DEF Releases
  <1>3. Connects(todo) => todo[1].on # "commit"
    BY <1>1 DEF Connects
  <1>4. ASSUME Ordered(todo), todo[1].on = "sql",
               NEW k \in 1..Len(todo), todo[k].on \in {"redis", "events"}
        PROVE  \E j \in 1..(k - 1) : todo[j].on = "commit"
    <2>1. 1 < k
      BY <1>1, <1>4
    <2>2. PICK j \in (1 + 1)..(k - 1) : todo[j].on = "commit"
      BY <1>1, <1>4, <2>1 DEF Ordered
    <2> QED
      BY <1>1, <2>2
  <1> QED
    BY <1>1, <1>2, <1>3, <1>4 DEF Releases

\* A program without steps, and what a cancelled request may still finish.
LEMMA ShortSafe ==
  /\ <<>> \in Seq(Steps) /\ Ordered(<<>>) /\ Releases(<<>>) /\ Connects(<<>>)
  /\ <<Step("hash", {})>> \in Seq(Steps) /\ Ordered(<<Step("hash", {})>>)
  /\ Releases(<<Step("hash", {})>>) /\ Connects(<<Step("hash", {})>>)
  /\ <<Step("hash", {})>> # <<>> /\ <<Step("hash", {})>>[1].on = "hash"
  <1>1. <<>> \in Seq(Steps) /\ Ordered(<<>>) /\ Releases(<<>>) /\ Connects(<<>>)
    BY DEF Ordered, Releases, Connects
  <1>2. Step("hash", {}) \in Steps /\ Step("hash", {}).on = "hash"
    BY DEF Step, Steps, Kinds
  <1>3. ASSUME NEW s \in Steps, s.on = "hash"
        PROVE  /\ <<s>> \in Seq(Steps) /\ Ordered(<<s>>) /\ Releases(<<s>>) /\ Connects(<<s>>)
               /\ <<s>> # <<>> /\ <<s>>[1].on = "hash"
    BY <1>3 DEF Ordered, Releases, Connects
  <1> QED
    BY <1>1, <1>2, <1>3

\* Steps wait for what they name.
LEMMA StepKinds ==
  ASSUME NEW kind \in Kinds, NEW tables \in SUBSET ApiTables
  PROVE  /\ Step(kind, tables) \in Steps /\ Step(kind, tables).on = kind
         /\ Check(kind, tables) \in Steps /\ Check(kind, tables).on = kind
  BY DEF Step, Check, Steps

\* Every endpoint's program is in order, and starts without a connection.
LEMMA EndpointsSafe ==
  ASSUME NEW program \in Endpoints
  PROVE  program \in Seq(Steps) /\ Ordered(program) /\ Connects(program)
  <1>1. \A kind \in Kinds, tables \in SUBSET ApiTables :
           /\ Step(kind, tables) \in Steps /\ Step(kind, tables).on = kind
           /\ Check(kind, tables) \in Steps /\ Check(kind, tables).on = kind
    BY StepKinds
  <1>2. \A a \in Steps : a.on = "sql" => <<a>> \in Seq(Steps) /\ Ordered(<<a>>) /\ Connects(<<a>>)
    BY DEF Ordered, Connects
  <1>3. ASSUME NEW a \in Steps, NEW b \in Steps, a.on = "sql", b.on = "commit"
        PROVE  <<a, b>> \in Seq(Steps) /\ Ordered(<<a, b>>) /\ Connects(<<a, b>>)
    BY <1>3 DEF Ordered, Connects
  <1>4. ASSUME NEW a \in Steps, NEW b \in Steps, NEW c \in Steps, NEW d \in Steps,
               a.on = "redis", b.on = "sql", c.on = "hash", d.on = "commit"
        PROVE  <<a, b, c, d>> \in Seq(Steps) /\ Ordered(<<a, b, c, d>>)
               /\ Connects(<<a, b, c, d>>)
    BY <1>4 DEF Ordered, Connects
  <1>5. ASSUME NEW a \in Steps, NEW b \in Steps, NEW c \in Steps, NEW d \in Steps,
               NEW e \in Steps,
               a.on = "redis", b.on = "sql", c.on = "hash", d.on = "commit", e.on = "events"
        PROVE  <<a, b, c, d, e>> \in Seq(Steps) /\ Ordered(<<a, b, c, d, e>>)
               /\ Connects(<<a, b, c, d, e>>)
    BY <1>5 DEF Ordered, Connects
  <1>6. ASSUME NEW a \in Steps, NEW b \in Steps, NEW c \in Steps, NEW d \in Steps,
               NEW e \in Steps,
               a.on = "sql", b.on = "hash", c.on = "hash", d.on = "sql", e.on = "commit"
        PROVE  <<a, b, c, d, e>> \in Seq(Steps) /\ Ordered(<<a, b, c, d, e>>)
               /\ Connects(<<a, b, c, d, e>>)
    BY <1>6 DEF Ordered, Connects
  <1>7. "sql" \in Kinds /\ "commit" \in Kinds /\ "redis" \in Kinds /\ "hash" \in Kinds
        /\ "events" \in Kinds
        /\ {} \in SUBSET ApiTables /\ {"users"} \in SUBSET ApiTables
        /\ {"refresh_tokens"} \in SUBSET ApiTables
        /\ {"users", "refresh_tokens"} \in SUBSET ApiTables
        /\ {"refresh_tokens", "users"} \in SUBSET ApiTables
    BY DEF Kinds, ApiTables
  <1>8. CASE program = Liveness
    BY <1>8, ShortSafe DEF Liveness
  <1>9. CASE program \in {Readiness, ReadMe, GetUser, ListUsers}
    <2>1. \A tables \in SUBSET ApiTables :
             /\ <<Step("sql", tables)>> \in Seq(Steps) /\ Ordered(<<Step("sql", tables)>>)
             /\ Connects(<<Step("sql", tables)>>)
      BY <1>1, <1>2, <1>7, Zenon
    <2>2. program = <<Step("sql", {})>> \/ program = <<Step("sql", {"users"})>>
      BY <1>9 DEF Readiness, ReadMe, GetUser, ListUsers
    <2> QED
      BY <1>7, <2>1, <2>2, Zenon
  <1>10. CASE program = RefreshTokens \/ program = Logout
    <2>1. \A t, u \in SUBSET ApiTables :
             LET p == <<Check("sql", t), Step("commit", u)>>
             IN  p \in Seq(Steps) /\ Ordered(p) /\ Connects(p)
      BY <1>1, <1>3, <1>7, Zenon
    <2> QED
      BY <1>7, <1>10, <2>1, Zenon DEF RefreshTokens, Logout
  <1>11. CASE program = Login
    BY <1>1, <1>4, <1>7, <1>11, Zenon DEF Login
  <1>12. CASE program = Register
    BY <1>1, <1>5, <1>7, <1>12, Zenon DEF Register
  <1>13. CASE program = ChangePassword
    BY <1>1, <1>6, <1>7, <1>13, Zenon DEF ChangePassword
  <1> QED
    BY <1>8, <1>9, <1>10, <1>11, <1>12, <1>13 DEF Endpoints
-----------------------------------------------------------------------------
(* The service: steps of one request.                                      *)

\* A request goes on to the rest of its program, or refuses and is left with none.
LEMMA AdvancedSafe ==
  ASSUME NEW q \in RequestState, RequestSafe(q), q.todo # <<>>, NEW s \in Advanced(q)
  PROVE  /\ s \in RequestState /\ s.pc = "run" /\ s.conn = q.conn /\ s.outage = q.outage
         /\ Ordered(s.todo)
         /\ q.todo[1].on = "commit" => Connects(s.todo)
         /\ (q.todo[1].on \notin {"sql", "commit"}
                \/ (q.todo[1].on = "sql" /\ q.conn # "none")) => RequestSafe(s)
  <1>1. q.todo \in Seq(Steps) /\ Ordered(q.todo)
    BY DEF RequestState, RequestSafe
  <1>2. /\ Tail(q.todo) \in Seq(Steps) /\ Ordered(Tail(q.todo))
        /\ q.todo[1].on = "commit" => Connects(Tail(q.todo))
        /\ (Connects(q.todo) /\ q.todo[1].on # "sql") => Connects(Tail(q.todo))
        /\ (Releases(q.todo) /\ q.todo[1].on # "commit") => Releases(Tail(q.todo))
    BY <1>1, TailSafe
  <1>3. s = [q EXCEPT !.pc = "run", !.todo = Tail(q.todo)]
        \/ s = [q EXCEPT !.pc = "run", !.todo = <<>>]
    BY DEF Advanced
  <1>4. PICK rest \in Seq(Steps) :
           /\ s = [q EXCEPT !.pc = "run", !.todo = rest]
           /\ Ordered(rest)
           /\ q.todo[1].on = "commit" => Connects(rest)
           /\ (Connects(q.todo) /\ q.todo[1].on # "sql") => Connects(rest)
           /\ (Releases(q.todo) /\ q.todo[1].on # "commit") => Releases(rest)
    BY <1>2, <1>3, ShortSafe, Zenon
  <1>5. /\ s \in RequestState /\ s.pc = "run" /\ s.conn = q.conn /\ s.outage = q.outage
        /\ s.todo = rest
    BY <1>4 DEF RequestState
  <1>6. ASSUME q.todo[1].on \notin {"sql", "commit"}
                  \/ (q.todo[1].on = "sql" /\ q.conn # "none")
        PROVE  RequestSafe(s)
    BY <1>4, <1>5, <1>6 DEF RequestSafe
  <1> QED
    BY <1>4, <1>5, <1>6

\* One request changes, the others do not.
LEMMA OneRequest ==
  ASSUME requests \in [Requests -> RequestState], NEW r \in Requests,
         NEW q \in RequestState, Becomes(r, q)
  PROVE  /\ requests' \in [Requests -> RequestState] /\ requests'[r] = q
         /\ \A o \in Requests \ {r} : requests'[o] = requests[o]
  BY DEF Becomes

\* The state q has a connection checked out.
Holds(q) == q.pc \in {"run", "hashing"} /\ q.conn # "none"

\* Who holds a connection after one request has changed.
LEMMA HoldersChange ==
  ASSUME requests \in [Requests -> RequestState], NEW r \in Requests,
         NEW q \in RequestState, Becomes(r, q)
  PROVE  /\ Holds(q) => Holders' = Holders \cup {r}
         /\ ~Holds(q) => Holders' = Holders \ {r}
         /\ r \in Holders <=> Holds(requests[r])
  <1>1. /\ requests' \in [Requests -> RequestState] /\ requests'[r] = q
        /\ \A o \in Requests \ {r} : requests'[o] = requests[o]
    BY OneRequest
  <1>2. Holders = {o \in Requests : Holds(requests[o])}
        /\ Holders' = {o \in Requests : Holds(requests'[o])}
    BY DEF Holders, Holds, InFlight
  <1> HIDE DEF Holds
  <1> QED
    BY <1>1, <1>2

\* The pool when nobody takes or returns a connection.
LEMMA PoolSame ==
  ASSUME PoolInv, Holders' = Holders, UNCHANGED <<idle, opened>>
  PROVE  PoolInv'
  BY DEF PoolInv, Capacity

\* A request gives back what it holds, if anything.
LEMMA PoolReturn ==
  ASSUME ServiceTypes, PoolInv, NEW r \in Requests, Return(requests[r].conn),
         Holders' = Holders \ {r}, r \in Holders <=> requests[r].conn # "none"
  PROVE  /\ PoolInv' /\ idle' \in [ok : Nat, dead : Nat] /\ opened' \in Nat
         /\ opened' <= opened
  <1> DEFINE h == Cardinality(Holders)
             g == Cardinality(Holders')
             conn == requests[r].conn
  <1>1. /\ idle \in [ok : Nat, dead : Nat] /\ opened \in Nat /\ conn \in {"none", "ok", "dead"}
        /\ IsFiniteSet(Holders) /\ opened = idle.ok + idle.dead + h
        /\ opened <= Capacity /\ idle.ok + idle.dead <= PoolSize
    BY DEF ServiceTypes, PoolInv, RequestState
  <1>2. h \in Nat /\ IsFiniteSet(Holders')
        /\ g = IF conn # "none" THEN h - 1 ELSE h
    BY <1>1, FS_CardinalityType, FS_RemoveElement
  <1>3. PoolSize \in Nat /\ Capacity \in Nat /\ g \in Nat
    <2>1. IsFiniteSet(Holders')
      BY <1>2
    <2> QED
      BY <2>1, FS_CardinalityType, ServiceAssumption DEF Capacity
  <1> HIDE DEF h, g, conn
  <1>4. CASE conn = "none"
    <2>1. UNCHANGED <<idle, opened>>
      BY <1>4 DEF Return, conn
    <2> QED
      BY <1>1, <1>2, <1>4, <2>1 DEF PoolInv, g, h, Capacity
  <1>5. CASE conn # "none" /\ idle.ok + idle.dead < PoolSize
    <2>1. idle' = [idle EXCEPT ![conn] = @ + 1] /\ opened' = opened
      BY <1>5 DEF Return, conn
    <2>2. idle' \in [ok : Nat, dead : Nat] /\ idle'.ok + idle'.dead = idle.ok + idle.dead + 1
      <3>1. CASE conn = "ok"
        BY <1>1, <2>1, <3>1
      <3>2. CASE conn = "dead"
        BY <1>1, <2>1, <3>2
      <3> QED
        BY <1>1, <1>5, <3>1, <3>2
    <2>3. /\ opened' = idle'.ok + idle'.dead + g /\ idle'.ok + idle'.dead <= PoolSize
          /\ opened' \in Nat /\ opened' <= opened /\ opened' <= Capacity
      BY <1>1, <1>2, <1>3, <1>5, <2>1, <2>2
    <2> QED
      BY <1>2, <2>2, <2>3 DEF PoolInv, g, Capacity
  <1>6. CASE conn # "none" /\ ~(idle.ok + idle.dead < PoolSize)
    <2>1. opened' = opened - 1 /\ idle' = idle
      BY <1>6 DEF Return, conn
    <2>2. /\ opened' = idle'.ok + idle'.dead + g /\ idle'.ok + idle'.dead <= PoolSize
          /\ opened' \in Nat /\ opened' <= opened /\ opened' <= Capacity
          /\ idle' \in [ok : Nat, dead : Nat]
      BY <1>1, <1>2, <1>3, <1>6, <2>1
    <2> QED
      BY <1>2, <2>2 DEF PoolInv, g, Capacity
  <1> QED
    BY <1>4, <1>5, <1>6

\* A request that takes up an idle connection, or opens one.
LEMMA PoolTake ==
  ASSUME ServiceTypes, PoolInv, NEW r \in Requests, r \notin Holders,
         Holders' = Holders \cup {r}, idle' \in [ok : Nat, dead : Nat],
         \/ /\ opened' = opened /\ idle'.ok + idle'.dead = idle.ok + idle.dead - 1
         \/ /\ opened' = opened + 1 /\ idle' = idle /\ opened < Capacity
  PROVE  PoolInv' /\ opened' \in Nat
  <1> DEFINE h == Cardinality(Holders)
             g == Cardinality(Holders')
  <1>1. /\ idle \in [ok : Nat, dead : Nat] /\ opened \in Nat
        /\ IsFiniteSet(Holders) /\ opened = idle.ok + idle.dead + h
        /\ opened <= Capacity /\ idle.ok + idle.dead <= PoolSize
    BY DEF ServiceTypes, PoolInv
  <1>2. h \in Nat /\ IsFiniteSet(Holders') /\ g = h + 1
    BY <1>1, FS_CardinalityType, FS_AddElement
  <1>3. PoolSize \in Nat /\ Capacity \in Nat
    BY ServiceAssumption DEF Capacity
  <1> HIDE DEF h, g
  <1>4. /\ opened' = idle'.ok + idle'.dead + g /\ idle'.ok + idle'.dead <= PoolSize
        /\ opened' \in Nat /\ opened' <= Capacity
    BY <1>1, <1>2, <1>3
  <1> QED
    BY <1>2, <1>4 DEF PoolInv, g, Capacity

\* What the step of one request owes.
LEMMA RequestStep ==
  ASSUME ServiceInv, NEW r \in Requests, NEW q \in RequestState, Becomes(r, q),
         RequestSafe(q), phase' = phase, database' = database,
         (Serving /\ q.pc \in {"run", "hashing"} /\ (q.conn = "dead" \/ ~database.up))
             => q.outage = TRUE,
         phase \notin {"stopped", "closing", "exited"},
         PoolInv', idle' \in [ok : Nat, dead : Nat], opened' \in Nat,
         resources' \subseteq {"engine", "redis"},
         "engine" \in resources' \/ (resources \subseteq resources' /\ opened' <= opened)
  PROVE  ServiceInv'
  <1>1. /\ requests' \in [Requests -> RequestState] /\ requests'[r] = q
        /\ \A o \in Requests \ {r} : requests'[o] = requests[o]
    BY OneRequest DEF ServiceInv, ServiceTypes
  <1>2. ServiceTypes'
    BY <1>1 DEF ServiceInv, ServiceTypes
  <1>3. ASSUME NEW o \in Requests PROVE RequestSafe(requests[o])' /\ KnowsOutage(o)'
    <2>1. CASE o = r
      BY <1>1, <2>1 DEF RequestSafe, KnowsOutage, Serving, InFlight
    <2>2. CASE o # r
      <3>1. requests'[o] = requests[o] /\ RequestSafe(requests[o]) /\ KnowsOutage(o)
        BY <1>1, <2>2 DEF ServiceInv
      <3> QED
        BY <3>1 DEF RequestSafe, KnowsOutage, Serving, InFlight
    <2> QED
      BY <2>1, <2>2
  <1>4. ShutdownInv'
    <2>1. opened \in Nat /\ opened' \in Nat
      BY DEF ServiceInv, ServiceTypes
    <2> QED
      BY <2>1 DEF ServiceInv, ShutdownInv
  <1> QED
    BY <1>2, <1>3, <1>4 DEF ServiceInv

\* The states requests end in.
LEMMA EndStates ==
  ASSUME NEW w \in BOOLEAN
  PROVE  /\ [NewRequest EXCEPT !.pc = "done"] \in RequestState
         /\ RequestSafe([NewRequest EXCEPT !.pc = "done"])
         /\ [NewRequest EXCEPT !.pc = "done"].pc = "done"
         /\ [NewRequest EXCEPT !.pc = "SchemaError"] \in RequestState
         /\ RequestSafe([NewRequest EXCEPT !.pc = "SchemaError"])
         /\ [NewRequest EXCEPT !.pc = "SchemaError"].pc = "SchemaError"
         /\ [NewRequest EXCEPT !.pc = "DatabaseError", !.outage = w] \in RequestState
         /\ w = TRUE => RequestSafe([NewRequest EXCEPT !.pc = "DatabaseError", !.outage = w])
         /\ [NewRequest EXCEPT !.pc = "DatabaseError", !.outage = w].pc = "DatabaseError"
  <1>1. NewRequest \in RequestState /\ NewRequest.conn = "none" /\ NewRequest.todo = <<>>
    BY ShortSafe DEF NewRequest, RequestState
  <1> DEFINE done == [NewRequest EXCEPT !.pc = "done"]
             miss == [NewRequest EXCEPT !.pc = "SchemaError"]
             err == [NewRequest EXCEPT !.pc = "DatabaseError", !.outage = w]
  <1>2. done \in RequestState /\ done.pc = "done" /\ done.conn = "none" /\ done.todo = <<>>
    BY <1>1 DEF RequestState
  <1>3. err \in RequestState /\ err.pc = "DatabaseError" /\ err.conn = "none"
        /\ err.todo = <<>> /\ err.outage = w
    BY <1>1 DEF RequestState
  <1>4. miss \in RequestState /\ miss.pc = "SchemaError" /\ miss.conn = "none"
        /\ miss.todo = <<>>
    BY <1>1 DEF RequestState
  <1> HIDE DEF done, miss, err
  <1>5. RequestSafe(done) /\ RequestSafe(miss) /\ (w = TRUE => RequestSafe(err))
    BY <1>2, <1>3, <1>4, ShortSafe DEF RequestSafe
  <1> QED
    BY <1>2, <1>3, <1>4, <1>5 DEF done, miss, err

\* A request is answered and has nothing left that it holds.
LEMMA DoneStep ==
  ASSUME ServiceInv, NEW r \in Requests, Done(r) \/ SchemaError(r), phase' = phase, database' = database,
         phase \notin {"stopped", "closing", "exited"}, r \in InFlight,
         resources \subseteq resources', resources' \subseteq {"engine", "redis"},
         Return(requests[r].conn)
  PROVE  ServiceInv'
  <1>1. PICK q \in RequestState :
           RequestSafe(q) /\ q.pc \in {"done", "SchemaError"} /\ Becomes(r, q)
    <2> DEFINE done == [NewRequest EXCEPT !.pc = "done"]
               miss == [NewRequest EXCEPT !.pc = "SchemaError"]
    <2>1. /\ done \in RequestState /\ RequestSafe(done) /\ done.pc = "done"
          /\ miss \in RequestState /\ RequestSafe(miss) /\ miss.pc = "SchemaError"
      BY EndStates
    <2>2. Becomes(r, done) \/ Becomes(r, miss)
      BY DEF Done, SchemaError
    <2> HIDE DEF done, miss
    <2> QED
      BY <2>1, <2>2
  <1>2. ServiceTypes /\ PoolInv /\ requests \in [Requests -> RequestState]
    BY DEF ServiceInv, ServiceTypes
  <1>3. Holders' = Holders \ {r} /\ (r \in Holders <=> requests[r].conn # "none")
    BY <1>1, <1>2, HoldersChange DEF Holds, InFlight
  <1>4. /\ PoolInv' /\ idle' \in [ok : Nat, dead : Nat] /\ opened' \in Nat
        /\ opened' <= opened
    BY <1>2, <1>3, PoolReturn
  <1> QED
    BY <1>1, <1>4, RequestStep

\* The database is found to be away: the request knew of an outage.
LEMMA ErrorStep ==
  ASSUME ServiceInv, NEW r \in Requests, DatabaseError(r), phase' = phase,
         database' = database, Serving, r \in InFlight,
         requests[r].conn = "dead" \/ ~database.up,
         resources \subseteq resources', resources' \subseteq {"engine", "redis"},
         Return(requests[r].conn)
  PROVE  ServiceInv'
  <1> DEFINE w == requests[r].outage
             q == [NewRequest EXCEPT !.pc = "DatabaseError", !.outage = w]
  <1>1. ServiceTypes /\ PoolInv /\ requests \in [Requests -> RequestState]
    BY DEF ServiceInv, ServiceTypes
  <1>2. w = TRUE
    BY DEF ServiceInv, KnowsOutage
  <1>3. Becomes(r, q)
    BY DEF DatabaseError
  <1>4. w \in BOOLEAN
    BY <1>2
  <1>5. q \in RequestState /\ RequestSafe(q) /\ q.pc = "DatabaseError"
    BY <1>2, <1>4, EndStates
  <1> HIDE DEF q
  <1>6. Holders' = Holders \ {r} /\ (r \in Holders <=> requests[r].conn # "none")
    BY <1>1, <1>3, <1>5, HoldersChange DEF Holds, InFlight
  <1>7. /\ PoolInv' /\ idle' \in [ok : Nat, dead : Nat] /\ opened' \in Nat
        /\ opened' <= opened
    BY <1>1, <1>6, PoolReturn
  <1>8. phase \notin {"stopped", "closing", "exited"}
    BY DEF Serving
  <1> QED
    BY <1>3, <1>5, <1>7, <1>8, RequestStep

\* What is known at a step of a handler.
LEMMA AtStep ==
  ASSUME ServiceInv, NEW r \in Requests, NEW kind, At(r, kind)
  PROVE  /\ Serving /\ phase \notin {"stopped", "closing", "exited"} /\ r \in InFlight
         /\ requests[r] \in RequestState /\ RequestSafe(requests[r])
         /\ requests[r].todo # <<>> /\ requests[r].todo[1].on = kind
         /\ requests[r].pc = "run"
         /\ kind \in {"redis", "events"} => requests[r].conn = "none"
         /\ kind = "commit" => requests[r].conn # "none"
         /\ kind = "sql" => Releases(requests[r].todo)
  <1>1. /\ requests[r] \in RequestState /\ RequestSafe(requests[r])
    BY DEF ServiceInv, ServiceTypes
  <1>2. /\ Serving /\ requests[r].pc = "run" /\ requests[r].todo # <<>>
        /\ Head(requests[r].todo).on = kind
    BY DEF At
  <1>3. /\ requests[r].todo \in Seq(Steps) /\ Ordered(requests[r].todo)
        /\ requests[r].conn # "none" => Releases(requests[r].todo)
        /\ requests[r].conn = "none" => Connects(requests[r].todo)
    BY <1>1 DEF RequestState, RequestSafe
  <1>4. requests[r].todo[1].on = kind
    BY <1>2, <1>3, HeadSafe
  <1>5. /\ kind \in {"redis", "events"} => requests[r].conn = "none"
        /\ kind = "commit" => requests[r].conn # "none"
        /\ kind = "sql" => Releases(requests[r].todo)
    BY <1>2, <1>3, <1>4, HeadSafe
  <1>6. phase \notin {"stopped", "closing", "exited"} /\ r \in InFlight
    BY <1>2 DEF Serving, InFlight
  <1> QED
    BY <1>1, <1>2, <1>4, <1>5, <1>6

\* A request goes on and keeps what it holds.
LEMMA QuietStep ==
  ASSUME ServiceInv, NEW r \in InFlight, NEW q \in RequestState, Becomes(r, q),
         RequestSafe(q), q.pc \in {"run", "hashing"}, q.conn = requests[r].conn,
         q.outage = requests[r].outage,
         UNCHANGED <<phase, database, idle, opened>>,
         resources \subseteq resources', resources' \subseteq {"engine", "redis"}
  PROVE  ServiceInv'
  <1>1. ServiceTypes /\ PoolInv /\ requests \in [Requests -> RequestState]
    BY DEF ServiceInv, ServiceTypes
  <1>2. r \in Requests /\ requests[r].pc \in {"run", "hashing"} /\ KnowsOutage(r)
    BY DEF InFlight, ServiceInv
  <1>3. phase \notin {"stopped", "closing", "exited"}
    BY DEF ServiceInv, ShutdownInv
  <1>4. Holders' = Holders
    BY <1>1, <1>2, HoldersChange DEF Holds
  <1>5. PoolInv' /\ idle' \in [ok : Nat, dead : Nat] /\ opened' \in Nat /\ opened' <= opened
    BY <1>1, <1>4, PoolSame DEF ServiceTypes
  <1>6. (Serving /\ q.pc \in {"run", "hashing"} /\ (q.conn = "dead" \/ ~database.up))
             => q.outage = TRUE
    BY <1>2 DEF KnowsOutage
  <1> QED
    BY <1>2, <1>3, <1>5, <1>6, RequestStep

\* A request arrives.
LEMMA ArriveStep ==
  ASSUME ServiceInv, NEW r \in Requests, NEW program \in Endpoints, Arrive(r, program)
  PROVE  ServiceInv'
  <1> DEFINE w == ~database.up
             arrived(x) == [NewRequest EXCEPT !.pc = "run", !.todo = program, !.outage = x]
             q == arrived(w)
  <1>1. program \in Seq(Steps) /\ Ordered(program) /\ Connects(program)
    BY EndpointsSafe
  <1>2. w \in BOOLEAN /\ (~database.up => w = TRUE)
    OBVIOUS
  <1>3. ASSUME NEW x \in BOOLEAN
        PROVE  /\ arrived(x) \in RequestState /\ RequestSafe(arrived(x))
               /\ arrived(x).conn = "none" /\ arrived(x).outage = x
    <2>1. NewRequest \in RequestState /\ NewRequest.conn = "none"
      BY ShortSafe DEF NewRequest, RequestState
    <2>2. /\ arrived(x) \in RequestState /\ arrived(x).conn = "none"
          /\ arrived(x).pc = "run" /\ arrived(x).todo = program /\ arrived(x).outage = x
      BY <1>1, <2>1 DEF RequestState
    <2> HIDE DEF arrived
    <2> QED
      BY <1>1, <2>2 DEF RequestSafe
  <1>5. Becomes(r, q)
    BY DEF Arrive
  <1> HIDE DEF arrived
  <1>6. q \in RequestState /\ RequestSafe(q) /\ q.conn = "none" /\ q.outage = w
    BY <1>2, <1>3, Zenon
  <1> HIDE DEF q
  <1>7. /\ requests[r].pc = "new" /\ phase = "serving"
        /\ UNCHANGED <<phase, resources, idle, opened, database>>
    BY DEF Arrive
  <1>8. ServiceTypes /\ PoolInv /\ requests \in [Requests -> RequestState]
    BY DEF ServiceInv, ServiceTypes
  <1>9. Holders' = Holders
    BY <1>5, <1>6, <1>7, <1>8, HoldersChange DEF Holds
  <1>10. /\ PoolInv' /\ idle' \in [ok : Nat, dead : Nat] /\ opened' \in Nat
         /\ opened' <= opened /\ resources' \subseteq {"engine", "redis"}
    BY <1>7, <1>8, <1>9, PoolSame DEF ServiceTypes
  <1>11. (Serving /\ q.pc \in {"run", "hashing"} /\ (q.conn = "dead" \/ ~database.up))
             => q.outage = TRUE
    <2>1. q.conn # "dead" /\ (~database.up => q.outage = TRUE)
      BY <1>2, <1>6
    <2> QED
      BY <2>1
  <1> QED
    BY <1>5, <1>6, <1>7, <1>10, <1>11, RequestStep

\* The first statement's connection: one that works, or an error in an outage.
LEMMA CheckoutStep ==
  ASSUME ServiceInv, NEW r \in Requests, Checkout(r)
  PROVE  ServiceInv'
  <1>1. /\ At(r, "sql") /\ requests[r].conn = "none"
        /\ resources' = resources \cup {"engine"} /\ UNCHANGED <<phase, database>>
    BY DEF Checkout, Provided
  <1>2. /\ Serving /\ phase \notin {"stopped", "closing", "exited"} /\ r \in InFlight
        /\ requests[r] \in RequestState /\ RequestSafe(requests[r])
        /\ requests[r].todo # <<>> /\ requests[r].todo[1].on = "sql"
        /\ requests[r].pc = "run" /\ Releases(requests[r].todo)
    BY <1>1, AtStep
  <1>3. ServiceTypes /\ PoolInv /\ requests \in [Requests -> RequestState]
    BY DEF ServiceInv, ServiceTypes
  <1>4. resources \subseteq resources' /\ resources' \subseteq {"engine", "redis"}
        /\ "engine" \in resources'
    BY <1>1, <1>3 DEF ServiceTypes
  <1>5. ASSUME DatabaseError(r), ~database.up, UNCHANGED <<idle, opened>>
        PROVE  ServiceInv'
    <2>1. Return(requests[r].conn)
      BY <1>1, <1>5 DEF Return
    <2> QED
      BY <1>1, <1>2, <1>4, <1>5, <2>1, ErrorStep
  <1> DEFINE q == [requests[r] EXCEPT !.conn = "ok"]
  <1>6. ASSUME Becomes(r, q), idle' \in [ok : Nat, dead : Nat],
               \/ /\ opened' = opened /\ idle'.ok + idle'.dead = idle.ok + idle.dead - 1
               \/ /\ opened' = opened + 1 /\ idle' = idle /\ opened < Capacity
        PROVE  ServiceInv'
    <2>1. /\ q \in RequestState /\ q.conn = "ok" /\ q.pc = "run"
          /\ q.todo = requests[r].todo /\ q.outage = requests[r].outage
      BY <1>2 DEF RequestState
    <2> HIDE DEF q
    <2>2. RequestSafe(q)
      BY <1>2, <2>1 DEF RequestSafe
    <2>3. r \notin Holders /\ Holders' = Holders \cup {r}
      BY <1>1, <1>3, <1>6, <2>1, HoldersChange DEF Holds
    <2>4. PoolInv' /\ opened' \in Nat
      BY <1>3, <1>6, <2>3, PoolTake
    <2>5. (Serving /\ q.pc \in {"run", "hashing"} /\ (q.conn = "dead" \/ ~database.up))
             => q.outage = TRUE
      <3>1. KnowsOutage(r)
        BY DEF ServiceInv
      <3> QED
        BY <1>2, <2>1, <3>1 DEF KnowsOutage
    <2> QED
      BY <1>1, <1>2, <1>4, <1>6, <2>1, <2>2, <2>4, <2>5, RequestStep
  <1>7. ASSUME NEW c \in {"ok", "dead"}, idle[c] > 0, UNCHANGED opened,
               IF c = "ok" \/ database.up
               THEN /\ idle' = [idle EXCEPT ![c] = @ - 1]
                    /\ Becomes(r, q)
               ELSE DatabaseError(r) /\ UNCHANGED idle
        PROVE  ServiceInv'
    <2>1. CASE c = "ok" \/ database.up
      <3>1. idle' = [idle EXCEPT ![c] = @ - 1] /\ Becomes(r, q)
        BY <1>7, <2>1
      <3>2. idle \in [ok : Nat, dead : Nat]
        BY <1>3 DEF ServiceTypes
      <3>3. /\ idle' \in [ok : Nat, dead : Nat]
            /\ idle'.ok + idle'.dead = idle.ok + idle.dead - 1
        <4>1. CASE c = "ok"
          BY <1>7, <3>1, <3>2, <4>1
        <4>2. CASE c = "dead"
          BY <1>7, <3>1, <3>2, <4>2
        <4> QED
          BY <4>1, <4>2
      <3> QED
        BY <1>6, <1>7, <3>1, <3>3
    <2>2. CASE ~(c = "ok" \/ database.up)
      BY <1>5, <1>7, <2>2
    <2> QED
      BY <2>1, <2>2
  <1>8. ASSUME opened < Capacity, UNCHANGED idle,
               IF database.up THEN opened' = opened + 1 /\ Becomes(r, q)
               ELSE DatabaseError(r) /\ UNCHANGED opened
        PROVE  ServiceInv'
    <2>1. CASE database.up
      <3>1. idle' \in [ok : Nat, dead : Nat]
        BY <1>3, <1>8 DEF ServiceTypes
      <3> QED
        BY <1>6, <1>8, <2>1, <3>1
    <2>2. CASE ~database.up
      BY <1>5, <1>8, <2>2
    <2> QED
      BY <2>1, <2>2
  <1> HIDE DEF q
  <1>9. \/ \E c \in {"ok", "dead"} :
              /\ idle[c] > 0
              /\ IF c = "ok" \/ database.up
                 THEN /\ idle' = [idle EXCEPT ![c] = @ - 1]
                      /\ Becomes(r, q)
                 ELSE DatabaseError(r) /\ UNCHANGED idle
              /\ UNCHANGED opened
        \/ /\ idle.ok + idle.dead = 0 /\ opened < Capacity
           /\ IF database.up
              THEN /\ opened' = opened + 1
                   /\ Becomes(r, q)
              ELSE DatabaseError(r) /\ UNCHANGED opened
           /\ UNCHANGED idle
    BY Zenon DEF Checkout, q
  <1> QED
    BY <1>7, <1>8, <1>9, Zenon

\* The rest of the SQL, on the connection the session has.
LEMMA ExecuteStep ==
  ASSUME ServiceInv, NEW r \in Requests, NEW tables, Execute(r, tables)
  PROVE  ServiceInv'
  <1>1. At(r, "sql") /\ requests[r].conn # "none" /\ UNCHANGED <<phase, resources, database>>
    BY DEF Execute
  <1>2. /\ Serving /\ r \in InFlight
        /\ requests[r] \in RequestState /\ RequestSafe(requests[r])
        /\ requests[r].todo # <<>> /\ requests[r].todo[1].on = "sql"
    BY <1>1, AtStep
  <1>3. resources \subseteq resources' /\ resources' \subseteq {"engine", "redis"}
    BY <1>1 DEF ServiceInv, ServiceTypes
  <1>4. CASE requests[r].conn = "ok"
    <2>1. PICK s \in Advanced(requests[r]) : Becomes(r, s)
      BY <1>4 DEF Execute
    <2>2. UNCHANGED <<idle, opened>>
      BY <1>4 DEF Execute
    <2>3. /\ s \in RequestState /\ s.pc = "run" /\ s.conn = requests[r].conn
          /\ s.outage = requests[r].outage /\ RequestSafe(s)
      BY <1>1, <1>2, AdvancedSafe
    <2> QED
      BY <1>1, <1>2, <1>3, <2>1, <2>2, <2>3, QuietStep
  <1>5. CASE requests[r].conn # "ok"
    <2>1. requests[r].conn = "dead"
      BY <1>1, <1>2, <1>5 DEF RequestState
    <2>2. DatabaseError(r) /\ Return(requests[r].conn)
      BY <1>5, <2>1 DEF Execute
    <2> QED
      BY <1>1, <1>2, <1>3, <2>1, <2>2, ErrorStep
  <1> QED
    BY <1>4, <1>5

\* A commit gives the connection back.
LEMMA CommitRequestStep ==
  ASSUME ServiceInv, NEW r \in Requests, NEW tables, Commit(r, tables)
  PROVE  ServiceInv'
  <1>1. /\ At(r, "commit") /\ Return(requests[r].conn) /\ UNCHANGED <<phase, resources, database>>
    BY DEF Commit
  <1>2. /\ Serving /\ phase \notin {"stopped", "closing", "exited"} /\ r \in InFlight
        /\ requests[r] \in RequestState /\ RequestSafe(requests[r])
        /\ requests[r].todo # <<>> /\ requests[r].todo[1].on = "commit"
        /\ requests[r].conn # "none"
    BY <1>1, AtStep
  <1>3. resources \subseteq resources' /\ resources' \subseteq {"engine", "redis"}
    BY <1>1 DEF ServiceInv, ServiceTypes
  <1>4. CASE requests[r].conn = "ok"
    <2>1. PICK s \in Advanced(requests[r]) : Becomes(r, [s EXCEPT !.conn = "none"])
      BY <1>4 DEF Commit
    <2> DEFINE q == [s EXCEPT !.conn = "none"]
    <2>2. /\ s \in RequestState /\ s.pc = "run" /\ s.outage = requests[r].outage
          /\ Ordered(s.todo) /\ Connects(s.todo)
      BY <1>2, AdvancedSafe
    <2>3. /\ q \in RequestState /\ q.conn = "none" /\ q.pc = "run" /\ q.todo = s.todo
          /\ q.outage = requests[r].outage
      BY <2>2 DEF RequestState
    <2>4. Becomes(r, q)
      BY <2>1
    <2> HIDE DEF q
    <2>5. RequestSafe(q)
      BY <2>2, <2>3 DEF RequestSafe
    <2>6. ServiceTypes /\ PoolInv /\ requests \in [Requests -> RequestState] /\ KnowsOutage(r)
      BY DEF ServiceInv, ServiceTypes
    <2>7. Holders' = Holders \ {r} /\ (r \in Holders <=> requests[r].conn # "none")
      BY <1>2, <2>3, <2>4, <2>6, HoldersChange DEF Holds, InFlight
    <2>8. /\ PoolInv' /\ idle' \in [ok : Nat, dead : Nat] /\ opened' \in Nat
          /\ opened' <= opened
      BY <1>1, <2>6, <2>7, PoolReturn
    <2>9. (Serving /\ q.pc \in {"run", "hashing"} /\ (q.conn = "dead" \/ ~database.up))
             => q.outage = TRUE
      BY <1>2, <2>3, <2>6 DEF KnowsOutage
    <2> QED
      BY <1>1, <1>2, <1>3, <2>3, <2>4, <2>5, <2>8, <2>9, RequestStep
  <1>5. CASE requests[r].conn # "ok"
    <2>1. requests[r].conn = "dead"
      BY <1>2, <1>5 DEF RequestState
    <2>2. DatabaseError(r)
      BY <1>5 DEF Commit
    <2> QED
      BY <1>1, <1>2, <1>3, <2>1, <2>2, ErrorStep
  <1> QED
    BY <1>4, <1>5

\* PostgreSQL refuses a statement: the session rolls back.
LEMMA StatementFailsStep ==
  ASSUME ServiceInv, NEW r \in Requests, NEW tables, StatementFails(r, tables)
  PROVE  ServiceInv'
  <1>1. /\ At(r, "sql") \/ At(r, "commit")
        /\ Done(r) \/ SchemaError(r)
        /\ Return(requests[r].conn) /\ UNCHANGED <<phase, resources, database>>
    BY DEF StatementFails
  <1>2. phase \notin {"stopped", "closing", "exited"} /\ r \in InFlight
    BY <1>1, AtStep
  <1>3. resources' \subseteq {"engine", "redis"}
    BY <1>1 DEF ServiceInv, ServiceTypes
  <1> QED
    BY <1>1, <1>2, <1>3, DoneStep

\* A wait for Redis or for event handlers is over: the request holds nothing.
LEMMA ExternalStep ==
  ASSUME ServiceInv, NEW r \in Requests, NEW kind \in {"redis", "events"}, At(r, kind),
         \/ \E s \in Advanced(requests[r]) : Becomes(r, s)
         \/ Done(r),
         UNCHANGED <<phase, idle, opened, database>>,
         resources \subseteq resources', resources' \subseteq {"engine", "redis"}
  PROVE  ServiceInv'
  <1>1. /\ phase \notin {"stopped", "closing", "exited"} /\ r \in InFlight
        /\ requests[r] \in RequestState /\ RequestSafe(requests[r])
        /\ requests[r].todo # <<>> /\ requests[r].todo[1].on = kind
        /\ requests[r].conn = "none"
    BY AtStep
  <1>2. ASSUME NEW s \in Advanced(requests[r]), Becomes(r, s) PROVE ServiceInv'
    <2>1. /\ s \in RequestState /\ s.pc = "run" /\ s.conn = requests[r].conn
          /\ s.outage = requests[r].outage /\ RequestSafe(s)
      BY <1>1, AdvancedSafe
    <2> QED
      BY <1>1, <1>2, <2>1, QuietStep
  <1>3. CASE Done(r)
    <2>1. Return(requests[r].conn)
      BY <1>1 DEF Return
    <2> QED
      BY <1>1, <1>3, <2>1, DoneStep
  <1> QED
    BY <1>2, <1>3

\* A worker thread takes up a hash, and ends it.
LEMMA HashStep ==
  ASSUME ServiceInv, NEW r \in Requests, StartHash(r) \/ FinishHash(r)
  PROVE  ServiceInv'
  <1>1. CASE StartHash(r)
    <2> DEFINE q == [requests[r] EXCEPT !.pc = "hashing"]
    <2>1. /\ At(r, "hash") /\ Becomes(r, q)
          /\ UNCHANGED <<phase, resources, idle, opened, database>>
      BY <1>1 DEF StartHash
    <2>2. /\ r \in InFlight /\ requests[r] \in RequestState /\ RequestSafe(requests[r])
          /\ requests[r].todo # <<>> /\ requests[r].todo[1].on = "hash"
      BY <2>1, AtStep
    <2>3. /\ q \in RequestState /\ q.pc = "hashing" /\ q.conn = requests[r].conn
          /\ q.todo = requests[r].todo /\ q.outage = requests[r].outage
      BY <2>2 DEF RequestState
    <2> HIDE DEF q
    <2>4. RequestSafe(q)
      BY <2>2, <2>3 DEF RequestSafe
    <2>5. resources' \subseteq {"engine", "redis"}
      BY <2>1 DEF ServiceInv, ServiceTypes
    <2> QED
      BY <2>1, <2>2, <2>3, <2>4, <2>5, QuietStep
  <1>2. CASE FinishHash(r)
    <2>1. PICK s \in Advanced(requests[r]) : Becomes(r, s)
      BY <1>2 DEF FinishHash
    <2>2. requests[r].pc = "hashing" /\ UNCHANGED <<phase, resources, idle, opened, database>>
      BY <1>2 DEF FinishHash
    <2>3. requests[r] \in RequestState /\ RequestSafe(requests[r])
          /\ resources' \subseteq {"engine", "redis"} /\ r \in InFlight
      BY <2>2 DEF ServiceInv, ServiceTypes, InFlight
    <2>4. requests[r].todo # <<>> /\ requests[r].todo[1].on = "hash"
      BY <2>2, <2>3 DEF RequestSafe
    <2>5. /\ s \in RequestState /\ s.pc = "run" /\ s.conn = requests[r].conn
          /\ s.outage = requests[r].outage /\ RequestSafe(s)
      BY <2>3, <2>4, AdvancedSafe
    <2> QED
      BY <2>1, <2>2, <2>3, <2>5, QuietStep
  <1> QED
    BY <1>1, <1>2

\* The scope of a request is left: after its response, after a timeout of the
\* pool, or because it was cancelled.
LEMMA LeaveStep ==
  ASSUME ServiceInv, NEW r \in Requests, Respond(r) \/ Unwind(r) \/ PoolTimeout(r)
  PROVE  ServiceInv'
  <1>1. /\ Done(r) /\ Return(requests[r].conn) /\ UNCHANGED <<phase, resources, database>>
        /\ phase \notin {"stopped", "closing", "exited"} /\ requests[r].pc = "run"
    <2>1. CASE Respond(r)
      BY <2>1 DEF Respond, Serving
    <2>2. CASE Unwind(r)
      BY <2>2 DEF Unwind
    <2>3. CASE PoolTimeout(r)
      BY <2>3 DEF PoolTimeout, At, Serving, Return
    <2> QED
      BY <2>1, <2>2, <2>3
  <1>2. r \in InFlight /\ resources' \subseteq {"engine", "redis"}
    BY <1>1 DEF InFlight, ServiceInv, ServiceTypes
  <1> QED
    BY <1>1, <1>2, DoneStep
-----------------------------------------------------------------------------
(* The service: the database and the process.                              *)

\* A change of all requests at once that keeps who is in flight and who holds.
LEMMA AllRequests ==
  ASSUME ServiceInv, requests' \in [Requests -> RequestState],
         \A r \in Requests : /\ requests'[r].pc = requests[r].pc
                             /\ requests'[r].conn = "none" <=> requests[r].conn = "none"
  PROVE  InFlight' = InFlight /\ Holders' = Holders
  BY DEF InFlight, Holders

\* Every connection dies; every request in flight will know why.
LEMMA OutageStep == ServiceInv /\ Outage => ServiceInv'
  <1> SUFFICES ASSUME ServiceInv, Outage PROVE ServiceInv'
    OBVIOUS
  <1>1. /\ database.outages < MaxOutages
        /\ database' = [up |-> FALSE, outages |-> database.outages + 1]
        /\ idle' = [ok |-> 0, dead |-> idle.ok + idle.dead]
        /\ requests' = [r \in Requests |->
                      IF r \in InFlight
                      THEN [requests[r] EXCEPT !.outage = TRUE,
                               !.conn = IF requests[r].conn = "ok" THEN "dead"
                                        ELSE requests[r].conn]
                      ELSE requests[r]]
        /\ UNCHANGED <<phase, resources, opened>>
    BY DEF Outage
  <1>2. ServiceTypes /\ PoolInv /\ ShutdownInv /\ requests \in [Requests -> RequestState]
    BY DEF ServiceInv, ServiceTypes
  <1>3. ASSUME NEW r \in Requests
        PROVE  /\ requests'[r] \in RequestState /\ requests'[r].pc = requests[r].pc
               /\ requests'[r].todo = requests[r].todo
               /\ requests'[r].conn = "none" <=> requests[r].conn = "none"
               /\ r \in InFlight => requests'[r].outage = TRUE
               /\ r \notin InFlight => requests'[r] = requests[r]
    <2>1. requests[r] \in RequestState
      BY <1>2
    <2>2. CASE r \in InFlight
      <3>1. requests'[r] = [requests[r] EXCEPT !.outage = TRUE,
                               !.conn = IF requests[r].conn = "ok" THEN "dead"
                                        ELSE requests[r].conn]
        BY <1>1, <2>2
      <3> QED
        BY <2>1, <2>2, <3>1 DEF RequestState
    <2>3. CASE r \notin InFlight
      BY <1>1, <2>1, <2>3
    <2> QED
      BY <2>2, <2>3
  <1>4. requests' \in [Requests -> RequestState]
    <2>1. requests' = [r \in Requests |-> requests'[r]]
      BY <1>1
    <2> QED
      BY <1>3, <2>1
  <1>5. InFlight' = InFlight /\ Holders' = Holders
    BY <1>3, <1>4, AllRequests
  <1>6. ASSUME NEW r \in Requests PROVE RequestSafe(requests[r])' /\ KnowsOutage(r)'
    <2>1. RequestSafe(requests[r]) /\ (requests[r].pc = "DatabaseError" => r \notin InFlight)
      BY DEF ServiceInv, InFlight
    <2>2. RequestSafe(requests'[r])
      BY <1>3, <2>1 DEF RequestSafe
    <2>3. KnowsOutage(r)'
      BY <1>3, <1>5 DEF KnowsOutage
    <2> QED
      BY <2>2, <2>3
  <1>7. idle' \in [ok : Nat, dead : Nat] /\ idle'.ok + idle'.dead = idle.ok + idle.dead
    <2> DEFINE n == idle.ok + idle.dead
    <2>1. n \in Nat
      BY <1>2 DEF ServiceTypes
    <2>2. idle' = [ok |-> 0, dead |-> n]
      BY DEF Outage
    <2> HIDE DEF n
    <2>3. idle' \in [ok : Nat, dead : Nat] /\ idle'.ok + idle'.dead = n
      BY <2>1, <2>2
    <2> QED
      BY <2>3 DEF n
  <1>8. ServiceTypes'
    <2>1. database' \in [up : BOOLEAN, outages : 0..MaxOutages]
      <3>1. /\ database.outages \in 0..MaxOutages /\ database.outages < MaxOutages
            /\ database' = [up |-> FALSE, outages |-> database.outages + 1]
        BY <1>1, <1>2 DEF ServiceTypes
      <3>2. database.outages + 1 \in 0..MaxOutages
        BY <3>1, ServiceAssumption
      <3> QED
        BY <3>1, <3>2
    <2>2. idle' \in [ok : Nat, dead : Nat]
      BY <1>7
    <2> QED
      BY <1>1, <1>2, <1>4, <2>1, <2>2 DEF ServiceTypes
  <1>9. PoolInv'
    BY <1>1, <1>2, <1>5, <1>7 DEF PoolInv, Capacity
  <1>10. ShutdownInv'
    BY <1>1, <1>2, <1>5 DEF ShutdownInv
  <1> QED
    BY <1>6, <1>8, <1>9, <1>10 DEF ServiceInv

\* The database comes back, and the process is told to stop and waits.
LEMMA PhaseStep ==
  ASSUME ServiceInv, Boot \/ Recover \/ Terminate \/ Drained \/ Exit
  PROVE  ServiceInv'
  <1>1. /\ UNCHANGED <<resources, idle, opened, requests>>
        /\ database' \in [up : BOOLEAN, outages : 0..MaxOutages]
        /\ database.up => database'.up
        /\ phase' \in {"stopped", "serving", "draining", "closing", "aborting", "exited",
                       "aborted"}
        /\ phase' \in {"stopped", "closing", "exited"} => InFlight = {}
        /\ phase' = "exited" => resources = {}
        /\ phase' \notin {"aborting", "aborted"} => phase \notin {"aborting", "aborted"}
        /\ Serving' => Serving \/ InFlight = {}
    <2>1. database \in [up : BOOLEAN, outages : 0..MaxOutages]
          /\ phase \in {"stopped", "serving", "draining", "closing", "aborting", "exited",
                        "aborted"}
      BY DEF ServiceInv, ServiceTypes
    <2>2. CASE Boot
      BY <2>1, <2>2 DEF Boot, ServiceInv, ShutdownInv, Serving
    <2>3. CASE Recover
      BY <2>1, <2>3 DEF Recover, ServiceInv, ShutdownInv, Serving
    <2>4. CASE Terminate
      BY <2>1, <2>4 DEF Terminate, ServiceInv, ShutdownInv, Serving
    <2>5. CASE Drained
      BY <2>1, <2>5 DEF Drained, ServiceInv, ShutdownInv, Serving
    <2>6. CASE Exit
      BY <2>1, <2>6 DEF Exit, ServiceInv, ShutdownInv, Serving
    <2> QED
      BY <2>2, <2>3, <2>4, <2>5, <2>6
  <1>2. InFlight' = InFlight /\ Holders' = Holders
    BY <1>1 DEF InFlight, Holders
  <1>3. ServiceTypes'
    BY <1>1 DEF ServiceInv, ServiceTypes
  <1>4. ASSUME NEW r \in Requests PROVE RequestSafe(requests[r])' /\ KnowsOutage(r)'
    <2>1. RequestSafe(requests[r]) /\ KnowsOutage(r)
      BY DEF ServiceInv
    <2> QED
      BY <1>1, <1>2, <2>1 DEF RequestSafe, KnowsOutage
  <1>5. PoolInv'
    BY <1>1, <1>2, PoolSame DEF ServiceInv
  <1>6. ShutdownInv'
    BY <1>1, <1>2 DEF ServiceInv, ShutdownInv
  <1> QED
    BY <1>3, <1>4, <1>5, <1>6 DEF ServiceInv

\* Uvicorn cancels what is still in flight.
LEMMA GraceOverStep == ServiceInv /\ GraceOver => ServiceInv'
  <1> SUFFICES ASSUME ServiceInv, GraceOver PROVE ServiceInv'
    OBVIOUS
  <1>1. /\ phase' = "aborting" /\ UNCHANGED <<resources, idle, opened, database>>
        /\ requests' = [r \in Requests |->
                      IF r \in InFlight
                      THEN [requests[r] EXCEPT !.outage = FALSE,
                               !.todo = IF r \in Hashing THEN <<Step("hash", {})>> ELSE <<>>]
                      ELSE requests[r]]
    BY DEF GraceOver
  <1>2. ServiceTypes /\ PoolInv /\ requests \in [Requests -> RequestState]
    BY DEF ServiceInv, ServiceTypes
  <1>3. ASSUME NEW r \in Requests
        PROVE  /\ requests'[r] \in RequestState /\ requests'[r].pc = requests[r].pc
               /\ requests'[r].conn = requests[r].conn
               /\ RequestSafe(requests'[r])
    <2>1. requests[r] \in RequestState /\ RequestSafe(requests[r])
      BY DEF ServiceInv, ServiceTypes
    <2>2. CASE r \in InFlight
      <3> DEFINE rest == IF r \in Hashing THEN <<Step("hash", {})>> ELSE <<>>
      <3>1. requests'[r] = [requests[r] EXCEPT !.outage = FALSE, !.todo = rest]
        BY <1>1, <2>2
      <3>2. /\ rest \in Seq(Steps) /\ Ordered(rest) /\ Releases(rest) /\ Connects(rest)
            /\ requests[r].pc = "hashing" => rest # <<>> /\ rest[1].on = "hash"
        BY ShortSafe DEF Hashing
      <3> HIDE DEF rest
      <3>3. /\ requests'[r] \in RequestState /\ requests'[r].pc = requests[r].pc
            /\ requests'[r].conn = requests[r].conn /\ requests'[r].todo = rest
        BY <2>1, <3>1, <3>2 DEF RequestState
      <3>4. requests[r].pc \in {"run", "hashing"}
        BY <2>2 DEF InFlight
      <3> QED
        BY <3>2, <3>3, <3>4 DEF RequestSafe
    <2>3. CASE r \notin InFlight
      <3>1. requests'[r] = requests[r]
        BY <1>1, <2>3
      <3> QED
        BY <2>1, <3>1
    <2> QED
      BY <2>2, <2>3
  <1>4. requests' \in [Requests -> RequestState]
    <2>1. requests' = [r \in Requests |-> requests'[r]]
      BY <1>1
    <2> QED
      BY <1>3, <2>1
  <1>5. Holders' = Holders
    BY <1>3, <1>4, AllRequests
  <1>6. ServiceTypes' /\ PoolInv'
    <2>1. phase' \in {"stopped", "serving", "draining", "closing", "aborting", "exited",
                      "aborted"} /\ UNCHANGED <<resources, idle, opened, database>>
      BY <1>1
    <2> QED
      BY <1>2, <1>4, <1>5, <2>1, PoolSame DEF ServiceTypes
  <1>7. ASSUME NEW r \in Requests PROVE RequestSafe(requests[r])' /\ KnowsOutage(r)'
    <2>1. ~Serving'
      BY <1>1 DEF Serving
    <2> QED
      BY <1>3, <2>1 DEF RequestSafe, KnowsOutage
  <1>8. ShutdownInv'
    BY <1>1 DEF ShutdownInv
  <1> QED
    BY <1>6, <1>7, <1>8 DEF ServiceInv

\* container.close(): a disposed engine has closed the idle connections, and those
\* are all there are if nothing is in flight.
LEMMA CloseStep ==
  ASSUME ServiceInv, NEW resource \in {"engine", "redis"}, Close(resource)
  PROVE  ServiceInv'
  <1>1. /\ phase \in {"closing", "aborting"} /\ resources' = resources \ {resource}
        /\ UNCHANGED <<phase, database, requests>>
    BY DEF Close
  <1>2. /\ ServiceTypes /\ PoolInv /\ ShutdownInv
        /\ idle \in [ok : Nat, dead : Nat] /\ opened \in Nat /\ IsFiniteSet(Holders)
        /\ opened = idle.ok + idle.dead + Cardinality(Holders)
    BY DEF ServiceInv, ServiceTypes, PoolInv
  <1>3. InFlight' = InFlight /\ Holders' = Holders
    BY <1>1 DEF InFlight, Holders
  <1>4. /\ idle' \in [ok : Nat, dead : Nat] /\ opened' \in Nat /\ opened' <= opened
        /\ opened' = idle'.ok + idle'.dead + Cardinality(Holders)
        /\ idle'.ok + idle'.dead <= PoolSize
        /\ resource = "engine" => opened' = Cardinality(Holders)
    <2>1. Cardinality(Holders) \in Nat /\ PoolSize \in Nat /\ idle.ok + idle.dead <= PoolSize
      BY <1>2, FS_CardinalityType, ServiceAssumption DEF PoolInv
    <2>2. CASE resource = "engine"
      <3>1. idle' = [ok |-> 0, dead |-> 0] /\ opened' = opened - (idle.ok + idle.dead)
        BY <2>2 DEF Close
      <3> QED
        BY <1>2, <2>1, <3>1
    <2>3. CASE resource # "engine"
      <3>1. UNCHANGED <<idle, opened>>
        BY <2>3 DEF Close
      <3> QED
        BY <1>2, <2>1, <2>3, <3>1
    <2> QED
      BY <2>2, <2>3
  <1>5. PoolInv'
    <2>1. Capacity \in Nat /\ opened <= Capacity
      BY <1>2, ServiceAssumption DEF PoolInv, Capacity
    <2>2. opened' <= Capacity
      BY <1>2, <1>4, <2>1
    <2> QED
      BY <1>2, <1>3, <1>4, <2>2 DEF PoolInv, Capacity
  <1>6. ServiceTypes'
    BY <1>1, <1>2, <1>4 DEF ServiceTypes
  <1>7. ASSUME NEW r \in Requests PROVE RequestSafe(requests[r])' /\ KnowsOutage(r)'
    <2>1. RequestSafe(requests[r]) /\ ~Serving'
      BY <1>1 DEF ServiceInv, Serving
    <2> QED
      BY <1>1, <2>1 DEF RequestSafe, KnowsOutage
  <1>8. ShutdownInv'
    <2>1. ASSUME phase = "closing", "engine" \notin resources' PROVE opened' = 0
      <3>1. Holders = {}
        BY <1>2, <2>1 DEF ShutdownInv, Holders
      <3>2. Cardinality(Holders) = 0
        BY <3>1, FS_EmptySet
      <3>3. CASE resource = "engine"
        BY <1>4, <3>2, <3>3
      <3>4. CASE resource # "engine"
        <4>1. opened = 0
          BY <1>1, <1>2, <2>1, <3>4 DEF ShutdownInv
        <4> QED
          BY <1>4, <4>1
      <3> QED
        BY <3>3, <3>4
    <2> QED
      BY <1>1, <1>2, <1>3, <2>1 DEF ShutdownInv
  <1> QED
    BY <1>5, <1>6, <1>7, <1>8 DEF ServiceInv

\* The process ends without waiting.
LEMMA AbortStep == ServiceInv /\ Abort => ServiceInv'
  <1> SUFFICES ASSUME ServiceInv, Abort PROVE ServiceInv'
    OBVIOUS
  <1> DEFINE done == [NewRequest EXCEPT !.pc = "done"]
  <1>1. /\ phase' = "aborted" /\ idle' = [ok |-> 0, dead |-> 0] /\ opened' = 0
        /\ requests' = [r \in Requests |-> IF r \in InFlight THEN done ELSE requests[r]]
        /\ UNCHANGED <<resources, database>>
    BY DEF Abort
  <1>2. done \in RequestState /\ RequestSafe(done) /\ done.pc = "done"
    BY EndStates
  <1> HIDE DEF done
  <1>3. ASSUME NEW r \in Requests
        PROVE  /\ requests'[r] \in RequestState /\ RequestSafe(requests'[r])
               /\ requests'[r].pc \notin {"run", "hashing"}
    <2>1. requests[r] \in RequestState /\ RequestSafe(requests[r])
      BY DEF ServiceInv, ServiceTypes
    <2>2. CASE r \in InFlight
      BY <1>1, <1>2, <2>2
    <2>3. CASE r \notin InFlight
      BY <1>1, <2>1, <2>3 DEF InFlight
    <2> QED
      BY <2>2, <2>3
  <1>4. requests' \in [Requests -> RequestState]
    <2>1. requests' = [r \in Requests |-> requests'[r]]
      BY <1>1
    <2> QED
      BY <1>3, <2>1
  <1>5. Holders' = {}
    BY <1>3 DEF Holders, InFlight
  <1>6. PoolInv'
    <2>1. IsFiniteSet({}) /\ Cardinality({}) = 0
      BY FS_EmptySet
    <2>2. 0 <= PoolSize /\ 0 <= Capacity
      BY ServiceAssumption DEF Capacity
    <2> QED
      BY <1>1, <1>5, <2>1, <2>2 DEF PoolInv, Capacity
  <1>7. ServiceTypes'
    BY <1>1, <1>4 DEF ServiceInv, ServiceTypes
  <1>8. ASSUME NEW r \in Requests PROVE RequestSafe(requests[r])' /\ KnowsOutage(r)'
    <2>1. ~Serving'
      BY <1>1 DEF Serving
    <2> QED
      BY <1>3, <2>1 DEF RequestSafe, KnowsOutage
  <1>9. ShutdownInv'
    BY <1>1 DEF ShutdownInv
  <1> QED
    BY <1>6, <1>7, <1>8, <1>9 DEF ServiceInv

\* Every step of the running process.
LEMMA RunStep ==
  ASSUME ServiceInv, NEW tables, Run(tables)
  PROVE  ServiceInv'
  <1>1. ASSUME NEW r \in Requests, Continue(r, tables) \/ PoolTimeout(r) PROVE ServiceInv'
    <2>1. CASE CheckLimit(r)
      <3>1. /\ At(r, "redis") /\ UNCHANGED <<phase, idle, opened, database>>
            /\ (\E s \in Advanced(requests[r]) : Becomes(r, s)) \/ Done(r)
            /\ resources' = resources \cup {"redis"}
        BY <2>1 DEF CheckLimit, Provided
      <3>2. resources \subseteq resources' /\ resources' \subseteq {"engine", "redis"}
        BY <3>1 DEF ServiceInv, ServiceTypes
      <3> QED
        BY <3>1, <3>2, ExternalStep
    <2>2. CASE Dispatch(r)
      <3>1. /\ At(r, "events") /\ UNCHANGED <<phase, resources, idle, opened, database>>
            /\ (\E s \in Advanced(requests[r]) : Becomes(r, s)) \/ Done(r)
        BY <2>2 DEF Dispatch
      <3>2. resources \subseteq resources' /\ resources' \subseteq {"engine", "redis"}
        BY <3>1 DEF ServiceInv, ServiceTypes
      <3> QED
        BY <3>1, <3>2, ExternalStep
    <2> QED
      BY <1>1, <2>1, <2>2, CheckoutStep, ExecuteStep, CommitRequestStep,
         StatementFailsStep, HashStep, LeaveStep DEF Continue
  <1> QED
    BY <1>1, ArriveStep, OutageStep, PhaseStep, GraceOverStep, AbortStep, CloseStep DEF Run

\* Nothing is connected and nobody has called.
LEMMA InitServiceInv == InitService => ServiceInv
  <1> SUFFICES ASSUME InitService PROVE ServiceInv
    OBVIOUS
  <1>1. /\ phase = "stopped" /\ resources = {} /\ opened = 0
        /\ idle = [ok |-> 0, dead |-> 0] /\ database = [up |-> TRUE, outages |-> 0]
        /\ requests = [r \in Requests |-> NewRequest]
    BY DEF InitService
  <1>2. NewRequest \in RequestState /\ NewRequest.pc = "new" /\ RequestSafe(NewRequest)
    BY ShortSafe DEF NewRequest, RequestState, RequestSafe
  <1>3. requests \in [Requests -> RequestState] /\ Holders = {} /\ InFlight = {}
    BY <1>1, <1>2 DEF Holders, InFlight
  <1>4. ServiceTypes
    BY <1>1, <1>3, ServiceAssumption DEF ServiceTypes
  <1>5. PoolInv
    <2>1. IsFiniteSet({}) /\ Cardinality({}) = 0
      BY FS_EmptySet
    <2>2. 0 <= PoolSize /\ 0 <= Capacity
      BY ServiceAssumption DEF Capacity
    <2> QED
      BY <1>1, <1>3, <2>1, <2>2 DEF PoolInv
  <1>6. ShutdownInv
    BY <1>1, <1>3 DEF ShutdownInv
  <1>7. \A r \in Requests : RequestSafe(requests[r]) /\ KnowsOutage(r)
    BY <1>1, <1>2, <1>3 DEF KnowsOutage
  <1> QED
    BY <1>4, <1>5, <1>6, <1>7 DEF ServiceInv
-----------------------------------------------------------------------------
(* The deployment.                                                         *)

\* What a request finds missing, a downgrade has taken.
SchemaErrorsHaveCause == \A r \in Requests : requests[r].pc = "SchemaError" => undone

\* The parts together: the service only steps once it has been booted.
DeploymentInv == DeployInv /\ ServiceInv /\ SchemaErrorsHaveCause

\* The commands leave the service alone.
LEMMA ServiceFrame == ServiceInv /\ UNCHANGED serviceVars => ServiceInv'
  <1> SUFFICES ASSUME ServiceInv, UNCHANGED serviceVars PROVE ServiceInv'
    OBVIOUS
  <1>1. UNCHANGED <<phase, resources, idle, opened, database, requests>>
    BY DEF serviceVars
  <1>2. InFlight' = InFlight /\ Holders' = Holders
    BY <1>1 DEF InFlight, Holders
  <1>3. ServiceTypes' /\ ShutdownInv'
    BY <1>1, <1>2 DEF ServiceInv, ServiceTypes, ShutdownInv
  <1>4. PoolInv'
    BY <1>1, <1>2, PoolSame DEF ServiceInv
  <1>5. ASSUME NEW r \in Requests PROVE RequestSafe(requests[r])' /\ KnowsOutage(r)'
    <2>1. RequestSafe(requests[r]) /\ KnowsOutage(r)
      BY DEF ServiceInv
    <2> QED
      BY <1>1, <1>2, <2>1 DEF RequestSafe, KnowsOutage, Serving
  <1> QED
    BY <1>3, <1>4, <1>5 DEF ServiceInv

\* Only docker compose starts the api, and before that it does nothing.
LEMMA NotBooted ==
  ASSUME ServiceInv, NEW tables, Run(tables), phase = "stopped"
  PROVE  phase' = "stopped" /\ requests' = requests
  <1>1. ~Serving
    BY DEF Serving
  <1>2. InFlight = {}
    BY DEF ServiceInv, ShutdownInv
  <1>3. ASSUME NEW r \in Requests, Continue(r, tables) \/ PoolTimeout(r) PROVE FALSE
    <2>1. requests[r].pc # "run" /\ requests[r].pc # "hashing"
      BY <1>2 DEF InFlight
    <2> QED
      BY <1>1, <1>3, <2>1 DEF Continue, Checkout, Execute, Commit, StatementFails, CheckLimit,
         StartHash, FinishHash, Dispatch, Respond, Unwind, PoolTimeout, At
  <1>4. ASSUME NEW r \in Requests, NEW program \in Endpoints, Arrive(r, program) PROVE FALSE
    BY <1>4 DEF Arrive
  <1>5. ASSUME NEW resource, Close(resource) PROVE FALSE
    BY <1>5 DEF Close
  <1>6. CASE Outage \/ Recover \/ Terminate \/ Drained \/ GraceOver \/ Exit \/ Abort
    BY <1>6 DEF Outage, Recover, Terminate, Drained, GraceOver, Exit, Abort
  <1> QED
    BY <1>3, <1>4, <1>5, <1>6 DEF Run

\* A request that becomes some state is in that one, and the others are where they were.
LEMMA OneBecomes ==
  ASSUME requests \in [Requests -> RequestState], NEW o \in Requests, NEW q, Becomes(o, q),
         q.pc # "SchemaError", NEW r \in Requests, requests'[r].pc = "SchemaError"
  PROVE  requests[r].pc = "SchemaError"
  <1>1. requests'[r] = IF r = o THEN q ELSE requests[r]
    BY DEF Becomes
  <1> QED
    BY <1>1

\* Only a statement that misses a table makes a request fail for lack of one.
LEMMA OnlyMissingTables ==
  ASSUME ServiceInv, NEW o \in Requests, NEW tables,
         Continue(o, tables) \/ PoolTimeout(o), ApiTables \subseteq tables,
         NEW r \in Requests, requests'[r].pc = "SchemaError"
  PROVE  requests[r].pc = "SchemaError"
  <1>1. /\ requests \in [Requests -> RequestState] /\ requests[o] \in RequestState
        /\ requests[o].todo \in Seq(Steps)
    BY DEF ServiceInv, ServiceTypes, RequestState
  <1> DEFINE done == [NewRequest EXCEPT !.pc = "done"]
             away(w) == [NewRequest EXCEPT !.pc = "DatabaseError", !.outage = w]
  <1>2. /\ done.pc = "done" /\ \A w : away(w).pc = "DatabaseError"
        /\ requests[o].pc # "SchemaError" =>
              \A w : [requests[o] EXCEPT !.conn = w].pc # "SchemaError"
        /\ [requests[o] EXCEPT !.pc = "hashing"].pc = "hashing"
    BY <1>1 DEF NewRequest, RequestState
  <1>3. \A s \in Advanced(requests[o]) : s.pc = "run" /\ [s EXCEPT !.conn = "none"].pc = "run"
    BY <1>1 DEF Advanced, RequestState
  <1>4. CASE Done(o)
    BY <1>1, <1>2, <1>4, OneBecomes DEF Done
  <1>5. CASE DatabaseError(o)
    BY <1>1, <1>2, <1>5, OneBecomes DEF DatabaseError
  <1>6. CASE \E s \in Advanced(requests[o]) :
                Becomes(o, s) \/ Becomes(o, [s EXCEPT !.conn = "none"])
    <2>1. PICK s \in Advanced(requests[o]) :
             Becomes(o, s) \/ Becomes(o, [s EXCEPT !.conn = "none"])
      BY <1>6
    <2>2. s.pc # "SchemaError" /\ [s EXCEPT !.conn = "none"].pc # "SchemaError"
      BY <1>3
    <2>3. CASE Becomes(o, s)
      BY <1>1, <2>2, <2>3, OneBecomes
    <2>4. CASE Becomes(o, [s EXCEPT !.conn = "none"])
      BY <1>1, <2>2, <2>4, OneBecomes
    <2> QED
      BY <2>1, <2>3, <2>4
  <1>7. CASE Checkout(o)
    <2>1. Becomes(o, [requests[o] EXCEPT !.conn = "ok"]) \/ DatabaseError(o)
      BY <1>7 DEF Checkout
    <2>2. requests[o].pc # "SchemaError"
      BY <1>7 DEF Checkout, At
    <2> QED
      BY <1>1, <1>2, <1>5, <2>1, <2>2, OneBecomes
  <1>8. CASE StartHash(o)
    <2>1. Becomes(o, [requests[o] EXCEPT !.pc = "hashing"])
      BY <1>8 DEF StartHash
    <2> QED
      BY <1>1, <1>2, <2>1, OneBecomes
  <1>9. CASE StatementFails(o, tables)
    <2>1. requests[o].todo # <<>>
      BY <1>9 DEF StatementFails, At
    <2>2. Uses(o) \subseteq tables
      BY <1>1, <2>1, HeadSafe DEF Uses, Steps
    <2>3. Done(o)
      BY <1>9, <2>2 DEF StatementFails
    <2> QED
      BY <1>4, <2>3
  <1>10. CASE Execute(o, tables) \/ Commit(o, tables)
    BY <1>5, <1>6, <1>10 DEF Execute, Commit
  <1>11. CASE CheckLimit(o) \/ FinishHash(o) \/ Dispatch(o) \/ Respond(o) \/ Unwind(o)
                 \/ PoolTimeout(o)
    BY <1>4, <1>6, <1>11
       DEF CheckLimit, FinishHash, Dispatch, Respond, Unwind, PoolTimeout
  <1> QED
    BY <1>7, <1>8, <1>9, <1>10, <1>11 DEF Continue

\* The service's steps on a database with the api's tables.
LEMMA NoNewSchemaError ==
  ASSUME ServiceInv, NEW tables, Run(tables), ApiTables \subseteq tables,
         NEW r \in Requests, requests'[r].pc = "SchemaError"
  PROVE  requests[r].pc = "SchemaError"
  <1>1. requests \in [Requests -> RequestState]
    BY DEF ServiceInv, ServiceTypes
  <1>2. ASSUME NEW o \in Requests, NEW program \in Endpoints, Arrive(o, program)
        PROVE  requests[r].pc = "SchemaError"
    <2> DEFINE q == [NewRequest EXCEPT !.pc = "run", !.todo = program, !.outage = ~database.up]
    <2>1. Becomes(o, q) /\ q.pc = "run"
      BY <1>2 DEF Arrive, NewRequest
    <2> HIDE DEF q
    <2> QED
      BY <1>1, <2>1, OneBecomes
  <1>3. ASSUME Outage \/ GraceOver \/ Abort
        PROVE  requests[r].pc = "SchemaError"
    <2>1. requests[r] \in RequestState
      BY <1>1
    <2>2. CASE Outage
      BY <2>1, <2>2 DEF Outage, RequestState
    <2>3. CASE GraceOver
      BY <2>1, <2>3 DEF GraceOver, RequestState
    <2>4. CASE Abort
      BY <2>1, <2>4 DEF Abort, NewRequest, RequestState
    <2> QED
      BY <1>3, <2>2, <2>3, <2>4
  <1>4. CASE Recover \/ Terminate \/ Drained \/ Exit
    BY <1>4 DEF Recover, Terminate, Drained, Exit
  <1>5. ASSUME NEW resource, Close(resource) PROVE requests' = requests
    BY <1>5 DEF Close
  <1> QED
    BY <1>2, <1>3, <1>4, <1>5, OnlyMissingTables DEF Run

\* While the api serves on its tables, no request finds one missing.
LEMMA SchemaErrorStep ==
  ASSUME DeployInv, ServiceInv, SchemaErrorsHaveCause, Serve
  PROVE  SchemaErrorsHaveCause'
  <1> SUFFICES ASSUME NEW r \in Requests, requests'[r].pc = "SchemaError", ~undone'
               PROVE  FALSE
    BY DEF SchemaErrorsHaveCause
  <1>1. Run(Tables) /\ ~undone
    BY DEF Serve
  <1>2. CASE phase = "stopped"
    BY <1>1, <1>2, NotBooted DEF SchemaErrorsHaveCause
  <1>3. CASE phase # "stopped"
    <2>1. ApiTables \subseteq Tables
      BY <1>1, <1>3, TablesServed
    <2>2. requests[r].pc = "SchemaError"
      BY <1>1, <2>1, NoNewSchemaError
    <2> QED
      BY <1>1, <2>2 DEF SchemaErrorsHaveCause
  <1> QED
    BY <1>2, <1>3

\* Whatever commands, requests, outages and shutdowns do, the invariant holds: the
\* committed schema is that of the version, the service accounts for every
\* connection, every failure and every phase of its shutdown, and only downgrades
\* take tables away from it.
THEOREM DeploymentInvariance == Spec => []DeploymentInv
  <1>1. Init => DeploymentInv
    <2> SUFFICES ASSUME Init PROVE DeploymentInv
      OBVIOUS
    <2>1. SchemaErrorsHaveCause
      BY DEF Init, InitService, NewRequest, SchemaErrorsHaveCause
    <2> QED
      BY <2>1, InitDeploy, InitServiceInv DEF Init, DeploymentInv
  <1>2. DeploymentInv /\ [Next]_vars => DeploymentInv'
    <2> SUFFICES ASSUME DeploymentInv, [Next]_vars PROVE DeploymentInv'
      OBVIOUS
    <2>1. DeployInv /\ ServiceInv /\ SchemaErrorsHaveCause
      BY DEF DeploymentInv
    <2>2. ASSUME UNCHANGED requests, undone => undone' PROVE SchemaErrorsHaveCause'
      BY <2>1, <2>2 DEF SchemaErrorsHaveCause
    <2>3. ASSUME UNCHANGED serviceVars, undone => undone'
          PROVE  ServiceInv' /\ SchemaErrorsHaveCause'
      BY <2>1, <2>2, <2>3, ServiceFrame DEF serviceVars
    <2>4. ASSUME NEW c \in Operators, NEW kind \in {"upgrade", "downgrade"},
                 OperatorStart(c, kind)
          PROVE  DeploymentInv'
      BY <2>1, <2>3, <2>4, OperatorStep DEF OperatorStart, DeploymentInv
    <2>5. CASE ComposeUp
      BY <2>1, <2>3, <2>5, ComposeStep DEF ComposeUp, DeploymentInv
    <2>6. ASSUME NEW c \in Commands, Migrating(c) PROVE DeploymentInv'
      BY <2>1, <2>3, <2>6, MigratingStep DEF Migrating, DeploymentInv
    <2>7. CASE StartApi
      <3>1. Boot /\ UNCHANGED <<schemaVars, undone>> /\ commands[migrate].pc = "done"
        BY <2>7 DEF StartApi
      <3>2. DeployInv' /\ ServiceInv'
        BY <2>1, <3>1, SchemaFrame, PhaseStep
      <3>3. UNCHANGED requests /\ (undone => undone')
        BY <3>1 DEF Boot
      <3> QED
        BY <2>2, <3>2, <3>3 DEF DeploymentInv
    <2>8. CASE Serve
      <3>1. Run(Tables) /\ UNCHANGED <<schemaVars, undone>>
        BY <2>8 DEF Serve
      <3>2. ServiceInv' /\ SchemaErrorsHaveCause'
        BY <2>1, <2>8, <3>1, RunStep, SchemaErrorStep
      <3>3. phase' = "stopped" \/ commands[migrate].pc = "done"
        BY <2>1, <3>1, NotBooted DEF DeployInv
      <3> QED
        BY <2>1, <3>1, <3>2, <3>3, SchemaFrame DEF DeploymentInv
    <2>9. CASE UNCHANGED vars
      <3>1. UNCHANGED serviceVars /\ UNCHANGED <<schemaVars, undone>>
        BY <2>9 DEF vars
      <3>2. phase' = "stopped" \/ commands[migrate].pc = "done"
        BY <2>1, <3>1 DEF DeployInv, serviceVars
      <3> QED
        BY <2>1, <2>3, <3>1, <3>2, SchemaFrame DEF DeploymentInv
    <2> QED
      BY <2>4, <2>5, <2>6, <2>7, <2>8, <2>9 DEF Next
  <1> QED
    BY <1>1, <1>2, PTL DEF Spec

\* Every variable of the service has its type, the pool stays within pool_size and
\* max_overflow (session.py:27), and a running command is within its plan.
THEOREM DeploymentTypes == Spec => []TypeOK
  <1>1. DeploymentInv => TypeOK
    <2> SUFFICES ASSUME DeploymentInv PROVE TypeOK
      OBVIOUS
    <2>1. ServiceTypes /\ PoolInv /\ MigrationsInv
      BY DEF DeploymentInv, DeployInv, ServiceInv
    <2>2. idle \in [ok : 0..PoolSize, dead : 0..PoolSize] /\ opened \in 0..Capacity
      <3>1. /\ idle \in [ok : Nat, dead : Nat] /\ opened \in Nat
            /\ opened <= Capacity /\ idle.ok + idle.dead <= PoolSize
        BY <2>1 DEF ServiceTypes, PoolInv
      <3>2. PoolSize \in Nat /\ Capacity \in Nat
        BY ServiceAssumption DEF Capacity
      <3> QED
        BY <3>1, <3>2
    <2>3. ServiceTypeOK
      BY <2>1, <2>2 DEF ServiceTypes, ServiceTypeOK, RequestState
    <2>4. revisions \subseteq 1..HeadRevision
      <3>1. HeadRevision = 2
        BY DEF HeadRevision, Revisions
      <3> QED
        BY <2>1, <3>1 DEF MigrationsInv, SchemaSafe
    <2>5. \A c \in Commands : Running(c) => commands[c].next \in 1..(Len(PlanOf(c)) + 1)
      BY <2>1 DEF MigrationsInv, CommandSafe
    <2> QED
      BY <2>3, <2>4, <2>5 DEF TypeOK, DeploymentInv, DeployInv
  <1> QED
    BY <1>1, DeploymentInvariance, PTL

\* Whatever alembic commands race, fail or are interrupted, the version table names
\* at most one revision, and the tables and indexes are that revision's
\* (env.py:44, one transaction per command).
THEOREM SchemaFollowsVersion == Spec => []SchemaMatchesVersion
  <1>1. DeploymentInv => SchemaMatchesVersion
    BY VersionNamesSchema DEF DeploymentInv, DeployInv, MigrationsInv
  <1> QED
    BY <1>1, DeploymentInvariance, PTL

\* Whoever else upgrades, fails or is interrupted, and whatever anybody plans from an
\* older version, the api runs on the newest revision, and no request finds a table
\* missing, unless a downgrade commits after the migrate service has read the version
\* (docker-compose.yml:29): that service cannot complete on an older one.
THEOREM ApiServesOnHead == Spec => []ServingOnHead
  <1>1. DeploymentInv => ServingOnHead
    <2> SUFFICES ASSUME DeploymentInv, ~undone
                 PROVE  /\ phase # "stopped" => /\ revisions = {HeadRevision}
                                                /\ schema \ {AlembicVersion} = Metadata
                        /\ \A r \in Requests : requests[r].pc # "SchemaError"
      BY DEF ServingOnHead
    <2>1. DeployInv /\ SchemaErrorsHaveCause
      BY DEF DeploymentInv
    <2> QED
      BY <2>1, TablesServed DEF SchemaErrorsHaveCause
  <1> QED
    BY <1>1, DeploymentInvariance, PTL

\* The pool never loses a slot and never exceeds its limits, whatever fails, is
\* cancelled or dies with the database (session.py:27).
THEOREM PoolAccountsForSlots == Spec => []SlotsAccountedFor
  <1>1. DeploymentInv => SlotsAccountedFor
    BY DEF DeploymentInv, ServiceInv, PoolInv, SlotsAccountedFor, Holders
  <1> QED
    BY <1>1, DeploymentInvariance, PTL

\* A request fails for lack of a database only if it ran during an outage
\* (session.py:29, pool_pre_ping).
THEOREM FailuresAreExplained == Spec => []FailuresHaveCause
  <1>1. DeploymentInv => FailuresHaveCause
    BY DEF DeploymentInv, ServiceInv, RequestSafe, FailuresHaveCause
  <1> QED
    BY <1>1, DeploymentInvariance, PTL

\* No request waits for Redis or for event handlers with a connection in hand.
THEOREM WaitsHoldNothing == Spec => []ExternalWaitsHoldNothing
  <1>1. DeploymentInv => ExternalWaitsHoldNothing
    <2> SUFFICES ASSUME DeploymentInv, NEW r \in Requests, requests[r].todo # <<>>,
                        Head(requests[r].todo).on \in {"redis", "events"}
                 PROVE  requests[r].conn = "none"
      BY DEF ExternalWaitsHoldNothing
    <2>1. requests[r] \in RequestState /\ RequestSafe(requests[r])
      BY DEF DeploymentInv, ServiceInv, ServiceTypes
    <2>2. requests[r].todo \in Seq(Steps)
          /\ (requests[r].conn # "none" => Releases(requests[r].todo))
      BY <2>1 DEF RequestState, RequestSafe
    <2> QED
      BY <2>2, HeadSafe
  <1> QED
    BY <1>1, DeploymentInvariance, PTL

\* A shutdown that waited for its requests leaves nothing open (main.py:60).
THEOREM ShutdownIsClean == Spec => []CleanShutdown
  <1>1. DeploymentInv => CleanShutdown
    BY DEF DeploymentInv, ServiceInv, ShutdownInv, CleanShutdown
  <1> QED
    BY <1>1, DeploymentInvariance, PTL
=============================================================================
