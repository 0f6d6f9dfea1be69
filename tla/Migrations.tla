----------------------------- MODULE Migrations -----------------------------
(***************************************************************************)
(* The Alembic environment, its two revisions, and what happens when       *)
(* `alembic upgrade head` and `alembic downgrade -1` run beside each other *)
(* or die half-way.  env.py runs a whole command in one transaction, and   *)
(* PostgreSQL's DDL is transactional; a statement waits for the tables     *)
(* another open transaction has touched.                                   *)
(*                                                                         *)
(* A command follows a plan that is fixed by the version it read first, so *)
(* its locks, and the schema it sees, follow from how far it has come.     *)
(***************************************************************************)
EXTENDS Naturals, Sequences, FiniteSets

CONSTANT Commands   \* invocations of alembic

VARIABLES
    schema,    \* committed tables and indexes
    revisions, \* committed rows of alembic_version, as indexes into Revisions
    commands   \* per command: what it does and how far it has come

schemaVars == <<schema, revisions, commands>>
-----------------------------------------------------------------------------
(* Database objects.  "ix_users_email" is written <<"ix", "users", "email">>. *)

Column(name, type) == [name |-> name, type |-> type, nullable |-> FALSE, default |-> "none"]

Table(name, columns, key, foreign) ==
    [kind |-> "table", name |-> <<name>>, table |-> name, columns |-> columns,
     key |-> key, foreign |-> foreign]

Index(name, table, column, unique) ==
    [kind |-> "index", name |-> name, table |-> table, column |-> column,
     unique |-> unique]

\* The table Alembic keeps the current revision in.
AlembicVersion == Table("alembic_version", {Column("version_num", "String(32)")},
                        [name |-> <<"alembic_version_pkc">>, column |-> "version_num"], {})

(* Base.metadata: the models, with names from the naming convention.       *)

PrimaryKey(table, column) == [name |-> <<"pk", table>>, column |-> column]
ForeignKey(table, column, referred, ondelete) ==
    [name |-> <<"fk", table, column, referred>>, column |-> column,
     refers |-> referred, ondelete |-> ondelete]
ModelIndex(table, column, unique) ==
    Index(<<"ix", table, column>>, table, column, unique)

UserModel ==
    {Table("users",
           {Column("id", "Uuid"), Column("email", "String(320)"),
            Column("hashed_password", "String(255)"), Column("is_active", "Boolean"),
            Column("created_at", "DateTime"),
            [Column("updated_at", "DateTime") EXCEPT !.default = "now"]},
           PrimaryKey("users", "id"), {}),
     ModelIndex("users", "email", TRUE)}

RefreshTokenModel ==
    {Table("refresh_tokens",
           {Column("jti", "Uuid"), Column("user_id", "Uuid"), Column("family_id", "Uuid"),
            Column("expires_at", "DateTime"),
            [Column("revoked_at", "DateTime") EXCEPT !.nullable = TRUE],
            [Column("created_at", "DateTime") EXCEPT !.default = "now"]},
           PrimaryKey("refresh_tokens", "jti"),
           {ForeignKey("refresh_tokens", "user_id", "users", "CASCADE")}),
     ModelIndex("refresh_tokens", "user_id", FALSE),
     ModelIndex("refresh_tokens", "family_id", FALSE)}

Metadata == UserModel \cup RefreshTokenModel
-----------------------------------------------------------------------------
(* The revisions.                                                          *)

\* A foreign key also locks the table it refers to, when it is made and dropped.
Create(object) ==
    [do |-> "create", object |-> object,
     touches |-> {object.table} \cup
                 (IF object.kind = "table" THEN {f.refers : f \in object.foreign} ELSE {})]
DropIndex(name, table) == [do |-> "drop_index", name |-> name, touches |-> {table}]
DropTable(name, referred) ==
    [do |-> "drop_table", name |-> <<name>>, table |-> name, touches |-> {name} \cup referred]

Upgrade0001 ==
    <<Create(Table("users",
                   {Column("id", "Uuid"), Column("email", "String(320)"),
                    Column("hashed_password", "String(255)"), Column("is_active", "Boolean"),
                    Column("created_at", "DateTime"),
                    [Column("updated_at", "DateTime") EXCEPT !.default = "now"]},
                   [name |-> <<"pk", "users">>, column |-> "id"], {})),
      Create(Index(<<"ix", "users", "email">>, "users", "email", TRUE))>>

Downgrade0001 ==
    <<DropIndex(<<"ix", "users", "email">>, "users"), DropTable("users", {})>>

Upgrade0002 ==
    <<Create(Table("refresh_tokens",
                   {Column("jti", "Uuid"), Column("user_id", "Uuid"),
                    Column("family_id", "Uuid"), Column("expires_at", "DateTime"),
                    [Column("revoked_at", "DateTime") EXCEPT !.nullable = TRUE],
                    [Column("created_at", "DateTime") EXCEPT !.default = "now"]},
                   [name |-> <<"pk", "refresh_tokens">>, column |-> "jti"],
                   {[name |-> <<"fk", "refresh_tokens", "user_id", "users">>,
                     column |-> "user_id", refers |-> "users", ondelete |-> "CASCADE"]})),
      Create(Index(<<"ix", "refresh_tokens", "user_id">>, "refresh_tokens", "user_id", FALSE)),
      Create(Index(<<"ix", "refresh_tokens", "family_id">>, "refresh_tokens", "family_id",
                   FALSE))>>

Downgrade0002 ==
    <<DropIndex(<<"ix", "refresh_tokens", "family_id">>, "refresh_tokens"),
      DropIndex(<<"ix", "refresh_tokens", "user_id">>, "refresh_tokens"),
      DropTable("refresh_tokens", {"users"})>>

\* The chain of down_revision links, oldest first.
Revisions == <<[upgrade |-> Upgrade0001, downgrade |-> Downgrade0001],
               [upgrade |-> Upgrade0002, downgrade |-> Downgrade0002]>>

HeadRevision == Len(Revisions)

\* Alembic records each step: INSERT from base, DELETE to base, UPDATE in between.
Stamp(from, to) ==
    [do |-> "stamp", from |-> from, to |-> to, touches |-> {"alembic_version"}]

UpgradeStep(v) == Append(Revisions[v].upgrade, Stamp(v - 1, v))
DowngradeStep(v) == Append(Revisions[v].downgrade, Stamp(v, v - 1))

\* The statements of a command that read version at; the version table is
\* created by the first command that finds no version in a database without it.
Plan(kind, at, fresh) ==
    (IF fresh THEN <<Create(AlembicVersion)>> ELSE <<>>) \o
    (IF kind = "downgrade" THEN DowngradeStep(at)
     ELSE IF at = 0 THEN UpgradeStep(1) \o UpgradeStep(2)
     ELSE IF at = 1 THEN UpgradeStep(2)
     ELSE <<>>)
-----------------------------------------------------------------------------
(* A command's own transaction.                                            *)

Running(c) == commands[c].pc = "running"
PlanOf(c) == Plan(commands[c].kind, commands[c].at, commands[c].fresh)

\* The statements the open transaction of c has executed.
Executed(c) ==
    IF Running(c) THEN {PlanOf(c)[i] : i \in 1..(commands[c].next - 1)} ELSE {}

\* Tables another open transaction holds locks on.
LockedByOthers(c) ==
    UNION {op.touches : op \in UNION {Executed(d) : d \in Commands \ {c}}}

\* Dropping a table drops its indexes.
Drops(op, object) ==
    \/ op.do = "drop_index" /\ object.name = op.name
    \/ op.do = "drop_table" /\ object.table = op.table

\* The schema after ops have run on it, in the order a plan has them.
Applied(ops, objects) ==
    {o \in objects : \A op \in ops : ~Drops(op, o)}
        \cup {op.object : op \in {p \in ops : p.do = "create"}}

\* The rows of alembic_version after the stamps among ops.
Stamped(ops, rows) ==
    LET stamps == {op \in ops : op.do = "stamp"}
    IN  {v \in rows \cup {op.to : op \in stamps} :
            v # 0 /\ \A op \in stamps : op.from # v}

\* PostgreSQL accepts a statement; a stamp must hit the one row it expects.
Succeeds(op, objects, rows) ==
    CASE op.do = "create" ->
            /\ \A o \in objects : o.name # op.object.name
            /\ op.object.kind = "index" => \E o \in objects : o.name = <<op.object.table>>
            /\ op.object.kind = "table" =>
                  \A f \in op.object.foreign : \E o \in objects : o.name = <<f.refers>>
      [] op.do = "drop_index" -> \E o \in objects : o.name = op.name
      [] op.do = "drop_table" ->
            /\ \E o \in objects : o.name = op.name
            /\ \A o \in objects : o.kind = "table" => \A f \in o.foreign : f.refers # op.table
      [] op.do = "stamp" -> IF op.from = 0 THEN op.to \notin rows ELSE op.from \in rows
-----------------------------------------------------------------------------
Ready == [pc |-> "ready", kind |-> "upgrade", at |-> 0, fresh |-> FALSE, next |-> 1]

InitSchema ==
    /\ schema = {}
    /\ revisions = {}
    /\ commands = [c \in Commands |-> Ready]

\* Command c's process ends.
EndAs(c, pc) == commands' = [commands EXCEPT ![c] = [Ready EXCEPT !.pc = pc]]

\* run_migrations reads the version first; a downgrade from base is refused.
Start(c, kind) ==
    /\ commands[c].pc = "ready"
    /\ \E at \in IF revisions = {} THEN {0} ELSE revisions :
          IF kind = "downgrade" /\ at = 0 THEN EndAs(c, "failed")
          ELSE commands' = [commands EXCEPT ![c] =
                   [pc |-> "running", kind |-> kind, at |-> at, next |-> 1,
                    fresh |-> at = 0 /\ AlembicVersion \notin schema]]
    /\ UNCHANGED <<schema, revisions>>

\* Mutant: each statement is committed by itself.
RunStatementAutocommit(c) ==
    /\ Running(c) /\ commands[c].next <= Len(PlanOf(c))
    /\ LET op == PlanOf(c)[commands[c].next]
       IN  IF Succeeds(op, schema, revisions)
           THEN /\ commands' = [commands EXCEPT ![c].next = @ + 1]
                /\ schema' = Applied({op}, schema)
                /\ revisions' = Stamped({op}, revisions)
           ELSE EndAs(c, "failed") /\ UNCHANGED <<schema, revisions>>

\* The next statement, once the tables it touches are free; an error rolls all
\* of the command back.
RunStatement(c) ==
    /\ Running(c) /\ commands[c].next <= Len(PlanOf(c))
    /\ LET op == PlanOf(c)[commands[c].next]
       IN  /\ op.touches \cap LockedByOthers(c) = {}
           /\ IF Succeeds(op, Applied(Executed(c), schema), Stamped(Executed(c), revisions))
              THEN commands' = [commands EXCEPT ![c].next = @ + 1]
              ELSE EndAs(c, "failed")
    /\ UNCHANGED <<schema, revisions>>

\* context.begin_transaction() ends: everything becomes visible at once.
CommitMigrations(c) ==
    /\ Running(c) /\ commands[c].next > Len(PlanOf(c))
    /\ schema' = Applied(Executed(c), schema)
    /\ revisions' = Stamped(Executed(c), revisions)
    /\ EndAs(c, "done")

\* The command is interrupted, or its connection breaks.
Interrupt(c) ==
    /\ Running(c)
    /\ EndAs(c, "failed")
    /\ UNCHANGED <<schema, revisions>>

Migrate(c) == RunStatement(c) \/ CommitMigrations(c) \/ Interrupt(c)
-----------------------------------------------------------------------------
\* What the migration chain builds for a version, without races or failures.
SchemaOf(v) ==
    CASE v = 0 -> {}
      [] v = 1 -> UserModel
      [] v = 2 -> Metadata

\* Whatever commands race, fail or are interrupted, the version table names at
\* most one revision, and the committed tables and indexes are exactly the ones
\* the models have at that revision (env.py:44 puts the whole command into one
\* transaction): no half-migrated schema is ever left behind.
SchemaMatchesVersion ==
    /\ Cardinality(revisions) <= 1
    /\ schema \ {AlembicVersion} =
          SchemaOf(IF revisions = {} THEN 0 ELSE CHOOSE v \in revisions : TRUE)
=============================================================================
