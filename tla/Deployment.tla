----------------------------- MODULE Deployment -----------------------------
(***************************************************************************)
(* docker-compose.yml: the one-shot `migrate` service, the api, which      *)
(* starts only when that one has completed successfully, and whatever      *)
(* alembic commands people run by hand before, beside and after them.      *)
(* Composes Migrations and ServiceProcess: the api's SQL needs the tables  *)
(* the migrations have committed.                                          *)
(*                                                                         *)
(* Nothing in the repository keeps `make downgrade` away from the migrate  *)
(* service or from a running api.                                          *)
(***************************************************************************)
EXTENDS ServiceProcess, Migrations

CONSTANT migrate   \* the command of the migrate service

ASSUME MigrateAssumption == migrate \in Commands

VARIABLE undone   \* history: a downgrade has committed since `migrate` read the version

\* The alembic commands somebody runs by hand.
Operators == Commands \ {migrate}

vars == <<serviceVars, schemaVars, undone>>

Init == InitService /\ InitSchema /\ undone = FALSE

\* The tables the api's SQL finds.
Tables == {o.table : o \in {p \in schema : p.kind = "table"}}

\* make migrate, make downgrade
OperatorStart(c, kind) ==
    /\ Start(c, kind)
    /\ UNCHANGED <<serviceVars, undone>>

\* docker compose up
ComposeUp ==
    /\ Start(migrate, "upgrade")
    /\ UNCHANGED <<serviceVars, undone>>

\* Command c commits a downgrade after the migrate service has read the version.
Undoes(c) == /\ commands[migrate].pc # "ready"
             /\ commands[c].kind = "downgrade" /\ CommitMigrations(c)

Migrating(c) ==
    /\ Migrate(c)
    /\ undone' = (undone \/ Undoes(c))
    /\ UNCHANGED serviceVars

\* Mutant: depends_on without a condition.
StartApiAnyhow ==
    /\ commands[migrate].pc # "ready"
    /\ Boot
    /\ UNCHANGED <<schemaVars, undone>>

\* depends_on: migrate: condition: service_completed_successfully
StartApi ==
    /\ commands[migrate].pc = "done"
    /\ Boot
    /\ UNCHANGED <<schemaVars, undone>>

Serve == Run(Tables) /\ UNCHANGED <<schemaVars, undone>>

Next ==
    \/ \E c \in Operators, kind \in {"upgrade", "downgrade"} : OperatorStart(c, kind)
    \/ ComposeUp
    \/ \E c \in Commands : Migrating(c)
    \/ StartApi
    \/ Serve

\* The event loop does not stop while some request can go on.
Spec == /\ Init /\ [][Next]_vars
        /\ WF_vars(/\ \E r \in Requests : Continue(r, Tables)
                   /\ UNCHANGED <<schemaVars, undone>>)
-----------------------------------------------------------------------------
\* Every variable of the service has its type, and a running command has a
\* version it read and a statement of its plan to go on with.
TypeOK ==
    /\ ServiceTypeOK
    /\ revisions \subseteq 1..HeadRevision
    /\ \A c \in Commands :
          Running(c) => commands[c].next \in 1..(Len(PlanOf(c)) + 1)
    /\ undone \in BOOLEAN

\* "a failed migration is a distinct failed service, not an api that dies
\* mid-startup" (docker-compose.yml:29): unless a downgrade has committed since the
\* migrate service read the version, the api runs on the newest revision, the
\* tables and indexes are the ones its models declare, and no request has met a
\* missing table; whatever other commands were beside the migrate service, ran,
\* failed or were interrupted, and whatever plans they made from older versions.
ServingOnHead ==
    ~undone =>
        /\ phase # "stopped" => /\ revisions = {HeadRevision}
                                /\ schema \ {AlembicVersion} = Metadata
        /\ \A r \in Requests : requests[r].pc # "SchemaError"
=============================================================================
