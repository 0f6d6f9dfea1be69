-------------------------- MODULE MigrationsProofs --------------------------
(***************************************************************************)
(* Why no order of alembic commands leaves a half-migrated schema behind.  *)
(*                                                                         *)
(* Migrations has no specification of its own: the lemmas below say that   *)
(* Start and Migrate keep MigrationsInv, and DeploymentProofs turns that   *)
(* into a theorem about every behaviour of the deployment.                 *)
(*                                                                         *)
(* A command reads the version before it holds any lock, so it may follow  *)
(* a plan that is stale.  The invariant says that a transaction which has  *)
(* executed a statement is at the committed version, with one exception    *)
(* that the foreign key of refresh_tokens then stops, and that no two open *)
(* transactions have touched the same table.  Every complete plan locks    *)
(* the tables that some first statement needs, so a command commits alone. *)
(***************************************************************************)
EXTENDS Migrations, SequenceTheorems, FiniteSetTheorems, TLAPS

(* Lists of statements.                                                    *)

\* The statements in a list.
Statements(s) == {s[i] : i \in 1..Len(s)}

\* A list with a statement appended to it.
LEMMA AppendIs ==
  ASSUME NEW S, NEW s \in Seq(S), NEW x \in S
  PROVE  /\ Append(s, x) \in Seq(S) /\ Len(Append(s, x)) = Len(s) + 1
         /\ \A i \in 1..Len(s) : Append(s, x)[i] = s[i]
         /\ Append(s, x)[Len(s) + 1] = x
         /\ Statements(Append(s, x)) = Statements(s) \cup {x}
  <1>1. /\ Append(s, x) \in Seq(S) /\ Len(Append(s, x)) = Len(s) + 1
        /\ \A i \in 1..Len(s) : Append(s, x)[i] = s[i]
        /\ Append(s, x)[Len(s) + 1] = x
    BY AppendProperties
  <1> DEFINE t == Append(s, x)
  <1> HIDE DEF t
  <1>2. Statements(t) = Statements(s) \cup {x}
    <2>1. Len(s) \in Nat /\ Len(t) = Len(s) + 1 /\ t[Len(s)+1] = x /\ \A i \in 1..Len(s) : t[i] = s[i]
      BY <1>1 DEF t
    <2>2. 1..Len(t) = 1..Len(s) \cup {Len(s) + 1}
      BY <2>1
    <2> QED
      BY <2>1, <2>2 DEF Statements
  <1> QED
    BY <1>1, <1>2 DEF t

\* A list after a list has the statements of both.
LEMMA ConcatStatements ==
  ASSUME NEW S, NEW s \in Seq(S), NEW t \in Seq(S)
  PROVE  Statements(s \o t) = Statements(s) \cup Statements(t)
  <1>1. /\ s \o t \in Seq(S) /\ Len(s \o t) = Len(s) + Len(t)
        /\ \A i \in 1..Len(s) : (s \o t)[i] = s[i]
        /\ \A i \in 1..Len(t) : (s \o t)[Len(s) + i] = t[i]
        /\ \A i \in (Len(s) + 1)..(Len(s) + Len(t)) : (s \o t)[i] = t[i - Len(s)]
    OBVIOUS
  <1> DEFINE u == s \o t
  <1> HIDE DEF u
  <1>2. Statements(u) = Statements(s) \cup Statements(t)
    <2>1. /\ Len(s) \in Nat /\ Len(t) \in Nat /\ Len(u) = Len(s) + Len(t)
          /\ \A i \in 1..Len(s) : u[i] = s[i]
          /\ \A i \in 1..Len(t) : u[Len(s) + i] = t[i]
          /\ \A i \in (Len(s) + 1)..(Len(s) + Len(t)) : u[i] = t[i - Len(s)]
      BY <1>1 DEF u
    <2>2. \A i \in 1..Len(u) : i \in 1..Len(s) \/ (i \in (Len(s) + 1)..(Len(s) + Len(t)) /\ i - Len(s) \in 1..Len(t))
      BY <2>1
    <2>3. \A i \in 1..Len(t) : Len(s) + i \in 1..Len(u)
      BY <2>1
    <2>4. \A i \in 1..Len(s) : i \in 1..Len(u)
      BY <2>1
    <2>5. Statements(u) \subseteq Statements(s) \cup Statements(t)
      BY <2>1, <2>2 DEF Statements
    <2>6. Statements(s) \cup Statements(t) \subseteq Statements(u)
      BY <2>1, <2>3, <2>4 DEF Statements
    <2> QED
      BY <2>5, <2>6
  <1> QED
    BY <1>2 DEF u

\* The lists the revisions write out.
LEMMA Tuples ==
  ASSUME NEW S, NEW a \in S, NEW b \in S, NEW c \in S
  PROVE  /\ <<>> \in Seq(S) /\ Len(<<>>) = 0 /\ Statements(<<>>) = {}
         /\ <<a>> \in Seq(S) /\ Len(<<a>>) = 1 /\ Statements(<<a>>) = {a}
         /\ <<a, b>> \in Seq(S) /\ Len(<<a, b>>) = 2 /\ Statements(<<a, b>>) = {a, b}
         /\ <<a, b, c>> \in Seq(S) /\ Len(<<a, b, c>>) = 3 /\ Statements(<<a, b, c>>) = {a, b, c}
   BY DEF Statements
-----------------------------------------------------------------------------
(* The objects of the models.                                              *)

UsersTable == Upgrade0001[1].object
EmailIndex == Upgrade0001[2].object
TokensTable == Upgrade0002[1].object
UserIdIndex == Upgrade0002[2].object
FamilyIndex == Upgrade0002[3].object

\* The models declare what the upgrades create (env.py's target_metadata and the
\* two revisions name the same tables, columns, keys and indexes).
LEMMA Models ==
  /\ UserModel = {UsersTable, EmailIndex}
  /\ Metadata = {UsersTable, EmailIndex, TokensTable, UserIdIndex, FamilyIndex}
  <1>1. UserModel = {UsersTable, EmailIndex}
    BY DEF UserModel, UsersTable, EmailIndex, Upgrade0001, Create, ModelIndex, PrimaryKey
  <1>2. RefreshTokenModel = {TokensTable, UserIdIndex, FamilyIndex}
    BY DEF RefreshTokenModel, TokensTable, UserIdIndex, FamilyIndex, Upgrade0002, Create,
           ModelIndex, PrimaryKey, ForeignKey
  <1> QED
    BY <1>1, <1>2 DEF Metadata

\* The objects' names, tables and foreign keys.
LEMMA Objects ==
  /\ /\ AlembicVersion.kind = "table" /\ AlembicVersion.name = <<"alembic_version">>
     /\ AlembicVersion.table = "alembic_version" /\ AlembicVersion.foreign = {}
  /\ /\ UsersTable.kind = "table" /\ UsersTable.name = <<"users">>
     /\ UsersTable.table = "users" /\ UsersTable.foreign = {}
  /\ /\ EmailIndex.kind = "index" /\ EmailIndex.name = <<"ix", "users", "email">>
     /\ EmailIndex.table = "users"
  /\ /\ TokensTable.kind = "table" /\ TokensTable.name = <<"refresh_tokens">>
     /\ TokensTable.table = "refresh_tokens"
     /\ {f.refers : f \in TokensTable.foreign} = {"users"}
  /\ /\ UserIdIndex.kind = "index" /\ UserIdIndex.name = <<"ix", "refresh_tokens", "user_id">>
     /\ UserIdIndex.table = "refresh_tokens"
  /\ /\ FamilyIndex.kind = "index" /\ FamilyIndex.name = <<"ix", "refresh_tokens", "family_id">>
     /\ FamilyIndex.table = "refresh_tokens"
  <1>1. /\ AlembicVersion.kind = "table" /\ AlembicVersion.name = <<"alembic_version">>
        /\ AlembicVersion.table = "alembic_version" /\ AlembicVersion.foreign = {}
    BY DEF AlembicVersion, Table
  <1>2. /\ UsersTable.kind = "table" /\ UsersTable.name = <<"users">>
        /\ UsersTable.table = "users" /\ UsersTable.foreign = {}
    BY DEF UsersTable, Upgrade0001, Create, Table
  <1>3. /\ EmailIndex.kind = "index" /\ EmailIndex.name = <<"ix", "users", "email">>
        /\ EmailIndex.table = "users"
    BY DEF EmailIndex, Upgrade0001, Create, Index
  <1>4. /\ TokensTable.kind = "table" /\ TokensTable.name = <<"refresh_tokens">>
        /\ TokensTable.table = "refresh_tokens"
        /\ {f.refers : f \in TokensTable.foreign} = {"users"}
    <2>1. /\ TokensTable.kind = "table" /\ TokensTable.name = <<"refresh_tokens">>
          /\ TokensTable.table = "refresh_tokens"
      BY DEF TokensTable, Upgrade0002, Create, Table
    <2>2. TokensTable.foreign =
            {[name |-> <<"fk", "refresh_tokens", "user_id", "users">>,
              column |-> "user_id", refers |-> "users", ondelete |-> "CASCADE"]}
      BY DEF TokensTable, Upgrade0002, Create, Table
    <2> QED
      BY <2>1, <2>2
  <1>5. /\ UserIdIndex.kind = "index" /\ UserIdIndex.name = <<"ix", "refresh_tokens", "user_id">>
        /\ UserIdIndex.table = "refresh_tokens"
    BY DEF UserIdIndex, Upgrade0002, Create, Index
  <1>6. /\ FamilyIndex.kind = "index" /\ FamilyIndex.name = <<"ix", "refresh_tokens", "family_id">>
        /\ FamilyIndex.table = "refresh_tokens"
    BY DEF FamilyIndex, Upgrade0002, Create, Index
  <1> QED
    BY <1>1, <1>2, <1>3, <1>4, <1>5, <1>6

\* No two objects have the same name.
LEMMA NamesDiffer ==
  /\ AlembicVersion.name # UsersTable.name /\ AlembicVersion.name # TokensTable.name
  /\ UsersTable.name # TokensTable.name
  /\ \A o \in {AlembicVersion, UsersTable, TokensTable},
        x \in {EmailIndex, UserIdIndex, FamilyIndex} : o.name # x.name
  /\ EmailIndex.name # UserIdIndex.name /\ EmailIndex.name # FamilyIndex.name
  /\ UserIdIndex.name # FamilyIndex.name
  /\ AlembicVersion \notin Metadata /\ UserModel \subseteq Metadata
  BY Objects, Models
-----------------------------------------------------------------------------
(* The statements of the revisions.                                        *)

DropEmail == Downgrade0001[1]
DropUsers == Downgrade0001[2]
DropFamily == Downgrade0002[1]
DropUserId == Downgrade0002[2]
DropTokens == Downgrade0002[3]

AllStatements ==
    {Create(o) : o \in Metadata \cup {AlembicVersion}}
        \cup {DropEmail, DropUsers, DropFamily, DropUserId, DropTokens}
        \cup {Stamp(0, 1), Stamp(1, 2), Stamp(2, 1), Stamp(1, 0)}

\* The upgrades create the models, the downgrades drop them.
LEMMA Scripts ==
  /\ Upgrade0001 = <<Create(UsersTable), Create(EmailIndex)>>
  /\ Upgrade0002 = <<Create(TokensTable), Create(UserIdIndex), Create(FamilyIndex)>>
  /\ Downgrade0001 = <<DropEmail, DropUsers>>
  /\ Downgrade0002 = <<DropFamily, DropUserId, DropTokens>>
  <1>1. Upgrade0001 = <<Create(UsersTable), Create(EmailIndex)>>
    BY DEF Upgrade0001, UsersTable, EmailIndex, Create
  <1>2. Upgrade0002 = <<Create(TokensTable), Create(UserIdIndex), Create(FamilyIndex)>>
    <2>1. /\ Upgrade0002[1] = Create(TokensTable) /\ Upgrade0002[2] = Create(UserIdIndex)
          /\ Upgrade0002[3] = Create(FamilyIndex)
      BY DEF Upgrade0002, TokensTable, UserIdIndex, FamilyIndex, Create
    <2>2. Upgrade0002 = <<Upgrade0002[1], Upgrade0002[2], Upgrade0002[3]>>
      BY DEF Upgrade0002
    <2> QED
      BY <2>1, <2>2
  <1>3. Downgrade0001 = <<DropEmail, DropUsers>>
    BY DEF Downgrade0001, DropEmail, DropUsers
  <1>4. Downgrade0002 = <<DropFamily, DropUserId, DropTokens>>
    BY DEF Downgrade0002, DropFamily, DropUserId, DropTokens
  <1> QED
    BY <1>1, <1>2, <1>3, <1>4

\* What the statements do.
LEMMA Fields ==
  /\ \A o : Create(o).do = "create" /\ Create(o).object = o
  /\ \A v, w : /\ Stamp(v, w).do = "stamp" /\ Stamp(v, w).from = v /\ Stamp(v, w).to = w
  /\ DropEmail.do = "drop_index" /\ DropEmail.name = EmailIndex.name
  /\ DropFamily.do = "drop_index" /\ DropFamily.name = FamilyIndex.name
  /\ DropUserId.do = "drop_index" /\ DropUserId.name = UserIdIndex.name
  /\ /\ DropUsers.do = "drop_table" /\ DropUsers.name = UsersTable.name
     /\ DropUsers.table = "users"
  /\ /\ DropTokens.do = "drop_table" /\ DropTokens.name = TokensTable.name
     /\ DropTokens.table = "refresh_tokens"
  BY Objects DEF Create, Stamp, DropEmail, DropUsers, DropFamily, DropUserId, DropTokens,
     Downgrade0001, Downgrade0002, DropIndex, DropTable

\* Which tables they lock.
LEMMA Touches ==
  /\ Create(AlembicVersion).touches = {"alembic_version"}
  /\ Create(UsersTable).touches = {"users"}
  /\ Create(TokensTable).touches = {"refresh_tokens", "users"}
  /\ DropEmail.touches = {"users"} /\ DropFamily.touches = {"refresh_tokens"}
  /\ DropTokens.touches = {"refresh_tokens", "users"}
  /\ \A v, w : Stamp(v, w).touches = {"alembic_version"}
  <1>1. /\ Create(AlembicVersion).touches = {"alembic_version"}
        /\ Create(UsersTable).touches = {"users"}
        /\ Create(TokensTable).touches = {"refresh_tokens", "users"}
    BY Objects DEF Create
  <1> QED
    BY <1>1 DEF DropEmail, DropFamily, DropTokens, Downgrade0001, Downgrade0002, DropIndex,
                DropTable, Stamp

\* A list of n > 0 statements that starts with first and consists of those in ops.
IsList(s, n, first, ops) ==
    /\ s \in Seq(AllStatements) /\ Len(s) = n /\ s[1] = first
    /\ Statements(s) = ops

\* A list and one more statement.
LEMMA ListAppend ==
  ASSUME NEW s, NEW n \in Nat \ {0}, NEW first, NEW ops, IsList(s, n, first, ops),
         NEW x \in AllStatements
  PROVE  IsList(Append(s, x), n + 1, first, ops \cup {x})
  <1> DEFINE t == Append(s, x)
  <1>1. s \in Seq(AllStatements) /\ Len(s) = n /\ s[1] = first /\ Statements(s) = ops
    BY DEF IsList
  <1>2. /\ t \in Seq(AllStatements) /\ Len(t) = Len(s) + 1
        /\ \A i \in 1..Len(s) : t[i] = s[i]
        /\ Statements(t) = Statements(s) \cup {x}
    BY <1>1, AppendIs
  <1> HIDE DEF t
  <1>3. IsList(t, n + 1, first, ops \cup {x})
    BY <1>1, <1>2 DEF IsList
  <1> QED
    BY <1>3 DEF t

\* A list and another one after it.
LEMMA ListConcat ==
  ASSUME NEW s, NEW m \in Nat \ {0}, NEW first, NEW ops, IsList(s, m, first, ops),
         NEW t, NEW n \in Nat, NEW second, NEW others, IsList(t, n, second, others)
  PROVE  IsList(s \o t, m + n, first, ops \cup others)
  <1> DEFINE u == s \o t
  <1>1. /\ s \in Seq(AllStatements) /\ Len(s) = m /\ s[1] = first /\ Statements(s) = ops
        /\ t \in Seq(AllStatements) /\ Len(t) = n /\ Statements(t) = others
    BY DEF IsList
  <1>2. /\ u \in Seq(AllStatements) /\ Len(u) = Len(s) + Len(t)
        /\ \A i \in 1..Len(s) : u[i] = s[i]
        /\ Statements(u) = Statements(s) \cup Statements(t)
    <2>1. /\ u \in Seq(AllStatements) /\ Len(u) = Len(s) + Len(t)
          /\ \A i \in 1..Len(s) : u[i] = s[i]
      BY <1>1
    <2>2. Statements(u) = Statements(s) \cup Statements(t)
      BY <1>1, ConcatStatements
    <2> QED
      BY <2>1, <2>2
  <1> HIDE DEF u
  <1>3. IsList(u, m + n, first, ops \cup others)
    BY <1>1, <1>2 DEF IsList
  <1> QED
    BY <1>3 DEF u

\* The statements that upgrade from version 0 and from version 1.
FromBase == {Create(UsersTable), Create(EmailIndex), Stamp(0, 1), Create(TokensTable),
             Create(UserIdIndex), Create(FamilyIndex), Stamp(1, 2)}
FromFirst == {Create(TokensTable), Create(UserIdIndex), Create(FamilyIndex), Stamp(1, 2)}
ToFirst == {DropFamily, DropUserId, DropTokens, Stamp(2, 1)}
ToBase == {DropEmail, DropUsers, Stamp(1, 0)}

\* Each revision's statements, and its stamp.
LEMMA StepLists ==
  /\ IsList(UpgradeStep(1), 3, Create(UsersTable),
            {Create(UsersTable), Create(EmailIndex), Stamp(0, 1)})
  /\ IsList(UpgradeStep(2), 4, Create(TokensTable), FromFirst)
  /\ IsList(DowngradeStep(1), 3, DropEmail, ToBase) /\ DowngradeStep(1)[2] = DropUsers
  /\ IsList(DowngradeStep(2), 4, DropFamily, ToFirst)
  <1> DEFINE S == AllStatements
  <1>1. /\ \A o \in {UsersTable, EmailIndex, TokensTable, UserIdIndex, FamilyIndex} :
              Create(o) \in S
        /\ DropEmail \in S /\ DropUsers \in S /\ DropFamily \in S
        /\ DropUserId \in S /\ DropTokens \in S
        /\ Stamp(0, 1) \in S /\ Stamp(1, 2) \in S /\ Stamp(2, 1) \in S /\ Stamp(1, 0) \in S
    BY Models DEF AllStatements
  <1> HIDE DEF S
  <1>2. ASSUME NEW a \in S, NEW b \in S, NEW x \in S
        PROVE  IsList(Append(<<a, b>>, x), 3, a, {a, b, x})
    <2>1. IsList(<<a, b>>, 2, a, {a, b})
      BY Tuples DEF IsList, S
    <2>2. IsList(Append(<<a, b>>, x), 2 + 1, a, {a, b} \cup {x})
      <3>1. 2 \in Nat \ {0} /\ x \in AllStatements
        BY DEF S
      <3> QED
        BY <2>1, <3>1, ListAppend, Zenon
    <2>3. 2 + 1 = 3 /\ {a, b} \cup {x} = {a, b, x}
      OBVIOUS
    <2> QED
      BY <2>2, <2>3, Zenon
  <1>3. ASSUME NEW a \in S, NEW b \in S, NEW c \in S, NEW x \in S
        PROVE  IsList(Append(<<a, b, c>>, x), 4, a, {a, b, c, x})
    <2>1. IsList(<<a, b, c>>, 3, a, {a, b, c})
      <3>1. <<a, b, c>> \in Seq(S) /\ Len(<<a, b, c>>) = 3 /\ Statements(<<a, b, c>>) = {a, b, c}
        BY DEF Statements
      <3>2. <<a, b, c>>[1] = a
        OBVIOUS
      <3> QED
        BY <3>1, <3>2, Zenon DEF IsList, S
    <2>2. IsList(Append(<<a, b, c>>, x), 3 + 1, a, {a, b, c} \cup {x})
      <3>1. 3 \in Nat \ {0} /\ x \in AllStatements
        BY DEF S
      <3> QED
        BY <2>1, <3>1, ListAppend, Zenon
    <2>3. 3 + 1 = 4 /\ {a, b, c} \cup {x} = {a, b, c, x}
      OBVIOUS
    <2> QED
      BY <2>2, <2>3, Zenon
  <1>4. /\ UpgradeStep(1) = Append(Upgrade0001, Stamp(0, 1))
        /\ UpgradeStep(2) = Append(Upgrade0002, Stamp(1, 2))
        /\ DowngradeStep(1) = Append(Downgrade0001, Stamp(1, 0))
        /\ DowngradeStep(2) = Append(Downgrade0002, Stamp(2, 1))
    BY DEF UpgradeStep, DowngradeStep, Revisions
  <1>5. /\ Create(UsersTable) \in S /\ Create(EmailIndex) \in S /\ Create(TokensTable) \in S
        /\ Create(UserIdIndex) \in S /\ Create(FamilyIndex) \in S
    BY <1>1
  <1>6. IsList(UpgradeStep(1), 3, Create(UsersTable),
               {Create(UsersTable), Create(EmailIndex), Stamp(0, 1)})
    BY <1>1, <1>2, <1>4, <1>5, Scripts, Zenon
  <1>7. IsList(UpgradeStep(2), 4, Create(TokensTable), FromFirst)
    <2>1. IsList(Append(Upgrade0002, Stamp(1, 2)), 4, Create(TokensTable),
                 {Create(TokensTable), Create(UserIdIndex), Create(FamilyIndex), Stamp(1, 2)})
      BY <1>1, <1>3, <1>5, Scripts, Zenon
    <2> QED
      BY <1>4, <2>1, Zenon DEF FromFirst
  <1>8. IsList(DowngradeStep(1), 3, DropEmail, ToBase)
    BY <1>1, <1>2, <1>4, Scripts, Zenon DEF ToBase
  <1>9. DowngradeStep(1)[2] = DropUsers
    <2>1. Downgrade0001 \in Seq(S) /\ Len(Downgrade0001) = 2 /\ Downgrade0001[2] = DropUsers
      BY <1>1, Scripts, Tuples
    <2>2. ASSUME NEW s \in Seq(S), Len(s) = 2, NEW x \in S PROVE Append(s, x)[2] = s[2]
      BY <2>2, AppendIs
    <2>3. Append(Downgrade0001, Stamp(1, 0))[2] = Downgrade0001[2]
      BY <1>1, <2>1, <2>2, Zenon
    <2> QED
      BY <1>4, <2>1, <2>3, Zenon
  <1>10. IsList(DowngradeStep(2), 4, DropFamily, ToFirst)
    <2>1. IsList(Append(Downgrade0002, Stamp(2, 1)), 4, DropFamily,
                 {DropFamily, DropUserId, DropTokens, Stamp(2, 1)})
      BY <1>1, <1>3, Scripts, Zenon
    <2> QED
      BY <1>4, <2>1, Zenon DEF ToFirst
  <1> QED
    BY <1>6, <1>7, <1>8, <1>9, <1>10

\* Every plan a command can have, from its first statement to its last.
LEMMA Plans ==
  /\ IsList(Plan("upgrade", 0, TRUE), 8, Create(AlembicVersion),
            FromBase \cup {Create(AlembicVersion)})
  /\ IsList(Plan("upgrade", 0, FALSE), 7, Create(UsersTable), FromBase)
  /\ IsList(Plan("upgrade", 1, FALSE), 4, Create(TokensTable), FromFirst)
  /\ Plan("upgrade", 2, FALSE) = <<>>
  /\ IsList(Plan("downgrade", 1, FALSE), 3, DropEmail, ToBase)
  /\ Plan("downgrade", 1, FALSE)[2] = DropUsers
  /\ IsList(Plan("downgrade", 2, FALSE), 4, DropFamily, ToFirst)
  <1> DEFINE first == <<Create(AlembicVersion)>>
             both == UpgradeStep(1) \o UpgradeStep(2)
  <1>1. IsList(first, 1, Create(AlembicVersion), {Create(AlembicVersion)})
    <2>1. Create(AlembicVersion) \in AllStatements
      BY DEF AllStatements
    <2> QED
      BY <2>1, Tuples DEF IsList
  <1>2. IsList(both, 7, Create(UsersTable), FromBase)
    <2>1. 3 \in Nat \ {0} /\ 4 \in Nat /\ 3 + 4 = 7
      OBVIOUS
    <2>2. IsList(both, 3 + 4, Create(UsersTable),
                 {Create(UsersTable), Create(EmailIndex), Stamp(0, 1)} \cup FromFirst)
      BY <2>1, StepLists, ListConcat, Zenon
    <2>3. {Create(UsersTable), Create(EmailIndex), Stamp(0, 1)} \cup FromFirst = FromBase
      BY DEF FromFirst, FromBase
    <2> QED
      BY <2>1, <2>2, <2>3, Zenon
  <1>3. ASSUME NEW s, s \in Seq(AllStatements) PROVE <<>> \o s = s
    BY <1>3, ConcatEmptySeq, Zenon
  <1>4. <<>> \in Seq(AllStatements)
    OBVIOUS
  <1> HIDE DEF first, both
  <1>5. IsList(first \o both, 8, Create(AlembicVersion), FromBase \cup {Create(AlembicVersion)})
    <2>1. 1 \in Nat \ {0} /\ 7 \in Nat /\ 1 + 7 = 8
      OBVIOUS
    <2>2. IsList(first \o both, 1 + 7, Create(AlembicVersion),
                 {Create(AlembicVersion)} \cup FromBase)
      BY <1>1, <1>2, <2>1, ListConcat, Zenon
    <2>3. {Create(AlembicVersion)} \cup FromBase = FromBase \cup {Create(AlembicVersion)}
      OBVIOUS
    <2> QED
      BY <2>1, <2>2, <2>3, Zenon
  <1>6. /\ Plan("upgrade", 0, TRUE) = first \o both
        /\ Plan("upgrade", 0, FALSE) = <<>> \o both
        /\ Plan("upgrade", 1, FALSE) = <<>> \o UpgradeStep(2)
        /\ Plan("upgrade", 2, FALSE) = <<>> \o <<>>
        /\ Plan("downgrade", 1, FALSE) = <<>> \o DowngradeStep(1)
        /\ Plan("downgrade", 2, FALSE) = <<>> \o DowngradeStep(2)
    BY DEF Plan, first, both
  <1>7. /\ both \in Seq(AllStatements) /\ UpgradeStep(2) \in Seq(AllStatements)
        /\ DowngradeStep(1) \in Seq(AllStatements)
        /\ DowngradeStep(2) \in Seq(AllStatements)
    BY <1>2, StepLists, Zenon DEF IsList
  <1>8. /\ Plan("upgrade", 0, FALSE) = both
        /\ Plan("upgrade", 1, FALSE) = UpgradeStep(2)
        /\ Plan("upgrade", 2, FALSE) = <<>>
        /\ Plan("downgrade", 1, FALSE) = DowngradeStep(1)
        /\ Plan("downgrade", 2, FALSE) = DowngradeStep(2)
    BY <1>3, <1>4, <1>6, <1>7, Zenon
  <1> QED
    BY <1>2, <1>5, <1>6, <1>8, StepLists, Zenon

\* How long the plans are and how they begin.
LEMMA PlanHeads ==
  /\ Len(Plan("upgrade", 0, TRUE)) = 8 /\ Len(Plan("upgrade", 0, FALSE)) = 7
  /\ Len(Plan("upgrade", 1, FALSE)) = 4 /\ Len(Plan("upgrade", 2, FALSE)) = 0
  /\ Len(Plan("downgrade", 1, FALSE)) = 3 /\ Len(Plan("downgrade", 2, FALSE)) = 4
  /\ Plan("upgrade", 0, TRUE)[1] = Create(AlembicVersion)
  /\ Plan("upgrade", 0, FALSE)[1] = Create(UsersTable)
  /\ Plan("upgrade", 1, FALSE)[1] = Create(TokensTable)
  /\ Plan("downgrade", 1, FALSE)[1] = DropEmail
  /\ Plan("downgrade", 2, FALSE)[1] = DropFamily
  BY Plans DEF IsList
-----------------------------------------------------------------------------
(* The inductive invariant.                                                *)

\* The version the committed rows name.
Version == IF revisions = {} THEN 0 ELSE IF revisions = {1} THEN 1 ELSE 2

\* The committed schema is the one of the committed version.
SchemaSafe ==
    /\ revisions \in {{}, {1}, {2}}
    /\ schema \ {AlembicVersion} = SchemaOf(Version)
    /\ revisions # {} => AlembicVersion \in schema

\* What is kept of a command.
CommandState ==
    [pc : {"ready", "running", "done", "failed"}, kind : {"upgrade", "downgrade"},
     at : 0..2, fresh : BOOLEAN, next : Nat]

\* The plans there are: a downgrade has a version to leave, and the version table
\* is made only from version 0.
HasPlan(c) ==
    \/ commands[c].kind = "upgrade" /\ commands[c].at = 0
    \/ commands[c].kind = "upgrade" /\ commands[c].at \in {1, 2} /\ ~commands[c].fresh
    \/ commands[c].kind = "downgrade" /\ commands[c].at \in {1, 2} /\ ~commands[c].fresh

\* A transaction that has executed a statement is at the committed version, but
\* for a stale downgrade of 0001, which will not get past its second statement.
AtVersion(c) ==
    \/ commands[c].at = Version
    \/ /\ commands[c].kind = "downgrade" /\ commands[c].at = 1
       /\ commands[c].next = 2 /\ Version = 2

\* A running command follows one of the plans, and what it knows is still so.
CommandSafe(c) ==
    Running(c) =>
        /\ HasPlan(c)
        /\ commands[c].next \in 1..(Len(PlanOf(c)) + 1)
        /\ ~commands[c].fresh => AlembicVersion \in schema
        /\ commands[c].next > 1 => AtVersion(c)

\* No two open transactions have touched the same table.
TouchesDisjoint ==
    \A c, d \in Commands : c # d =>
        \A p \in Executed(c), q \in Executed(d) : p.touches \cap q.touches = {}

\* The inductive invariant of every step of every command.
MigrationsInv ==
    /\ SchemaSafe
    /\ commands \in [Commands -> CommandState]
    /\ \A c \in Commands : CommandSafe(c)
    /\ TouchesDisjoint
-----------------------------------------------------------------------------
(* What a statement needs in order to succeed.                             *)

\* CREATE needs a free name, and an index its table.
LEMMA CreateNeeds ==
  ASSUME NEW x, NEW objects, NEW rows, Succeeds(Create(x), objects, rows)
  PROVE  /\ \A o \in objects : o.name # x.name
         /\ x.kind = "table" => \A f \in x.foreign : \E o \in objects : o.name = <<f.refers>>
  <1>1. ASSUME NEW op, op.do = "create", Succeeds(op, objects, rows)
        PROVE  /\ \A o \in objects : o.name # op.object.name
               /\ op.object.kind = "table" =>
                     \A f \in op.object.foreign : \E o \in objects : o.name = <<f.refers>>
    BY <1>1 DEF Succeeds
  <1>2. Create(x).do = "create" /\ Create(x).object = x
    BY Fields
  <1> QED
    BY <1>1, <1>2, Zenon

\* CREATE TABLE needs the tables its foreign keys refer to.
LEMMA CreateTableNeeds ==
  ASSUME NEW x, NEW objects, NEW rows, Succeeds(Create(x), objects, rows),
         x.kind = "table", NEW f \in x.foreign
  PROVE  \E o \in objects : o.name = <<f.refers>>
  BY CreateNeeds, Zenon

\* DROP INDEX needs the index.
LEMMA DropIndexNeeds ==
  ASSUME NEW op, NEW objects, NEW rows, op.do = "drop_index", Succeeds(op, objects, rows)
  PROVE  \E o \in objects : o.name = op.name
  BY DEF Succeeds

\* DROP TABLE is refused while a foreign key refers to the table.
LEMMA DropTableNeeds ==
  ASSUME NEW op, NEW objects, NEW rows, op.do = "drop_table", Succeeds(op, objects, rows)
  PROVE  \A o \in objects : o.kind = "table" => \A f \in o.foreign : f.refers # op.table
  BY DEF Succeeds

\* Which tables and indexes there are at each version.
LEMMA Contents ==
  ASSUME SchemaSafe
  PROVE  /\ Version \in 0..2
         /\ Version = 0 => schema \subseteq {AlembicVersion} /\ revisions = {}
         /\ Version = 1 => /\ {UsersTable, EmailIndex} \subseteq schema
                           /\ schema \subseteq {UsersTable, EmailIndex, AlembicVersion}
                           /\ revisions = {1} /\ AlembicVersion \in schema
         /\ Version = 2 => /\ Metadata \subseteq schema
                           /\ schema \subseteq Metadata \cup {AlembicVersion}
                           /\ revisions = {2} /\ AlembicVersion \in schema
  <1>1. Version \in 0..2 /\ SchemaOf(0) = {} /\ SchemaOf(1) = UserModel /\ SchemaOf(2) = Metadata
    BY DEF Version, SchemaOf
  <1>2. /\ Version = 0 => revisions = {}
        /\ Version = 1 => revisions = {1}
        /\ Version = 2 => revisions = {2}
    BY DEF SchemaSafe, Version
  <1>3. Version = 0 => schema \ {AlembicVersion} = {}
    BY <1>1 DEF SchemaSafe
  <1>4. Version = 1 => schema \ {AlembicVersion} = {UsersTable, EmailIndex}
    BY <1>1, Models DEF SchemaSafe
  <1>5. Version = 2 => schema \ {AlembicVersion} = Metadata
    BY <1>1 DEF SchemaSafe
  <1>6. Version # 0 => AlembicVersion \in schema
    BY <1>1, <1>2 DEF SchemaSafe
  <1> QED
    BY <1>1, <1>2, <1>3, <1>4, <1>5, <1>6

\* What a transaction has executed at its start, after its first statement and
\* at its end.
LEMMA ExecutedIs ==
  ASSUME MigrationsInv, NEW c \in Commands
  PROVE  /\ ~Running(c) => Executed(c) = {}
         /\ Running(c) =>
              /\ commands[c].next = 1 => Executed(c) = {}
              /\ commands[c].next = 2 => Executed(c) = {PlanOf(c)[1]}
              /\ commands[c].next > 1 => PlanOf(c)[1] \in Executed(c)
              /\ commands[c].next > Len(PlanOf(c)) => Executed(c) = Statements(PlanOf(c))
  <1>1. CASE ~Running(c)
    BY <1>1 DEF Executed
  <1>2. CASE Running(c)
    <2>1. commands[c].next \in Nat /\ commands[c].next >= 1
      BY <1>2 DEF MigrationsInv, CommandState, CommandSafe
    <2>2. Executed(c) = {PlanOf(c)[i] : i \in 1..(commands[c].next - 1)}
      BY <1>2 DEF Executed
    <2>3. commands[c].next \in 1..(Len(PlanOf(c)) + 1)
      BY <1>2 DEF MigrationsInv, CommandSafe
    <2>4. Len(PlanOf(c)) \in Nat /\ commands[c].next > Len(PlanOf(c))
            => commands[c].next - 1 = Len(PlanOf(c))
      BY <2>1, <2>3
    <2>5. Len(PlanOf(c)) \in Nat
      <3>1. HasPlan(c) /\ commands[c] \in CommandState
        BY <1>2 DEF MigrationsInv, CommandSafe
      <3> QED
        BY <3>1, PlanHeads DEF HasPlan, PlanOf, CommandState
    <2> HIDE DEF PlanOf
    <2>6. commands[c].next > Len(PlanOf(c)) => Executed(c) = Statements(PlanOf(c))
      BY <2>2, <2>4, <2>5 DEF Statements
    <2>7. commands[c].next > 1 => PlanOf(c)[1] \in Executed(c)
      BY <2>1, <2>2
    <2>8. commands[c].next = 1 => Executed(c) = {}
      BY <2>2
    <2>9. commands[c].next = 2 => Executed(c) = {PlanOf(c)[1]}
      BY <2>2
    <2> QED
      BY <1>2, <2>6, <2>7, <2>8, <2>9
  <1> QED
    BY <1>1, <1>2

\* Which of the six plans a running command follows.
LEMMA PlanCases ==
  ASSUME MigrationsInv, NEW c \in Commands, Running(c)
  PROVE  \/ commands[c].kind = "upgrade" /\ commands[c].at = 0 /\ commands[c].fresh
            /\ PlanOf(c) = Plan("upgrade", 0, TRUE)
         \/ commands[c].kind = "upgrade" /\ commands[c].at = 0 /\ ~commands[c].fresh
            /\ PlanOf(c) = Plan("upgrade", 0, FALSE)
         \/ commands[c].kind = "upgrade" /\ commands[c].at = 1 /\ ~commands[c].fresh
            /\ PlanOf(c) = Plan("upgrade", 1, FALSE)
         \/ commands[c].kind = "upgrade" /\ commands[c].at = 2 /\ ~commands[c].fresh
            /\ PlanOf(c) = Plan("upgrade", 2, FALSE)
         \/ commands[c].kind = "downgrade" /\ commands[c].at = 1 /\ ~commands[c].fresh
            /\ PlanOf(c) = Plan("downgrade", 1, FALSE)
         \/ commands[c].kind = "downgrade" /\ commands[c].at = 2 /\ ~commands[c].fresh
            /\ PlanOf(c) = Plan("downgrade", 2, FALSE)
  <1>1. HasPlan(c) /\ commands[c] \in CommandState
    BY DEF MigrationsInv, CommandSafe
  <1>2. commands[c].fresh = TRUE \/ commands[c].fresh = FALSE
    BY <1>1 DEF CommandState
  <1> QED
    BY <1>1, <1>2 DEF HasPlan, PlanOf

\* A first statement succeeds only on the version its command read, but for the
\* first of the downgrade of 0001, which finds its index at version 2 too.
LEMMA FirstStatement ==
  ASSUME MigrationsInv, NEW c \in Commands, Running(c), commands[c].next = 1,
         Len(PlanOf(c)) >= 1, Succeeds(PlanOf(c)[1], schema, revisions)
  PROVE  \/ commands[c].at = Version
         \/ commands[c].kind = "downgrade" /\ commands[c].at = 1 /\ Version = 2
  <1>1. SchemaSafe /\ CommandSafe(c)
    BY DEF MigrationsInv
  <1>2. CASE PlanOf(c) = Plan("upgrade", 0, TRUE) /\ commands[c].at = 0
    <2>1. AlembicVersion \notin schema
      <3>1. PlanOf(c)[1] = Create(AlembicVersion)
        BY <1>2, PlanHeads, Zenon
      <3>2. Succeeds(Create(AlembicVersion), schema, revisions)
        BY <3>1, Zenon
      <3> QED
        BY <3>2, CreateNeeds, Zenon
    <2> QED
      BY <1>1, <1>2, <2>1, Contents
  <1>3. CASE PlanOf(c) = Plan("upgrade", 0, FALSE) /\ commands[c].at = 0
    <2>1. UsersTable \notin schema
      <3>1. PlanOf(c)[1] = Create(UsersTable)
        BY <1>3, PlanHeads, Zenon
      <3>2. Succeeds(Create(UsersTable), schema, revisions)
        BY <3>1, Zenon
      <3> QED
        BY <3>2, CreateNeeds, Zenon
    <2> QED
      BY <1>1, <1>3, <2>1, Contents, Models
  <1>4. CASE PlanOf(c) = Plan("upgrade", 1, FALSE) /\ commands[c].at = 1
    <2>1. Succeeds(Create(TokensTable), schema, revisions)
      BY <1>4, PlanHeads, Zenon
    <2>2. TokensTable \notin schema
      BY <2>1, CreateNeeds, Zenon
    <2>3. \E f \in TokensTable.foreign : f.refers = "users"
      BY Objects
    <2>4. \E o \in schema : o.name = <<"users">>
      <3>1. TokensTable.kind = "table"
        BY Objects
      <3>2. PICK f \in TokensTable.foreign : f.refers = "users"
        BY <2>3
      <3>3. \E o \in schema : o.name = <<f.refers>>
        BY <2>1, <3>1, CreateTableNeeds, Zenon
      <3> QED
        BY <3>2, <3>3
    <2>5. Version # 0
      BY <1>1, <2>4, Contents, Objects, NamesDiffer
    <2>6. Version # 2
      BY <1>1, <2>2, Contents, Models
    <2> QED
      BY <1>1, <1>4, <2>5, <2>6, Contents
  <1>5. CASE PlanOf(c) = Plan("upgrade", 2, FALSE)
    <2>1. Len(PlanOf(c)) = 0
      BY <1>5, PlanHeads, Zenon
    <2> QED
      BY <2>1
  <1>6. CASE PlanOf(c) = Plan("downgrade", 1, FALSE) /\ commands[c].at = 1
             /\ commands[c].kind = "downgrade"
    <2>1. \E o \in schema : o.name = EmailIndex.name
      <3>1. PlanOf(c)[1] = DropEmail /\ DropEmail.do = "drop_index"
            /\ DropEmail.name = EmailIndex.name
        BY <1>6, PlanHeads, Fields
      <3> QED
        BY <3>1, DropIndexNeeds, Zenon
    <2>2. Version # 0
      BY <1>1, <2>1, Contents, NamesDiffer
    <2> QED
      BY <1>1, <1>6, <2>2, Contents
  <1>7. CASE PlanOf(c) = Plan("downgrade", 2, FALSE) /\ commands[c].at = 2
    <2>1. \E o \in schema : o.name = FamilyIndex.name
      <3>1. PlanOf(c)[1] = DropFamily /\ DropFamily.do = "drop_index"
            /\ DropFamily.name = FamilyIndex.name
        BY <1>7, PlanHeads, Fields
      <3> QED
        BY <3>1, DropIndexNeeds, Zenon
    <2>2. Version # 0 /\ Version # 1
      BY <1>1, <2>1, Contents, NamesDiffer
    <2> QED
      BY <1>1, <1>7, <2>2, Contents
  <1> QED
    BY <1>2, <1>3, <1>4, <1>5, <1>6, <1>7, PlanCases

\* At version 2 the users table cannot be dropped: refresh_tokens refers to it.
LEMMA SecondStatement ==
  ASSUME SchemaSafe, Version = 2, NEW rows
  PROVE  ~Succeeds(DropUsers, Applied({DropEmail}, schema), rows)
  <1>1. TokensTable \in schema
    BY Contents, Models
  <1>2. ~Drops(DropEmail, TokensTable)
    BY Fields, NamesDiffer DEF Drops
  <1>3. TokensTable \in Applied({DropEmail}, schema)
    BY <1>1, <1>2 DEF Applied
  <1>4. \E f \in TokensTable.foreign : f.refers = "users"
    BY Objects
  <1> QED
    BY <1>3, <1>4, DropTableNeeds, Objects, Fields
-----------------------------------------------------------------------------
(* What a whole plan does to the version it is for.                        *)

\* An upgrade drops nothing and creates the models it has statements for.
LEMMA UpgradeApplied ==
  ASSUME NEW objects
  PROVE  /\ Applied(FromBase, objects) = objects \cup Metadata
         /\ Applied(FromBase \cup {Create(AlembicVersion)}, objects)
              = objects \cup Metadata \cup {AlembicVersion}
         /\ Applied(FromFirst, objects) = objects \cup {TokensTable, UserIdIndex, FamilyIndex}
  <1> DEFINE Creates(ops) == {op.object : op \in {p \in ops : p.do = "create"}}
  <1>1. ASSUME NEW ops, \A op \in ops : op.do \in {"create", "stamp"}
        PROVE  Applied(ops, objects) = objects \cup Creates(ops)
    BY <1>1 DEF Applied, Drops
  <1>2. /\ \A op \in FromBase \cup {Create(AlembicVersion)} : op.do \in {"create", "stamp"}
        /\ \A op \in FromFirst : op.do \in {"create", "stamp"}
    BY Fields DEF FromBase, FromFirst
  <1>3. {p \in FromBase : p.do = "create"}
          = {Create(UsersTable), Create(EmailIndex), Create(TokensTable),
             Create(UserIdIndex), Create(FamilyIndex)}
    BY Fields DEF FromBase
  <1>4. {p \in FromFirst : p.do = "create"}
          = {Create(TokensTable), Create(UserIdIndex), Create(FamilyIndex)}
    BY Fields DEF FromFirst
  <1>5. {p \in FromBase \cup {Create(AlembicVersion)} : p.do = "create"}
          = {p \in FromBase : p.do = "create"} \cup {Create(AlembicVersion)}
    BY Fields
  <1>6. Creates(FromBase) = Metadata
    BY <1>3, Fields, Models
  <1>7. Creates(FromBase \cup {Create(AlembicVersion)}) = Metadata \cup {AlembicVersion}
    BY <1>3, <1>5, Fields, Models
  <1>8. Creates(FromFirst) = {TokensTable, UserIdIndex, FamilyIndex}
    BY <1>4, Fields
  <1> HIDE DEF Creates
  <1>9. /\ Applied(FromBase, objects) = objects \cup Creates(FromBase)
        /\ Applied(FromFirst, objects) = objects \cup Creates(FromFirst)
        /\ Applied(FromBase \cup {Create(AlembicVersion)}, objects)
             = objects \cup Creates(FromBase \cup {Create(AlembicVersion)})
    BY <1>1, <1>2
  <1> QED
    BY <1>6, <1>7, <1>8, <1>9

\* A downgrade creates nothing and drops its revision's models.
LEMMA DowngradeApplied ==
  ASSUME NEW objects, objects \subseteq Metadata \cup {AlembicVersion}
  PROVE  /\ Applied(ToFirst, objects) = objects \ {TokensTable, UserIdIndex, FamilyIndex}
         /\ objects \subseteq UserModel \cup {AlembicVersion} =>
               Applied(ToBase, objects) = objects \ UserModel
  <1>1. /\ {p \in ToFirst : p.do = "create"} = {} /\ {p \in ToBase : p.do = "create"} = {}
    BY Fields DEF ToFirst, ToBase
  <1>2. ASSUME NEW ops, {p \in ops : p.do = "create"} = {}
        PROVE  Applied(ops, objects) = {o \in objects : \A op \in ops : ~Drops(op, o)}
    BY <1>2 DEF Applied
  <1>3. ASSUME NEW o \in Metadata \cup {AlembicVersion}
        PROVE  (\E op \in ToFirst : Drops(op, o)) <=> o \in {TokensTable, UserIdIndex, FamilyIndex}
    <2>1. (\E op \in ToFirst : Drops(op, o)) <=>
             \/ o.name = FamilyIndex.name \/ o.name = UserIdIndex.name
             \/ o.table = "refresh_tokens"
      BY Fields DEF ToFirst, Drops
    <2> QED
      BY <2>1, Models, Objects, NamesDiffer
  <1>4. ASSUME NEW o \in UserModel \cup {AlembicVersion}
        PROVE  (\E op \in ToBase : Drops(op, o)) <=> o \in UserModel
    <2>1. (\E op \in ToBase : Drops(op, o)) <=> o.name = EmailIndex.name \/ o.table = "users"
      BY Fields DEF ToBase, Drops
    <2> QED
      BY <2>1, Models, Objects, NamesDiffer
  <1>5. Applied(ToFirst, objects) = {o \in objects : \A op \in ToFirst : ~Drops(op, o)}
    BY <1>1, <1>2
  <1>6. Applied(ToBase, objects) = {o \in objects : \A op \in ToBase : ~Drops(op, o)}
    BY <1>1, <1>2
  <1> QED
    BY <1>3, <1>4, <1>5, <1>6

\* The stamps move the version.
LEMMA PlanStamped ==
  /\ Stamped(FromBase, {}) = {2}
  /\ Stamped(FromBase \cup {Create(AlembicVersion)}, {}) = {2}
  /\ Stamped(FromFirst, {1}) = {2}
  /\ Stamped(ToFirst, {2}) = {1}
  /\ Stamped(ToBase, {1}) = {}
  <1>1. /\ {op \in FromBase : op.do = "stamp"} = {Stamp(0, 1), Stamp(1, 2)}
        /\ {op \in FromBase \cup {Create(AlembicVersion)} : op.do = "stamp"}
             = {Stamp(0, 1), Stamp(1, 2)}
    BY Fields DEF FromBase
  <1>2. /\ {op \in FromFirst : op.do = "stamp"} = {Stamp(1, 2)}
        /\ {op \in ToFirst : op.do = "stamp"} = {Stamp(2, 1)}
        /\ {op \in ToBase : op.do = "stamp"} = {Stamp(1, 0)}
    BY Fields DEF FromFirst, ToFirst, ToBase
  <1>3. /\ {op.to : op \in {Stamp(0, 1), Stamp(1, 2)}} = {1, 2}
        /\ {op.to : op \in {Stamp(1, 2)}} = {2}
        /\ {op.to : op \in {Stamp(2, 1)}} = {1}
        /\ {op.to : op \in {Stamp(1, 0)}} = {0}
    BY Fields
  <1>4. /\ \A v : (\A op \in {Stamp(0, 1), Stamp(1, 2)} : op.from # v) <=> v # 0 /\ v # 1
        /\ \A v : (\A op \in {Stamp(1, 2)} : op.from # v) <=> v # 1
        /\ \A v : (\A op \in {Stamp(2, 1)} : op.from # v) <=> v # 2
        /\ \A v : (\A op \in {Stamp(1, 0)} : op.from # v) <=> v # 1
    BY Fields
  <1>5. ASSUME NEW ops, {op \in ops : op.do = "stamp"} = {Stamp(0, 1), Stamp(1, 2)}
        PROVE  Stamped(ops, {}) = {2}
    <2>1. Stamped(ops, {}) = {v \in {} \cup {1, 2} : v # 0 /\ (v # 0 /\ v # 1)}
      BY <1>3, <1>4, <1>5 DEF Stamped
    <2> QED
      BY <2>1
  <1>6. Stamped(FromFirst, {1}) = {v \in {1} \cup {2} : v # 0 /\ v # 1}
    BY <1>2, <1>3, <1>4 DEF Stamped
  <1>7. Stamped(ToFirst, {2}) = {v \in {2} \cup {1} : v # 0 /\ v # 2}
    BY <1>2, <1>3, <1>4 DEF Stamped
  <1>8. Stamped(ToBase, {1}) = {v \in {1} \cup {0} : v # 0 /\ v # 1}
    BY <1>2, <1>3, <1>4 DEF Stamped
  <1> QED
    BY <1>1, <1>5, <1>6, <1>7, <1>8
-----------------------------------------------------------------------------
(* Committing.                                                             *)

\* A command that has come to the end of a plan with statements is at the
\* committed version, and has executed all of them.
LEMMA CompletedPlan ==
  ASSUME MigrationsInv, NEW c \in Commands, Running(c), commands[c].next > Len(PlanOf(c)),
         PlanOf(c) # <<>>
  PROVE  /\ commands[c].at = Version
         /\ \/ /\ commands[c].kind = "upgrade" /\ commands[c].at = 0 /\ commands[c].fresh
               /\ Executed(c) = FromBase \cup {Create(AlembicVersion)}
            \/ /\ commands[c].kind = "upgrade" /\ commands[c].at = 0 /\ ~commands[c].fresh
               /\ Executed(c) = FromBase
            \/ /\ commands[c].kind = "upgrade" /\ commands[c].at = 1 /\ ~commands[c].fresh
               /\ Executed(c) = FromFirst
            \/ /\ commands[c].kind = "downgrade" /\ commands[c].at = 1 /\ ~commands[c].fresh
               /\ Executed(c) = ToBase
            \/ /\ commands[c].kind = "downgrade" /\ commands[c].at = 2 /\ ~commands[c].fresh
               /\ Executed(c) = ToFirst
  <1>1. Executed(c) = Statements(PlanOf(c))
    BY ExecutedIs
  <1>2. \/ /\ commands[c].kind = "upgrade" /\ commands[c].at = 0 /\ commands[c].fresh
           /\ PlanOf(c) = Plan("upgrade", 0, TRUE)
        \/ /\ commands[c].kind = "upgrade" /\ commands[c].at = 0 /\ ~commands[c].fresh
           /\ PlanOf(c) = Plan("upgrade", 0, FALSE)
        \/ /\ commands[c].kind = "upgrade" /\ commands[c].at = 1 /\ ~commands[c].fresh
           /\ PlanOf(c) = Plan("upgrade", 1, FALSE)
        \/ /\ commands[c].kind = "downgrade" /\ commands[c].at = 1 /\ ~commands[c].fresh
           /\ PlanOf(c) = Plan("downgrade", 1, FALSE)
        \/ /\ commands[c].kind = "downgrade" /\ commands[c].at = 2 /\ ~commands[c].fresh
           /\ PlanOf(c) = Plan("downgrade", 2, FALSE)
    BY PlanCases, Plans, Zenon
  <1>3. Len(PlanOf(c)) \in {3, 4, 7, 8}
    BY <1>2, PlanHeads
  <1>4. commands[c].next > 2 /\ CommandSafe(c)
    <2>1. commands[c].next \in Nat
      BY DEF MigrationsInv, CommandState
    <2>2. PICK n \in {3, 4, 7, 8} : Len(PlanOf(c)) = n
      BY <1>3
    <2>3. commands[c].next > 2
      BY <2>1, <2>2
    <2> QED
      BY <2>3 DEF MigrationsInv
  <1>5. commands[c].at = Version
    BY <1>4 DEF CommandSafe, AtVersion
  <1>6. /\ Statements(Plan("upgrade", 0, TRUE)) = FromBase \cup {Create(AlembicVersion)}
        /\ Statements(Plan("upgrade", 0, FALSE)) = FromBase
        /\ Statements(Plan("upgrade", 1, FALSE)) = FromFirst
        /\ Statements(Plan("downgrade", 1, FALSE)) = ToBase
        /\ Statements(Plan("downgrade", 2, FALSE)) = ToFirst
    BY Plans DEF IsList
  <1> QED
    BY <1>1, <1>2, <1>5, <1>6, Zenon

\* What a whole plan has locked.
LEMMA PlanTouches ==
  /\ \A ops \in {FromBase, FromBase \cup {Create(AlembicVersion)}, FromFirst, ToBase, ToFirst} :
        /\ \E op \in ops : "users" \in op.touches
        /\ \E op \in ops : "alembic_version" \in op.touches
  /\ \E op \in ToFirst : "refresh_tokens" \in op.touches
  <1>1. /\ Create(UsersTable) \in FromBase /\ Stamp(0, 1) \in FromBase
        /\ Create(TokensTable) \in FromFirst /\ Stamp(1, 2) \in FromFirst
        /\ DropEmail \in ToBase /\ Stamp(1, 0) \in ToBase
        /\ DropTokens \in ToFirst /\ Stamp(2, 1) \in ToFirst
    BY DEF FromBase, FromFirst, ToBase, ToFirst
  <1> QED
    BY <1>1, Touches

\* The first statement of a plan locks a table that every plan which is complete
\* at the same version has locked.
LEMMA CommitsAlone ==
  ASSUME MigrationsInv, NEW c \in Commands, Running(c), commands[c].next > Len(PlanOf(c)),
         PlanOf(c) # <<>>, NEW d \in Commands, d # c, Running(d)
  PROVE  commands[d].next = 1
  <1>0. SUFFICES ASSUME commands[d].next > 1 PROVE FALSE
    <2>1. commands[d].next \in 1..(Len(PlanOf(d)) + 1) /\ commands[d].next \in Nat
      BY DEF MigrationsInv, CommandSafe, CommandState
    <2> QED
      BY <2>1
  <1>1. /\ \E op \in Executed(c) : "users" \in op.touches
        /\ \E op \in Executed(c) : "alembic_version" \in op.touches
        /\ Version = 2 => \E op \in Executed(c) : "refresh_tokens" \in op.touches
    <2>1. Executed(c) \in {FromBase, FromBase \cup {Create(AlembicVersion)}, FromFirst, ToBase,
                           ToFirst}
      BY CompletedPlan
    <2>2. Version = 2 => Executed(c) = ToFirst
      BY CompletedPlan
    <2> QED
      BY <2>1, <2>2, PlanTouches
  <1>2. PlanOf(d)[1] \in Executed(d)
    BY <1>0, ExecutedIs
  <1>3. \A p \in Executed(c) : p.touches \cap PlanOf(d)[1].touches = {}
    BY <1>2 DEF MigrationsInv, TouchesDisjoint
  <1>4. AtVersion(d) /\ CommandSafe(d)
    BY <1>0 DEF MigrationsInv, CommandSafe
  <1>5. ASSUME NEW op, PlanOf(d)[1] = op,
               \/ "users" \in op.touches \/ "alembic_version" \in op.touches
               \/ Version = 2 /\ "refresh_tokens" \in op.touches
        PROVE  FALSE
    BY <1>1, <1>3, <1>5
  <1>6. CASE PlanOf(d) = Plan("upgrade", 0, TRUE)
    <2>1. PlanOf(d)[1] = Create(AlembicVersion)
      BY <1>6, PlanHeads, Zenon
    <2> QED
      BY <1>5, <2>1, Touches
  <1>7. CASE PlanOf(d) = Plan("upgrade", 0, FALSE)
    <2>1. PlanOf(d)[1] = Create(UsersTable)
      BY <1>7, PlanHeads, Zenon
    <2> QED
      BY <1>5, <2>1, Touches
  <1>8. CASE PlanOf(d) = Plan("upgrade", 1, FALSE)
    <2>1. PlanOf(d)[1] = Create(TokensTable)
      BY <1>8, PlanHeads, Zenon
    <2> QED
      BY <1>5, <2>1, Touches
  <1>9. CASE PlanOf(d) = Plan("upgrade", 2, FALSE)
    <2>1. Len(PlanOf(d)) = 0
      BY <1>9, PlanHeads, Zenon
    <2> QED
      BY <1>0, <1>4, <2>1 DEF CommandSafe
  <1>10. CASE PlanOf(d) = Plan("downgrade", 1, FALSE)
    <2>1. PlanOf(d)[1] = DropEmail
      BY <1>10, PlanHeads, Zenon
    <2> QED
      BY <1>5, <2>1, Touches
  <1>11. CASE PlanOf(d) = Plan("downgrade", 2, FALSE) /\ commands[d].at = 2
    <2>1. PlanOf(d)[1] = DropFamily
      BY <1>11, PlanHeads, Zenon
    <2>2. Version = 2
      BY <1>4, <1>11 DEF AtVersion
    <2> QED
      BY <1>5, <2>1, <2>2, Touches
  <1> QED
    BY <1>6, <1>7, <1>8, <1>9, <1>10, <1>11, PlanCases

\* A commit leaves the schema of the version it stamps: the newest one, if the
\* command is an upgrade that had anything to do.
LEMMA CommitSchema ==
  ASSUME MigrationsInv, NEW c \in Commands, CommitMigrations(c)
  PROVE  /\ SchemaSafe'
         /\ AlembicVersion \in schema => AlembicVersion \in schema'
         /\ PlanOf(c) = <<>> => schema' = schema /\ revisions' = revisions
         /\ PlanOf(c) # <<>> /\ commands[c].kind = "upgrade" => revisions' = {2}
  <1>1. /\ Running(c) /\ commands[c].next > Len(PlanOf(c))
        /\ schema' = Applied(Executed(c), schema)
        /\ revisions' = Stamped(Executed(c), revisions)
    BY DEF CommitMigrations
  <1>2. SchemaSafe /\ CommandSafe(c)
    BY DEF MigrationsInv
  <1>3. /\ SchemaOf(0) = {} /\ SchemaOf(1) = UserModel /\ SchemaOf(2) = Metadata
    BY DEF SchemaOf
  <1>4. ASSUME revisions' = {2}, schema' \ {AlembicVersion} = Metadata,
               AlembicVersion \in schema'
        PROVE  SchemaSafe'
    <2>1. Version' = 2
      BY <1>4 DEF Version
    <2> QED
      BY <1>3, <1>4, <2>1 DEF SchemaSafe
  <1>5. CASE PlanOf(c) = <<>>
    <2>1. Executed(c) = {}
      <3>1. Executed(c) = Statements(PlanOf(c))
        BY <1>1, ExecutedIs
      <3> QED
        BY <1>5, <3>1, Tuples, Zenon
    <2>2. schema' = schema
      BY <1>1, <2>1 DEF Applied
    <2>3. revisions' = revisions
      BY <1>1, <1>2, <2>1 DEF Stamped, SchemaSafe
    <2>4. SchemaSafe'
      BY <1>2, <2>2, <2>3 DEF SchemaSafe, Version
    <2> QED
      BY <1>5, <2>2, <2>3, <2>4
  <1>6. CASE PlanOf(c) # <<>> /\ Executed(c) = FromBase \cup {Create(AlembicVersion)}
             /\ Version = 0
    <2>1. schema' = schema \cup Metadata \cup {AlembicVersion} /\ revisions' = {2}
      BY <1>1, <1>2, <1>6, UpgradeApplied, PlanStamped, Contents
    <2>2. schema' \ {AlembicVersion} = Metadata
      BY <1>2, <1>6, <2>1, Contents, NamesDiffer
    <2> QED
      BY <1>4, <1>6, <2>1, <2>2
  <1>7. CASE PlanOf(c) # <<>> /\ Executed(c) = FromBase /\ Version = 0 /\ ~commands[c].fresh
    <2>1. schema' = schema \cup Metadata /\ revisions' = {2}
      BY <1>1, <1>2, <1>7, UpgradeApplied, PlanStamped, Contents
    <2>2. schema' \ {AlembicVersion} = Metadata
      BY <1>2, <1>7, <2>1, Contents, NamesDiffer
    <2>3. AlembicVersion \in schema
      BY <1>1, <1>2, <1>7 DEF CommandSafe
    <2> QED
      BY <1>4, <1>7, <2>1, <2>2, <2>3
  <1>8. CASE PlanOf(c) # <<>> /\ Executed(c) = FromFirst /\ Version = 1
    <2>1. schema' = schema \cup {TokensTable, UserIdIndex, FamilyIndex} /\ revisions' = {2}
      BY <1>1, <1>2, <1>8, UpgradeApplied, PlanStamped, Contents
    <2>2. schema' \ {AlembicVersion} = Metadata
      BY <1>2, <1>8, <2>1, Contents, NamesDiffer, Models
    <2>3. AlembicVersion \in schema
      BY <1>2, <1>8, Contents
    <2> QED
      BY <1>4, <1>8, <2>1, <2>2, <2>3
  <1>9. CASE PlanOf(c) # <<>> /\ Executed(c) = ToFirst /\ Version = 2
             /\ commands[c].kind = "downgrade"
    <2>1. schema' = schema \ {TokensTable, UserIdIndex, FamilyIndex} /\ revisions' = {1}
      BY <1>1, <1>2, <1>9, DowngradeApplied, PlanStamped, Contents
    <2>2. schema' \ {AlembicVersion} = UserModel
      BY <1>2, <1>9, <2>1, Contents, NamesDiffer, Models
    <2>3. AlembicVersion \in schema'
      BY <1>2, <1>9, <2>1, Contents, NamesDiffer, Models
    <2>4. Version' = 1
      BY <2>1 DEF Version
    <2> QED
      BY <1>3, <1>9, <2>1, <2>2, <2>3, <2>4 DEF SchemaSafe
  <1>10. CASE PlanOf(c) # <<>> /\ Executed(c) = ToBase /\ Version = 1
              /\ commands[c].kind = "downgrade"
    <2>1. schema \subseteq UserModel \cup {AlembicVersion}
      BY <1>2, <1>10, Contents, Models
    <2>2. schema' = schema \ UserModel /\ revisions' = {}
      BY <1>1, <1>2, <1>10, <2>1, DowngradeApplied, PlanStamped, Contents, NamesDiffer
    <2>3. schema' \ {AlembicVersion} = {}
      BY <2>1, <2>2
    <2>4. AlembicVersion \in schema => AlembicVersion \in schema'
      BY <2>2, NamesDiffer
    <2>5. Version' = 0
      BY <2>2 DEF Version
    <2> QED
      BY <1>3, <1>10, <2>2, <2>3, <2>4, <2>5 DEF SchemaSafe
  <1> QED
    BY <1>1, <1>5, <1>6, <1>7, <1>8, <1>9, <1>10, CompletedPlan
-----------------------------------------------------------------------------
(* Every step of a command keeps the invariant.                            *)

\* An empty database, and no command yet.
LEMMA InitMigrations == InitSchema => MigrationsInv
  <1> SUFFICES ASSUME InitSchema PROVE MigrationsInv
    OBVIOUS
  <1>1. SchemaSafe
    BY DEF InitSchema, SchemaSafe, Version, SchemaOf
  <1>2. commands \in [Commands -> CommandState]
    BY DEF InitSchema, Ready, CommandState
  <1>3. \A c \in Commands : ~Running(c)
    BY DEF InitSchema, Ready, Running
  <1> QED
    BY <1>1, <1>2, <1>3 DEF MigrationsInv, CommandSafe, TouchesDisjoint, Executed

\* What is known of a command survives the steps of the others, as long as the
\* version, if the command has executed anything, and the version table stay.
LEMMA CommandFrame ==
  ASSUME NEW d \in Commands, CommandSafe(d), commands'[d] = commands[d],
         AlembicVersion \in schema => AlembicVersion \in schema',
         Running(d) => commands[d].next = 1 \/ Version' = Version
  PROVE  CommandSafe(d)' /\ Executed(d)' = Executed(d)
  <1>1. PlanOf(d)' = PlanOf(d) /\ (Running(d)' <=> Running(d))
    BY DEF PlanOf, Running
  <1>2. Executed(d)' = Executed(d)
    BY <1>1 DEF Executed
  <1>3. ASSUME ~Running(d) PROVE CommandSafe(d)'
    BY <1>1, <1>3 DEF CommandSafe
  <1>4. ASSUME Running(d) PROVE CommandSafe(d)'
    <2>1. /\ HasPlan(d)' /\ commands'[d].next \in 1..(Len(PlanOf(d)') + 1)
          /\ ~commands'[d].fresh => AlembicVersion \in schema'
      BY <1>1, <1>4 DEF CommandSafe, HasPlan
    <2>2. commands'[d].next > 1 => AtVersion(d)'
      BY <1>4 DEF CommandSafe, AtVersion
    <2> QED
      BY <1>1, <2>1, <2>2 DEF CommandSafe
  <1> QED
    BY <1>2, <1>3, <1>4

\* What the step of one command owes.
LEMMA StepOfCommand ==
  ASSUME MigrationsInv, NEW c \in Commands, SchemaSafe',
         commands' \in [Commands -> CommandState], CommandSafe(c)',
         \A d \in Commands \ {c} : CommandSafe(d)' /\ Executed(d)' = Executed(d),
         \A p \in Executed(c)' : \A d \in Commands \ {c} : \A q \in Executed(d) :
            p.touches \cap q.touches = {}
  PROVE  MigrationsInv'
  <1>1. TouchesDisjoint'
    <2> SUFFICES ASSUME NEW a \in Commands, NEW b \in Commands, a # b,
                        NEW p \in Executed(a)', NEW q \in Executed(b)'
                 PROVE  p.touches \cap q.touches = {}
      BY DEF TouchesDisjoint
    <2>1. CASE a = c
      BY <2>1
    <2>2. CASE b = c
      <3>1. q.touches \cap p.touches = {}
        BY <2>2
      <3> QED
        BY <3>1
    <2>3. CASE a # c /\ b # c
      BY <2>3 DEF MigrationsInv, TouchesDisjoint
    <2> QED
      BY <2>1, <2>2, <2>3
  <1> QED
    BY <1>1 DEF MigrationsInv

\* A command that has ended is not running, and the others go on.
LEMMA EndedCommand ==
  ASSUME commands \in [Commands -> CommandState], NEW c \in Commands,
         NEW pc \in {"failed", "done"}, EndAs(c, pc)
  PROVE  /\ commands' \in [Commands -> CommandState] /\ ~Running(c)'
         /\ \A d \in Commands \ {c} : commands'[d] = commands[d]
         /\ commands'[c].pc = pc
  <1> DEFINE ended == [Ready EXCEPT !.pc = pc]
  <1>1. ended \in CommandState /\ ended.pc = pc
    <2>1. Ready \in CommandState
      BY DEF Ready, CommandState
    <2>2. pc \in {"ready", "running", "failed", "done"}
      OBVIOUS
    <2> QED
      BY <2>1, <2>2 DEF CommandState
  <1>2. commands' = [commands EXCEPT ![c] = ended]
    BY DEF EndAs
  <1> HIDE DEF ended
  <1>3. commands'[c] = ended
    BY <1>2
  <1> QED
    BY <1>1, <1>2, <1>3 DEF Running

\* A command that ends without a commit leaves nothing behind.
LEMMA EndStep ==
  ASSUME MigrationsInv, NEW c \in Commands, EndAs(c, "failed"), UNCHANGED <<schema, revisions>>
  PROVE  MigrationsInv'
  <1>1. /\ commands' \in [Commands -> CommandState] /\ ~Running(c)'
        /\ \A d \in Commands \ {c} : commands'[d] = commands[d]
    BY EndedCommand DEF MigrationsInv
  <1>2. SchemaSafe' /\ Version' = Version
    BY DEF MigrationsInv, SchemaSafe, Version
  <1>3. ASSUME NEW d \in Commands \ {c} PROVE CommandSafe(d)' /\ Executed(d)' = Executed(d)
    BY <1>1, <1>2, CommandFrame DEF MigrationsInv
  <1>4. CommandSafe(c)' /\ Executed(c)' = {}
    BY <1>1 DEF CommandSafe, Executed
  <1> QED
    BY <1>1, <1>2, <1>3, <1>4, StepOfCommand

\* A command starts with the plan of the version it read.
LEMMA StartStep ==
  ASSUME MigrationsInv, NEW c \in Commands, NEW kind \in {"upgrade", "downgrade"},
         Start(c, kind)
  PROVE  MigrationsInv'
  <1>1. SchemaSafe /\ commands \in [Commands -> CommandState]
    BY DEF MigrationsInv
  <1>2. PICK at \in IF revisions = {} THEN {0} ELSE revisions :
           IF kind = "downgrade" /\ at = 0 THEN EndAs(c, "failed")
           ELSE commands' = [commands EXCEPT ![c] =
                    [pc |-> "running", kind |-> kind, at |-> at, next |-> 1,
                     fresh |-> at = 0 /\ AlembicVersion \notin schema]]
    BY DEF Start
  <1>3. UNCHANGED <<schema, revisions>>
    BY DEF Start
  <1>4. CASE kind = "downgrade" /\ at = 0
    BY <1>2, <1>3, <1>4, EndStep
  <1>5. CASE ~(kind = "downgrade" /\ at = 0)
    <2>1. at \in 0..2 /\ (at # 0 => AlembicVersion \in schema)
      BY <1>1 DEF SchemaSafe
    <2> DEFINE fresh == at = 0 /\ AlembicVersion \notin schema
               new == [pc |-> "running", kind |-> kind, at |-> at, next |-> 1, fresh |-> fresh]
    <2>2. fresh \in BOOLEAN /\ (~fresh => AlembicVersion \in schema) /\ (at # 0 => ~fresh)
      BY <2>1
    <2>3. commands' = [commands EXCEPT ![c] = new]
      BY <1>2, <1>5
    <2> HIDE DEF fresh
    <2>4. /\ commands' \in [Commands -> CommandState] /\ commands'[c] = new
          /\ \A d \in Commands \ {c} : commands'[d] = commands[d]
      BY <1>1, <2>1, <2>2, <2>3 DEF CommandState
    <2>5. SchemaSafe' /\ Version' = Version
      BY <1>1, <1>3 DEF SchemaSafe, Version
    <2>6. ASSUME NEW d \in Commands \ {c} PROVE CommandSafe(d)' /\ Executed(d)' = Executed(d)
      BY <1>3, <2>4, <2>5, CommandFrame DEF MigrationsInv
    <2>7. HasPlan(c)'
      BY <1>5, <2>1, <2>2, <2>4 DEF HasPlan
    <2>8. Len(PlanOf(c)') \in Nat
      BY <2>1, <2>2, <2>4, <2>7, PlanHeads DEF HasPlan, PlanOf
    <2>9. CommandSafe(c)'
      <3>1. commands'[c].next = 1 /\ (~commands'[c].fresh => AlembicVersion \in schema')
        BY <1>3, <2>2, <2>4
      <3>2. commands'[c].next \in 1..(Len(PlanOf(c)') + 1)
        BY <2>8, <3>1
      <3> QED
        BY <2>7, <3>1, <3>2 DEF CommandSafe
    <2>10. Executed(c)' = {}
      BY <2>4 DEF Executed
    <2> QED
      BY <2>4, <2>5, <2>6, <2>9, <2>10, StepOfCommand
  <1> QED
    BY <1>4, <1>5

\* A statement locks tables nobody else has touched, and succeeds only on the
\* version its command is at.
LEMMA StatementStep ==
  ASSUME MigrationsInv, NEW c \in Commands, RunStatement(c)
  PROVE  MigrationsInv'
  <1> DEFINE op == PlanOf(c)[commands[c].next]
  <1>1. /\ Running(c) /\ commands[c].next <= Len(PlanOf(c))
        /\ op.touches \cap LockedByOthers(c) = {}
        /\ UNCHANGED <<schema, revisions>>
        /\ IF Succeeds(op, Applied(Executed(c), schema), Stamped(Executed(c), revisions))
           THEN commands' = [commands EXCEPT ![c].next = @ + 1]
           ELSE EndAs(c, "failed")
    BY DEF RunStatement
  <1>2. CASE EndAs(c, "failed")
    BY <1>1, <1>2, EndStep
  <1>3. CASE /\ Succeeds(op, Applied(Executed(c), schema), Stamped(Executed(c), revisions))
             /\ commands' = [commands EXCEPT ![c].next = @ + 1]
    <2>1. commands \in [Commands -> CommandState] /\ commands[c].next \in Nat
          /\ CommandSafe(c) /\ SchemaSafe
      BY DEF MigrationsInv, CommandState
    <2>2. /\ commands' \in [Commands -> CommandState]
          /\ \A d \in Commands \ {c} : commands'[d] = commands[d]
          /\ commands'[c] = [commands[c] EXCEPT !.next = commands[c].next + 1]
      BY <1>3, <2>1 DEF CommandState
    <2>3. /\ commands'[c].next = commands[c].next + 1 /\ commands'[c].pc = "running"
          /\ commands'[c].kind = commands[c].kind /\ commands'[c].at = commands[c].at
          /\ commands'[c].fresh = commands[c].fresh
      BY <1>1, <2>1, <2>2 DEF CommandState, Running
    <2>4. SchemaSafe' /\ Version' = Version
      BY <1>1, <2>1 DEF SchemaSafe, Version
    <2>5. ASSUME NEW d \in Commands \ {c} PROVE CommandSafe(d)' /\ Executed(d)' = Executed(d)
      BY <1>1, <2>2, <2>4, CommandFrame DEF MigrationsInv
    <2>6. PlanOf(c)' = PlanOf(c) /\ Running(c)'
      BY <2>3 DEF PlanOf, Running
    <2>7. commands[c].at = Version
          \/ (commands[c].kind = "downgrade" /\ commands[c].at = 1 /\ commands[c].next = 1
              /\ Version = 2)
      <3>1. CASE commands[c].next = 1
        <4>1. Executed(c) = {}
          BY <1>1, <3>1, ExecutedIs
        <4>2. Applied(Executed(c), schema) = schema
          BY <4>1 DEF Applied
        <4>3. Stamped(Executed(c), revisions) = revisions
          BY <2>1, <4>1 DEF Stamped, SchemaSafe
        <4>4. Len(PlanOf(c)) >= 1 /\ Succeeds(PlanOf(c)[1], schema, revisions)
          BY <1>1, <1>3, <3>1, <4>2, <4>3
        <4> QED
          BY <1>1, <3>1, <4>4, FirstStatement
      <3>2. CASE commands[c].next > 1
        <4>1. AtVersion(c)
          BY <1>1, <2>1, <3>2 DEF CommandSafe
        <4>2. ASSUME commands[c].kind = "downgrade", commands[c].at = 1,
                     commands[c].next = 2, Version = 2
              PROVE  FALSE
          <5>1. PlanOf(c) = Plan("downgrade", 1, FALSE)
            BY <1>1, <4>2, PlanCases
          <5>2. PlanOf(c)[1] = DropEmail /\ PlanOf(c)[2] = DropUsers
            BY <5>1, PlanHeads, Plans, Zenon
          <5>3. Executed(c) = {DropEmail}
            BY <1>1, <4>2, <5>2, ExecutedIs
          <5>4. op = DropUsers
            BY <4>2, <5>2
          <5> QED
            BY <1>3, <2>1, <4>2, <5>3, <5>4, SecondStatement
        <4> QED
          BY <4>1, <4>2 DEF AtVersion
      <3>3. commands[c].next = 1 \/ commands[c].next > 1
        BY <1>1, <2>1 DEF CommandSafe
      <3> QED
        BY <3>1, <3>2, <3>3
    <2>8. CommandSafe(c)'
      <3>1. AtVersion(c)'
        BY <2>3, <2>4, <2>7 DEF AtVersion
      <3>2. HasPlan(c)' /\ (~commands'[c].fresh => AlembicVersion \in schema')
        BY <1>1, <2>1, <2>3 DEF CommandSafe, HasPlan
      <3>3. commands'[c].next \in 1..(Len(PlanOf(c)) + 1)
        <4>1. commands[c].next \in 1..(Len(PlanOf(c)) + 1) /\ commands[c].next <= Len(PlanOf(c))
          BY <1>1, <2>1 DEF CommandSafe
        <4> HIDE DEF op
        <4> QED
          BY <2>1, <2>3, <4>1
      <3> QED
        BY <2>6, <3>1, <3>2, <3>3 DEF CommandSafe
    <2>9. Executed(c)' \subseteq Executed(c) \cup {op}
      <3>1. Executed(c)' = {PlanOf(c)[i] : i \in 1..(commands'[c].next - 1)}
        BY <2>6 DEF Executed
      <3>2. Executed(c) = {PlanOf(c)[i] : i \in 1..(commands[c].next - 1)}
        BY <1>1 DEF Executed
      <3>3. commands'[c].next - 1 = commands[c].next
        BY <2>1, <2>3
      <3>4. \A i \in 1..commands[c].next : i \in 1..(commands[c].next - 1) \/ i = commands[c].next
        BY <2>1
      <3> QED
        BY <3>1, <3>2, <3>3, <3>4
    <2>10. ASSUME NEW p \in Executed(c)', NEW d \in Commands \ {c}, NEW q \in Executed(d)
           PROVE  p.touches \cap q.touches = {}
      <3>1. CASE p \in Executed(c)
        BY <3>1 DEF MigrationsInv, TouchesDisjoint
      <3>2. CASE p = op
        <4>1. q.touches \subseteq LockedByOthers(c)
          BY DEF LockedByOthers
        <4> QED
          BY <1>1, <3>2, <4>1
      <3> QED
        BY <2>9, <3>1, <3>2
    <2> QED
      BY <2>2, <2>4, <2>5, <2>8, <2>10, StepOfCommand
  <1> QED
    BY <1>1, <1>2, <1>3

\* A commit finds no other transaction that has executed anything, or has
\* nothing to commit.
LEMMA CommitStep ==
  ASSUME MigrationsInv, NEW c \in Commands, CommitMigrations(c)
  PROVE  MigrationsInv'
  <1>1. /\ SchemaSafe'
        /\ AlembicVersion \in schema => AlembicVersion \in schema'
        /\ PlanOf(c) = <<>> => schema' = schema /\ revisions' = revisions
    BY CommitSchema
  <1>2. /\ commands' \in [Commands -> CommandState] /\ ~Running(c)'
        /\ \A d \in Commands \ {c} : commands'[d] = commands[d]
    BY EndedCommand DEF CommitMigrations, MigrationsInv
  <1>3. ASSUME NEW d \in Commands \ {c}, Running(d)
        PROVE  commands[d].next = 1 \/ Version' = Version
    <2>1. CASE PlanOf(c) = <<>>
      BY <1>1, <2>1 DEF Version
    <2>2. CASE PlanOf(c) # <<>>
      BY <1>3, <2>2, CommitsAlone DEF CommitMigrations
    <2> QED
      BY <2>1, <2>2
  <1>4. ASSUME NEW d \in Commands \ {c} PROVE CommandSafe(d)' /\ Executed(d)' = Executed(d)
    BY <1>1, <1>2, <1>3, CommandFrame DEF MigrationsInv
  <1>5. CommandSafe(c)' /\ Executed(c)' = {}
    BY <1>2 DEF CommandSafe, Executed
  <1> QED
    BY <1>1, <1>2, <1>4, <1>5, StepOfCommand

\* Every step of a running command.
LEMMA MigrateStep ==
  ASSUME MigrationsInv, NEW c \in Commands, Migrate(c)
  PROVE  MigrationsInv'
  BY StatementStep, CommitStep, EndStep DEF Migrate, Interrupt

\* The version table names at most one revision and the schema is its schema.
LEMMA VersionNamesSchema == SchemaSafe => SchemaMatchesVersion
  <1> SUFFICES ASSUME SchemaSafe PROVE SchemaMatchesVersion
    OBVIOUS
  <1>1. Cardinality(revisions) <= 1
    <2>1. CASE revisions = {}
      <3>1. Cardinality({}) = 0
        BY FS_EmptySet, Zenon
      <3> QED
        BY <2>1, <3>1
    <2>2. CASE \E v \in {1, 2} : revisions = {v}
      <3>1. \A v : Cardinality({v}) = 1
        BY FS_Singleton, Zenon
      <3> QED
        BY <2>2, <3>1
    <2> QED
      BY <2>1, <2>2 DEF SchemaSafe
  <1>2. (IF revisions = {} THEN 0 ELSE CHOOSE v \in revisions : TRUE) = Version
    <2>1. CASE revisions = {}
      BY <2>1 DEF Version
    <2>2. ASSUME NEW v \in {1, 2}, revisions = {v}
          PROVE  (CHOOSE w \in revisions : TRUE) = v
      BY <2>2
    <2> QED
      BY <2>1, <2>2 DEF SchemaSafe, Version
  <1> QED
    BY <1>1, <1>2 DEF SchemaMatchesVersion, SchemaSafe
=============================================================================
