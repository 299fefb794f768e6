----------------------------- MODULE Migrations -----------------------------
(* The migrations of the database: one call of alembic takes the database  *)
(* from its revision to a target, revision by revision, in the one         *)
(* transaction of run_migrations_online.  Between the calls the rows       *)
(* change: the service of each revision stores what that catalog allows.   *)
EXTENDS Revisions

CONSTANTS
    Stored,         \* the tables that get rows, a bound
    NoMigration

VARIABLES
    revision,       \* the row of alembic_version, 0 before the first
    database,       \* the catalog and the rows, as in Schema
    migration       \* NoMigration, or what the open transaction has made of both

migrationVars == <<revision, database, migration>>

Parents(d, t) == {f[3] : f \in {g \in d.catalog : g[1] = "references" /\ g[2] = t}}

Nullable(d, t) ==
    {<<t, f[3]>> : f \in {g \in d.catalog : /\ g[1] = "column"
                                            /\ g[2] = t
                                            /\ NotNull(t, g[3]) \notin d.catalog}}

-----------------------------------------------------------------------------
(* One call of alembic.                                                    *)

\* alembic upgrade head (docker-compose.yml), downgrade base, or one step.
Targets == {Latest, 0, revision + 1, revision - 1} \cap (0 .. Latest \ {revision})

Begin(target) ==
    /\ migration = NoMigration
    /\ target \in Targets
    /\ migration' = [target |-> target, revision |-> revision, done |-> 0,
                     database |-> database]
    /\ UNCHANGED <<revision, database>>

Upgrading == migration.revision < migration.target

\* The statements of the revision that is next, of which some are done.
Statements ==
    IF Upgrading THEN Chain[migration.revision + 1].up ELSE Chain[migration.revision].down

Underway == migration # NoMigration /\ migration.revision # migration.target

HasStatement == Underway /\ migration.done # Len(Statements)

Statement == Statements[migration.done + 1]

Execute ==
    /\ HasStatement
    /\ Possible(migration.database, Statement)
    /\ migration' = [migration EXCEPT !.database = Apply(@, Statement), !.done = @ + 1]
    /\ UNCHANGED <<revision, database>>

\* A unique constraint on a table with rows may meet two equal ones.
MeetsRows ==
    /\ Statement.op = "note"
    /\ \E t \in migration.database.populated, f \in Statement.facts : f[1] = "unique" /\ f[2] = t

\* A statement raises: the whole call is rolled back.
Raise ==
    /\ HasStatement
    /\ ~Possible(migration.database, Statement) \/ MeetsRows
    /\ migration' = NoMigration
    /\ UNCHANGED <<revision, database>>

\* The revision is done, and alembic_version is set to the next.
Stamp ==
    /\ Underway
    /\ migration.done = Len(Statements)
    /\ migration' = [migration EXCEPT !.revision = IF Upgrading THEN @ + 1 ELSE @ - 1,
                                      !.done = 0]
    /\ UNCHANGED <<revision, database>>

Commit ==
    /\ migration # NoMigration
    /\ migration.revision = migration.target
    /\ revision' = migration.revision
    /\ database' = migration.database
    /\ migration' = NoMigration

\* The container ends before the commit.
Crash ==
    /\ migration # NoMigration
    /\ migration' = NoMigration
    /\ UNCHANGED <<revision, database>>

-----------------------------------------------------------------------------

\* The service stores rows of one more table; some of them leave every
\* nullable column NULL, or all of them fill every column.
Insert(t, nulls) ==
    /\ migration = NoMigration
    /\ t \in Tables(database) \ database.populated
    /\ Parents(database, t) \subseteq database.populated
    /\ nulls \in {{}, Nullable(database, t)}
    /\ database' = [database EXCEPT !.populated = @ \cup {t}, !.nulls = @ \cup nulls]
    /\ UNCHANGED <<revision, migration>>

-----------------------------------------------------------------------------

MigrationsInit ==
    /\ revision = 0
    /\ database = Empty
    /\ migration = NoMigration

MigrationsNext ==
    \/ \E target \in 0 .. Latest : Begin(target)
    \/ Execute
    \/ Raise
    \/ Stamp
    \/ Commit
    \/ Crash
    \/ \E t \in Stored : \E nulls \in {{}, Nullable(database, t)} : Insert(t, nulls)

MigrationsSpec == MigrationsInit /\ [][MigrationsNext]_migrationVars

-----------------------------------------------------------------------------
(* Properties.                                                             *)

\* A catalog is another one, but for types and labels that are there besides.
IsButForEnums(catalog, expected) ==
    /\ expected \subseteq catalog
    /\ \A f \in catalog \ expected : IsEnum(f)

\* Where the open transaction would be on the straight path.
Expected ==
    IF ~Underway THEN Straight[migration.revision + 1]
    ELSE IF Upgrading THEN Upgrade(migration.revision)[migration.done + 1]
    ELSE Downgrade(migration.revision)[migration.done + 1]

\* The revision that alembic_version names fixes the catalog: each downgrade
\* takes back what its upgrade did, on every path, but for the types and
\* labels that no downgrade drops (the files of alembic/versions).
RevisionFixesCatalog ==
    /\ IsButForEnums(database.catalog, Straight[revision + 1].catalog)
    /\ migration # NoMigration /\ migration.done = 0
          => IsButForEnums(migration.database.catalog, Straight[migration.revision + 1].catalog)

\* At the head the catalog is what the classes of db_models.py describe, with
\* nothing besides, but for the one fact that they declare and no revision
\* makes: id is no part of the primary key of invoice_tags.
HeadServesModels ==
    revision = Latest =>
        /\ database.catalog \subseteq metadata
        /\ metadata \ database.catalog = DeclaredOnly

\* A revision can only raise over what it finds: rows, or a type that an
\* earlier downgrade left.  On an empty database every target is reached.
RaisesOnlyOverLeftovers ==
    HasStatement /\ ~Possible(migration.database, Statement)
    => \/ migration.database.populated # {}
       \/ migration.database.catalog # Expected.catalog

\* No upgrade takes away rows, nor a column that has any: but for the
\* address, which was split, and the office of a client.
Keeps(before, after) ==
    \A f \in before.catalog :
        f[1] = "column" /\ f[2] \in before.populated =>
            \/ f[3] \in {"adress", "office"}
            \/ f \in after.catalog /\ f[2] \in after.populated
            \/ \E t \in after.populated \ Tables(before) : Column(t, f[3]) \in after.catalog

UpgradesKeepColumns ==
    [][revision' > revision => Keeps(database, database')]_migrationVars
=============================================================================
