--------------------------- MODULE SchemaEvolution --------------------------
(* The schema of one database over its life: bootstrapped from the models by  *)
(* release/migration.py or installed by an earlier release, upgraded and      *)
(* downgraded one statement at a time by Alembic, interrupted, and restored   *)
(* from the backup MigrationManager.migrate took.  SQLite commits each CREATE *)
(* and DROP as it runs: an interrupted upgrade leaves a part of a revision.   *)
EXTENDS Revisions

CONSTANTS
    Origins        \* what the database is before the application opens it: 0
                   \* for no file, r for a database of an earlier release whose
                   \* schema was r

Latest == 22
Stamped == 21      \* the revision _bootstrap stamps

ASSUME OriginsAssumption == Origins \subseteq 0 .. Latest - 1

VARIABLES
    schema,        \* the tables of the file: name -> declaration
    revision,      \* the row of alembic_version, 0 for no row
    target,        \* the revision the running command was asked for
    script,        \* the statements of the running revision not yet run
    status,        \* "idle", "upgrading", "downgrading", "failed", "killed"
    backup,        \* the copy taken before the last upgrade
    origin         \* the revision the database was first at

database == <<schema, revision, origin>>
vars == <<schema, revision, target, script, status, backup, origin>>

TypeOK ==
    /\ DOMAIN schema \subseteq STRING
    /\ {revision, target, origin} \subseteq 0 .. Latest
    /\ status \in {"idle", "upgrading", "downgrading", "failed", "killed"}

NamesIn(decls) == {decls[i][1] : i \in DOMAIN decls}

\* what a release whose last revision was r has bootstrapped: its models, which
\* were today's without what the later revisions create and add, nor what
\* refers to it (one table of the models no revision creates)
EarlierRelease(r) ==
    LET later == UNION {NamesIn(Creates[k]) : k \in (r + 1) .. Latest}
        kept  == Restrict(BootstrapTables,
                     {n \in DOMAIN BootstrapTables \ later :
                         BootstrapTables[n].refs \cap later = {}})
    IN  IF r < 2 THEN [kept EXCEPT !["corporate_actions"].added = {}] ELSE kept

Copy == [schema |-> schema, revision |-> revision, origin |-> origin]

Init ==
    /\ origin \in Origins
    /\ schema = IF origin = 0 THEN <<>> ELSE EarlierRelease(origin)
    /\ revision = origin /\ target = origin
    /\ script = <<>> /\ status = "idle"
    /\ backup = Copy

-----------------------------------------------------------------------------
Creating(decls) ==
    [i \in DOMAIN decls |-> [does |-> "create", name |-> decls[i][1], with |-> decls[i][2]]]
Dropping(names) == [i \in DOMAIN names |-> [does |-> "drop", name |-> names[i], with |-> {}]]
Altering(what) == <<[does |-> what, name |-> "corporate_actions", with |-> Columns0002]>>

\* the statements of upgrade() and downgrade() of revision r, in their order
UpScript(r)   == Creating(Creates[r]) \o IF r = 2 THEN Altering("add") ELSE <<>>
DownScript(r) == (IF r = 2 THEN Altering("remove") ELSE <<>>) \o Dropping(Drops[r])

\* _bootstrap of a database that is not there: create_all and the stamp 0021 in
\* a temporary file, then an upgrade like any other
Bootstrap ==
    /\ status = "idle" /\ revision = 0
    /\ schema' = BootstrapTables
    /\ revision' = Stamped /\ origin' = Stamped
    /\ script' = UpScript(Stamped + 1) /\ target' = Latest
    /\ status' = "upgrading"
    /\ UNCHANGED backup

\* "alembic upgrade head" on no file: 0001 runs create_all on the models of the
\* release, and the chain goes on with 0002
UpgradeFromNothing ==
    /\ status = "idle" /\ revision = 0
    /\ schema' = Models
    /\ revision' = 1
    /\ script' = UpScript(2) /\ target' = Latest
    /\ status' = "upgrading"
    /\ UNCHANGED <<backup, origin>>

\* migrate: a copy, then command.upgrade to the head
Upgrade ==
    /\ status = "idle" /\ revision \in 1 .. Latest - 1
    /\ backup' = Copy
    /\ script' = UpScript(revision + 1) /\ target' = Latest
    /\ status' = "upgrading"
    /\ UNCHANGED database

\* command.downgrade, which the tests and scripts/upgrade_test.py call, to a
\* revision the database has been at
Downgrade(to) ==
    /\ status = "idle" /\ to \in origin .. revision - 1 /\ to > 0
    /\ script' = DownScript(revision) /\ target' = to
    /\ status' = "downgrading"
    /\ UNCHANGED <<database, backup>>

\* CREATE TABLE of a table that is there, DROP of one that is not, fail
Applies(op) == (op.does = "create") # (op.name \in DOMAIN schema)

Applied(op) ==
    CASE op.does = "create" -> op.name :> op.with @@ schema
      [] op.does = "drop"   -> Restrict(schema, DOMAIN schema \ {op.name})
      [] op.does = "add"    -> [schema EXCEPT ![op.name].added = @ \cup op.with]
      [] op.does = "remove" -> [schema EXCEPT ![op.name].added = @ \ op.with]

\* the next statement of the running revision
Statement ==
    /\ status \in {"upgrading", "downgrading"} /\ script # <<>>
    /\ IF Applies(Head(script))
       THEN schema' = Applied(Head(script)) /\ script' = Tail(script) /\ UNCHANGED status
       ELSE status' = "failed" /\ script' = <<>> /\ UNCHANGED schema
    /\ UNCHANGED <<revision, target, backup, origin>>

\* the last statement has run: alembic_version moves, and the next revision
\* begins unless this was the one asked for
StampUp ==
    /\ status = "upgrading" /\ script = <<>>
    /\ revision' = revision + 1
    /\ IF revision' = target THEN status' = "idle" /\ UNCHANGED script
       ELSE script' = UpScript(revision' + 1) /\ UNCHANGED status
    /\ UNCHANGED <<schema, target, backup, origin>>

StampDown ==
    /\ status = "downgrading" /\ script = <<>>
    /\ revision' = revision - 1
    /\ IF revision' = target THEN status' = "idle" /\ UNCHANGED script
       ELSE script' = DownScript(revision') /\ UNCHANGED status
    /\ UNCHANGED <<schema, target, backup, origin>>

\* the process dies: what the file holds is what has been executed
Kill ==
    /\ status = "upgrading"
    /\ status' = "killed" /\ script' = <<>>
    /\ UNCHANGED <<database, target, backup>>

\* the copy put back over the database; a bootstrap leaves only a temporary file,
\* which the next one removes
Restore ==
    /\ status \in {"failed", "killed"}
    /\ schema' = backup.schema /\ revision' = backup.revision /\ origin' = backup.origin
    /\ status' = "idle"
    /\ UNCHANGED <<target, script, backup>>

Next ==
    \/ Bootstrap \/ UpgradeFromNothing \/ Upgrade \/ \E to \in 1 .. Latest : Downgrade(to)
    \/ Statement \/ StampUp \/ StampDown \/ Kill \/ Restore

Spec == Init /\ [][Next]_vars

-----------------------------------------------------------------------------
\* what a database first at revision o holds at revision r
SchemaAt(o, r) ==
    LET made == UNION {{Creates[k][i] : i \in DOMAIN Creates[k]} : k \in (o + 1) .. r}
        base == EarlierRelease(o)
        new  == [name \in {d[1] : d \in made} |-> (CHOOSE d \in made : d[1] = name)[2]]
        all  == new @@ base
    IN  IF o < 2 /\ r >= 2 THEN [all EXCEPT !["corporate_actions"].added = Columns0002] ELSE all

\* A database's revision determines its schema: whatever upgrades, downgrades,
\* kills and restores it has been through, at rest it has exactly the tables
\* its first revision and its revision stand for (the round trips of
\* test_risk_lab_migrations.py and its siblings, for every pair of revisions).
RevisionTellsTheSchema ==
    status = "idle" /\ revision > 0 => schema = SchemaAt(origin, revision)

\* A database of the supported range (0018 on) or bootstrapped has, at the head,
\* a table for every model, with the references, the unique keys and the added
\* columns the model declares, on every path to the head.
HeadServesTheModels ==
    status = "idle" /\ revision = Latest /\ origin >= 18 =>
        \A name \in DOMAIN BootstrapTables :
            name \in DOMAIN schema /\ schema[name] = BootstrapTables[name]

\* No table refers to one that is not there, after any statement of any upgrade
\* or downgrade: a table is created after and dropped before those it refers to.
ReferencesStand == \A name \in DOMAIN schema : schema[name].refs \subseteq DOMAIN schema

\* A command fails only on the chain run on no file.
ScriptsApply == status = "failed" => revision = 1 /\ origin = 0

\* docs/Database_Migrations.md:33 "committed migrations are immutable": the chain
\* that starts with 0001 applies.
ChainApplies == status # "failed"

\* docs/Sprint_5_Checklist.md:40 "Add production migration for optimization
\* persistence": a database the chain has upgraded has a table for every model.
ChainServesTheModels ==
    status = "idle" /\ revision = Latest => DOMAIN BootstrapTables \subseteq DOMAIN schema
=============================================================================
