---------------------------- MODULE Application ----------------------------
(***************************************************************************)
(* The application on its data directory: the shell and its sidecars       *)
(* (Desktop) composed with the migration each sidecar runs on the one      *)
(* database file (Migration).  What Desktop calls "migrating" is a run of  *)
(* Migration from "inspect" to "serving" or to an exit, and a sidecar that *)
(* dies, of a signal, a crash or a taken port, stops wherever it was.      *)
(* main.rs takes no lock on the data directory: a sidecar that outlived    *)
(* its shell, or one of a shell beside, may still be migrating when the    *)
(* next launch starts another.                                             *)
(***************************************************************************)
EXTENDS Desktop

CONSTANTS
    Minimum, Current,   \* the supported range of schema revisions
    MaxWrites           \* bound: user writes

VARIABLES
    database, marker, backup, meta, tmp, boot, failed, kept, written,
    pc, previous, checksum, level, handle, operator, chosen, restores

\* Nobody restores a backup here, and nothing but Desktop keeps two sidecars apart.
Files == INSTANCE Migration WITH MaxRestores <- 0, Exclusive <- FALSE
Alone == INSTANCE Migration WITH MaxRestores <- 0, Exclusive <- TRUE

filesVars == <<database, marker, backup, meta, tmp, boot, failed, kept, written,
               pc, previous, checksum, level, handle, operator, chosen, restores>>
applicationVars == <<vars, filesVars>>

ApplicationInit == Init /\ Files!Init

\* start_sidecar passes --migration-policy automatic
Starts ==
    /\ Launch \/ \E l \in Launched : RestartSidecar(l)
    /\ Files!Launch(spawned')
    /\ pc'[spawned'] = "inspect"

\* A sidecar that dies takes no further step on the files.
Dies(s) == Alive(s) /\ proc'[s] = "dead"

FilesFollow ==
    \/ \E s \in Sidecar : Dies(s) /\ Files!Stop(s)
    \/ (\A s \in Sidecar : ~Dies(s)) /\ UNCHANGED filesVars

Ends ==
    /\ \E l \in Launched : BackendStatus(l) \/ Exit(l) \/ Terminate(l) \/ ShellKilled(l)
    /\ FilesFollow

Migrates(s) ==
    /\ proc[s] = "migrating" /\ Files!Migrate(s)
    /\ pc'[s] \notin {"serving", "down"}
    /\ UNCHANGED vars

\* migrate() has returned, or main returns exit status 2
MigrationReturns(s) ==
    /\ Migrated(s) /\ Files!Migrate(s)
    /\ pc'[s] = IF proc'[s] = "armed" THEN "serving" ELSE "down"

Serves(s) == (InstallHandlers(s) \/ Bind(s) \/ Shutdown(s) \/ Returned(s)) /\ FilesFollow

Signals(s) == (MonitorParent(s) \/ Crash(s)) /\ FilesFollow

\* a request that writes, answered by the sidecar that listens
Writes(s) == port = s /\ Files!UserWrite(s) /\ UNCHANGED vars

ApplicationNext ==
    \/ Starts \/ Ends
    \/ \E s \in Sidecar : \/ Migrates(s) \/ MigrationReturns(s) \/ Serves(s)
                          \/ Signals(s) \/ Writes(s)

ApplicationSpec == ApplicationInit /\ [][ApplicationNext]_applicationVars

-----------------------------------------------------------------------------
(* Properties *)

\* main.rs:291-371, sidecar.py:115-157.  As long as no shell was killed and none was launched
\* beside another, whatever the sidecars and the user do, the files see one sidecar at a time:
\* every step is a step of Migration with Exclusive, for which its promises are proved.
ImplementsExclusive ==
    [][killed' \cup beside' = {} => [Alone!Next]_filesVars]_applicationVars

\* docs/Database_Migrations.md:5-6.  Interrupted migrations block readiness: when no sidecar is
\* left, a database that is half upgraded or without the user's data is refused by the next.
InterruptedMigrationsBlock ==
    (Files!Damaged /\ \A s \in Sidecar : ~Alive(s)) => Files!Status \notin {"required", "completed"}

=============================================================================
