----------------------------- MODULE Migration -----------------------------
(***************************************************************************)
(* Start-up of the packaged sidecar on one application-data directory:     *)
(* MigrationManager.migrate, the restore of a backup by the operator and   *)
(* the kill of a sidecar between any two of its file-system steps.         *)
(*                                                                         *)
(* A database file is the record of what later steps can tell apart: the   *)
(* revision alembic_version holds, whether the DDL of the next revision is *)
(* already in it (SQLite DDL is not rolled back), and the newest user      *)
(* write it contains.                                                      *)
(***************************************************************************)
EXTENDS Integers

CONSTANTS
    Sidecar,    \* the sidecar processes that may run on this directory
    Minimum,    \* database_schema_minimum
    Current,    \* database_schema_current
    MaxWrites,  \* bound: user writes made by a serving sidecar
    MaxRestores,\* bound: restores begun by the operator
    Exclusive   \* TRUE: a sidecar is launched only when no other one is alive

ASSUME SchemaRange == /\ Minimum \in Nat \ {0} /\ Current \in Nat
                      /\ Minimum <= Current
ASSUME Bounds == MaxWrites \in Nat \ {0} /\ MaxRestores \in Nat
ASSUME ExclusiveIsBoolean == Exclusive \in BOOLEAN

Revision == 1 .. Current + 1       \* Current + 1: written by a newer release
File == [rev : -1 .. Current + 1, ahead : BOOLEAN, data : Nat]

Contents(rev, ahead, data) == [rev |-> rev, ahead |-> ahead, data |-> data]

\* A missing (or empty) file, and one SQLite cannot read: corrupt, or a copy
\* that was cut short.
NoFile  == Contents(0, FALSE, 0)
Corrupt == Contents(-1, FALSE, 0)
Fresh   == Contents(Current, FALSE, 0)

\* Where a sidecar is in migrate(): the step it takes next.
Step == {"down", "inspect", "validate", "revision", "backup", "copying", "publish",
         "digest", "metadata", "mark", "bootstrap", "build", "install", "connect",
         "upgrade", "stamp", "set_aside", "copy_back", "copying_back",
         "mark_failed", "unmark", "verify", "serving"}

VARIABLES
    database, marker,   \* the database file, the ".migration-running" file
    backup, meta,       \* per source revision: the .bak file, the content its
                        \* metadata has the sha256 of
    tmp, boot, failed,  \* .bak.tmp, .bootstrap.tmp and .migration-failed
    kept,               \* the contents of the pre-restore copies
    written,            \* the newest user write any sidecar committed
    pc, previous, checksum, level, handle,   \* of each sidecar
    operator, chosen, restores               \* of the operator's restore

files == <<database, marker, backup, meta, tmp, boot, failed, kept, written>>
locals == <<pc, previous, checksum, level, handle>>
restoring == <<operator, chosen, restores>>
vars == <<files, locals, restoring>>

\* MigrationManager.revision: 0 stands for None.
RevisionOf(f) == IF f.rev >= 1 THEN f.rev ELSE 0

\* MigrationManager.status, after the check of the marker
SchemaStatusAcceptsNewer ==     \* mutant: no upper end to the range
    IF RevisionOf(database) = 0
    THEN IF database = NoFile THEN "required" ELSE "recovery_required"
    ELSE IF database.rev < Minimum THEN "too_old"
    ELSE IF database.rev < Current THEN "required" ELSE "completed"

SchemaStatus ==
    CASE RevisionOf(database) = 0 ->
            IF database = NoFile THEN "required" ELSE "recovery_required"
      [] database.rev \in 1 .. Minimum - 1       -> "too_old"
      [] database.rev \in Minimum .. Current - 1 -> "required"
      [] database.rev > Current                  -> "too_new"
      [] OTHER                                   -> "completed"

Status == IF marker # "none" THEN "recovery_required" ELSE SchemaStatus

Init ==
    /\ database \in {NoFile, Corrupt}
           \cup {Contents(r, FALSE, 1) : r \in Revision}
    /\ marker = "none"
    /\ backup = [r \in Revision |-> NoFile] /\ meta = backup /\ tmp = backup
    /\ boot = NoFile /\ failed = NoFile /\ kept = {}
    /\ written = database.data
    /\ pc = [p \in Sidecar |-> "down"]
    /\ previous = [p \in Sidecar |-> 0]
    /\ checksum = [p \in Sidecar |-> NoFile]
    /\ level = [p \in Sidecar |-> 0]
    /\ handle = [p \in Sidecar |-> "none"]
    /\ operator = "idle" /\ chosen = 1 /\ restores = 0

At(p, from, to) == pc[p] = from /\ pc' = [pc EXCEPT ![p] = to]

\* Path.replace: open connections follow the renamed file, those on the file it
\* replaces are left with an unlinked one.
Renamed(from, to) ==
    handle' = [q \in Sidecar |-> IF handle[q] = to THEN "gone"
                                 ELSE IF handle[q] = from THEN to ELSE handle[q]]

-----------------------------------------------------------------------------
(* Launch, inspection and backup *)

Launch(p) ==
    /\ operator = "idle"
    /\ Exclusive => \A q \in Sidecar : pc[q] = "down"
    /\ \E policy \in {"inspect", "validate"} : At(p, "down", policy)
    /\ previous' = [previous EXCEPT ![p] = 0]
    /\ checksum' = [checksum EXCEPT ![p] = NoFile]
    /\ level' = [level EXCEPT ![p] = 0]
    /\ handle' = [handle EXCEPT ![p] = "none"]
    /\ UNCHANGED <<files, restoring>>

Inspect(p) ==
    /\ \/ Status = "required"  /\ At(p, "inspect", "revision")
       \/ Status = "completed" /\ At(p, "inspect", "serving")
       \/ Status \notin {"required", "completed"} /\ At(p, "inspect", "down")
    /\ UNCHANGED <<files, previous, checksum, level, handle, restoring>>

\* --migration-policy validate-only
Validate(p) ==
    /\ At(p, "validate", IF Status = "completed" THEN "serving" ELSE "down")
    /\ UNCHANGED <<files, previous, checksum, level, handle, restoring>>

ReadPreviousNoBackup(p) ==      \* mutant: straight to the marker
    /\ previous' = [previous EXCEPT ![p] = RevisionOf(database)]
    /\ At(p, "revision", "mark")
    /\ UNCHANGED <<files, checksum, level, handle, restoring>>

ReadPrevious(p) ==
    /\ previous' = [previous EXCEPT ![p] = RevisionOf(database)]
    /\ At(p, "revision", IF previous'[p] = 0 THEN "mark" ELSE "backup")
    /\ UNCHANGED <<files, checksum, level, handle, restoring>>

\* shutil.copy2(self.database, temporary): opened and truncated, then written
BackupOpen(p) ==
    /\ At(p, "backup", "copying")
    /\ tmp' = [tmp EXCEPT ![previous[p]] = Corrupt]
    /\ UNCHANGED <<database, marker, backup, meta, boot, failed, kept, written,
                   previous, checksum, level, handle, restoring>>

BackupCopied(p) ==
    /\ database # NoFile
    /\ At(p, "copying", "publish")
    /\ tmp' = [tmp EXCEPT ![previous[p]] = database]
    /\ UNCHANGED <<database, marker, backup, meta, boot, failed, kept, written,
                   previous, checksum, level, handle, restoring>>

BackupPublish(p) ==
    /\ At(p, "publish", "digest")
    /\ tmp[previous[p]] # NoFile
    /\ backup' = [backup EXCEPT ![previous[p]] = tmp[previous[p]]]
    /\ tmp' = [tmp EXCEPT ![previous[p]] = NoFile]
    /\ UNCHANGED <<database, marker, meta, boot, failed, kept, written,
                   previous, checksum, level, handle, restoring>>

BackupDigest(p) ==
    /\ At(p, "digest", "metadata")
    /\ checksum' = [checksum EXCEPT ![p] = backup[previous[p]]]
    /\ UNCHANGED <<files, previous, level, handle, restoring>>

BackupMetadata(p) ==
    /\ At(p, "metadata", "mark")
    /\ meta' = [meta EXCEPT ![previous[p]] = checksum[p]]
    /\ UNCHANGED <<database, marker, backup, tmp, boot, failed, kept, written,
                   previous, checksum, level, handle, restoring>>

\* No disk space, no database or no temporary file: the exception leaves
\* _backup through its finally clause, before the marker is written.
BackupFails(p) ==
    /\ \/ At(p, "backup", "down") /\ UNCHANGED tmp
       \/ /\ At(p, "copying", "down") \/ At(p, "publish", "down")
          /\ tmp' = [tmp EXCEPT ![previous[p]] = NoFile]
    /\ UNCHANGED <<database, marker, backup, meta, boot, failed, kept, written,
                   previous, checksum, level, handle, restoring>>

WriteMarker(p) ==
    /\ At(p, "mark", IF previous[p] = 0 THEN "bootstrap" ELSE "connect")
    /\ marker' = "running"
    /\ UNCHANGED <<database, backup, meta, tmp, boot, failed, kept, written,
                   previous, checksum, level, handle, restoring>>

-----------------------------------------------------------------------------
(* _bootstrap of a fresh installation *)

BootstrapOpen(p) ==
    /\ At(p, "bootstrap", "build")
    /\ boot' = Corrupt
    /\ handle' = [[q \in Sidecar |-> IF handle[q] = "boot" THEN "gone" ELSE handle[q]]
                     EXCEPT ![p] = "boot"]
    /\ UNCHANGED <<database, marker, backup, meta, tmp, failed, kept, written,
                   previous, checksum, level, restoring>>

BootstrapBuilt(p) ==
    /\ At(p, "build", "install")
    /\ boot' = IF handle[p] = "boot" THEN Fresh ELSE boot
    /\ UNCHANGED <<database, marker, backup, meta, tmp, failed, kept, written,
                   previous, checksum, level, handle, restoring>>

BootstrapInstall(p) ==
    /\ boot # NoFile
    /\ At(p, "install", "unmark")
    /\ database' = boot
    /\ boot' = NoFile
    /\ Renamed("boot", "database")
    /\ UNCHANGED <<marker, backup, meta, tmp, failed, kept, written,
                   previous, checksum, level, restoring>>

-----------------------------------------------------------------------------
(* alembic upgrade, in place: the revisions to apply are fixed when the     *)
(* connection is opened; each is its DDL, then the update of version_num.   *)

Connect(p) ==
    /\ database.rev \in 0 .. Current
    /\ At(p, "connect", "upgrade")
    /\ level' = [level EXCEPT ![p] = database.rev]
    /\ handle' = [handle EXCEPT ![p] = "database"]
    /\ UNCHANGED <<files, previous, checksum, restoring>>

\* the file p's open connection writes to becomes f; an unlinked one is lost
Store(p, f) ==
    /\ database' = IF handle[p] = "database" THEN f ELSE database
    /\ failed' = IF handle[p] = "failed" THEN f ELSE failed

Held(p) == IF handle[p] = "failed" THEN failed ELSE database

PendingOffByOne(p) == level[p] <= Current      \* mutant
Pending(p) == level[p] < Current

\* Creating what the schema already has raises, so the step needs a schema that
\* is exactly at the level this upgrade believes it has reached.
ApplyDdl(p) ==
    /\ Pending(p)
    /\ handle[p] # "gone" => Held(p).rev = level[p] /\ ~Held(p).ahead
    /\ At(p, "upgrade", "stamp")
    /\ Store(p, Contents(level[p], TRUE, Held(p).data))
    /\ UNCHANGED <<marker, backup, meta, tmp, boot, kept, written,
                   previous, checksum, level, handle, restoring>>

Stamp(p) ==
    /\ handle[p] # "gone" => Held(p).rev = level[p] /\ Held(p).ahead
    /\ At(p, "stamp", "upgrade")
    /\ Store(p, Contents(level[p] + 1, FALSE, Held(p).data))
    /\ level' = [level EXCEPT ![p] = @ + 1]
    /\ UNCHANGED <<marker, backup, meta, tmp, boot, kept, written,
                   previous, checksum, handle, restoring>>

UpgradeDone(p) ==
    /\ ~Pending(p)
    /\ At(p, "upgrade", "unmark")
    /\ UNCHANGED <<files, previous, checksum, level, handle, restoring>>

UpgradeRetries(p) ==            \* mutant: an exception is retried, for ever
    /\ \E at \in {"upgrade", "stamp"} : At(p, at, "connect")
    /\ UNCHANGED <<files, previous, checksum, level, handle, restoring>>

\* Any exception in the try block: an object that exists already, a locked or
\* full disk, an unreadable file.
UpgradeFails(p) ==
    /\ \E at \in {"build", "install", "connect", "upgrade", "stamp"} :
           At(p, at, IF previous[p] = 0 THEN "mark_failed" ELSE "set_aside")
    /\ \/ pc[p] # "install" /\ boot' = boot
       \/ pc[p] \in {"build", "install"} /\ boot' = NoFile
    /\ handle' = [handle EXCEPT ![p] = "none"]
    /\ UNCHANGED <<database, marker, backup, meta, tmp, failed, kept, written,
                   previous, checksum, level, restoring>>

-----------------------------------------------------------------------------
(* The exception handler, and success *)

SetAside(p) ==
    /\ At(p, "set_aside", IF database = NoFile THEN "down" ELSE "copy_back")
    /\ failed' = IF database = NoFile THEN failed ELSE database
    /\ database' = NoFile
    /\ Renamed("database", "failed")
    /\ UNCHANGED <<marker, backup, meta, tmp, boot, kept, written,
                   previous, checksum, level, restoring>>

CopyBackOpen(p) ==
    /\ At(p, "copy_back", "copying_back")
    /\ database' = Corrupt
    /\ UNCHANGED <<marker, backup, meta, tmp, boot, failed, kept, written,
                   previous, checksum, level, handle, restoring>>

CopiedBack(p) ==
    /\ At(p, "copying_back", "mark_failed")
    /\ database' = backup[previous[p]]
    /\ UNCHANGED <<marker, backup, meta, tmp, boot, failed, kept, written,
                   previous, checksum, level, handle, restoring>>

MarkFailed(p) ==
    /\ At(p, "mark_failed", "down")
    /\ marker' = "failed"
    /\ UNCHANGED <<database, backup, meta, tmp, boot, failed, kept, written,
                   previous, checksum, level, handle, restoring>>

Unmark(p) ==
    /\ At(p, "unmark", "verify")
    /\ marker' = "none"
    /\ handle' = [handle EXCEPT ![p] = "none"]
    /\ UNCHANGED <<database, backup, meta, tmp, boot, failed, kept, written,
                   previous, checksum, level, restoring>>

Verify(p) ==
    /\ At(p, "verify", IF RevisionOf(database) = Current THEN "serving" ELSE "down")
    /\ UNCHANGED <<files, previous, checksum, level, handle, restoring>>

-----------------------------------------------------------------------------
(* Serving; a kill, or an exception no handler catches, at any step *)

UserWrite(p) ==
    /\ pc[p] = "serving"
    /\ database.rev = Current /\ ~database.ahead
    /\ written < MaxWrites
    /\ written' = written + 1
    /\ database' = Contents(Current, FALSE, written + 1)
    /\ UNCHANGED <<marker, backup, meta, tmp, boot, failed, kept, locals, restoring>>

Stop(p) ==
    /\ pc[p] # "down"
    /\ pc' = [pc EXCEPT ![p] = "down"]
    /\ handle' = [handle EXCEPT ![p] = "none"]
    /\ UNCHANGED <<files, previous, checksum, level, restoring>>

-----------------------------------------------------------------------------
(* restore_database_backup, run by the operator with the application closed *)

RestoreBegin ==
    /\ operator = "idle" /\ restores < MaxRestores
    /\ \A p \in Sidecar : pc[p] = "down"
    /\ \E r \in Revision : /\ backup[r] # NoFile /\ meta[r] = backup[r]
                           /\ chosen' = r
    /\ operator' = IF database = NoFile THEN "replace" ELSE "keep"
    /\ restores' = restores + 1
    /\ UNCHANGED <<files, locals>>

KeepNothing ==                  \* mutant: no pre-restore copy
    /\ operator = "keep" /\ operator' = "replace"
    /\ UNCHANGED <<files, locals, chosen, restores>>

KeepCurrent ==
    /\ operator = "keep" /\ operator' = "replace"
    /\ kept' = kept \cup {database}
    /\ UNCHANGED <<database, marker, backup, meta, tmp, boot, failed, written,
                   locals, chosen, restores>>

RestoreReplace ==
    /\ operator = "replace" /\ operator' = "restored"
    /\ database' = backup[chosen]
    /\ UNCHANGED <<marker, backup, meta, tmp, boot, failed, kept, written,
                   locals, chosen, restores>>

\* the recovery event is appended; or the operator's process dies
RestoreEnd ==
    /\ operator # "idle" /\ operator' = "idle"
    /\ UNCHANGED <<files, locals, chosen, restores>>

-----------------------------------------------------------------------------
Migrate(p) ==
    \/ Inspect(p) \/ Validate(p) \/ ReadPrevious(p)
    \/ BackupOpen(p) \/ BackupCopied(p) \/ BackupPublish(p) \/ BackupDigest(p)
    \/ BackupMetadata(p) \/ BackupFails(p) \/ WriteMarker(p)
    \/ BootstrapOpen(p) \/ BootstrapBuilt(p) \/ BootstrapInstall(p)
    \/ Connect(p) \/ ApplyDdl(p) \/ Stamp(p) \/ UpgradeDone(p) \/ UpgradeFails(p)
    \/ SetAside(p) \/ CopyBackOpen(p) \/ CopiedBack(p) \/ MarkFailed(p)
    \/ Unmark(p) \/ Verify(p)

Restore == RestoreBegin \/ KeepCurrent \/ RestoreReplace \/ RestoreEnd

Next == \/ \E p \in Sidecar : Launch(p) \/ Migrate(p) \/ UserWrite(p) \/ Stop(p)
        \/ Restore

Spec == Init /\ [][Next]_vars

\* A running process takes its next step; nobody has to launch, write or restore.
FairSpec == Spec /\ \A p \in Sidecar : WF_vars(Migrate(p))

-----------------------------------------------------------------------------
(* Properties *)

FilesOK ==
    /\ database \in File /\ boot \in File /\ failed \in File
    /\ marker \in {"none", "running", "failed"}
    /\ backup \in [Revision -> File] /\ meta \in [Revision -> File]
    /\ tmp \in [Revision -> File]
    /\ kept \subseteq File
    /\ written \in Nat

LocalsOK ==
    /\ pc \in [Sidecar -> Step]
    /\ previous \in [Sidecar -> 0 .. Current + 1]
    /\ checksum \in [Sidecar -> File]
    /\ level \in [Sidecar -> 0 .. Current]
    /\ handle \in [Sidecar -> {"none", "database", "failed", "boot", "gone"}]

RestoringOK ==
    /\ operator \in {"idle", "keep", "replace", "restored"}
    /\ chosen \in Revision
    /\ restores \in Nat

\* The type invariant.
TypeOK == FilesOK /\ LocalsOK /\ RestoringOK

Verified(r) == backup[r] # NoFile /\ meta[r] = backup[r]

\* Half an upgrade is in the file, or the user's data is not in it any more.
Damaged == database.ahead \/ (database.data = 0 /\ written > 0)

\* migration.py:224-237; docs/Database_Migrations.md:5-6, "interrupted migrations block readiness
\* instead of continuing silently": at whatever step a sidecar died, status() refuses a damaged
\* database, and there is a backup the restore accepts: complete, with metadata of its own
\* content, in the supported range and holding user data.
DamageIsRecoverable ==
    Damaged => /\ Status \notin {"required", "completed"}
               /\ \E r \in Revision : /\ Verified(r) /\ ~backup[r].ahead
                                       /\ backup[r].rev \in Minimum .. Current
                                       /\ backup[r].data > 0

\* The newest write a user made is in some readable file of the directory,
\* through every upgrade, failure, kill and restore.
NewestWriteKept ==
    written = 0 \/ \E f \in {database, failed} \cup kept \cup {backup[r] : r \in Revision} :
                        f.rev >= 1 /\ f.data = written

\* The health endpoint is opened on a complete schema of this release only.
ServingIsCurrent ==
    \A p \in Sidecar : pc[p] = "serving" => database.rev = Current /\ ~database.ahead

\* "The original backup is never deleted automatically": once published, the
\* file keeps its content.  (Its name depends on the two revisions only.)
OriginalBackupKept ==
    [][\A r \in Revision : backup[r] # NoFile => backup'[r] = backup[r]]_vars

\* A launched sidecar gets to serving or exits: no step of start-up waits.
StartupSettles ==
    \A p \in Sidecar : pc[p] \in {"inspect", "validate"} ~> pc[p] \in {"serving", "down"}

\* After the restore of a supported backup, a restart is all that is required.
RestoredIsStartable ==
    (operator = "restored" /\ backup[chosen].rev \in Minimum .. Current)
        => Status \in {"required", "completed"}

=============================================================================
