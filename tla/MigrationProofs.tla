-------------------------- MODULE MigrationProofs --------------------------
(***************************************************************************)
(* Theorems about Migration, for every set of sidecars and every schema    *)
(* range.                                                                  *)
(***************************************************************************)
EXTENDS Migration, TLAPS

USE SchemaRange, Bounds, ExclusiveIsBoolean

-----------------------------------------------------------------------------
(* Type correctness *)

LEMMA ContentsType ==
    ASSUME NEW r \in -1 .. Current + 1, NEW a \in BOOLEAN, NEW d \in Nat
    PROVE  /\ Contents(r, a, d) \in File
           /\ Contents(r, a, d).rev = r /\ Contents(r, a, d).ahead = a
           /\ Contents(r, a, d).data = d
BY DEF Contents, File

LEMMA FileType ==
    ASSUME NEW f \in File
    PROVE  /\ f.rev \in -1 .. Current + 1 /\ f.ahead \in BOOLEAN /\ f.data \in Nat
           /\ RevisionOf(f) \in 0 .. Current + 1
BY DEF File, RevisionOf

\* The three files no upgrade step writes (migration.py: a missing file, one
\* SQLite cannot read, one _bootstrap built) are different files.
LEMMA FileFacts ==
    /\ NoFile \in File /\ NoFile.rev = 0 /\ ~NoFile.ahead /\ NoFile.data = 0
    /\ Corrupt \in File /\ Corrupt.rev = -1 /\ ~Corrupt.ahead /\ Corrupt.data = 0
    /\ Fresh \in File /\ Fresh.rev = Current /\ ~Fresh.ahead /\ Fresh.data = 0
BY DEF NoFile, Corrupt, Fresh, Contents, File

\* A revision is stamped only below the current one: needed for the type of level.
StampBelow == \A p \in Sidecar : pc[p] = "stamp" => level[p] < Current

\* The steps that name a backup file run with the revision it was taken from:
\* needed for the type of what they read from it.
WithPrevious == {"backup", "copying", "publish", "digest", "metadata", "connect",
                 "upgrade", "stamp", "set_aside", "copy_back", "copying_back"}
PreviousKnown == \A p \in Sidecar : pc[p] \in WithPrevious => previous[p] \in Revision

TypeInv == TypeOK /\ StampBelow /\ PreviousKnown

LEMMA AtType ==
    ASSUME TypeOK, NEW p \in Sidecar, NEW from, NEW to \in Step, At(p, from, to)
    PROVE  /\ pc' \in [Sidecar -> Step] /\ pc[p] = from /\ pc'[p] = to
           /\ \A q \in Sidecar : q # p => pc'[q] = pc[q]
BY DEF TypeOK, LocalsOK, At

LEMMA InitType == Init => TypeInv
<1> SUFFICES ASSUME Init PROVE TypeInv
    OBVIOUS
<1> USE DEF Init
<1>1. FilesOK
  <2>1. database \in File
    <3>1. \A r \in Revision : Contents(r, FALSE, 1) \in File
        BY DEF Revision, Contents, File
    <3> QED
        BY <3>1, FileFacts
  <2> QED
      BY <2>1, FileFacts, FileType DEF FilesOK
<1>2. LocalsOK /\ RestoringOK /\ StampBelow /\ PreviousKnown
    BY FileFacts DEF LocalsOK, RestoringOK, StampBelow, PreviousKnown, WithPrevious, Step, Revision
<1> QED
    BY <1>1, <1>2 DEF TypeOK, TypeInv

LEMMA NextType == TypeInv /\ [Next]_vars => TypeInv'
<1> SUFFICES ASSUME TypeInv, [Next]_vars PROVE TypeInv'
    OBVIOUS
<1> USE FileFacts DEF TypeInv, TypeOK, FilesOK, LocalsOK, RestoringOK, StampBelow, PreviousKnown,
        WithPrevious, Step, files, locals, restoring
<1>1. ASSUME NEW p \in Sidecar, Launch(p) PROVE TypeInv'
    BY <1>1, AtType DEF Launch
<1>2. ASSUME NEW p \in Sidecar, Inspect(p) PROVE TypeInv'
    BY <1>2, AtType DEF Inspect
<1>3. ASSUME NEW p \in Sidecar, Validate(p) PROVE TypeInv'
    BY <1>3, AtType DEF Validate
<1>4. ASSUME NEW p \in Sidecar, ReadPrevious(p) PROVE TypeInv'
  <2> DEFINE seen == RevisionOf(database)
  <2>1. seen \in 0 .. Current + 1 /\ (seen # 0 => seen \in Revision)
    BY FileType DEF Revision
  <2>2. /\ previous' = [previous EXCEPT ![p] = seen]
        /\ \E to \in {"mark", "backup"} : At(p, "revision", to) /\ (to = "backup" => seen # 0)
    BY <1>4 DEF ReadPrevious
  <2> HIDE DEF seen
  <2> QED
    BY <1>4, <2>1, <2>2, AtType DEF ReadPrevious
<1>5. ASSUME NEW p \in Sidecar, BackupOpen(p) PROVE TypeInv'
    BY <1>5, AtType DEF BackupOpen
<1>6. ASSUME NEW p \in Sidecar, BackupCopied(p) PROVE TypeInv'
    BY <1>6, AtType DEF BackupCopied
<1>7. ASSUME NEW p \in Sidecar, BackupPublish(p) PROVE TypeInv'
    BY <1>7, AtType DEF BackupPublish
<1>8. ASSUME NEW p \in Sidecar, BackupDigest(p) PROVE TypeInv'
    BY <1>8, AtType DEF BackupDigest
<1>9. ASSUME NEW p \in Sidecar, BackupMetadata(p) PROVE TypeInv'
    BY <1>9, AtType DEF BackupMetadata
<1>10. ASSUME NEW p \in Sidecar, BackupFails(p) PROVE TypeInv'
    BY <1>10, AtType DEF BackupFails
<1>11. ASSUME NEW p \in Sidecar, WriteMarker(p) PROVE TypeInv'
    BY <1>11, AtType DEF WriteMarker, Revision
<1>12. ASSUME NEW p \in Sidecar, BootstrapOpen(p) PROVE TypeInv'
    BY <1>12, AtType DEF BootstrapOpen
<1>13. ASSUME NEW p \in Sidecar, BootstrapBuilt(p) PROVE TypeInv'
    BY <1>13, AtType DEF BootstrapBuilt
<1>14. ASSUME NEW p \in Sidecar, BootstrapInstall(p) PROVE TypeInv'
    BY <1>14, AtType DEF BootstrapInstall, Renamed
<1>15. ASSUME NEW p \in Sidecar, Connect(p) PROVE TypeInv'
    BY <1>15, AtType DEF Connect
<1>16. ASSUME NEW p \in Sidecar, ApplyDdl(p) PROVE TypeInv'
  <2>1. Held(p).data \in Nat
    BY FileType DEF Held
  <2>2. Contents(level[p], TRUE, Held(p).data) \in File
    BY <2>1 DEF Contents, File
  <2>3. database' \in File /\ failed' \in File
    BY <1>16, <2>2 DEF ApplyDdl, Store
  <2> QED
    BY <1>16, <2>3, AtType DEF ApplyDdl, Pending
<1>17. ASSUME NEW p \in Sidecar, Stamp(p) PROVE TypeInv'
  <2>1. Held(p).data \in Nat /\ level[p] < Current
    BY <1>17, FileType, AtType DEF Held, Stamp, At
  <2>2. Contents(level[p] + 1, FALSE, Held(p).data) \in File
    BY <2>1 DEF Contents, File
  <2>3. database' \in File /\ failed' \in File
    BY <1>17, <2>2 DEF Stamp, Store
  <2> QED
    BY <1>17, <2>1, <2>3, AtType DEF Stamp
<1>18. ASSUME NEW p \in Sidecar, UpgradeDone(p) PROVE TypeInv'
    BY <1>18, AtType DEF UpgradeDone, Pending
<1>19. ASSUME NEW p \in Sidecar, UpgradeFails(p) PROVE TypeInv'
  <2>1. \E to \in {"mark_failed", "set_aside"}, at \in {"build", "install", "connect", "upgrade", "stamp"} :
           At(p, at, to) /\ (to = "set_aside" => previous[p] \in Revision)
    BY <1>19 DEF UpgradeFails, Revision
  <2>2. boot' \in File /\ handle' \in [Sidecar -> {"none", "database", "failed", "boot", "gone"}]
    BY <1>19 DEF UpgradeFails
  <2> QED
    BY <1>19, <2>1, <2>2, AtType DEF UpgradeFails
<1>20. ASSUME NEW p \in Sidecar, SetAside(p) PROVE TypeInv'
    BY <1>20, AtType DEF SetAside, Renamed
<1>21. ASSUME NEW p \in Sidecar, CopyBackOpen(p) PROVE TypeInv'
    BY <1>21, AtType DEF CopyBackOpen
<1>22. ASSUME NEW p \in Sidecar, CopiedBack(p) PROVE TypeInv'
    BY <1>22, AtType DEF CopiedBack
<1>23. ASSUME NEW p \in Sidecar, MarkFailed(p) PROVE TypeInv'
    BY <1>23, AtType DEF MarkFailed
<1>24. ASSUME NEW p \in Sidecar, Unmark(p) PROVE TypeInv'
    BY <1>24, AtType DEF Unmark
<1>25. ASSUME NEW p \in Sidecar, Verify(p) PROVE TypeInv'
    BY <1>25, AtType DEF Verify
<1>26. ASSUME NEW p \in Sidecar, UserWrite(p) PROVE TypeInv'
  <2>1. Contents(Current, FALSE, written + 1) \in File
    BY DEF Contents, File
  <2>2. database' \in File
    BY <1>26, <2>1, Zenon DEF UserWrite
  <2>3. written' \in Nat
    BY <1>26 DEF UserWrite
  <2>4. UNCHANGED <<marker, backup, meta, tmp, boot, failed, kept, locals, restoring>>
    BY <1>26, Zenon DEF UserWrite
  <2> QED
    BY <2>2, <2>3, <2>4
<1>27. ASSUME NEW p \in Sidecar, Stop(p) PROVE TypeInv'
    BY <1>27, AtType DEF Stop
<1>28. CASE Restore
    BY <1>28 DEF Restore, RestoreBegin, KeepCurrent, RestoreReplace, RestoreEnd
<1>29. CASE UNCHANGED vars
    BY <1>29 DEF vars
<1> QED
    BY <1>1, <1>2, <1>3, <1>4, <1>5, <1>6, <1>7, <1>8, <1>9, <1>10, <1>11, <1>12, <1>13, <1>14, <1>15, <1>16, <1>17, <1>18, <1>19, <1>20, <1>21, <1>22, <1>23, <1>24, <1>25, <1>26, <1>27, <1>28, <1>29 DEF Next, Migrate

\* Type correctness of the start-up and restore steps (MigrationManager.migrate,
\* restore_database_backup): no upgrade runs past the current revision, and no
\* step reads a backup of a revision that has none.
THEOREM TypeCorrect == Spec => []TypeOK
<1>1. TypeInv => TypeOK
    BY DEF TypeInv
<1> QED
    BY InitType, NextType, <1>1, PTL DEF Spec

-----------------------------------------------------------------------------
(* One sidecar at a time: what start-up promises of the user's data, for    *)
(* any number of writes, kills, failures and restores.                      *)

(* The inductive invariant *)

\* A database an upgrade may start from, and what a backup of it is.
Old == Minimum .. Current - 1
Whole(f, r) == r \in Old /\ f.rev = r /\ ~f.ahead /\ f.data > 0

\* Nobody else is at work: neither a sidecar nor the operator.
Alone ==
    /\ \A p, q \in Sidecar : pc[p] # "down" /\ pc[q] # "down" => p = q
    /\ operator # "idle" => \A p \in Sidecar : pc[p] = "down"

\* Without a marker the database is one status() may let pass: it is not damaged, an old one
\* has the user's data, and a backup of its revision is a copy of it.
Unmarked ==
    marker = "none" =>
        /\ ~Damaged
        /\ database.rev \in Old =>
              /\ database.data > 0
              /\ backup[database.rev] \in {NoFile, database}

BackupsWhole == \A r \in Revision : backup[r] = NoFile \/ Whole(backup[r], r)

Recoverable == Damaged => \E r \in Revision : Verified(r)

\* Where the newest write is, besides the database put aside.
Holds(f) == f.rev >= 1 /\ f.data = written
NewestKept ==
    written = 0 \/ Holds(database) \/ (\E f \in kept : Holds(f))
                \/ \E r \in Revision : Holds(backup[r])

\* What the operator replaces has been copied, and what it restores is there.
Restoring ==
    /\ operator # "idle" => backup[chosen] # NoFile
    /\ operator = "replace" => database = NoFile \/ database \in kept

\* The steps of one sidecar: what it has made sure of so far.
Unwritten == {"revision", "backup", "copying", "publish", "digest", "metadata", "mark"}
Written == {"bootstrap", "build", "install", "connect", "upgrade", "stamp", "set_aside",
            "copy_back", "copying_back", "mark_failed", "unmark"}
Marker(p) ==
    /\ pc[p] \in Unwritten => marker = "none"
    /\ pc[p] \in Written => marker # "none"

\* The database is as it was found, of the revision read.
Untouched(p) ==
    /\ pc[p] = "revision" => database = NoFile \/ Whole(database, database.rev)
    /\ pc[p] \in {"backup", "copying", "publish", "digest", "metadata"} => Whole(database, previous[p])
    /\ pc[p] \in {"mark", "connect"} => previous[p] = 0 \/ Whole(database, previous[p])
    /\ pc[p] = "mark" /\ previous[p] = 0 => database = NoFile

Bootstrap(p) ==
    /\ pc[p] \in {"bootstrap", "build", "install"} => previous[p] = 0 /\ database = NoFile /\ written = 0
    /\ pc[p] = "build" => handle[p] = "boot"
    /\ pc[p] = "install" => boot = Fresh

\* There is a backup of the database as it was, with its metadata.
Backup(p) ==
    /\ pc[p] = "publish" => tmp[previous[p]] = database
    /\ pc[p] \in {"digest", "metadata"} => backup[previous[p]] = database
    /\ pc[p] = "metadata" => checksum[p] = database
    /\ pc[p] = "mark" /\ previous[p] # 0 => Verified(previous[p]) /\ backup[previous[p]] = database
    /\ pc[p] \in {"connect", "upgrade", "stamp", "set_aside"} =>
          Verified(previous[p]) /\ backup[previous[p]].data = database.data
    /\ pc[p] \in {"copy_back", "copying_back"} => Verified(previous[p])

\* The upgrade writes to the database itself, one revision after the other.
Upgrade(p) ==
    /\ pc[p] \in {"upgrade", "stamp"} =>
          /\ handle[p] = "database" /\ database.rev = level[p] /\ database.rev >= 1
          /\ database.data > 0 /\ (database.ahead <=> pc[p] = "stamp")
    /\ pc[p] = "set_aside" => database.rev >= 1
    /\ pc[p] = "copy_back" => database = NoFile
    /\ pc[p] = "copying_back" => database = Corrupt
    /\ pc[p] \in {"unmark", "verify", "serving"} => ~Damaged
    /\ pc[p] \in {"unmark", "serving"} => database.rev = Current

Local(p) == Marker(p) /\ Untouched(p) /\ Bootstrap(p) /\ Backup(p) /\ Upgrade(p)
Shared == Alone /\ Unmarked /\ BackupsWhole /\ Recoverable /\ NewestKept /\ Restoring
IInv == Exclusive /\ TypeInv /\ Shared /\ \A p \in Sidecar : Local(p)

-----------------------------------------------------------------------------
(* Initially, and what every step of a sidecar leaves alone *)

LEMMA InitSafe == Init /\ Exclusive => IInv
<1> SUFFICES ASSUME Init, Exclusive PROVE IInv
    OBVIOUS
<1>1. TypeInv
    BY InitType
<1>2. ASSUME NEW r \in Revision
      PROVE  /\ Contents(r, FALSE, 1).rev = r /\ r >= 1
             /\ ~Contents(r, FALSE, 1).ahead /\ Contents(r, FALSE, 1).data = 1
  BY <1>2 DEF Contents, Revision
<1>3. /\ ~database.ahead /\ database.data = written
      /\ \/ database.rev \in {-1, 0} /\ database.data = 0
         \/ database.rev >= 1 /\ database.data = 1
  <2>1. database = NoFile \/ database = Corrupt \/ \E r \in Revision : database = Contents(r, FALSE, 1)
    BY DEF Init
  <2>2. database.data = written
    BY DEF Init
  <2> QED
    BY <1>2, <2>1, <2>2, FileFacts
<1>4. ~Damaged
    BY <1>3 DEF Damaged
<1>5. \A r \in Revision : backup[r] = NoFile
  <2>1. backup = [r \in Revision |-> NoFile]
    BY DEF Init
  <2> QED
    BY <2>1
<1>6. operator = "idle" /\ \A p \in Sidecar : pc[p] = "down"
  <2>1. operator = "idle" /\ pc = [p \in Sidecar |-> "down"]
    BY DEF Init
  <2> QED
    BY <2>1
<1>7. Unmarked
  <2>1. database.rev \in Old => database.rev \in Revision /\ database.rev >= 1
    BY DEF Old, Revision
  <2> QED
    BY <1>3, <1>4, <1>5, <2>1 DEF Unmarked
<1>8. BackupsWhole
    BY <1>5 DEF BackupsWhole
<1>9. Alone /\ Recoverable /\ Restoring
    BY <1>4, <1>6 DEF Alone, Recoverable, Restoring
<1>10. NewestKept
    BY <1>3 DEF NewestKept, Holds
<1>11. ASSUME NEW p \in Sidecar PROVE Local(p)
    BY <1>11 DEF Init, Local, Marker, Untouched, Bootstrap, Backup, Upgrade, Unwritten, Written
<1> QED
    BY <1>1, <1>7, <1>10, <1>11, <1>8, <1>9 DEF IInv, Shared

\* A sidecar that is down has made sure of nothing.
LEMMA RestLocal ==
    ASSUME NEW q \in Sidecar, pc'[q] = "down"
    PROVE  Local(q)'
BY DEF Local, Marker, Untouched, Bootstrap, Backup, Upgrade, Unwritten, Written

\* While a sidecar takes a step, nobody else is at work.
LEMMA StepAlone ==
    ASSUME IInv, NEW p \in Sidecar, NEW from \in Step \ {"down"}, NEW to \in Step,
           At(p, from, to), UNCHANGED restoring
    PROVE  /\ Alone' /\ Restoring' /\ operator = "idle"
           /\ pc[p] = from /\ pc'[p] = to /\ Local(p)
           /\ \A q \in Sidecar : q # p => Local(q)'
<1>1. /\ pc' \in [Sidecar -> Step] /\ pc[p] = from /\ pc'[p] = to
      /\ \A q \in Sidecar : q # p => pc'[q] = pc[q]
    BY AtType DEF IInv, TypeInv
<1>2. operator = "idle" /\ operator' = "idle" /\ \A q \in Sidecar : q # p => pc[q] = "down"
    BY <1>1 DEF IInv, Shared, Alone, restoring
<1>3. Alone' /\ Restoring'
    BY <1>1, <1>2 DEF Alone, Restoring
<1>4. \A q \in Sidecar : q # p => Local(q)'
    BY <1>1, <1>2, RestLocal
<1> QED
    BY <1>1, <1>2, <1>3, <1>4 DEF IInv

Files == Unmarked /\ BackupsWhole /\ Recoverable /\ NewestKept

LEMMA FilesStay == IInv /\ UNCHANGED files => Files'
BY DEF IInv, Shared, Files, files, Unmarked, Damaged, BackupsWhole, Recoverable, Verified,
       NewestKept, Holds

\* Of a step of sidecar p it is left to show what becomes of the files, and of p.
LEMMA StepSafe ==
    ASSUME IInv, TypeInv', NEW p \in Sidecar, NEW from \in Step \ {"down"}, NEW to \in Step,
           At(p, from, to), UNCHANGED restoring, Files', Local(p)'
    PROVE  IInv'
<1>1. Alone' /\ Restoring' /\ \A q \in Sidecar : q # p => Local(q)'
    BY StepAlone
<1> QED
    BY <1>1 DEF IInv, Shared, Files

-----------------------------------------------------------------------------
(* One lemma per action: start, inspection and backup *)

Here == IInv /\ TypeInv'

\* What status() finds when it lets a sidecar go on.
LEMMA StatusFinds ==
    ASSUME IInv
    PROVE  /\ Status = "required" => /\ marker = "none"
                                     /\ database = NoFile \/ Whole(database, database.rev)
           /\ Status = "completed" => /\ marker = "none" /\ ~Damaged
                                      /\ database.rev = Current
<1>1. database \in File /\ Unmarked
    BY DEF IInv, Shared, TypeInv, TypeOK, FilesOK
<1>2. database.rev \in -1 .. Current + 1 /\ (RevisionOf(database) = 0 <=> database.rev < 1)
    BY <1>1, FileType DEF RevisionOf
<1>3. CASE marker # "none"
    BY <1>3 DEF Status
<1>4. CASE marker = "none"
  <2>1. Status = SchemaStatus
    BY <1>4 DEF Status
  <2>2. SchemaStatus = "required" => database = NoFile \/ database.rev \in Old
    BY <1>2 DEF SchemaStatus, Old
  <2>3. SchemaStatus = "completed" => database.rev = Current
    BY <1>2 DEF SchemaStatus
  <2> QED
    BY <1>1, <1>4, <2>1, <2>2, <2>3 DEF Unmarked, Whole, Damaged
<1> QED
    BY <1>3, <1>4

LEMMA LaunchSafe == ASSUME Here, NEW p \in Sidecar, Launch(p) PROVE IInv'
<1>1. Files'
    BY FilesStay DEF Here, Launch
<1>2. operator = "idle" /\ \A q \in Sidecar : pc[q] = "down"
    BY DEF Here, IInv, Launch
<1>3. PICK to \in {"inspect", "validate"} : At(p, "down", to)
    BY DEF Launch
<1>4. pc'[p] = to /\ \A q \in Sidecar : q # p => pc'[q] = "down"
    BY <1>2, <1>3, AtType DEF Here, IInv, TypeInv, Step
<1>5. Alone' /\ Restoring'
    BY <1>2, <1>4 DEF Launch, Alone, Restoring, restoring
<1>6. \A q \in Sidecar : q # p => Local(q)'
    BY <1>4, RestLocal
<1>7. Local(p)'
    BY <1>4 DEF Local, Marker, Untouched, Bootstrap, Backup, Upgrade, Unwritten, Written
<1> QED
    BY <1>1, <1>5, <1>6, <1>7 DEF Here, IInv, Shared, Files

LEMMA InspectSafe == ASSUME Here, NEW p \in Sidecar, Inspect(p) PROVE IInv'
<1>1. PICK to \in {"revision", "serving", "down"} :
        At(p, "inspect", to) /\ (to = "revision" => Status = "required")
                            /\ (to = "serving" => Status = "completed")
    BY DEF Inspect
<1>2. Files'
    BY FilesStay DEF Here, Inspect
<1>3. pc'[p] = to
    BY <1>1, StepAlone DEF Here, Inspect, Step
<1>4. Local(p)'
    BY <1>1, <1>3, StatusFinds DEF Here, Inspect, files, Damaged, Whole, Local, Marker, Untouched, Bootstrap, Backup, Upgrade, Unwritten, Written
<1> QED
    BY <1>1, <1>2, <1>4, StepSafe DEF Here, Inspect, Step

LEMMA ValidateSafe == ASSUME Here, NEW p \in Sidecar, Validate(p) PROVE IInv'
<1>1. PICK to \in {"serving", "down"} :
        At(p, "validate", to) /\ (to = "serving" => Status = "completed")
    BY DEF Validate
<1>2. Files'
    BY FilesStay DEF Here, Validate
<1>3. pc'[p] = to
    BY <1>1, StepAlone DEF Here, Validate, Step
<1>4. Local(p)'
    BY <1>1, <1>3, StatusFinds DEF Here, Validate, files, Damaged, Local, Marker, Untouched, Bootstrap, Backup, Upgrade, Unwritten, Written
<1> QED
    BY <1>1, <1>2, <1>4, StepSafe DEF Here, Validate, Step

LEMMA ReadPreviousSafe == ASSUME Here, NEW p \in Sidecar, ReadPrevious(p) PROVE IInv'
<1>1. /\ previous'[p] = RevisionOf(database)
      /\ At(p, "revision", IF previous'[p] = 0 THEN "mark" ELSE "backup")
    BY DEF ReadPrevious, Here, IInv, TypeInv, TypeOK, LocalsOK
<1>2. PICK to \in {"mark", "backup"} :
        At(p, "revision", to) /\ (to = "mark" <=> previous'[p] = 0)
    BY <1>1
<1>3. Files'
    BY FilesStay DEF Here, ReadPrevious
<1>4. pc'[p] = to /\ pc[p] = "revision" /\ Local(p)
    BY <1>2, StepAlone DEF Here, ReadPrevious, Step
<1>5. marker = "none" /\ (database = NoFile \/ Whole(database, database.rev))
    BY <1>4 DEF Local, Marker, Untouched, Unwritten
<1>6. IF previous'[p] = 0 THEN database = NoFile ELSE Whole(database, previous'[p])
    BY <1>1, <1>5, FileFacts DEF RevisionOf, Whole, Old
<1>7. Local(p)'
    BY <1>2, <1>4, <1>5, <1>6 DEF ReadPrevious, files, Whole, Local, Marker, Untouched, Bootstrap, Backup, Upgrade, Unwritten, Written
<1> QED
    BY <1>2, <1>3, <1>7, StepSafe DEF Here, ReadPrevious, Step

\* The steps that leave what the invariant says of the files as it is.
LEMMA FilesAlike ==
    ASSUME IInv, UNCHANGED <<database, marker, backup, meta, kept, written>>
    PROVE  Files'
BY DEF IInv, Shared, Files, Unmarked, Damaged, BackupsWhole, Recoverable, Verified, NewestKept, Holds

LEMMA BackupOpenSafe == ASSUME Here, NEW p \in Sidecar, BackupOpen(p) PROVE IInv'
<1>1. Files'
    BY FilesAlike DEF Here, BackupOpen
<1>2. At(p, "backup", "copying") /\ pc[p] = "backup" /\ pc'[p] = "copying" /\ Local(p)
    BY StepAlone DEF Here, BackupOpen, Step
<1>3. Local(p)'
    BY <1>2 DEF BackupOpen, Whole, Local, Marker, Untouched, Bootstrap, Backup, Upgrade, Unwritten, Written
<1> QED
    BY <1>1, <1>2, <1>3, StepSafe DEF Here, BackupOpen, Step

LEMMA BackupCopiedSafe == ASSUME Here, NEW p \in Sidecar, BackupCopied(p) PROVE IInv'
<1>1. Files'
    BY FilesAlike DEF Here, BackupCopied
<1>2. At(p, "copying", "publish") /\ pc[p] = "copying" /\ pc'[p] = "publish" /\ Local(p)
    BY StepAlone DEF Here, BackupCopied, Step
<1>3. previous[p] \in Revision /\ tmp'[previous[p]] = database
    BY <1>2 DEF BackupCopied, Here, IInv, TypeInv, TypeOK, FilesOK, PreviousKnown, WithPrevious
<1>4. Local(p)'
    BY <1>2, <1>3 DEF BackupCopied, Whole, Local, Marker, Untouched, Bootstrap, Backup, Upgrade, Unwritten, Written
<1> QED
    BY <1>1, <1>2, <1>4, StepSafe DEF Here, BackupCopied, Step

LEMMA BackupPublishSafe == ASSUME Here, NEW p \in Sidecar, BackupPublish(p) PROVE IInv'
<1> DEFINE r == previous[p]
<1>1. At(p, "publish", "digest") /\ pc[p] = "publish" /\ pc'[p] = "digest" /\ Local(p)
    BY StepAlone DEF Here, BackupPublish, Step
<1>2. /\ r \in Revision /\ Whole(database, r) /\ marker = "none" /\ tmp[r] = database
    BY <1>1 DEF Here, IInv, TypeInv, PreviousKnown, WithPrevious, Local, Marker, Untouched, Bootstrap, Backup, Upgrade, Unwritten, Written
<1>3. /\ backup'[r] = database
      /\ \A q \in Revision : q # r => backup'[q] = backup[q]
      /\ UNCHANGED <<database, marker, meta, kept, written, previous>>
    BY <1>2 DEF BackupPublish, Here, IInv, TypeInv, TypeOK, FilesOK
<1>4. Files'
  <2>1. Unmarked'
    BY <1>2, <1>3 DEF Here, IInv, Shared, Unmarked, Damaged, Whole, Old, Revision
  <2>2. BackupsWhole'
    BY <1>2, <1>3 DEF Here, IInv, Shared, BackupsWhole, Whole
  <2>3. Recoverable'
    BY <1>2, <2>1, <1>3 DEF Recoverable, Unmarked
  <2>4. NewestKept'
    <3>1. backup[r] = NoFile \/ backup[r] = database
        BY <1>2 DEF Here, IInv, Shared, Unmarked, Whole
    <3> QED
        BY <1>2, <1>3, <3>1, FileFacts DEF Here, IInv, Shared, NewestKept, Holds
  <2> QED
    BY <2>1, <2>2, <2>3, <2>4 DEF Files
<1>5. Local(p)'
    BY <1>1, <1>2, <1>3 DEF Whole, Local, Marker, Untouched, Bootstrap, Backup, Upgrade, Unwritten, Written
<1> QED
    BY <1>1, <1>4, <1>5, StepSafe DEF Here, BackupPublish, Step

LEMMA BackupDigestSafe == ASSUME Here, NEW p \in Sidecar, BackupDigest(p) PROVE IInv'
<1>1. Files'
    BY FilesStay DEF Here, BackupDigest
<1>2. At(p, "digest", "metadata") /\ pc[p] = "digest" /\ pc'[p] = "metadata" /\ Local(p)
    BY StepAlone DEF Here, BackupDigest, Step
<1>3. checksum'[p] = backup[previous[p]]
    BY DEF BackupDigest, Here, IInv, TypeInv, TypeOK, LocalsOK
<1>4. Local(p)'
    BY <1>2, <1>3 DEF BackupDigest, files, Whole, Local, Marker, Untouched, Bootstrap, Backup, Upgrade, Unwritten, Written
<1> QED
    BY <1>1, <1>2, <1>4, StepSafe DEF Here, BackupDigest, Step

LEMMA BackupMetadataSafe == ASSUME Here, NEW p \in Sidecar, BackupMetadata(p) PROVE IInv'
<1> DEFINE r == previous[p]
<1>1. At(p, "metadata", "mark") /\ pc[p] = "metadata" /\ pc'[p] = "mark" /\ Local(p)
    BY StepAlone DEF Here, BackupMetadata, Step
<1>2. /\ r \in Revision /\ Whole(database, r) /\ marker = "none" /\ backup[r] = database
      /\ checksum[p] = database
    BY <1>1 DEF Here, IInv, TypeInv, PreviousKnown, WithPrevious, Local, Marker, Untouched, Bootstrap, Backup, Upgrade, Unwritten, Written
<1>3. /\ meta'[r] = database
      /\ UNCHANGED <<database, marker, backup, kept, written, previous>>
    BY <1>2 DEF BackupMetadata, Here, IInv, TypeInv, TypeOK, FilesOK
<1>4. Files'
  <2>1. Unmarked' /\ BackupsWhole' /\ NewestKept'
    BY <1>3 DEF Here, IInv, Shared, Files, Unmarked, Damaged, BackupsWhole, Recoverable, Verified, NewestKept, Holds
  <2>2. Recoverable'
    BY <1>2, <2>1, <1>3 DEF Recoverable, Unmarked
  <2> QED
    BY <2>1, <2>2 DEF Files
<1>5. Local(p)'
  <2>1. Verified(previous[p])'
    BY <1>2, <1>3, FileFacts DEF Verified, Whole
  <2>2. /\ pc'[p] = "mark" /\ marker' = "none" /\ previous'[p] # 0
        /\ Whole(database', previous'[p]) /\ backup'[previous'[p]] = database'
    BY <1>1, <1>2, <1>3 DEF Whole, Old
  <2> QED
    BY <2>1, <2>2 DEF Local, Marker, Untouched, Bootstrap, Backup, Upgrade, Unwritten, Written
<1> QED
    BY <1>1, <1>4, <1>5, StepSafe DEF Here, BackupMetadata, Step

LEMMA BackupFailsSafe == ASSUME Here, NEW p \in Sidecar, BackupFails(p) PROVE IInv'
<1>1. Files'
    BY FilesAlike DEF Here, BackupFails
<1>2. PICK from \in {"backup", "copying", "publish"} : At(p, from, "down")
    BY DEF BackupFails
<1>3. Local(p)'
    BY <1>2, StepAlone, RestLocal DEF Here, BackupFails, Step
<1> QED
    BY <1>1, <1>2, <1>3, StepSafe DEF Here, BackupFails, Step

LEMMA WriteMarkerSafe == ASSUME Here, NEW p \in Sidecar, WriteMarker(p) PROVE IInv'
<1>1. PICK to \in {"bootstrap", "connect"} :
        At(p, "mark", to) /\ (to = "bootstrap" <=> previous[p] = 0)
    BY DEF WriteMarker
<1>2. pc[p] = "mark" /\ pc'[p] = to /\ Local(p)
    BY <1>1, StepAlone DEF Here, WriteMarker, Step
<1>3. marker = "none" /\ ~Damaged
    BY <1>2 DEF Here, IInv, Shared, Unmarked, Local, Marker, Unwritten
<1>4. Files'
    BY <1>3 DEF WriteMarker, Here, IInv, Shared, Files, Unmarked, Damaged, BackupsWhole, Recoverable, Verified, NewestKept, Holds
<1>5. to = "bootstrap" => database = NoFile /\ written = 0
  <2>1. to = "bootstrap" => database = NoFile
    BY <1>1, <1>2 DEF Local, Untouched
  <2>2. written \in Nat
    BY DEF Here, IInv, TypeInv, TypeOK, FilesOK
  <2> QED
    BY <1>3, <2>1, <2>2, FileFacts DEF Damaged
<1>6. Local(p)'
    BY <1>1, <1>2, <1>5 DEF WriteMarker, Whole, Verified, Local, Marker, Untouched, Bootstrap, Backup, Upgrade, Unwritten, Written
<1> QED
    BY <1>1, <1>4, <1>6, StepSafe DEF Here, WriteMarker, Step

(* One lemma per action: bootstrap and upgrade *)

LEMMA BootstrapOpenSafe == ASSUME Here, NEW p \in Sidecar, BootstrapOpen(p) PROVE IInv'
<1>1. Files'
    BY FilesAlike DEF Here, BootstrapOpen
<1>2. At(p, "bootstrap", "build") /\ pc[p] = "bootstrap" /\ pc'[p] = "build" /\ Local(p)
    BY StepAlone DEF Here, BootstrapOpen, Step
<1>3. handle'[p] = "boot"
    BY DEF BootstrapOpen
<1>4. Local(p)'
    BY <1>2, <1>3 DEF BootstrapOpen, Local, Marker, Untouched, Bootstrap, Backup, Upgrade, Unwritten, Written
<1> QED
    BY <1>1, <1>2, <1>4, StepSafe DEF Here, BootstrapOpen, Step

LEMMA BootstrapBuiltSafe == ASSUME Here, NEW p \in Sidecar, BootstrapBuilt(p) PROVE IInv'
<1>1. Files'
    BY FilesAlike DEF Here, BootstrapBuilt
<1>2. At(p, "build", "install") /\ pc[p] = "build" /\ pc'[p] = "install" /\ Local(p)
    BY StepAlone DEF Here, BootstrapBuilt, Step
<1>3. Local(p)'
    BY <1>2 DEF BootstrapBuilt, Local, Marker, Untouched, Bootstrap, Backup, Upgrade, Unwritten, Written
<1> QED
    BY <1>1, <1>2, <1>3, StepSafe DEF Here, BootstrapBuilt, Step

LEMMA BootstrapInstallSafe == ASSUME Here, NEW p \in Sidecar, BootstrapInstall(p) PROVE IInv'
<1>1. At(p, "install", "unmark") /\ pc[p] = "install" /\ pc'[p] = "unmark" /\ Local(p)
    BY StepAlone DEF Here, BootstrapInstall, Step
<1>2. database' = Fresh /\ written' = 0 /\ marker' = marker /\ marker # "none"
    BY <1>1 DEF BootstrapInstall, Local, Marker, Untouched, Bootstrap, Backup, Upgrade, Unwritten, Written
<1>3. ~Damaged'
    BY <1>2, FileFacts DEF Damaged
<1>4. Files'
    BY <1>2, <1>3 DEF BootstrapInstall, Here, IInv, Shared, Files, Unmarked, BackupsWhole,
                      Recoverable, NewestKept
<1>5. Local(p)'
    BY <1>1, <1>2, <1>3, FileFacts DEF BootstrapInstall, Local, Marker, Untouched, Bootstrap, Backup, Upgrade, Unwritten, Written
<1> QED
    BY <1>1, <1>4, <1>5, StepSafe DEF Here, BootstrapInstall, Step

LEMMA ConnectSafe == ASSUME Here, NEW p \in Sidecar, Connect(p) PROVE IInv'
<1>1. Files'
    BY FilesStay DEF Here, Connect
<1>2. At(p, "connect", "upgrade") /\ pc[p] = "connect" /\ pc'[p] = "upgrade" /\ Local(p)
    BY StepAlone DEF Here, Connect, Step
<1>3. previous[p] # 0 /\ Whole(database, previous[p]) /\ database.rev >= 1
    BY <1>2 DEF Here, IInv, TypeInv, PreviousKnown, WithPrevious, Revision, Whole, Old, Local, Marker, Untouched, Bootstrap, Backup, Upgrade, Unwritten, Written
<1>4. level'[p] = database.rev /\ handle'[p] = "database"
    BY DEF Connect, Here, IInv, TypeInv, TypeOK, LocalsOK
<1>5. Local(p)'
    BY <1>2, <1>3, <1>4 DEF Connect, files, Whole, Verified, Local, Marker, Untouched, Bootstrap, Backup, Upgrade, Unwritten, Written
<1> QED
    BY <1>1, <1>2, <1>5, StepSafe DEF Here, Connect, Step

\* A step of the upgrade keeps the data of the database, and that there is a backup of it.
LEMMA UpgradeStep ==
    ASSUME Here, NEW p \in Sidecar, pc[p] \in {"upgrade", "stamp"}, Local(p),
           database'.data = database.data, database'.rev >= 1,
           UNCHANGED <<marker, backup, meta, kept, written, previous>>
    PROVE  Files' /\ previous[p] \in Revision /\ Verified(previous[p])' /\ marker # "none"
<1>1. marker # "none" /\ previous[p] \in Revision /\ Verified(previous[p])
    BY DEF Here, IInv, TypeInv, PreviousKnown, WithPrevious, Local, Marker, Untouched, Bootstrap, Backup, Upgrade, Unwritten, Written
<1>2. Verified(previous[p])'
    BY <1>1 DEF Verified
<1>3. Unmarked' /\ BackupsWhole' /\ Recoverable'
    BY <1>1, <1>2 DEF Here, IInv, Shared, Unmarked, BackupsWhole, Recoverable, Whole
<1>4. NewestKept'
    BY DEF Here, IInv, Shared, NewestKept, Holds
<1> QED
    BY <1>1, <1>2, <1>3, <1>4 DEF Files

LEMMA ApplyDdlSafe == ASSUME Here, NEW p \in Sidecar, ApplyDdl(p) PROVE IInv'
<1>1. At(p, "upgrade", "stamp") /\ pc[p] = "upgrade" /\ pc'[p] = "stamp" /\ Local(p)
    BY StepAlone DEF Here, ApplyDdl, Step
<1>2. handle[p] = "database" /\ Held(p) = database /\ database.rev = level[p] /\ level[p] >= 1
    BY <1>1 DEF Held, Local, Marker, Untouched, Bootstrap, Backup, Upgrade, Unwritten, Written
<1>3. database' = Contents(level[p], TRUE, database.data)
    BY <1>2 DEF ApplyDdl, Store
<1>4. database'.rev = level[p] /\ database'.ahead /\ database'.data = database.data
    BY <1>3 DEF Contents
<1>5. UNCHANGED <<marker, backup, meta, kept, written, previous, level, handle>>
    BY DEF ApplyDdl
<1>6. Files' /\ Verified(previous[p])' /\ marker # "none"
    BY <1>1, <1>2, <1>4, <1>5, UpgradeStep
<1>7. Local(p)'
    BY <1>1, <1>2, <1>4, <1>5, <1>6 DEF Local, Marker, Untouched, Bootstrap, Backup, Upgrade, Unwritten, Written
<1> QED
    BY <1>1, <1>6, <1>7, StepSafe DEF Here, ApplyDdl, Step

LEMMA StampSafe == ASSUME Here, NEW p \in Sidecar, Stamp(p) PROVE IInv'
<1>1. At(p, "stamp", "upgrade") /\ pc[p] = "stamp" /\ pc'[p] = "upgrade" /\ Local(p)
    BY StepAlone DEF Here, Stamp, Step
<1>2. handle[p] = "database" /\ Held(p) = database /\ database.rev = level[p] /\ level[p] >= 1
    BY <1>1 DEF Held, Local, Marker, Untouched, Bootstrap, Backup, Upgrade, Unwritten, Written
<1>3. level[p] \in Nat
    BY DEF Here, IInv, TypeInv, TypeOK, LocalsOK
<1>4. database' = Contents(level[p] + 1, FALSE, database.data) /\ level'[p] = level[p] + 1
    BY <1>2 DEF Stamp, Store, Here, IInv, TypeInv, TypeOK, LocalsOK
<1>5. database'.rev = level'[p] /\ level'[p] >= 1 /\ ~database'.ahead /\ database'.data = database.data
    BY <1>2, <1>3, <1>4 DEF Contents
<1>6. UNCHANGED <<marker, backup, meta, kept, written, previous, handle>>
    BY DEF Stamp
<1>7. Files' /\ Verified(previous[p])' /\ marker # "none"
    BY <1>1, <1>5, <1>6, UpgradeStep
<1>8. Local(p)'
    BY <1>1, <1>2, <1>5, <1>6, <1>7 DEF Local, Marker, Untouched, Bootstrap, Backup, Upgrade, Unwritten, Written
<1> QED
    BY <1>1, <1>7, <1>8, StepSafe DEF Here, Stamp, Step

LEMMA UpgradeDoneSafe == ASSUME Here, NEW p \in Sidecar, UpgradeDone(p) PROVE IInv'
<1>1. Files'
    BY FilesStay DEF Here, UpgradeDone
<1>2. At(p, "upgrade", "unmark") /\ pc[p] = "upgrade" /\ pc'[p] = "unmark" /\ Local(p)
    BY StepAlone DEF Here, UpgradeDone, Step
<1>3. level[p] \in 0 .. Current /\ level[p] >= Current /\ database.rev = Current
    BY <1>2 DEF UpgradeDone, Pending, Here, IInv, TypeInv, TypeOK, LocalsOK, Local, Marker, Untouched, Bootstrap, Backup, Upgrade, Unwritten, Written
<1>4. ~Damaged
    BY <1>2 DEF Damaged, Here, IInv, TypeInv, TypeOK, FilesOK, Local, Marker, Untouched, Bootstrap, Backup, Upgrade, Unwritten, Written
<1>5. Local(p)'
    BY <1>2, <1>3, <1>4 DEF UpgradeDone, files, Damaged, Local, Marker, Untouched, Bootstrap, Backup, Upgrade, Unwritten, Written
<1> QED
    BY <1>1, <1>2, <1>5, StepSafe DEF Here, UpgradeDone, Step

LEMMA UpgradeFailsSafe == ASSUME Here, NEW p \in Sidecar, UpgradeFails(p) PROVE IInv'
<1>1. Files'
    BY FilesAlike DEF Here, UpgradeFails
<1>2. PICK from \in {"build", "install", "connect", "upgrade", "stamp"}, to \in {"mark_failed", "set_aside"} :
        At(p, from, to) /\ (to = "mark_failed" <=> previous[p] = 0)
    BY DEF UpgradeFails
<1>3. pc[p] = from /\ pc'[p] = to /\ Local(p)
    BY <1>2, StepAlone DEF Here, UpgradeFails, Step
<1>4. to = "set_aside" => from \in {"connect", "upgrade", "stamp"}
    BY <1>2, <1>3 DEF Local, Bootstrap
<1>5. to = "set_aside" => database.rev >= 1
  <2>1. CASE from = "connect"
    BY <1>2, <1>3, <2>1 DEF Local, Untouched, Whole, Old
  <2>2. CASE from \in {"upgrade", "stamp"}
    BY <1>3, <2>2 DEF Local, Upgrade
  <2> QED
    BY <1>4, <2>1, <2>2
<1>6. Local(p)'
    BY <1>2, <1>3, <1>4, <1>5 DEF UpgradeFails, Verified, Local, Marker, Untouched, Bootstrap, Backup, Upgrade, Unwritten, Written
<1> QED
    BY <1>1, <1>2, <1>6, StepSafe DEF Here, UpgradeFails, Step

(* One lemma per action: the exception handler, success, serving and a kill *)

LEMMA SetAsideSafe == ASSUME Here, NEW p \in Sidecar, SetAside(p) PROVE IInv'
<1>1. PICK to \in {"down", "copy_back"} :
        At(p, "set_aside", to) /\ (to = "down" <=> database = NoFile)
    BY DEF SetAside
<1>2. pc[p] = "set_aside" /\ pc'[p] = to /\ Local(p)
    BY <1>1, StepAlone DEF Here, SetAside, Step
<1>3. /\ marker # "none" /\ database.rev >= 1 /\ previous[p] \in Revision
      /\ Verified(previous[p]) /\ backup[previous[p]].data = database.data
    BY <1>2 DEF Here, IInv, TypeInv, PreviousKnown, WithPrevious, Local, Marker, Untouched, Bootstrap, Backup, Upgrade, Unwritten, Written
<1>4. database' = NoFile /\ UNCHANGED <<marker, backup, meta, kept, written, previous>>
    BY DEF SetAside
<1>5. Files'
  <2>1. Verified(previous[p])'
    BY <1>3, <1>4 DEF Verified
  <2>2. Unmarked' /\ BackupsWhole' /\ Recoverable'
    BY <1>3, <1>4, <2>1 DEF Here, IInv, Shared, Unmarked, BackupsWhole, Recoverable, Whole
  <2>3. Holds(database) => Holds(backup[previous[p]])
    BY <1>3 DEF Here, IInv, Shared, BackupsWhole, Verified, Whole, Old, Holds
  <2>4. NewestKept'
    BY <1>3, <1>4, <2>3 DEF Here, IInv, Shared, NewestKept, Holds
  <2> QED
    BY <2>2, <2>4 DEF Files
<1>6. Local(p)'
    BY <1>1, <1>2, <1>3, <1>4 DEF Verified, Local, Marker, Untouched, Bootstrap, Backup, Upgrade, Unwritten, Written
<1> QED
    BY <1>1, <1>5, <1>6, StepSafe DEF Here, SetAside, Step

\* A step of the exception handler changes the database to one that holds no less; there is a
\* verified backup and the marker.
LEMMA HandlerStep ==
    ASSUME Here, NEW p \in Sidecar, pc[p] \in {"copy_back", "copying_back"}, Local(p),
           UNCHANGED <<marker, backup, meta, kept, written, previous>>
    PROVE  Files' /\ previous[p] \in Revision /\ Verified(previous[p])' /\ marker # "none"
<1>1. marker # "none" /\ previous[p] \in Revision /\ Verified(previous[p]) /\ ~Holds(database)
  <2>1. marker # "none" /\ Verified(previous[p])
    BY DEF Local, Marker, Backup, Written
  <2>2. previous[p] \in Revision
    BY DEF Here, IInv, TypeInv, PreviousKnown, WithPrevious
  <2>3. database = NoFile \/ database = Corrupt
    BY DEF Local, Upgrade
  <2> QED
    BY <2>1, <2>2, <2>3, FileFacts DEF Holds
<1>2. Verified(previous[p])'
    BY <1>1 DEF Verified
<1>3. Unmarked' /\ BackupsWhole' /\ Recoverable'
    BY <1>1, <1>2 DEF Here, IInv, Shared, Unmarked, BackupsWhole, Recoverable, Whole
<1>4. NewestKept'
    BY <1>1 DEF Here, IInv, Shared, NewestKept, Holds
<1> QED
    BY <1>1, <1>2, <1>3, <1>4 DEF Files

LEMMA CopyBackOpenSafe == ASSUME Here, NEW p \in Sidecar, CopyBackOpen(p) PROVE IInv'
<1>1. At(p, "copy_back", "copying_back") /\ pc[p] = "copy_back" /\ pc'[p] = "copying_back" /\ Local(p)
    BY StepAlone DEF Here, CopyBackOpen, Step
<1>2. database' = Corrupt /\ UNCHANGED <<marker, backup, meta, kept, written, previous>>
    BY DEF CopyBackOpen
<1>3. Files' /\ Verified(previous[p])' /\ marker # "none"
    BY <1>1, <1>2, HandlerStep
<1>4. Local(p)'
    BY <1>1, <1>2, <1>3 DEF Local, Marker, Untouched, Bootstrap, Backup, Upgrade, Unwritten, Written
<1> QED
    BY <1>1, <1>3, <1>4, StepSafe DEF Here, CopyBackOpen, Step

LEMMA CopiedBackSafe == ASSUME Here, NEW p \in Sidecar, CopiedBack(p) PROVE IInv'
<1>1. At(p, "copying_back", "mark_failed") /\ pc[p] = "copying_back" /\ pc'[p] = "mark_failed" /\ Local(p)
    BY StepAlone DEF Here, CopiedBack, Step
<1>2. UNCHANGED <<marker, backup, meta, kept, written, previous>>
    BY DEF CopiedBack
<1>3. Files' /\ marker # "none"
    BY <1>1, <1>2, HandlerStep
<1>4. Local(p)'
    BY <1>1, <1>2, <1>3 DEF Local, Marker, Untouched, Bootstrap, Backup, Upgrade, Unwritten, Written
<1> QED
    BY <1>1, <1>3, <1>4, StepSafe DEF Here, CopiedBack, Step

LEMMA MarkFailedSafe == ASSUME Here, NEW p \in Sidecar, MarkFailed(p) PROVE IInv'
<1>1. At(p, "mark_failed", "down") /\ pc[p] = "mark_failed" /\ pc'[p] = "down"
    BY StepAlone DEF Here, MarkFailed, Step
<1>2. Files'
    BY DEF MarkFailed, Here, IInv, Shared, Files, Unmarked, Damaged, BackupsWhole, Recoverable, Verified, NewestKept, Holds
<1>3. Local(p)'
    BY <1>1, RestLocal
<1> QED
    BY <1>1, <1>2, <1>3, StepSafe DEF Here, MarkFailed, Step

LEMMA UnmarkSafe == ASSUME Here, NEW p \in Sidecar, Unmark(p) PROVE IInv'
<1>1. At(p, "unmark", "verify") /\ pc[p] = "unmark" /\ pc'[p] = "verify" /\ Local(p)
    BY StepAlone DEF Here, Unmark, Step
<1>2. ~Damaged /\ database.rev = Current
    BY <1>1 DEF Local, Upgrade
<1>3. Files'
    BY <1>2 DEF Unmark, Here, IInv, Shared, Old, Files, Unmarked, Damaged, BackupsWhole, Recoverable, Verified, NewestKept, Holds
<1>4. Local(p)'
    BY <1>1, <1>2 DEF Unmark, Damaged, Local, Marker, Untouched, Bootstrap, Backup, Upgrade, Unwritten, Written
<1> QED
    BY <1>1, <1>3, <1>4, StepSafe DEF Here, Unmark, Step

LEMMA VerifySafe == ASSUME Here, NEW p \in Sidecar, Verify(p) PROVE IInv'
<1>1. PICK to \in {"serving", "down"} :
        At(p, "verify", to) /\ (to = "serving" => RevisionOf(database) = Current)
    BY DEF Verify
<1>2. Files'
    BY FilesStay DEF Here, Verify
<1>3. pc[p] = "verify" /\ pc'[p] = to /\ Local(p)
    BY <1>1, StepAlone DEF Here, Verify, Step
<1>4. to = "serving" => database.rev = Current
    BY <1>1 DEF RevisionOf
<1>5. Local(p)'
    BY <1>3, <1>4 DEF Verify, files, Damaged, Local, Marker, Untouched, Bootstrap, Backup, Upgrade, Unwritten, Written
<1> QED
    BY <1>1, <1>2, <1>5, StepSafe DEF Here, Verify, Step

LEMMA UserWriteSafe == ASSUME Here, NEW p \in Sidecar, UserWrite(p) PROVE IInv'
<1>1. /\ pc[p] = "serving" /\ written' = written + 1 /\ written' \in Nat /\ written' >= 1
      /\ UNCHANGED <<marker, backup, meta, kept, pc, operator, chosen>>
    BY Zenon, SMT DEF UserWrite, locals, restoring, Here, IInv, TypeInv, TypeOK, FilesOK
<1>2. database'.rev = Current /\ ~database'.ahead /\ database'.data = written'
    BY DEF UserWrite, Contents
<1>3. operator = "idle" /\ \A q \in Sidecar : q # p => pc[q] = "down"
    BY <1>1 DEF Here, IInv, Shared, Alone
<1>4. Alone' /\ Restoring'
    BY <1>1, <1>3 DEF Here, IInv, Shared, Alone, Restoring
<1>5. ~Damaged'
    BY <1>1, <1>2 DEF Damaged
<1>6. Files'
    BY <1>1, <1>2, <1>5 DEF Here, IInv, Shared, Files, Old, Unmarked, BackupsWhole, Recoverable,
                           NewestKept, Holds
<1>7. Local(p)'
    BY <1>1, <1>2, <1>5 DEF Local, Marker, Untouched, Bootstrap, Backup, Upgrade, Unwritten, Written
<1>8. \A q \in Sidecar : q # p => Local(q)'
    BY <1>1, <1>3, RestLocal
<1> QED
    BY <1>4, <1>6, <1>7, <1>8 DEF Here, IInv, Shared, Files

LEMMA StopSafe == ASSUME Here, NEW p \in Sidecar, Stop(p) PROVE IInv'
<1>1. pc[p] \in Step \ {"down"} /\ At(p, pc[p], "down")
    BY DEF Stop, At, Here, IInv, TypeInv, TypeOK, LocalsOK
<1>2. Files'
    BY FilesStay DEF Here, Stop
<1>3. pc'[p] = "down"
    BY <1>1, StepAlone DEF Here, Stop, Step
<1>4. Local(p)'
    BY <1>3, RestLocal
<1> QED
    BY <1>1, <1>2, <1>4, StepSafe DEF Here, Stop, Step

-----------------------------------------------------------------------------
(* The operator, and every step *)

\* Of a step of the operator it is left to show what becomes of the files.
LEMMA RestoreSafe == ASSUME Here, Restore PROVE IInv'
<1>1. UNCHANGED pc /\ \A p \in Sidecar : pc[p] = "down"
    BY DEF Restore, RestoreBegin, KeepCurrent, RestoreReplace, RestoreEnd, locals, Here, IInv, Shared, Alone
<1>2. Alone' /\ \A p \in Sidecar : Local(p)'
    BY <1>1, RestLocal DEF Alone
<1>3. ASSUME RestoreBegin PROVE Files' /\ Restoring'
  <2>1. Files'
    BY <1>3, FilesStay DEF Here, RestoreBegin
  <2>2. backup'[chosen'] # NoFile /\ UNCHANGED <<database, kept>>
    BY <1>3 DEF RestoreBegin, files
  <2>3. operator' = "replace" => database' = NoFile
    BY <1>3, <2>2 DEF RestoreBegin
  <2> QED
    BY <2>1, <2>2, <2>3 DEF Restoring
<1>4. ASSUME KeepCurrent PROVE Files' /\ Restoring'
  <2>1. Files'
    BY <1>4 DEF KeepCurrent, Here, IInv, Shared, Files, Unmarked, Damaged, BackupsWhole, Recoverable, Verified, NewestKept, Holds
  <2>2. Restoring'
    BY <1>4 DEF KeepCurrent, Here, IInv, Shared, Restoring
  <2> QED
    BY <2>1, <2>2
<1>5. ASSUME RestoreReplace PROVE Files' /\ Restoring'
  <2>1. /\ database' = backup[chosen] /\ Whole(database', chosen) /\ chosen \in Revision
        /\ database = NoFile \/ database \in kept
        /\ UNCHANGED <<marker, backup, meta, kept, written, chosen>>
    BY <1>5 DEF RestoreReplace, Here, IInv, Shared, Restoring, BackupsWhole, TypeInv, TypeOK, RestoringOK
  <2>2. ~Damaged'
    BY <2>1 DEF Damaged, Whole
  <2>3. database'.rev = chosen /\ database'.data > 0
    BY <2>1 DEF Whole
  <2>4. Unmarked' /\ BackupsWhole' /\ Recoverable'
    BY <2>1, <2>2, <2>3 DEF Here, IInv, Shared, Unmarked, BackupsWhole, Recoverable, Whole
  <2>5. ~Holds(NoFile)
    BY FileFacts DEF Holds
  <2>6. NewestKept'
    BY <2>1, <2>5 DEF Here, IInv, Shared, NewestKept, Holds
  <2>7. Restoring'
    BY <1>5 DEF RestoreReplace, Here, IInv, Shared, Restoring
  <2> QED
    BY <2>4, <2>6, <2>7 DEF Files
<1>6. ASSUME RestoreEnd PROVE Files' /\ Restoring'
    BY <1>6, FilesStay DEF Here, RestoreEnd, Restoring
<1> QED
    BY <1>2, <1>3, <1>4, <1>5, <1>6 DEF Restore, Here, IInv, Shared, Files

LEMMA StutterSafe == ASSUME Here, UNCHANGED vars PROVE IInv'
<1>1. Files'
    BY FilesStay DEF Here, vars
<1>2. Alone' /\ Restoring'
    BY DEF Here, IInv, Shared, Alone, Restoring, vars, locals, files, restoring
<1>3. ASSUME NEW p \in Sidecar PROVE Local(p)'
    BY DEF Here, IInv, vars, locals, files, Damaged, Verified, Local, Marker, Untouched, Bootstrap, Backup, Upgrade, Unwritten, Written
<1> QED
    BY <1>1, <1>2, <1>3 DEF Here, IInv, Shared, Files

LEMMA NextSafe == IInv /\ [Next]_vars => IInv'
<1> SUFFICES ASSUME IInv, [Next]_vars PROVE IInv'
    OBVIOUS
<1>1. Here
    BY NextType DEF Here, IInv
<1>2. ASSUME NEW p \in Sidecar, Migrate(p) PROVE IInv'
    BY <1>1, <1>2, InspectSafe, ValidateSafe, ReadPreviousSafe, BackupOpenSafe,
       BackupCopiedSafe, BackupPublishSafe, BackupDigestSafe, BackupMetadataSafe,
       BackupFailsSafe, WriteMarkerSafe, BootstrapOpenSafe, BootstrapBuiltSafe,
       BootstrapInstallSafe, ConnectSafe, ApplyDdlSafe, StampSafe, UpgradeDoneSafe,
       UpgradeFailsSafe, SetAsideSafe, CopyBackOpenSafe, CopiedBackSafe, MarkFailedSafe,
       UnmarkSafe, VerifySafe DEF Migrate
<1> QED
    BY <1>1, <1>2, LaunchSafe, UserWriteSafe, StopSafe, RestoreSafe, StutterSafe DEF Next

-----------------------------------------------------------------------------
(* What start-up promises while one sidecar at a time is launched *)

LEMMA Safe == Exclusive /\ Spec => []IInv
<1>1. Exclusive /\ Init => IInv
    BY InitSafe
<1> QED
    BY <1>1, NextSafe, PTL DEF Spec

\* migration.py:209-249: a sidecar reports a completed migration (and its health endpoint is
\* opened) only on a database of this release's revision with no half-applied step in it, however
\* many start-ups were killed or failed before.
THEOREM ServesCurrentSchema == Exclusive /\ Spec => []ServingIsCurrent
<1>1. IInv => ServingIsCurrent
    BY DEF IInv, Local, Upgrade, Damaged, ServingIsCurrent
<1> QED
    BY <1>1, Safe, PTL

\* migration.py:140-142, 222-237: when half an upgrade is in the database, or the user's data is
\* not, status() answers recovery_required, because the marker is written before the first change
\* and removed after the last; and the backup the operator needs was published and described by
\* its metadata before the marker was.
THEOREM DamageCanBeRestored == Exclusive /\ Spec => []DamageIsRecoverable
<1>1. ASSUME IInv PROVE DamageIsRecoverable
  <2> SUFFICES ASSUME Damaged
               PROVE  /\ Status \notin {"required", "completed"}
                      /\ \E r \in Revision : /\ Verified(r) /\ ~backup[r].ahead
                                             /\ backup[r].rev \in Minimum .. Current
                                             /\ backup[r].data > 0
      BY DEF DamageIsRecoverable
  <2>1. Status = "recovery_required"
      BY <1>1 DEF IInv, Shared, Unmarked, Status
  <2>2. PICK r \in Revision : Verified(r)
      BY <1>1 DEF IInv, Shared, Recoverable
  <2>3. Whole(backup[r], r)
      BY <1>1, <2>2 DEF IInv, Shared, BackupsWhole, Verified
  <2> QED
      BY <2>1, <2>2, <2>3 DEF Whole, Old
<1> QED
    BY <1>1, Safe, PTL

\* migration.py:156-166, 229-237, operations.py:126-164: the newest thing the user wrote is in the
\* database, in a backup or in a pre-restore copy, after every step of every upgrade, failure,
\* kill and restore.
THEOREM WritesAreKept == Exclusive /\ Spec => []NewestWriteKept
<1>1. ASSUME IInv PROVE NewestWriteKept
    BY <1>1 DEF IInv, Shared, NewestKept, NewestWriteKept, Holds
<1> QED
    BY <1>1, Safe, PTL

\* migration.py:156-166, where a backup's name depends on the two revisions only: an upgrade that is
\* tried again replaces the backup of the earlier try, by the same content.
THEOREM BackupsAreKept == Exclusive /\ Spec => OriginalBackupKept
<1> DEFINE Kept == \A r \in Revision : backup[r] # NoFile => backup'[r] = backup[r]
<1>1. ASSUME IInv, [Next]_vars PROVE [Kept]_vars
  <2>1. ASSUME NEW p \in Sidecar, BackupPublish(p) PROVE Kept
    <3>1. Local(p) /\ pc[p] = "publish"
        BY <1>1, <2>1, StepAlone, NextType DEF BackupPublish, Step, At, IInv
    <3>2. /\ previous[p] \in Revision /\ tmp[previous[p]] = database
          /\ marker = "none" /\ Whole(database, previous[p])
        BY <1>1, <3>1 DEF IInv, TypeInv, PreviousKnown, WithPrevious, Local, Marker, Untouched, Bootstrap, Backup, Upgrade, Unwritten, Written
    <3>3. backup[previous[p]] \in {NoFile, database}
        BY <1>1, <3>2 DEF IInv, Shared, Unmarked, Whole
    <3> QED
        BY <1>1, <2>1, <3>2, <3>3 DEF BackupPublish, IInv, TypeInv, TypeOK, FilesOK
  <2>2. UNCHANGED backup => Kept
    OBVIOUS
  <2>3. ASSUME NEW p \in Sidecar, Migrate(p) PROVE Kept
    BY <2>1, <2>2, <2>3 DEF Migrate, files, Inspect, Validate, ReadPrevious, BackupOpen,
       BackupCopied, BackupDigest, BackupMetadata, BackupFails, WriteMarker, BootstrapOpen,
       BootstrapBuilt, BootstrapInstall, Connect, ApplyDdl, Stamp, UpgradeDone, UpgradeFails,
       SetAside, CopyBackOpen, CopiedBack, MarkFailed, Unmark, Verify
  <2>4. ASSUME NEW p \in Sidecar, Launch(p) \/ UserWrite(p) \/ Stop(p) PROVE Kept
    BY <2>2, <2>4 DEF files, Launch, UserWrite, Stop
  <2>5. ASSUME Restore PROVE Kept
    BY <2>2, <2>5 DEF files, Restore, RestoreBegin, KeepCurrent, RestoreReplace, RestoreEnd
  <2> HIDE DEF Kept
  <2> QED
    BY <1>1, <2>3, <2>4, <2>5 DEF Next
<1>2. Exclusive /\ Spec => [][Kept]_vars
    BY <1>1, Safe, PTL DEF Spec
<1> QED
    BY <1>2 DEF OriginalBackupKept

=============================================================================
