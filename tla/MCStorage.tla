------------------------------ MODULE MCStorage ------------------------------
(***************************************************************************)
(* What the application keeps and brings in, checked side by side: the     *)
(* schema of its database (SchemaEvolution, extended here), the paged      *)
(* downloads, the file cache, the provider tables and the provider desk.   *)
(* Each behaviour runs one of them, the others rest.                       *)
(***************************************************************************)
EXTENDS SchemaEvolution

CONSTANTS
    Adapter, PageContent, Bad, Sequence, Attempts, OmitsCursor, MaxFaults, MaxRuns, \* PagedImport
    Process, Key, Ttl, MaxTime, MaxWrites, MaxSweeps, MaxDamage,                \* DataCache
    Session, Job, Artifact, Digests, Status, StoredEvents, MaxCalls,           \* ProviderStore
    Schedules, Workers, Rules, DeskPages, Responses, DeskEvents, MaxEmits       \* ProviderDesk

VARIABLES
    part,
    pc,     \* of the part that runs
    adapter, run, page, start, cursor, attempt, response, seen, records, quarantine, failures,
    completed, merged, faults,
    clock, file, damages, begun, writes, sweeps, last, temps, call,
    rows, events, calls, asked, written, appended, loaded, stale,
    jobs, checkpoints, schedules, claimed, started, workers, alerts

schemaVars == <<schema, revision, target, script, status, backup, origin>>
pagedVars == <<adapter, run, page, start, cursor, attempt, response, seen, records, quarantine,
               failures, completed, merged, faults>>
cacheVars == <<clock, file, damages, begun, writes, sweeps, last, temps, call>>
storeVars == <<rows, events, calls, asked, written, appended, loaded, stale>>
deskVars == <<jobs, checkpoints, schedules, claimed, started, workers, alerts>>
allVars == <<part, pc, schemaVars, pagedVars, cacheVars, storeVars, deskVars>>

Paged == INSTANCE PagedImport WITH Content <- PageContent
Cache == INSTANCE DataCache
Store == INSTANCE ProviderStore WITH MaxEvents <- StoredEvents, Checksum <- Digests
Desk  == INSTANCE ProviderDesk WITH Pages <- DeskPages, MaxEvents <- DeskEvents

ASSUME StorageConstants ==
    Paged!ConstantsType /\ Cache!ConstantsType /\ Store!ConstantsType /\ Desk!ConstantsType

\* Three pages: a row the normalizer rejects, a row that is on two pages, and a last page
\* whose row has a lower sequence number than those before it.
MCContent == <<<<"a", "bad">>, <<"b", "a">>, <<"c">>>>
MCBad == {"bad"}
MCSequence == [r \in {"a", "b", "c", "bad"} |->
    CASE r = "a" -> 2 [] r = "b" -> 2 [] r = "c" -> 1 [] r = "bad" -> 0]

-----------------------------------------------------------------------------
SchemaRests ==
    /\ schema = <<>> /\ revision = 0 /\ target = 0 /\ script = <<>> /\ status = "rest"
    /\ backup = "rest" /\ origin = 0
PagedRests ==
    /\ adapter = "rest" /\ run = "rest" /\ page = "rest" /\ start = "rest" /\ cursor = "rest"
    /\ attempt = "rest" /\ response = "rest" /\ seen = "rest" /\ records = "rest"
    /\ quarantine = "rest" /\ failures = "rest" /\ completed = "rest" /\ merged = "rest"
    /\ faults = "rest"
CacheRests ==
    /\ clock = "rest" /\ file = "rest" /\ damages = "rest" /\ begun = "rest" /\ writes = "rest"
    /\ sweeps = "rest" /\ last = "rest" /\ temps = "rest" /\ call = "rest"
StoreRests ==
    /\ rows = "rest" /\ events = "rest" /\ calls = "rest" /\ asked = "rest"
    /\ written = "rest" /\ appended = "rest" /\ loaded = "rest" /\ stale = "rest"
DeskRests ==
    /\ jobs = "rest" /\ checkpoints = "rest" /\ schedules = "rest" /\ claimed = "rest"
    /\ started = "rest" /\ workers = "rest" /\ alerts = "rest"

StorageInit ==
    \/ part = "schema" /\ Init /\ pc = "rest" /\ PagedRests /\ CacheRests /\ StoreRests /\ DeskRests
    \/ part = "paged" /\ Paged!Init /\ SchemaRests /\ CacheRests /\ StoreRests /\ DeskRests
    \/ part = "cache" /\ Cache!Init /\ SchemaRests /\ PagedRests /\ StoreRests /\ DeskRests
    \/ part = "store" /\ Store!Init /\ SchemaRests /\ PagedRests /\ CacheRests /\ DeskRests
    \/ part = "desk" /\ Desk!Init /\ pc = "rest" /\ SchemaRests /\ PagedRests /\ CacheRests /\ StoreRests

SchemaSteps ==
    part = "schema" /\ Next /\ UNCHANGED <<part, pc, pagedVars, cacheVars, storeVars, deskVars>>
PagedSteps ==
    part = "paged" /\ Paged!Next /\ UNCHANGED <<part, schemaVars, cacheVars, storeVars, deskVars>>
CacheSteps ==
    part = "cache" /\ Cache!Next /\ UNCHANGED <<part, schemaVars, pagedVars, storeVars, deskVars>>
StoreSteps ==
    part = "store" /\ Store!Next /\ UNCHANGED <<part, schemaVars, pagedVars, cacheVars, deskVars>>
DeskSteps ==
    part = "desk" /\ Desk!Next /\ UNCHANGED <<part, pc, schemaVars, pagedVars, cacheVars, storeVars>>
\* A database, a cache, a table or a desk may be left alone; a caller of the paged downloads
\* goes on as long as the bound on its runs lets it, and no run may hang.
Through ==
    /\ \/ part \in {"schema", "cache", "store", "desk"}
       \/ part = "paged" /\ pc = "idle" /\ run = MaxRuns
    /\ UNCHANGED allVars

StorageNext == SchemaSteps \/ PagedSteps \/ CacheSteps \/ StoreSteps \/ DeskSteps \/ Through
StorageSpec == StorageInit /\ [][StorageNext]_allVars

-----------------------------------------------------------------------------
\* migrations/versions, models/entities.py, schema.py.  The revision tells the tables of a
\* database, at the head they serve every model, no reference dangles after any statement, and
\* a command fails only on the chain run on no file.
SchemaIsServed ==
    part = "schema" => RevisionTellsTheSchema /\ HeadServesTheModels /\ ReferencesStand /\ ScriptsApply

\* orats/service.py, databento/service.py, fixture_transport.py.  No row is accepted twice, a
\* run holds whole pages without a gap, and resuming leaves nothing out.
ImportsAreWhole == part = "paged" => Paged!NoRowTwice /\ Paged!PagesAreWhole /\ Paged!NothingMissing

\* manager.py:92-128, 164-206.  What get hands out is what some set wrote, unexpired when get was
\* called, and never older than a write that was complete by then; left alone, get and cleanup
\* unlink only what is expired or corrupt, and cleanup leaves nothing that was expired and
\* counts what it removed.
CacheIsSound ==
    /\ [](part = "cache" => Cache!TypeOK)
    /\ [][part = "cache" => /\ Cache!GenuineHit /\ Cache!FreshHit
                            /\ Cache!DeadRemoved /\ Cache!CompleteCleanup]_allVars

\* database/provider_operations.py.  The events of a job are numbered without a gap, no two
\* artifacts share a checksum, and a job's status is that of its last event unless a session
\* appended to a job it had kept while another changed it.
StoreIsConsistent == part = "store" => Store!RecordsAreDistinct /\ Store!StatusIsLastEvent

\* provider_operations.py, provider_runtime.py.  A schedule due is begun once, a completed job
\* has all its pages, a job nobody works on can be gone on with, and an open alert counts what
\* it was raised with.
DeskIsSound == part = "desk" => Desk!TypeOK /\ Desk!DeskIsOrderly /\ Desk!AlertsAreCounted

\* What was brought in stands: a page completed takes the run further or is its last, the first
\* response accepted for a page stays, and what is committed of a job stays as it was committed.
BroughtInStands ==
    /\ [][part = "paged" => Paged!PageAdvances]_<<pc, pagedVars>>
    /\ [][part = "store" => Store!KeepsHistory]_storeVars
    /\ [][part = "desk" => Desk!KeepsResponses]_deskVars
=============================================================================
