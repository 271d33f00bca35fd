--------------------------- MODULE ProviderStore ---------------------------
(***************************************************************************)
(* ProviderOperationsRepository (backend/database/provider_operations.py)  *)
(* in the transactions of DatabaseSessionManager.session_scope: several    *)
(* sessions create jobs and artifacts and append the events of jobs in one *)
(* database.  Every statement reads what is committed when it runs; a row  *)
(* a unique constraint refuses waits for the transaction that holds it.    *)
(***************************************************************************)
EXTENDS Integers, FiniteSets

CONSTANTS
    Session,
    Job, Artifact,  \* job_id and artifact_id; two jobs never get the same one
    Checksum,
    Status,         \* statuses a caller appends, "cancelled" among them
    MaxEvents,      \* bound: events of a job
    MaxCalls        \* bound: repository calls in one session_scope

ConstantsType ==
    /\ {"planned", "cancelled"} \subseteq Status /\ Job \cap Artifact = {}
    /\ {MaxEvents, MaxCalls} \subseteq Nat /\ MaxCalls > 0

Entity == Job \cup Artifact
\* The columns of a row by name: of provider_jobs, or of provider_operational_artifacts.  An
\* entity without a row has no columns, and an UPDATE has those it names.
NoColumns == [name \in {} |-> name]
JobRow(c) == [checksum |-> c, status |-> "planned", cancelled |-> FALSE]
ArtifactRow(c) == [checksum |-> c]
Stands(row) == row # NoColumns
\* New columns, or events, over old ones.
Over(new, old) == [x \in DOMAIN new \cup DOMAIN old |-> IF x \in DOMAIN new THEN new[x] ELSE old[x]]

VARIABLES
    rows,       \* committed: [entity -> columns]
    events,     \* committed: [job -> [sequence -> status]]
    pc,         \* of each session
    calls,      \* repository calls of the scope so far
    asked,      \* the running call's arguments and the sequence it has counted
    written,    \* columns the transaction has inserted or updated: [entity -> columns]
    appended,   \* events it has inserted: [job -> [sequence -> status]]
    loaded,     \* the session's identity map: [job -> columns]
    stale       \* jobs updated by a session that had kept columns others had changed since

committed == <<rows, events, stale>>
transaction == <<written, appended, loaded>>
vars == <<committed, pc, calls, asked, transaction>>

NoEvents == [n \in {} |-> "planned"]
NotAsked == [id |-> "none", value |-> "none", sequence |-> 0]

Clean(s) ==
    /\ pc' = [pc EXCEPT ![s] = "open"] /\ calls' = [calls EXCEPT ![s] = 0]
    /\ asked' = [asked EXCEPT ![s] = NotAsked]
    /\ written' = [written EXCEPT ![s] = [e \in Entity |-> NoColumns]]
    /\ appended' = [appended EXCEPT ![s] = [j \in Job |-> NoEvents]]
    /\ loaded' = [loaded EXCEPT ![s] = [j \in Job |-> NoColumns]]

Init ==
    /\ rows = [e \in Entity |-> NoColumns] /\ events = [j \in Job |-> NoEvents] /\ stale = {}
    /\ pc = [s \in Session |-> "open"] /\ calls = [s \in Session |-> 0]
    /\ asked = [s \in Session |-> NotAsked]
    /\ written = [s \in Session |-> [e \in Entity |-> NoColumns]]
    /\ appended = [s \in Session |-> [j \in Job |-> NoEvents]]
    /\ loaded = [s \in Session |-> [j \in Job |-> NoColumns]]

-----------------------------------------------------------------------------
(* What a statement of session s sees: its own changes over what is committed. *)

Seen(s, e) == Over(written[s][e], rows[e])
SeenEvents(s, j) == DOMAIN events[j] \cup DOMAIN appended[s][j]

Begin(s, to, call) ==
    /\ pc[s] = "open" /\ calls[s] < MaxCalls
    /\ pc' = [pc EXCEPT ![s] = to]
    /\ calls' = [calls EXCEPT ![s] = @ + 1]
    /\ asked' = [asked EXCEPT ![s] = call]
Return(s) == pc' = [pc EXCEPT ![s] = "open"] /\ asked' = [asked EXCEPT ![s] = NotAsked]

\* session_scope: commit, or roll back what raised, in the repository or in the caller.
Rollback(s) ==
    /\ pc[s] # "open" \/ calls[s] > 0
    /\ Clean(s) /\ UNCHANGED committed
Commit(s) ==
    /\ pc[s] = "open" /\ calls[s] > 0
    /\ rows' = [e \in Entity |-> Seen(s, e)]
    /\ events' = [j \in Job |-> Over(events[j], appended[s][j])]
    /\ Clean(s) /\ UNCHANGED stale

\* The identity map keeps the columns a row had when the session first loaded it.
Loaded(s, j) == IF Stands(loaded[s][j]) THEN loaded[s][j] ELSE Seen(s, j)
Load(s, j, columns) == loaded' = [loaded EXCEPT ![s][j] = columns]

-----------------------------------------------------------------------------
(* create_job and persist_artifact: a SELECT, then an INSERT *)

Conflicts(s, e, c) == Seen(s, e).checksum # c

Find(s, e, c) ==
    /\ Begin(s, "insert", [id |-> e, value |-> c, sequence |-> 0])
    /\ ~Stands(Seen(s, e))
    /\ UNCHANGED <<committed, transaction>>
\* The row is there: it is returned, unless its checksum is another (Rollback, then).
Found(s, e, c) ==
    /\ pc[s] = "open" /\ calls[s] < MaxCalls
    /\ Stands(Seen(s, e)) /\ ~Conflicts(s, e, c)
    /\ calls' = [calls EXCEPT ![s] = @ + 1]
    /\ IF e \in Job THEN Load(s, e, Loaded(s, e)) ELSE UNCHANGED loaded
    /\ UNCHANGED <<committed, pc, asked, written, appended>>

\* The unique constraints: of the identifiers, and of the checksums of artifacts.
Inserted(columns) == "checksum" \in DOMAIN columns
ClashIgnored(e, c, table) == FALSE                                  \* mutant
Clash(e, c, table) ==
    \/ Inserted(table[e])
    \/ e \in Artifact /\ \E a \in Artifact : Inserted(table[a]) /\ table[a].checksum = c
Insert(s) ==
    LET e == asked[s].id
        c == asked[s].value
        row == IF e \in Job THEN JobRow(c) ELSE ArtifactRow(c)
    IN  /\ pc[s] = "insert"
        /\ ~Clash(e, c, rows) /\ \A t \in Session : ~Clash(e, c, written[t])
        /\ written' = [written EXCEPT ![s][e] = row]
        /\ IF e \in Job THEN Load(s, e, row) ELSE UNCHANGED loaded
        /\ Return(s)
        /\ UNCHANGED <<committed, calls, appended>>

-----------------------------------------------------------------------------
(* append_event: the events are counted, the new one is flushed by the SELECT of the job *)

SequenceFromZero(s, j) == Cardinality(SeenEvents(s, j))             \* mutant
NextSequence(s, j) == Cardinality(SeenEvents(s, j)) + 1

Count(s, j, status) ==
    /\ NextSequence(s, j) <= MaxEvents
    /\ Begin(s, "append", [id |-> j, value |-> status, sequence |-> NextSequence(s, j)])
    /\ UNCHANGED <<committed, transaction>>

\* UNIQUE (job_id, sequence): a committed event there already is an IntegrityError, one of
\* another transaction makes this one wait.
Taken(j, n) == n \in DOMAIN events[j] \/ \E t \in Session : n \in DOMAIN appended[t][j]
\* Only the columns that differ from those loaded are updated.
Differing(new, old) ==
    LET names == {name \in DOMAIN new : new[name] # old[name]}
    IN  [name \in names |-> new[name]]

\* What append_event assigns to the job.
StatusOnly(status) == [status |-> status]                           \* mutant
Assigned(status) == [status |-> status, cancelled |-> status = "cancelled"]

\* The identity map refers to a row weakly: it keeps the columns of a row the caller kept.
Append_event(s, kept) ==
    LET j == asked[s].id
        status == asked[s].value
        old == IF kept THEN Loaded(s, j) ELSE Seen(s, j)
        new == Assigned(status)
    IN  /\ pc[s] = "append"
        /\ ~Taken(j, asked[s].sequence)
        /\ Stands(Seen(s, j))       \* KeyError
        /\ appended' = [appended EXCEPT ![s][j] = Over([n \in {asked[s].sequence} |-> status], @)]
        /\ Load(s, j, Over(new, old))
        /\ written' = [written EXCEPT ![s][j] = Over(Differing(new, old), @)]
        /\ stale' = IF old = Seen(s, j) THEN stale ELSE stale \cup {j}
        /\ Return(s)
        /\ UNCHANGED <<rows, events, calls>>

Next ==
    \E s \in Session :
        \/ Rollback(s) \/ Commit(s) \/ Insert(s) \/ (\E kept \in BOOLEAN : Append_event(s, kept))
        \/ \E e \in Entity, c \in Checksum : Find(s, e, c) \/ Found(s, e, c)
        \/ \E j \in Job, status \in Status : Count(s, j, status)
Spec == Init /\ [][Next]_vars

-----------------------------------------------------------------------------
EventsOf(j) == Cardinality(DOMAIN events[j])
Exists(e) == Stands(rows[e])

TypeOK ==
    /\ \A e \in Entity : Stands(rows[e]) => Inserted(rows[e]) /\ rows[e].checksum \in Checksum
    /\ \A j \in Job : DOMAIN events[j] \subseteq 1 .. MaxEvents
                      /\ \A n \in DOMAIN events[j] : events[j][n] \in Status
    /\ pc \in [Session -> {"open", "insert", "append"}]
    /\ calls \in [Session -> 0 .. MaxCalls]
    /\ \A s \in Session, j \in Job : Stands(loaded[s][j]) => loaded[s][j].status \in Status
    /\ stale \subseteq Job

\* provider_operations.py:49, 126-130.  However many sessions append at once, the events of a
\* job are numbered from one without a gap or a double, only a job that exists has any, and no
\* two artifacts share a checksum.
RecordsAreDistinct ==
    /\ TypeOK
    /\ \A j \in Job : /\ DOMAIN events[j] = 1 .. EventsOf(j)
                      /\ EventsOf(j) > 0 => Exists(j)
    /\ \A a, b \in Artifact : Exists(a) /\ Exists(b) /\ a # b => rows[a].checksum # rows[b].checksum

\* provider_operations.py:108-111, 170-173.  The history is append-only: an event, a job's
\* request and an artifact stay as they were first committed.
KeepsHistory ==
    /\ \A j \in Job : \A n \in DOMAIN events[j] :
          n \in DOMAIN events'[j] /\ events'[j][n] = events[j][n]
    /\ \A e \in Entity : Exists(e) => Stands(rows'[e]) /\ rows'[e].checksum = rows[e].checksum
HistoryIsKept == [][KeepsHistory]_vars

\* provider_operations.py:131-137.  A job's status is that of its last event, and cancelled says
\* whether that is "cancelled", unless a session appended to a job it had kept while another one
\* changed it: its UPDATE names only the columns that differ from those it kept (README).
StatusIsLastEvent ==
    \A j \in Job \ stale : EventsOf(j) > 0 =>
        /\ rows[j].status = events[j][EventsOf(j)]
        /\ rows[j].cancelled = (rows[j].status = "cancelled")
=============================================================================
