----------------------------- MODULE PagedImport -----------------------------
(***************************************************************************)
(* The paged downloads of the data providers: OratsAdapter.run (backend/   *)
(* data/orats/service.py), DatabentoAdapter.run (databento/service.py) and *)
(* collect_batches (fixture_transport.py), over a transport that may fail, *)
(* answer late with an earlier page, skip one or not advance, and a caller *)
(* that keeps what a run returned and resumes from its cursor.             *)
(***************************************************************************)
EXTENDS Integers, Sequences, FiniteSets, SequencesExt

CONSTANTS
    Adapter,    \* "orats", "databento" and "fixture", or some of them
    Content,    \* the provider's pages: a sequence of sequences of rows
    Bad,        \* rows the normalizer rejects
    Sequence,   \* [row -> Nat]: the provider's sequence number of a row
    Attempts,   \* max_attempts, maximum_attempts, attempts
    OmitsCursor,    \* those whose provider may say there is more and give no cursor
    MaxFaults,  \* bound: faults of the transport
    MaxRuns     \* bound: runs the caller starts

Pages == Len(Content)
Row == UNION {ToSet(Content[p]) : p \in 1 .. Pages}

ConstantsType ==
    /\ Adapter \subseteq {"orats", "databento", "fixture"} /\ OmitsCursor \subseteq Adapter
    /\ Content \in Seq(Seq(Row)) /\ Pages > 0 /\ Bad \subseteq Row /\ Sequence \in [Row -> Nat]
    /\ Attempts > 0 /\ {Attempts, MaxFaults, MaxRuns} \subseteq Nat

VARIABLES
    adapter,    \* the one at work
    pc,         \* "idle", "request", "check" or "ended"
    run,        \* number of runs started
    page,       \* page, batch: counted from 1 in each run
    start,      \* resume_cursor, continuation of the request
    cursor,     \* cursor, continuation: the provider's page asked for; 1 is None
    attempt,    \* failed attempts at this page
    response,   \* [number, at, next]: its page number, whose content, its continuation
    seen,       \* seen_pages, seen_batches
    records, quarantine,    \* rows accepted, rows refused (row failures of databento)
    failures,   \* their codes, the flag cancelled of a result among them
    completed,  \* completed_pages
    merged,     \* rows the caller holds from all runs, quarantined ones included
    faults

local == <<page, attempt, response, seen, records, quarantine, failures, completed>>
vars == <<adapter, pc, run, start, local, cursor, merged, faults>>
NoResponse == [number |-> 0, at |-> 1, next |-> 1]

Init ==
    /\ adapter \in Adapter /\ pc = "idle" /\ run = 0 /\ start = 1 /\ cursor = 1
    /\ page = 1 /\ attempt = 0 /\ response = NoResponse /\ seen = {}
    /\ records = <<>> /\ quarantine = {} /\ failures = <<>> /\ completed = <<>>
    /\ merged = {} /\ faults = 0

\* The caller starts, or resumes from the cursor the last run returned; collect_batches
\* has no cursor to resume from.
Run ==
    /\ pc = "idle" /\ run < MaxRuns
    /\ run' = run + 1 /\ pc' = "request"
    /\ cursor' = IF adapter = "fixture" THEN 1 ELSE cursor
    /\ start' = cursor'
    /\ page' = 1 /\ attempt' = 0 /\ response' = NoResponse /\ seen' = {}
    /\ records' = <<>> /\ quarantine' = {} /\ failures' = <<>> /\ completed' = <<>>
    /\ UNCHANGED <<adapter, merged, faults>>

EndWith(code) ==
    /\ pc' = "ended"
    /\ failures' = IF code = "none" THEN failures ELSE Append(failures, code)

Cancelled ==
    /\ pc = "request" /\ EndWith("cancelled")
    /\ attempt = 0 \/ adapter = "fixture"
    /\ UNCHANGED <<adapter, run, start, cursor, page, attempt, response, seen, records, quarantine, completed,
                   merged, faults>>

-----------------------------------------------------------------------------
(* The transport. *)

Fault == faults < MaxFaults /\ faults' = faults + 1
Answer(number, at, next) ==
    /\ pc = "request" /\ pc' = "check"
    /\ response' = [number |-> number, at |-> at, next |-> next]
    /\ UNCHANGED <<adapter, run, start, cursor, page, attempt, seen, records, quarantine, failures, completed, merged>>
Right == Answer(page, cursor, cursor + 1) /\ UNCHANGED faults
\* A page of this run again, asked for by an attempt that was given up.
Late == Fault /\ cursor > start /\ Answer(page - 1, cursor - 1, cursor)
Skipped == Fault /\ cursor < Pages /\ Answer(page + 1, cursor + 1, cursor + 2)
\* The cursor asked with comes back; on the first page, that is none at all.
Stuck == Fault /\ (cursor > 1 \/ adapter \in OmitsCursor) /\ Answer(page, cursor, cursor)

\* The attempt fails; the last one, or one that cannot be retried, ends the run.
AttemptsLeft == attempt + 1 < Attempts
Error(retryable) ==
    /\ Fault /\ pc = "request"
    /\ IF retryable /\ AttemptsLeft
       THEN attempt' = attempt + 1 /\ UNCHANGED <<pc, failures>>
       ELSE EndWith("transport_failure") /\ UNCHANGED attempt
    /\ UNCHANGED <<adapter, run, start, cursor, page, response, seen, records, quarantine, completed, merged>>

-----------------------------------------------------------------------------
(* What the adapters make of a response. *)

Checksum(at) == Content[at]
PageKey == <<IF adapter = "orats" THEN response.number ELSE page, Checksum(response.at)>>
Duplicate == PageKey \in seen
OutOfOrderNever == FALSE                                            \* mutant
OutOfOrder == response.number # page
HasMore == response.at < Pages
StalledNever == FALSE                                               \* mutant
\* orats does not take no cursor for a stalled one.
Stalled == response.next = cursor /\ (adapter = "orats" => cursor > 1)

\* orats asks for a duplicate first; the others, once the number has been found right.
Code ==
    IF adapter = "orats" /\ Duplicate THEN "duplicate_batch"
    ELSE IF OutOfOrder THEN "missing_batch"
    ELSE IF Duplicate THEN "duplicate_batch" ELSE "none"

\* Rows of one page, one after the other: databento also refuses a sequence number below
\* the last one accepted or found double (the provider has one instrument here).
LastSequence(rows) == IF rows = <<>> THEN 0 ELSE Sequence[Last(rows)]
Regresses(row, before) == adapter = "databento" /\ Sequence[row] < before
DuplicateKept(row, rows) == FALSE                                   \* mutant
IsDuplicate(row, rows) == row \in ToSet(rows)
Take(state, row) ==
    IF row \in Bad \/ Regresses(row, state.last)
    THEN [state EXCEPT !.refused = @ \cup {row}]
    ELSE IF IsDuplicate(row, state.rows) THEN [state EXCEPT !.last = Sequence[row]]
    ELSE [state EXCEPT !.rows = Append(@, row), !.last = Sequence[row]]
Consume(rows, refused, last, content) ==
    IF adapter = "fixture" THEN [rows |-> rows \o content, refused |-> refused, last |-> last]
    ELSE LET after[n \in 0 .. Len(content)] ==
                 IF n = 0 THEN [rows |-> rows, refused |-> refused, last |-> last]
                 ELSE Take(after[n - 1], content[n])
         IN  after[Len(content)]

CursorSkips == response.next + 1                                    \* mutant
NextCursor == response.next

Refuse ==
    /\ pc = "check" /\ Code # "none" /\ EndWith(Code)
    /\ UNCHANGED <<adapter, run, start, cursor, page, attempt, response, seen, records, quarantine, completed,
                   merged, faults>>
Accept ==
    /\ pc = "check" /\ Code = "none"
    /\ LET c == Consume(records, quarantine, LastSequence(records), Content[response.at])
       IN  records' = c.rows /\ quarantine' = c.refused
    /\ completed' = Append(completed, page)
    /\ seen' = seen \cup {PageKey}
    /\ attempt' = 0
    /\ IF ~HasMore THEN EndWith("none") /\ UNCHANGED <<cursor, page>>
       ELSE IF Stalled THEN EndWith("stalled_continuation") /\ UNCHANGED <<cursor, page>>
       ELSE /\ cursor' = NextCursor /\ page' = page + 1
            /\ pc' = "request" /\ UNCHANGED failures
    /\ UNCHANGED <<adapter, run, start, response, merged, faults>>

\* The run returns.  What collect_batches raises leaves the caller with nothing.
Return ==
    /\ pc = "ended" /\ pc' = "idle"
    /\ merged' = IF adapter = "fixture" /\ failures # <<>> THEN merged
                 ELSE merged \cup ToSet(records) \cup quarantine
    /\ UNCHANGED <<adapter, run, start, local, cursor, faults>>

Next ==
    \/ Run \/ Cancelled \/ Right \/ Late \/ Skipped \/ Stuck
    \/ \E retryable \in BOOLEAN : Error(retryable)
    \/ Refuse \/ Accept \/ Return
Spec == Init /\ [][Next]_vars

-----------------------------------------------------------------------------
Clean == failures = <<>>
FromPages(S) == UNION {ToSet(Content[p]) : p \in S}

TypeOK ==
    /\ pc \in {"idle", "request", "check", "ended"}
    /\ run \in 0 .. MaxRuns /\ start \in 1 .. Pages /\ page \in 1 .. Pages /\ cursor \in 1 .. Pages
    /\ attempt \in 0 .. Attempts - 1
    /\ response \in [number : 0 .. Pages + 1, at : 1 .. Pages, next : 1 .. Pages + 2]
    /\ records \in Seq(Row) /\ quarantine \subseteq Row /\ merged \subseteq Row
    /\ failures \in Seq({"cancelled", "transport_failure", "missing_batch", "duplicate_batch",
                         "stalled_continuation"})
    /\ completed \in Seq(1 .. Pages) /\ faults \in 0 .. MaxFaults

\* orats/service.py:148-155, databento/service.py:77-98.  Whatever the transport did, a run of
\* these two accepts no row twice, and no row it refused.
NoRowTwice ==
    /\ TypeOK
    /\ adapter # "fixture" => IsInjective(records) /\ ToSet(records) \cap Bad = {}

\* orats/service.py:81-98, fixture_transport.py:55-81.  A run holds the rows of the
\* pages it completed, each whole, from the one it started at and without a gap: a late or a
\* skipped answer never passes for the page asked for.
PagesAreWhole ==
    ToSet(records) \cup quarantine = FromPages(start .. start + Len(completed) - 1)

\* orats/service.py:53-69, 104-106.  The cursor a run returns never lies behind a page whose
\* rows the caller has not got, so resuming from it leaves no gap; and once a run ends without a
\* failure the caller holds every row of the provider, accepted or quarantined, over however
\* many broken and resumed runs it took.
NothingMissing ==
    pc = "idle" =>
        /\ adapter # "fixture" => FromPages(1 .. cursor - 1) \subseteq merged
        /\ run > 0 /\ Clean => merged = Row

\* orats/service.py:98-106.  No run goes round in circles: every page it completes takes it further or is its last.
PageAdvances == Len(completed') > Len(completed) => cursor' > cursor \/ pc' = "ended"
EveryPageAdvances == [][PageAdvances]_vars
=============================================================================
