----------------------------- MODULE Persistence -----------------------------
(* Calls of the persistence services on one SQLite file: each runs in the     *)
(* session scope of session.py, a transaction that commits as a whole or is   *)
(* rolled back by the first exception.  One table of the service is watched   *)
(* at a time, with the row of the run it hangs from; a statement on another   *)
(* table may fail as well, and takes the whole call with it.                  *)
EXTENDS Services, Tables, Integers

CONSTANTS
    Clients,   \* the threads that store
    Runs, Items, Versions,
    MaxCalls,  \* bound: calls opened
    MaxFaults, \* bound: statements that fail for a reason outside the model
    Watched,   \* the tables watched: all of the services' when empty
    LeftOut    \* the tables not watched

VARIABLES
    service,   \* the service called: its header, needs and kind
    focus,     \* the statement watched, one of the service's
    header,    \* for each run the committed row of the run, or NoRow
    rows,      \* the committed rows of the table watched
    tx,        \* for each client its transaction
    calls, faults

vars == <<service, focus, header, rows, tx, calls, faults>>

ASSUME StoreConstants ==
    /\ Versions \subseteq Nat \ {0} /\ 1 \in Versions
    /\ IsFiniteSet(Items) /\ "null" \notin Items /\ "none" \notin Runs
    /\ {MaxCalls, MaxFaults} \subseteq Nat

Owners == {"run_row_id", "run_id", "session_id", "slice_id", "snapshot_id"}
NoRow == [content |-> 0, rest |-> 0]

\* the columns of a key that name the run, session, slice or snapshot a row hangs
\* from; the others tell the rows under it apart, and in the tables of the runs
\* and the sessions themselves the name is what tells two rows apart
Parent(key) ==
    IF key \subseteq Owners THEN key \cap {"run_row_id"} ELSE key \cap Owners

\* the unique keys of a table at the head revision, its own id included
UniqueKeys(w) == BootstrapTables[w.table].keys \cup (IF w.key = {"id"} THEN {w.key} ELSE {})

\* a statement with what the head revision says of its table: a row holds its run
\* when a key names it or a foreign key leads there, and its item may be blank
\* when a column of the key may be null
OnTable(w) ==
    LET decl == BootstrapTables[w.table]
    IN  [ table |-> w.table, mode |-> w.mode, key |-> w.key, unique |-> UniqueKeys(w),
          owned |-> "backtest_runs" \in decl.refs
                    \/ \E key \in UniqueKeys(w) : Parent(key) # {},
          blanks |-> IF decl.optional # {} THEN {"null"} ELSE {} ]

IsWatched(w) == w.table \notin LeftOut /\ (Watched # {} => w.table \in Watched)

\* what a second store of a row does to the first, by the kind of the service
Modes(kind) ==
    CASE kind = "latest" -> {"replace", "replace_some", "select_first"}
      [] kind = "first"  -> {"keep"}
      [] kind = "once"   -> {"create", "keep", "replace"}
      [] kind = "each"   -> {"append"}

\* the statement keeps the promise of its service
Fits(s, w) ==
    /\ s.kind \in {"latest", "first", "once", "each"} /\ w.mode \in Modes(s.kind)
    /\ w.key = {} <=> s.kind = "each"
    /\ w.key # {} => (w.owned <=> Parent(w.key) # {})
    /\ s.kind = "once" =>
        s.header # {} /\ w.owned /\ \A v \in s.header : v.mode = "create"
    /\ w.blanks = {}

\* the statements watched, one by one
ASSUME StatementsFit ==
    \A name \in DOMAIN Services : \A w \in Services[name].rows :
        IsWatched(w) => Fits(Services[name], OnTable(w))

Row(call, item) ==
    [ owner |-> IF focus.owned THEN call.run ELSE "none", item |-> item,
      content |-> call.version, rest |-> call.version, copy |-> 1 ]

\* two rows have the same values in the columns of a key, none of them null
Clash(key, row, other) ==
    /\ Parent(key) # {} => row.owner = other.owner
    /\ row.item = other.item /\ row.item # "null"

Taken(key, table, row) == {other \in table : Clash(key, row, other)}

\* the statement's ON CONFLICT names a unique key and the row breaks no other
Accepted(w, table, row) ==
    LET upserts == w.mode \in {"keep", "replace", "replace_some"}
    IN  /\ upserts => w.key \in w.unique
        /\ \A key \in w.unique \ (IF upserts THEN {w.key} ELSE {}) :
            Taken(key, table, row) \ Taken(w.key, table, row) = {}
        /\ w.mode = "create" => Taken(w.key, table, row) = {}

NextCopy(table, row) ==
    [row EXCEPT !.copy = 1 + Cardinality({other \in table :
        other.owner = row.owner /\ other.item = row.item})]

Updated(w, old, row) ==
    [ owner |-> old.owner, item |-> old.item, copy |-> old.copy, content |-> row.content,
      rest |-> IF w.mode = "replace_some" THEN old.rest ELSE row.rest ]

\* the rows of one statement, which differ in their items and so take none of one
\* another's: a row whose key is free is added, the others find theirs there
InsertAll(w, table, new) ==
    LET taken(row) == IF w.key = {} THEN {} ELSE Taken(w.key, table, row)
        added == {NextCopy(table, row) : row \in {row \in new : taken(row) = {}}}
        found == UNION {taken(row) : row \in new}
        updated == UNION {{Updated(w, old, row) : old \in taken(row)} : row \in new}
    IN  added \cup (IF w.mode = "keep" THEN table ELSE (table \ found) \cup updated)

-----------------------------------------------------------------------------
Idle == [at |-> "idle"]
Calls == [run : Runs, version : Versions, items : (SUBSET (Items \cup focus.blanks)) \ {{}}]

Init ==
    /\ \E name \in DOMAIN Services : \E w \in Services[name].rows :
        /\ IsWatched(w)
        /\ service = [field \in {"needs", "header", "kind"} |-> Services[name][field]]
        /\ focus = OnTable(w)
    /\ header \in IF service.needs = {} THEN {[run \in Runs |-> NoRow]}
                  ELSE [Runs -> {NoRow, [content |-> 1, rest |-> 1]}]
    /\ rows = {}
    /\ tx = [c \in Clients |-> Idle]
    /\ calls = 0 /\ faults = 0

Move(c, record) == tx' = [tx EXCEPT ![c] = record]

Open(c, call) ==
    /\ tx[c].at = "idle" /\ calls < MaxCalls
    /\ calls' = calls + 1
    /\ Move(c, [at |-> "open", call |-> call])
    /\ UNCHANGED <<service, focus, header, rows, faults>>

\* what the call reads before its first write, outside the write lock
Found(call) ==
    IF service.needs # {} THEN header[call.run] # NoRow
    ELSE \E row \in rows : row.item \in call.items

Check(c) ==
    /\ tx[c].at = "open"
    /\ service.needs # {} => Found(tx[c].call)
    /\ Move(c, [at |-> "checked", call |-> tx[c].call, found |-> Found(tx[c].call)])
    /\ UNCHANGED <<service, focus, header, rows, calls, faults>>

\* BacktestMutationError: the run is not there; nothing was written
Refuse(c) ==
    /\ tx[c].at = "open" /\ service.needs # {} /\ ~ Found(tx[c].call)
    /\ Move(c, Idle)
    /\ UNCHANGED <<service, focus, header, rows, calls, faults>>

Writing(c) == tx[c].at \in {"headed", "written"}

\* mutant: the first write does not wait for the lock
WriteHeaderUnlocked(c) ==
    LET call == tx[c].call
        w == CHOOSE w \in service.header : TRUE
        old == header[call.run]
        new == [content |-> call.version,
                rest |-> IF w.mode = "replace_some" /\ old # NoRow THEN old.rest
                         ELSE call.version]
    IN  /\ tx[c].at = "checked"
        /\ \A v \in service.header : v.mode = "create" => old = NoRow
        /\ Move(c, [at |-> "headed", call |-> call, found |-> tx[c].found, rows |-> rows,
                    header |-> IF service.header = {} THEN header
                               ELSE [header EXCEPT ![call.run] = new]])
        /\ UNCHANGED <<service, focus, header, rows, calls, faults>>

\* the first write takes the lock of the file and sees what is committed
WriteHeader(c) ==
    LET call == tx[c].call
        w == CHOOSE w \in service.header : TRUE
        old == header[call.run]
        new == [content |-> call.version,
                rest |-> IF w.mode = "replace_some" /\ old # NoRow THEN old.rest
                         ELSE call.version]
    IN  /\ tx[c].at = "checked"
        /\ \A d \in Clients : ~ Writing(d)
        /\ \A v \in service.header : v.mode = "create" => old = NoRow
        /\ Move(c, [at |-> "headed", call |-> call, found |-> tx[c].found, rows |-> rows,
                    header |-> IF service.header = {} THEN header
                               ELSE [header EXCEPT ![call.run] = new]])
        /\ UNCHANGED <<service, focus, header, rows, calls, faults>>

\* session.add when the SELECT found nothing, else an UPDATE of the row it found
Chosen(c) ==
    IF focus.mode # "select_first" THEN focus
    ELSE [focus EXCEPT !.mode = IF tx[c].found THEN "replace" ELSE "create"]

WriteRows(c) ==
    LET call == tx[c].call
        new == {Row(call, item) : item \in call.items}
    IN  /\ tx[c].at = "headed"
        /\ \A row \in new : Accepted(Chosen(c), tx[c].rows, row)
        /\ Move(c, [at |-> "written", call |-> call, found |-> tx[c].found,
                    rows |-> InsertAll(Chosen(c), tx[c].rows, new), header |-> tx[c].header])
        /\ UNCHANGED <<service, focus, header, rows, calls, faults>>

Commit(c) ==
    /\ tx[c].at = "written"
    /\ header' = tx[c].header /\ rows' = tx[c].rows
    /\ Move(c, Idle)
    /\ UNCHANGED <<service, focus, calls, faults>>

Again(c) == Move(c, [at |-> "open", call |-> tx[c].call])

\* a statement on another table, the commit or the process fails: everything the
\* call wrote is rolled back, and the caller calls again
Fail(c) ==
    /\ tx[c].at \in {"checked", "headed", "written"} /\ faults < MaxFaults
    /\ faults' = faults + 1
    /\ Again(c)
    /\ UNCHANGED <<service, focus, header, rows, calls>>

\* SQLite refuses the statement watched; a caller whose key is taken gives up
Reject(c) ==
    LET call == tx[c].call
        new == {Row(call, item) : item \in call.items}
        taken == \E w \in service.header : w.mode = "create" /\ header[call.run] # NoRow
    IN  /\ \/ tx[c].at = "checked" /\ taken /\ \A d \in Clients : ~ Writing(d)
           \/ tx[c].at = "headed" /\ \E row \in new : ~ Accepted(Chosen(c), tx[c].rows, row)
        /\ IF taken THEN Move(c, Idle) ELSE Again(c)
        /\ UNCHANGED <<service, focus, header, rows, calls, faults>>

Step(c) ==
    Check(c) \/ Refuse(c) \/ WriteHeader(c) \/ WriteRows(c) \/ Commit(c) \/ Reject(c)

Next == \E c \in Clients : Step(c) \/ Fail(c) \/ \E call \in Calls : Open(c, call)

\* a call that runs keeps running: its statements are not interrupted for ever
Spec == Init /\ [][Next]_vars /\ \A c \in Clients : WF_vars(Step(c))
-----------------------------------------------------------------------------
\* The type of every variable.
TypeOK ==
    /\ DOMAIN service = {"needs", "header", "kind"} /\ focus.key \subseteq UNION focus.unique
    /\ header \in [Runs -> [content : Versions \cup {0}, rest : Versions \cup {0}]]
    /\ calls \in 0 .. MaxCalls /\ faults \in 0 .. MaxFaults
    /\ \A c \in Clients : tx[c].at \in {"idle", "open", "checked", "headed", "written"}

\* The rows of a table by their key, for the abstract archive.
KeyOf(row) == [owner |-> row.owner, item |-> row.item, copy |-> row.copy]
Stored == [key \in {KeyOf(row) : row \in rows} |->
            (CHOOSE row \in rows : KeyOf(row) = key).content]

TheArchive == INSTANCE Archive WITH
    Items <- Items \cup {"null"},
    kind <- service.kind, headed <- service.header # {},
    header <- [run \in Runs |-> header[run].content], stored <- Stored

\* Whatever fails and however two calls interleave, what is committed are whole
\* calls one after another: the row of the run and every row under it, replaced
\* or kept or added as the service promises.
StoresWholeCalls == TheArchive!Spec

\* A call that is repeated after a failure ends, stored or refused: no statement
\* of any service is one SQLite would reject at the head revision for ever.
EveryCallEnds == \A c \in Clients : tx[c].at # "idle" ~> tx[c].at = "idle"

\* The columns of a row come from one call, never some from an earlier store and
\* some from a later one.
RowsAreOfOneStore == \A row \in rows : row.content = row.rest
=============================================================================
