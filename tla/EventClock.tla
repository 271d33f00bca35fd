----------------------------- MODULE EventClock -----------------------------
(***************************************************************************)
(* HistoricalEventClock (backend/backtesting/clock.py): sessions and timed *)
(* events become one ordered stream.  The caller hands the clock its       *)
(* events one by one (Submit); Build is what the clock makes of them.      *)
(***************************************************************************)
EXTENDS Integers, Sequences, FiniteSets, SequencesExt

CONSTANTS
    Times,          \* timestamps, ordered
    Types,          \* event types, ordered by EventType.value
    Priorities,     \* priorities a caller may ask for
    Configured,     \* [subset of Types -> Nat]: EventClockConfig.event_priorities
    Hints,          \* sequence hints
    SessionOpen, SessionClose,  \* the types of the events a session brings
    Calendars,      \* the sessions of a configured range, in order
    MaxEvents       \* bound: timed events submitted

\* An event names its origin, so that two events with equal keys stay apart: the
\* payload of a ClockEvent.  A session's own events have origin 0.
ClockEvent == [time : Times, type : Types, priority : Priorities, hint : Hints,
               origin : 0 .. MaxEvents]
Session == [open : Times, close : Times, trading : BOOLEAN]

\* a session's events ask for priorities 1 and 2
ConstantsType ==
    /\ Times \cup Types \cup Priorities \cup Hints \subseteq Int
    /\ {SessionOpen, SessionClose} \cup DOMAIN Configured \subseteq Types
    /\ {1, 2} \cup {Configured[t] : t \in DOMAIN Configured} \subseteq Priorities
    /\ 0 \in Hints /\ Calendars \subseteq Seq(Session) /\ MaxEvents \in Nat

VARIABLES
    sessions,   \* the sessions of the configured range
    timed       \* the events submitted so far, in order
vars == <<sessions, timed>>

Init == sessions \in Calendars /\ timed = <<>>
Submit(e) ==
    /\ Len(timed) < MaxEvents
    /\ e.origin = Len(timed) + 1
    /\ timed' = Append(timed, e)
    /\ UNCHANGED sessions
Next == \E e \in ClockEvent : Submit(e)
Spec == Init /\ [][Next]_vars

\* _default_session_events
SessionEvent(time, type, p) ==
    [time |-> time, type |-> type, priority |-> p, hint |-> 0, origin |-> 0]
SessionEvents ==
    FlattenSeq([i \in DOMAIN sessions |->
        IF sessions[i].trading
        THEN <<SessionEvent(sessions[i].open, SessionOpen, 1),
               SessionEvent(sessions[i].close, SessionClose, 2)>>
        ELSE <<>>])
Submitted == SessionEvents \o timed
\* _validate_sessions; `lenient`: missing_session_policy is not RAISE.
SessionsRaise(lenient) ==
    \/ sessions = <<>> /\ ~lenient
    \/ \E i \in DOMAIN sessions : sessions[i].open >= sessions[i].close

-----------------------------------------------------------------------------
Priority(e) == IF e.type \in DOMAIN Configured THEN Configured[e.type] ELSE e.priority
Normalized(events) == [i \in DOMAIN events |-> [events[i] EXCEPT !.priority = Priority(events[i])]]

DedupeKeyByTime(e) == <<e.time, e.type>>                            \* mutant
DedupeKey(e) == <<e.time, e.type, e.hint>>

HasDuplicates(events) ==
    \E i, j \in DOMAIN events : i # j /\ DedupeKey(events[i]) = DedupeKey(events[j])

\* The dictionary of _dedupe keeps the place of a key's first event: KEEP_LAST puts the
\* last event of the key there.
First(events, i) == \A j \in 1 .. i - 1 : DedupeKey(events[j]) # DedupeKey(events[i])
NoneLater(events, i) == i                                           \* mutant
LastAlike(events, i) ==
    CHOOSE j \in i .. Len(events) :
        /\ DedupeKey(events[j]) = DedupeKey(events[i])
        /\ \A k \in j + 1 .. Len(events) : DedupeKey(events[k]) # DedupeKey(events[i])

Firsts(events) == {i \in DOMAIN events : First(events, i)}
Nth(places, n) == CHOOSE i \in places : Cardinality({j \in places : j <= i}) = n
Dedupe(policy, events) ==
    LET firsts == Firsts(events)
        listed == 1 .. Cardinality(firsts)
    IN  CASE policy \in {"keep_all", "raise"} -> events
          [] policy = "keep_first" -> [n \in listed |-> events[Nth(firsts, n)]]
          [] policy = "keep_last"  -> [n \in listed |-> events[LastAlike(events, Nth(firsts, n))]]

\* The sort key, compared lexicographically.
SortKeyNoHint(e) == <<e.time, e.priority, e.type, 0>>               \* mutant
SortKeyAsAsked(e) == <<e.time, e.type, e.priority, e.hint>>         \* mutant
SortKey(e) == <<e.time, e.priority, e.type, e.hint>>
LexLess(a, b) ==
    \E i \in 1 .. 4 : a[i] < b[i] /\ \A j \in 1 .. i - 1 : a[j] = b[j]

\* sorted() is stable: an event comes after every smaller one and every equal one before it.
Rank(events, i) ==
    Cardinality({j \in DOMAIN events : \/ LexLess(SortKey(events[j]), SortKey(events[i]))
                                       \/ j <= i /\ SortKey(events[j]) = SortKey(events[i])})
Sorted(events) ==
    [r \in DOMAIN events |-> events[CHOOSE i \in DOMAIN events : Rank(events, i) = r]]

Raises(policy, events) == policy = "raise" /\ HasDuplicates(events)
Build(policy, events) == Sorted(Dedupe(policy, Normalized(events)))

-----------------------------------------------------------------------------
Policies == {"keep_all", "keep_first", "keep_last", "raise"}
Accepting == {p \in Policies : ~SessionsRaise(TRUE) /\ ~Raises(p, Submitted)}
Orders(events) == {p \in [DOMAIN events -> DOMAIN events] : IsInjective(p)}

\* The events of a caller are clock events (build only reads them).
TypeOK ==
    /\ sessions \in Seq(Session)
    /\ timed \in Seq(ClockEvent) /\ Len(timed) <= MaxEvents
    /\ \A p \in Accepting : Build(p, Submitted) \in Seq(ClockEvent)

\* A stream goes forward in time, and at one time by the configured priority: what the
\* engine's snapshots and the no-look-ahead guard take for granted.
StreamIsOrdered ==
    /\ TypeOK
    /\ \A p \in Accepting : LET s == Build(p, Submitted) IN
          \A i, j \in DOMAIN s :
              i < j => \/ s[i].time < s[j].time
                       \/ s[i].time = s[j].time /\ Priority(s[i]) <= Priority(s[j])

\* Without duplicates the order in which events were handed over leaves no trace in the
\* stream: two runs whose loaders list the same events replay the same history.
OrderLeavesNoTrace ==
    HasDuplicates(Submitted) \/
        \A p \in Accepting : \A o \in Orders(Submitted) :
            Build(p, [i \in DOMAIN Submitted |-> Submitted[o[i]]]) = Build(p, Submitted)

\* clock.py: deduplication loses no moment.  Every event submitted has a representative with
\* its time, type and hint in every stream, exactly one unless duplicates are kept; and of the
\* duplicates, keep_first keeps the one handed over first, keep_last the last, so that a timed
\* event at a session's open replaces the session's own event only under keep_last.
DuplicatesAreResolved ==
    /\ \A p \in Accepting : LET s == Build(p, Submitted) IN
           \A i \in DOMAIN Submitted :
               LET e == Submitted[i]
                   alike == {j \in DOMAIN s : /\ s[j].time = e.time /\ s[j].type = e.type
                                              /\ s[j].hint = e.hint}
               IN  IF p = "keep_all" THEN \E j \in alike : s[j].origin = e.origin
                   ELSE Cardinality(alike) = 1
    /\ SessionsRaise(TRUE) \/ \A i \in DOMAIN timed :
           LET me == Len(SessionEvents) + i
               alike == {j \in DOMAIN Submitted : DedupeKey(Submitted[j]) = DedupeKey(Submitted[me])}
               Survives(p) == LET s == Build(p, Submitted) IN \E j \in DOMAIN s : s[j].origin = i
           IN  /\ Survives("keep_first") <=> \A j \in alike : me <= j
               /\ Survives("keep_last") <=> \A j \in alike : j <= me
=============================================================================
