--------------------------- MODULE BacktestEngine ---------------------------
(***************************************************************************)
(* BacktestingEngine (backend/backtesting/engine.py): the event loop, which*)
(* calls the strategy for each event and catches whatever it raises.  The  *)
(* strategy decides freely and may raise in any call; what the loop had    *)
(* already stored when it raises stays stored.  Events arrive as the clock *)
(* orders them (StreamIsOrdered of module EventClock).                     *)
(***************************************************************************)
EXTENDS Integers, Sequences, FiniteSets, SequencesExt

CONSTANTS
    MaxEvents,  \* bound: events of a run
    Times,      \* timestamps, of the events and of the records looked up
    Strict      \* NoLookAheadGuard.strict

ConstantsType == MaxEvents \in Nat /\ Times \subseteq Nat /\ Strict \in BOOLEAN

\* The event types of _process_event: the lifecycle evaluations, valuation, expiration,
\* and those that touch no position.
EventTypes == {"lifecycle", "valuation", "expiration", "other"}
Event == [type : EventTypes, time : Times]
\* A position is known by the index of the event that opened it.
Position == 1 .. MaxEvents
Row == [kind : {"event", "expiration", "failure", "open", "close"},
        event : 1 .. MaxEvents, position : 0 .. MaxEvents]

VARIABLES
    events,     \* the stream
    at,         \* index of the event being processed
    pc,         \* the loop's place in it
    open, closed,   \* state.open_positions, state.closed_positions
    todo,       \* positions the loop over open_positions has still to visit
    kept, closing,  \* updated_positions (refreshed), newly_closed
    trades, ledger, \* trade_ledger, event_ledger
    failures,   \* failed_events
    history,    \* position_history
    valued,     \* snapshots: at which event, of which positions
    seen        \* the latest record the strategy was shown at each event

loop == <<todo, kept, closing>>
books == <<open, closed, trades, ledger, failures, history, valued, seen>>
vars == <<events, at, pc, loop, books>>

Ordered(s) == \A i, j \in DOMAIN s : i < j => s[i].time <= s[j].time
Init ==
    /\ events \in {s \in UNION {[1 .. n -> Event] : n \in 0 .. MaxEvents} : Ordered(s)}
    /\ at = 1 /\ pc = "next"
    /\ open = <<>> /\ closed = <<>>
    /\ todo = <<>> /\ kept = <<>> /\ closing = <<>>
    /\ trades = <<>> /\ ledger = <<>> /\ failures = <<>> /\ history = <<>> /\ valued = <<>>
    /\ seen = <<>>

At(p) == pc = p /\ UNCHANGED events
Goto(p) == pc' = p /\ UNCHANGED at
NextEvent == pc' = "next" /\ at' = at + 1
RowOf(kind, position) == [kind |-> kind, event |-> at, position |-> position]
NoLocals == todo' = <<>> /\ kept' = <<>> /\ closing' = <<>>

\* The except clause of run: the locals of the handler are gone.
FailUnrecorded == NextEvent /\ NoLocals /\ UNCHANGED <<failures>>   \* mutant
FailEscapes == pc' = "raised" /\ UNCHANGED <<at, failures>> /\ NoLocals  \* mutant
Fail == NextEvent /\ NoLocals /\ failures' = Append(failures, at)
FailureRow == Append(ledger, RowOf("failure", 0))

\* _information_set: a record later than the event is refused by a strict guard.
VisibleAlways(time, record) == TRUE                                 \* mutant
Visible(time, record) == record <= time \/ ~Strict

LookupRaises ==
    /\ At("next") /\ at <= Len(events)
    /\ \E record \in Times : ~Visible(events[at].time, record)
    /\ Fail /\ ledger' = FailureRow
    /\ seen' = Append(seen, 0)
    /\ UNCHANGED <<open, closed, trades, history, valued>>

\* The context holds what the lookup returned; 0 stands for no dated record.
Process ==
    /\ At("next") /\ at <= Len(events)
    /\ \E record \in Times \cup {0} :
          Visible(events[at].time, record) /\ seen' = Append(seen, record)
    /\ CASE events[at].type = "lifecycle"  -> Goto("enter") /\ UNCHANGED <<todo, valued>>
         [] events[at].type = "expiration" -> Goto("expire") /\ todo' = open /\ UNCHANGED valued
         [] events[at].type = "valuation"  ->
                /\ Goto("record") /\ UNCHANGED todo
                /\ valued' = Append(valued, [event |-> at, of |-> ToSet(open)])
         [] events[at].type = "other"      -> Goto("record") /\ UNCHANGED <<todo, valued>>
    /\ ledger' = Append(ledger, RowOf("event", 0))
    /\ UNCHANGED <<open, closed, kept, closing, trades, failures, history>>

\* evaluate_entry and create_position
NoEntry ==
    /\ At("enter")
    /\ todo' = open /\ Goto("evaluate")
    /\ UNCHANGED <<kept, closing, books>>
Enter ==
    /\ At("enter")
    /\ open' = Append(open, at)
    /\ trades' = Append(trades, RowOf("open", at))
    /\ todo' = open' /\ Goto("evaluate")
    /\ UNCHANGED <<kept, closing, closed, ledger, failures, history, valued, seen>>

\* One position: marked, then kept or closed.
Hold ==
    /\ At("evaluate") /\ todo # <<>>
    /\ kept' = Append(kept, Head(todo)) /\ todo' = Tail(todo) /\ Goto("evaluate")
    /\ UNCHANGED <<closing, books>>
CloseRecorded(p) == Append(trades, RowOf("close", p))
Close ==
    /\ At("evaluate") /\ todo # <<>>
    /\ closing' = Append(closing, [position |-> Head(todo), event |-> at])
    /\ trades' = CloseRecorded(Head(todo))
    /\ todo' = Tail(todo) /\ Goto("evaluate")
    /\ UNCHANGED <<kept, open, closed, ledger, failures, history, valued, seen>>
KeepAll == open                                                     \* mutant
Keep == kept
RetiredForgotten == closed                                          \* mutant
Retired == closed \o closing
Commit ==
    /\ At("evaluate") /\ todo = <<>>
    /\ open' = Keep /\ closed' = Retired
    /\ NoLocals /\ Goto("record")
    /\ UNCHANGED <<trades, ledger, failures, history, valued, seen>>

\* _handle_expiration
Expire ==
    /\ At("expire") /\ todo # <<>>
    /\ kept' = Append(kept, Head(todo)) /\ todo' = Tail(todo) /\ Goto("expire")
    /\ ledger' = Append(ledger, RowOf("expiration", Head(todo)))
    /\ UNCHANGED <<closing, open, closed, trades, failures, history, valued, seen>>
Refresh ==
    /\ At("expire") /\ todo = <<>>
    /\ open' = kept /\ NoLocals /\ Goto("record")
    /\ UNCHANGED <<closed, trades, ledger, failures, history, valued, seen>>

\* Any call of the strategy may raise: the one for the entry, or one for a position.
StrategyRaises ==
    /\ At("enter") \/ (At("evaluate") /\ todo # <<>>) \/ (At("expire") /\ todo # <<>>)
    /\ Fail /\ ledger' = FailureRow
    /\ UNCHANGED <<open, closed, trades, history, valued, seen>>

\* The last line of _process_event.
Record ==
    /\ At("record")
    /\ history' = history \o open /\ NextEvent
    /\ UNCHANGED <<loop, open, closed, trades, ledger, failures, valued, seen>>

BuildResult ==
    /\ At("next") /\ at > Len(events)
    /\ pc' = "done"
    /\ UNCHANGED <<at, loop, books>>

Next ==
    \/ LookupRaises \/ Process \/ NoEntry \/ Enter \/ Hold \/ Close \/ Commit
    \/ Expire \/ Refresh \/ StrategyRaises \/ Record \/ BuildResult
Spec == Init /\ [][Next]_vars
FairSpec == Spec /\ WF_vars(Next)

Status == IF failures = <<>> THEN "completed" ELSE "failed"
-----------------------------------------------------------------------------
ClosedPositions == {c.position : c \in ToSet(closed)}
Opened == {r.position : r \in {r \in ToSet(trades) : r.kind = "open"}}
CloseRows == {r \in ToSet(trades) : r.kind = "close"}
Finished(i) == i < at

TypeOK ==
    /\ events \in Seq(Event) /\ Len(events) <= MaxEvents
    /\ at \in 1 .. MaxEvents + 1
    /\ pc \in {"next", "enter", "evaluate", "expire", "record", "done"}
    /\ {open, todo, kept, history} \subseteq Seq(Position)
    /\ {closed, closing} \subseteq Seq([position : Position, event : 1 .. MaxEvents])
    /\ {trades, ledger} \subseteq Seq(Row)
    /\ failures \in Seq(1 .. MaxEvents)
    /\ valued \in Seq([event : 1 .. MaxEvents, of : SUBSET Position])
    /\ seen \in Seq(Times \cup {0})

\* engine.py:182-248.  Whatever raised on the way, every position the run opened is held in
\* exactly one place: once among the open ones or once among the closed ones.
NoPositionLost ==
    /\ TypeOK
    /\ IsInjective(open) /\ IsInjective([i \in DOMAIN closed |-> closed[i].position])
    /\ ToSet(open) \cap ClosedPositions = {}
    /\ ToSet(open) \cup ClosedPositions = Opened

\* engine.py:222-236.  The trade ledger closes a position ahead of the books: a close row
\* means the position is closed by that event, unless that event failed or is under way; and
\* no position is closed without its row.
ClosesAreExplained ==
    /\ \A r \in CloseRows :
          \/ [position |-> r.position, event |-> r.event] \in ToSet(closed)
          \/ r.event \in ToSet(failures)
          \/ r.event = at
    /\ \A c \in ToSet(closed) : \E r \in CloseRows : r.position = c.position /\ r.event = c.event

\* engine.py:76-103.  No event vanishes: each finished one has its event row or failed, a
\* failed one has its failure row, and a run with a failure does not report "completed".
EveryEventAccounted ==
    /\ \A i \in DOMAIN events : Finished(i) =>
            \/ \E r \in ToSet(ledger) : r.kind = "event" /\ r.event = i
            \/ i \in ToSet(failures)
    /\ \A r \in ToSet(ledger) : r.kind = "failure" => r.event \in ToSet(failures)
    /\ (\E r \in ToSet(ledger) : r.kind = "failure") => Status = "failed"

\* guards.py:19-26 with the clock's order.  Nothing the strategy was shown at an event is
\* later than any event after it.
NoLookAhead ==
    Strict => \A i \in DOMAIN seen : \A j \in i .. Len(events) : seen[i] <= events[j].time

\* engine.py:148-151.  A valuation counts a position from the event after the one that
\* opened it until the one that closed it, and never a closed one.
ValuedWhileHeld ==
    \A i \in DOMAIN valued : \A p \in valued[i].of :
        /\ p < valued[i].event
        /\ \A c \in ToSet(closed) : c.position = p => valued[i].event < c.event

\* engine.py:102-103.  Nothing the strategy raises keeps a run from ending.
RunEnds == <>(pc = "done")
=============================================================================
