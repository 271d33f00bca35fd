------------------------- MODULE StrategyLifecycle -------------------------
(***************************************************************************)
(* StrategyStateMachine (backend/backtesting/state_machine.py) driven over *)
(* an entry whose legs fill one by one and are reconciled by the           *)
(* MultiLegOrchestrator (orchestration.py).  The machine itself only       *)
(* accepts or refuses; the caller asks for anything at any time.           *)
(***************************************************************************)
EXTENDS Integers, Sequences, FiniteSets, SequencesExt

CONSTANTS
    Legs,           \* leg labels
    Quantity,       \* contracts per leg
    MinFill,        \* minimum_fill_ratio, in filled contracts of the whole order
    Timeout,        \* timeout_seconds
    Now,            \* bound: clock readings a caller may pass
    CancelOnIncomplete, \* cancellation_on_incomplete_fill
    MaxTransitions  \* bound: transitions recorded

ConstantsType ==
    /\ IsFiniteSet(Legs) /\ Quantity \in Nat \ {0} /\ MinFill \in 0 .. Quantity * Cardinality(Legs)
    /\ Now \subseteq Nat /\ {Timeout, MaxTransitions} \subseteq Nat
    /\ CancelOnIncomplete \in BOOLEAN

Terminal == {"closed", "cancelled", "failed"}
AfterPartialOpen == {"open", "cancelled", "failed"}
ExerciseForgotten == {}                                                          \* mutant
AfterPendingExercise == {"closed", "failed"}
ResidualRetried == {"exit_pending", "closed", "failed"}                          \* mutant
AfterPartialClose == {"closed", "failed"}

\* _ALLOWED_TRANSITIONS
Allowed == [
    configured         |-> {"waiting", "cancelled", "failed"},
    waiting            |-> {"entry_signaled", "cancelled", "failed"},
    entry_signaled     |-> {"entry_pending", "cancelled", "failed"},
    entry_pending      |-> {"partially_open", "open", "cancelled", "failed"},
    partially_open     |-> AfterPartialOpen,
    open               |-> {"management_pending", "exit_signaled", "roll_signaled", "expired", "failed"},
    management_pending |-> {"open", "exit_signaled", "roll_signaled", "failed"},
    exit_signaled      |-> {"exit_pending", "failed"},
    exit_pending       |-> {"partially_closed", "closed", "failed"},
    partially_closed   |-> AfterPartialClose,
    roll_signaled      |-> {"roll_pending", "failed"},
    roll_pending       |-> {"open", "partially_open", "failed"},
    expired            |-> {"pending_exercise", "closed"},
    pending_exercise   |-> AfterPendingExercise,
    closed |-> {}, cancelled |-> {}, failed |-> {}]
State == DOMAIN Allowed

VARIABLES
    state, sequence, transitions,   \* the machine
    filled,     \* filled contracts per leg
    elapsed,    \* since the entry order
    event       \* the last FillReconciliationEvent, if any

machine == <<state, sequence, transitions>>
order == <<filled, elapsed, event>>
vars == <<machine, order>>

Init ==
    /\ state = "configured" /\ sequence = 0 /\ transitions = <<>>
    /\ filled = [l \in Legs |-> 0] /\ elapsed = 0 /\ event = {}

\* _assert_can_transition, _assert_guards, _assert_ordering, in that order; each raises
\* before anything is assigned.
LastTime == IF transitions = <<>> THEN 0 ELSE Last(transitions).time
InOrderAlways(time) == TRUE                                         \* mutant
InOrder(time) == time >= LastTime
Accepts(next, time, guards) == next \in Allowed[state] /\ guards /\ InOrder(time)

NextNumber == sequence + 1
Transition(next, time, guards) ==
    /\ Accepts(next, time, guards)
    /\ Len(transitions) < MaxTransitions
    /\ sequence' = sequence + 1
    /\ state' = next
    /\ transitions' = Append(transitions, [number |-> NextNumber, prior |-> state,
                                           next |-> next, time |-> time])
    /\ UNCHANGED order
Refuse(next, time, guards) == ~Accepts(next, time, guards) /\ UNCHANGED vars

\* The caller has been filled on a leg, or time has passed.
Fill(l) ==
    /\ state \in {"entry_pending", "partially_open"}
    /\ filled[l] < Quantity
    /\ filled' = [filled EXCEPT ![l] = @ + 1]
    /\ UNCHANGED <<machine, elapsed, event>>
Wait(t) ==
    /\ state \in {"entry_pending", "partially_open"}
    /\ t \in Now /\ t > elapsed
    /\ elapsed' = t /\ UNCHANGED <<machine, filled, event>>

\* The sum of the fills, counted contract by contract.
Filled == Cardinality({c \in Legs \X (1 .. Quantity) : c[2] <= filled[c[1]]})
Total == Quantity * Cardinality(Legs)
TimedOutLate == elapsed > Timeout                                   \* mutant
TimedOut == elapsed >= Timeout

\* reconcile_partial_fills; the ratio is kept as filled contracts out of Total.
Reconcile ==
    LET cancelled == CancelOnIncomplete /\ Filled < MinFill /\ TimedOut
    IN  /\ event' = {[ratio |-> Filled,
                     residual |-> {l \in Legs : filled[l] < Quantity},
                     retry |-> Filled < Total /\ ~cancelled /\ ~TimedOut,
                     timed_out |-> TimedOut,
                     cancelled |-> cancelled,
                     escalated |-> TimedOut /\ Filled < MinFill,
                     at |-> elapsed]}
        /\ UNCHANGED <<machine, filled, elapsed>>

Next ==
    \/ \E next \in State, time \in Now, guards \in BOOLEAN :
          Transition(next, time, guards) \/ Refuse(next, time, guards)
    \/ \E l \in Legs : Fill(l)
    \/ \E t \in Now : Wait(t)
    \/ Reconcile
Spec == Init /\ [][Next]_vars

-----------------------------------------------------------------------------
Live == State \ Terminal
Exiting == {"exit_pending", "partially_closed"}
\* Where the table leads from s within six transitions.
Further(S) == S \cup UNION {Allowed[r] : r \in S}
Reach(s) == Further(Further(Further(Further(Further(Further({s}))))))

TypeOK ==
    /\ state \in State /\ sequence \in 0 .. MaxTransitions
    /\ transitions \in Seq([number : 1 .. MaxTransitions, prior : Live, next : State, time : Now])
    /\ filled \in [Legs -> 0 .. Quantity] /\ elapsed \in Now \cup {0}
    /\ event \subseteq [ratio : 0 .. Total, residual : SUBSET Legs, retry : BOOLEAN, timed_out : BOOLEAN,
                  cancelled : BOOLEAN, escalated : BOOLEAN, at : Now \cup {0}]

\* state_machine.py:234-278.  The records tell the machine's whole past: numbered without a
\* gap, each starting where the last one ended, never back in time, the last one being now;
\* and what they tell of a closed position is that it was open.
RecordsTellThePast ==
    /\ TypeOK /\ sequence = Len(transitions)
    /\ \A i \in DOMAIN transitions :
          /\ transitions[i].number = i
          /\ transitions[i].prior = IF i = 1 THEN "configured" ELSE transitions[i-1].next
          /\ i > 1 => transitions[i-1].time <= transitions[i].time
    /\ state = IF transitions = <<>> THEN "configured" ELSE Last(transitions).next
    /\ state = "closed" => \E i \in DOMAIN transitions : transitions[i].next = "open"

\* state_machine.py:121-222.  No state is a trap: closing, cancelling or failing stays
\* possible from wherever the machine is ...
CanStillEnd == Reach(state) \cap Terminal # {}
\* ... and a position on its way out never comes back to the market, nor goes round in a circle.
StaysOut ==
    state \in Exiting => /\ state' \in Exiting \cup {"closed", "failed"}
                         /\ state \notin Reach(state')
ExitIsOneWay == [][StaysOut]_state

\* orchestration.py:175-210.  The verdict on a partly filled entry: a full order is neither
\* retried nor cancelled, nothing is retried from the timeout on, what is below the minimum
\* by then is escalated, and nothing is cancelled without being escalated.
VerdictIsSafe == \A e \in event :
    /\ e.ratio = Total => ~e.retry /\ ~e.cancelled /\ e.residual = {}
    /\ e.at >= Timeout => ~e.retry /\ (e.ratio < MinFill => e.escalated)
    /\ e.cancelled => e.escalated /\ e.residual # {}
    /\ e.at < Timeout /\ e.ratio < Total => e.retry
=============================================================================
