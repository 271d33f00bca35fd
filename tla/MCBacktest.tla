----------------------------- MODULE MCBacktest -----------------------------
(***************************************************************************)
(* The parts a historical backtest is made of, checked side by side: the   *)
(* settlement at expiration (Settlement, extended here), the clock, the    *)
(* engine, the strategy's states, the replay, the account, the orders and  *)
(* the allocation of capital.  Each behaviour runs one of them, the others *)
(* rest.  The constants of the parts that share a name are told apart here.*)
(***************************************************************************)
EXTENDS Settlement, Sequences, TLC

CONSTANTS
    Times, Types, Priorities, Hints, SessionOpen, SessionClose,
    Configured, Calendars, ClockEvents,                                         \* EventClock
    StreamLength, Strict,                                                       \* BacktestEngine
    Legs, OrderSize, MinFill, Timeout, Now, CancelOnIncomplete, MaxTransitions,  \* StrategyLifecycle
    Events, Branches, Main, SnapshotIds, Payloads, Unknown, MaxAppends, MaxSnapshots,   \* Replay
    Books, Configurations, Timing, Amounts, LastDay, MaxPostings,               \* Accounts
    Requests, Terms, Tapes, Ratios, Slippage, Absent, LastMoment, MaxTries,         \* Execution
    Profiles, Ids, Sizings, Settings, Capital, Unit, KellyCap, Drift,
    Actions, Rankings, MaxRuns                                                  \* Allocation

VARIABLES
    part,
    sessions, timed,
    events, at, pc, open, closed, todo, kept, closing, trades, ledger, failures, history, valued, seen,
    state, sequence, transitions, filled, elapsed, event,
    cursor, shown, snapshots, parent, root, timeline,
    account, positions, day, postings, margin, plan, outcome, verdict,
    order, terms, now, tape, ratio, asked, got, result, tries,
    problem, allocations, previous, changes, runs, decision

settlementVars == <<contract, held, settled, cash, fees, shares, quote, calls>>
clockVars == <<sessions, timed>>
engineVars == <<events, at, pc, open, closed, todo, kept, closing, trades, ledger, failures,
                history, valued, seen>>
lifecycleVars == <<state, sequence, transitions, filled, elapsed, event>>
replayVars == <<cursor, shown, snapshots, parent, root, timeline>>
accountVars == <<account, positions, day, postings, margin, plan, outcome, verdict>>
orderVars == <<order, terms, now, tape, ratio, asked, got, result, tries>>
allocationVars == <<problem, allocations, previous, changes, runs, decision>>
allVars == <<part, settlementVars, clockVars, engineVars, lifecycleVars, replayVars, accountVars,
             orderVars, allocationVars>>

-----------------------------------------------------------------------------
(* The books of the account: positions of every family, sound ones, and       *)
(* some with an event, a borrow, an uncovered leg or a restriction.            *)
Short(kind, strike) == [kind |-> kind, buys |-> FALSE, strike |-> strike, quantity |-> 2]
Long(kind, strike)  == [kind |-> kind, buys |-> TRUE, strike |-> strike, quantity |-> 2]
Shares(n) == [kind |-> "stock", buys |-> n > 0, strike |-> 0, quantity |-> IF n > 0 THEN n ELSE -n]
Plain == [definedRisk |-> TRUE, uncovered |-> FALSE, eventRisk |-> FALSE, concentration |-> 0,
          hardToBorrow |-> FALSE, assigned |-> FALSE, restricted |-> FALSE]
Position(id, family, legs, value, premium, relief, loss, scores) ==
    [id |-> id, family |-> family, legs |-> legs, marketValue |-> value, netPremium |-> premium,
     relief |-> relief, loss |-> loss, robustness |-> scores[1], risk |-> scores[2],
     liquidity |-> scores[3]] @@ Plain
Credit == Position(1, "credit_spread", <<Short("put", 5), Long("put", 2)>>, 2000, 200, 400, 100, <<1, 2, 3>>)
Condor == Position(2, "iron_condor", <<Long("put", 1), Short("put", 3), Short("call", 5), Long("call", 6)>>,
                   -1000, 300, 600, 300, <<3, 1, 2>>)
Fly    == [Position(3, "butterfly", <<Long("call", 2), Short("call", 4), Short("call", 4), Long("call", 6)>>,
                    1000, 100, 100, 100, <<2, 2, 2>>) EXCEPT !.eventRisk = TRUE]
Stock  == [Position(4, "short_stock", <<Shares(-100)>>, -2000, 0, 2600, 500, <<1, 3, 1>>)
           EXCEPT !.definedRisk = FALSE, !.hardToBorrow = TRUE, !.concentration = 30]
Broken == [Position(5, "calendar", <<Short("call", 4), Long("call", 4)>>, 1000, 200, 200, 0, <<2, 1, 1>>)
           EXCEPT !.uncovered = TRUE, !.assigned = TRUE]
Naked  == [Position(6, "uncovered_option", <<Short("put", 4)>>, -2000, 0, 300, 100, <<0, 4, 2>>)
           EXCEPT !.definedRisk = FALSE, !.restricted = TRUE]
Put    == Position(7, "cash_secured_put", <<Short("put", 3)>>, -200, 100, 500, 50, <<1, 1, 1>>)
Odd    == Position(8, "wheel", <<Long("call", 4)>>, 400, 100, 0, 0, <<1, 1, 1>>)
MCBooks == {<<Credit, Condor, Fly>>, <<Stock, Broken, Naked>>, <<Fly, Put, Odd>>}
MCAmounts == {-1000, 2000}
MCTiming == "stock_sale" :> 1
Configuration(type, unsettled, minimum) ==
    [type |-> type, settled |-> 1000, unsettled |-> unsettled, minimumExcess |-> minimum,
     house |-> 5, pending |-> 100, obliged |-> 50]
MCConfigurations == {Configuration("cash", 0, 0), Configuration("ira", 300, 500),
                     Configuration("margin", 300, 0)}

(* One type has a priority of its own; no session, or one of any kind.        *)
MCConfigured == 2 :> 1
MCCalendars == {<<>>} \cup {<<s>> : s \in [open : Times, close : Times, trading : BOOLEAN]}

(* Orders of two legs, one that takes all or nothing and one with a minimum;  *)
(* quotes that are crossed, one-sided, late or missing.                       *)
Leg(n, buys, least, all, none) ==
    [quantity |-> n, buys |-> buys, minimum |-> least, allOrNone |-> all, noFill |-> none]
MCRequests == {<<Leg(3, TRUE, 1, FALSE, FALSE), Leg(2, FALSE, 0, TRUE, FALSE)>>,
             <<Leg(4, FALSE, 2, FALSE, FALSE), Leg(1, TRUE, 0, FALSE, TRUE)>>}
MCTerms == [mode : {"exact", "next_after_delay", "nearest_prior"},
            price : {"bid", "last", "midpoint", "through_spread"}, through : {3}, delay : {1},
            fallback : BOOLEAN, least : {1}, timeout : {1}, exposure : {2}]
Quote(time, bid, ask, last) == [time |-> time, bid |-> bid, ask |-> ask, last |-> last]
MCTapes == {{}, {Quote(0, 2, 4, 3), Quote(1, Absent, 4, Absent)},
            {Quote(1, 6, 4, 2), Quote(2, 2, 6, 4)}}

(* Candidates: two that may be chosen and one that may not and has seen later; *)
(* limits wide, narrow with a reserve, and a minimum above the maximum.       *)
Profile(eligible, latest, robustness, value, volatility) ==
    [eligible |-> eligible, latest |-> latest, robustness |-> robustness, value |-> value,
     volatility |-> volatility]
MCProfiles == {Profile(TRUE, 0, 2, 1, 1), Profile(TRUE, 0, 1, 3, 2), Profile(FALSE, 1, 2, -1, 1)}
Setting(most, least, reserve, date) ==
    [maximum |-> most, minimum |-> least, reserve |-> reserve, asOf |-> date]
MCSettings == {Setting(60, 0, 0, 1), Setting(20, 0, 30, 0), Setting(10, 25, 0, 1)}
Action(id, mandatory, capital, value, risk) ==
    [id |-> id, mandatory |-> mandatory, capital |-> capital, value |-> value, risk |-> risk,
     marginal |-> id, score |-> value, age |-> capital, submitted |-> 4 - id]
MCActions == {<<Action(1, m[1], c[1], v, 1), Action(2, m[2], c[2], 1, 2), Action(3, m[3], c[3], 2, 1)>> :
                 m \in [1..3 -> BOOLEAN], c \in [1..3 -> 1..2], v \in {0, 3}}

Clock     == INSTANCE EventClock WITH MaxEvents <- ClockEvents
Engine    == INSTANCE BacktestEngine WITH MaxEvents <- StreamLength
Lifecycle == INSTANCE StrategyLifecycle WITH Quantity <- OrderSize
Tape      == INSTANCE Replay
Account   == INSTANCE Accounts WITH held <- positions
Order     == INSTANCE Execution
Portfolio == INSTANCE Allocation

ASSUME BacktestConstants ==
    /\ Clock!ConstantsType /\ Engine!ConstantsType /\ Lifecycle!ConstantsType
    /\ Tape!ConstantsType /\ Account!ConstantsType /\ Order!ConstantsType
    /\ Portfolio!ConstantsType

-----------------------------------------------------------------------------
\* a position nobody processes
SettlementRests == contract = (CHOOSE c \in Contract : TRUE) /\ Init
ClockRests == sessions = "rest" /\ timed = "rest"
EngineRests ==
    /\ events = "rest" /\ at = "rest" /\ pc = "rest" /\ open = "rest" /\ closed = "rest"
    /\ todo = "rest" /\ kept = "rest" /\ closing = "rest" /\ trades = "rest" /\ ledger = "rest"
    /\ failures = "rest" /\ history = "rest" /\ valued = "rest" /\ seen = "rest"
LifecycleRests ==
    /\ state = "rest" /\ sequence = "rest" /\ transitions = "rest"
    /\ filled = "rest" /\ elapsed = "rest" /\ event = "rest"
TapeRests ==
    /\ cursor = "rest" /\ shown = "rest" /\ snapshots = "rest"
    /\ parent = "rest" /\ root = "rest" /\ timeline = "rest"
AccountRests ==
    /\ account = "rest" /\ positions = "rest" /\ day = "rest" /\ postings = "rest"
    /\ margin = "rest" /\ plan = "rest" /\ outcome = "rest" /\ verdict = "rest"

OrderRests ==
    /\ order = "rest" /\ terms = "rest" /\ now = "rest" /\ tape = "rest" /\ ratio = "rest"
    /\ asked = "rest" /\ got = "rest" /\ result = "rest" /\ tries = "rest"
PortfolioRests ==
    /\ problem = "rest" /\ allocations = "rest" /\ previous = "rest" /\ changes = "rest"
    /\ runs = "rest" /\ decision = "rest"

OthersRest(p) ==
    /\ p # "settlement" => SettlementRests
    /\ p # "clock" => ClockRests
    /\ p # "engine" => EngineRests
    /\ p # "lifecycle" => LifecycleRests
    /\ p # "replay" => TapeRests
    /\ p # "account" => AccountRests
    /\ p # "orders" => OrderRests
    /\ p # "portfolio" => PortfolioRests

BacktestInit ==
    \/ part = "settlement" /\ Init /\ OthersRest("settlement")
    \/ part = "clock" /\ Clock!Init /\ OthersRest("clock")
    \/ part = "engine" /\ Engine!Init /\ OthersRest("engine")
    \/ part = "lifecycle" /\ Lifecycle!Init /\ OthersRest("lifecycle")
    \/ part = "replay" /\ Tape!Init /\ OthersRest("replay")
    \/ part = "account" /\ Account!Init /\ OthersRest("account")
    \/ part = "orders" /\ Order!Init /\ OthersRest("orders")
    \/ part = "portfolio" /\ Portfolio!Init /\ OthersRest("portfolio")

SettlementSteps ==
    part = "settlement" /\ Process_expiration
    /\ UNCHANGED <<part, clockVars, engineVars, lifecycleVars, replayVars, accountVars,
                 orderVars, allocationVars>>
ClockSteps ==
    part = "clock" /\ Clock!Next
    /\ UNCHANGED <<part, settlementVars, engineVars, lifecycleVars, replayVars, accountVars,
                 orderVars, allocationVars>>
EngineSteps ==
    part = "engine" /\ Engine!Next
    /\ UNCHANGED <<part, settlementVars, clockVars, lifecycleVars, replayVars, accountVars,
                 orderVars, allocationVars>>
LifecycleSteps ==
    part = "lifecycle" /\ Lifecycle!Next
    /\ UNCHANGED <<part, settlementVars, clockVars, engineVars, replayVars, accountVars,
                 orderVars, allocationVars>>
TapeSteps ==
    part = "replay" /\ Tape!Next
    /\ UNCHANGED <<part, settlementVars, clockVars, engineVars, lifecycleVars, accountVars,
                 orderVars, allocationVars>>
AccountSteps ==
    part = "account" /\ Account!Next
    /\ UNCHANGED <<part, settlementVars, clockVars, engineVars, lifecycleVars, replayVars,
                 orderVars, allocationVars>>
OrderSteps ==
    part = "orders" /\ Order!Next
    /\ UNCHANGED <<part, settlementVars, clockVars, engineVars, lifecycleVars, replayVars,
                 accountVars, allocationVars>>
PortfolioSteps ==
    part = "portfolio" /\ Portfolio!Next
    /\ UNCHANGED <<part, settlementVars, clockVars, engineVars, lifecycleVars, replayVars,
                 accountVars, orderVars>>
\* Only the tape never stops: for the others the caller may be through.
Through == part # "replay" /\ UNCHANGED allVars

BacktestNext ==
    SettlementSteps \/ ClockSteps \/ EngineSteps \/ LifecycleSteps \/ TapeSteps \/ AccountSteps
    \/ OrderSteps \/ PortfolioSteps \/ Through
\* The loop of run() is one thread that nothing blocks.
BacktestSpec == BacktestInit /\ [][BacktestNext]_allVars /\ WF_allVars(EngineSteps)

-----------------------------------------------------------------------------
\* clock.py: what the loop takes for granted of its stream.  It goes forward in time and by
\* the configured priority, the order in which distinct events are handed over leaves no trace,
\* and deduplication loses no moment and keeps the event its policy says.
StreamIsSound ==
    part = "clock" => Clock!StreamIsOrdered /\ Clock!OrderLeavesNoTrace /\ Clock!DuplicatesAreResolved

\* engine.py:76-103, 182-248.  Whatever the strategy raised on the way, every position opened
\* is held in exactly one place, the trade ledger is ahead of the books only by closes of an
\* event that failed or is under way, and each event has its row or its failure.
\* execution.py:122-194.  However often an order is retried, what is filled and what is asked
\* for add up to it.
BooksExplainThemselves ==
    /\ part = "engine" => Engine!NoPositionLost /\ Engine!ClosesAreExplained /\ Engine!EveryEventAccounted
    /\ part = "orders" => Order!OrdersAddUp

\* guards.py:19-26, engine.py:148-151.  The strategy is shown nothing later than any event still
\* to come, and a position counts in the valuations between its opening and its closing.
PresentOnly == part = "engine" => Engine!NoLookAhead /\ Engine!ValuedWhileHeld

\* engine.py:102-103.  Nothing the strategy raises keeps a run from ending.
RunEnds == (part = "engine") ~> (pc = "done")

\* state_machine.py:234-278, orchestration.py:175-210.  The records of a strategy tell its whole
\* past, every state can still end, and the verdict on a partly filled order neither retries
\* what timed out nor cancels what it does not escalate.
LifecycleIsSound ==
    part = "lifecycle" => Lifecycle!RecordsTellThePast /\ Lifecycle!CanStillEnd /\ Lifecycle!VerdictIsSafe

\* replay.py:361-390, 472-495.  Every timeline is numbered without a gap however it came about,
\* and branches said to match hold the same events.
TimelinesAreSound == part = "replay" => Tape!SequencesAreContiguous /\ Tape!ComparisonIsSound

\* state_machine.py:121-222, replay.py:332-375.  What is done is not undone: a position on its
\* way out never returns to the market; a branch starts with exactly the past its snapshot had
\* and keeps every event it holds.
NothingIsUndone ==
    /\ [][part = "lifecycle" => Lifecycle!StaysOut]_state
    /\ [][part = "replay" => Tape!KeepsHistory /\ Tape!BranchesAtSnapshot]_<<parent, timeline>>

\* cash.py, reconciliation.py, liquidation.py, margin.py.  The books reconcile only when nothing
\* is unsettled, a posting is worth the same before and after it settles, and a liquidation
\* takes what the deficit needs, no more, and is solved exactly when the candidates suffice.
\* Margin covers what a position of defined risk can lose, and a maintenance call that is paid
\* leaves no deficit.
AccountIsExact ==
    part = "account" =>
      /\ Account!TypeOK /\ Account!ReconciledIsSettled /\ Account!LiquidationIsExact
      /\ Account!MarginCoversWorst /\ Account!PaidCallsEnd

\* execution.py, quote_selection.py:54-68.  An order is retried exactly while something remains,
\* filled at the quote its policy asks for at the time, and slippage goes against it.
\* allocation.py, rebalancing.py, arbitration.py.  A portfolio is within what is free and goes to
\* the best first, the plan leads to it from whatever was held, and competing actions are
\* rejected only when what remains does not pay them.
TradesAreFair ==
    /\ part = "orders" =>
         /\ Order!TypeOK /\ Order!VerdictsAgree
         /\ Order!QuotesAreOfTheirTime /\ Order!SlippageIsAdverse
    /\ part = "portfolio" =>
         /\ Portfolio!TypeOK /\ Portfolio!PortfolioIsFunded
         /\ Portfolio!PlanLeadsThere /\ Portfolio!ArbitrationIsFair
=============================================================================
