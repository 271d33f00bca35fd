CONSTANTS
    Price = {6, 8, 10, 13}
    Strike = {8, 10}
    Quantity = {1, 2, 3}
    Multiplier = 2
    Threshold = 1
    Extrinsic = {0, 2}
    Dividend = {0, 3}
    Fee = {0, 1}
    Carry = {0}
    Settling = {"physical", "cash"}
    MaxCalls = 3
    Times = {1, 2}
    Types = {1, 2}
    Priorities = {1, 2}
    Hints = {0, 1}
    SessionOpen = 1
    SessionClose = 2
    Configured <- MCConfigured
    Calendars <- MCCalendars
    ClockEvents = 2
    StreamLength = 3
    Strict = TRUE
    Legs = {short, long}
    OrderSize = 1
    MinFill = 2
    Timeout = 2
    Now = {1, 2}
    CancelOnIncomplete = TRUE
    MaxTransitions = 8
    Events = 2
    Branches = {main, alt, other}
    Main = main
    SnapshotIds = {s1}
    Payloads = {hold, roll}
    Unknown = unknown
    MaxAppends = 2
    MaxSnapshots = 1
    Books <- MCBooks
    Configurations <- MCConfigurations
    Timing <- MCTiming
    Amounts <- MCAmounts
    LastDay = 1
    MaxPostings = 2
    Requests <- MCRequests
    Terms <- MCTerms
    Tapes <- MCTapes
    Ratios = {1, 3}
    Slippage = 1
    Absent = absent
    LastMoment = 2
    MaxTries = 2
    Profiles <- MCProfiles
    Ids = {1, 2, 3}
    Sizings = {"equal_weight", "expected_value_weighted", "robustness_weighted", "kelly_fractional", "inverse_volatility"}
    Settings <- MCSettings
    Capital = 3
    Unit = 60
    KellyCap = 1
    Drift = 3
    Actions <- MCActions
    Rankings = {"fixed_priority", "risk_first", "capital_efficiency", "highest_robustness_score", "highest_expected_value", "lowest_marginal_risk", "strategy_age_priority", "first_in_first_out", "composite_score"}
    MaxRuns = 2
SPECIFICATION BacktestSpec
INVARIANTS StreamIsSound BooksExplainThemselves PresentOnly LifecycleIsSound TimelinesAreSound AccountIsExact TradesAreFair ContractsAreConserved BooksBalance
PROPERTIES PaysIntrinsic RunEnds NothingIsUndone
