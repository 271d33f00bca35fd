SPECIFICATION Spec
CONSTANTS
    Clients = {"c1", "c2"}
    Runs = {"r1", "r2"}
    Items = {"a"}
    Versions = {1, 2}
    MaxCalls = 2
    MaxFaults = 1
    Watched = {"volatility_observations"}
    LeftOut = {"backtest_valuations", "backtest_execution_fills", "backtest_collateral_records",
               "portfolio_constraint_outcomes", "backtest_strategy_definitions",
               "backtest_transition_guards"}
INVARIANT RowsAreOfOneStore
CHECK_DEADLOCK FALSE
