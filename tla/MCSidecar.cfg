SPECIFICATION SidecarSpec
CONSTANTS
    Clients = {"c1", "c2"}
    Runs = {"r1", "r2"}
    Items = {"a"}
    Versions = {1, 2}
    MaxCalls = 2
    MaxFaults = 1
    Watched = {}
    LeftOut = {"backtest_valuations", "backtest_execution_fills", "backtest_collateral_records",
               "portfolio_constraint_outcomes", "backtest_strategy_definitions",
               "backtest_transition_guards"}
    Spawns = 5
    Launches = 2
    RestartLimit = 2
    Polls = 2
PROPERTIES StoresWholeCalls EveryCallEnds NoOrphans QuitCompletes
CHECK_DEADLOCK FALSE
