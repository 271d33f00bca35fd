------------------------------ MODULE Services ------------------------------
(* The persistence services of backend/database: which statements of the      *)
(* repositories one call issues, in one transaction, after which check.       *)
EXTENDS Repositories, TLC

Of(tables) == {w \in Writes : w.table \in tables}

\* needs: a run that must be stored already; header: the row written first;
\* kind: what a second store of the same key does to the rows of the first
Service(needs, header, kind, rows) ==
    [needs |-> needs, header |-> header, kind |-> kind, rows |-> rows]


\* BacktestPersistenceService.store_run: the row of the run, then what it recorded
BacktestRows1 ==
    Of({"backtest_events", "backtest_order_intents", "backtest_research_fills",
        "backtest_positions", "backtest_position_legs", "backtest_valuations"})

BacktestRows2 ==
    Of({"backtest_cash_ledger_entries", "backtest_portfolio_snapshots",
        "backtest_lifecycle_triggers", "backtest_run_comparisons", "backtest_scenario_results",
        "backtest_reproducibility_checksums", "backtest_strategy_definitions",
        "backtest_strategy_templates", "backtest_strategy_instances",
        "backtest_position_instances", "backtest_state_transitions", "backtest_transition_guards",
        "backtest_roll_plans", "backtest_roll_relationships", "backtest_partial_fills"})

BacktestRows3 ==
    Of({"backtest_reconciliation_events", "backtest_integrity_failures",
        "backtest_strategy_histories", "backtest_strategy_analytics",
        "backtest_portfolio_analytics", "backtest_pnl_attribution", "backtest_greeks_attribution",
        "backtest_reconstructed_trades", "backtest_strategy_cycles", "backtest_replay_snapshots",
        "backtest_event_overlays", "backtest_arbitration_decisions", "backtest_comparison_runs",
        "backtest_export_metadata", "backtest_execution_requests"})

BacktestRows4 ==
    Of({"backtest_quote_selections", "backtest_fill_attempts", "backtest_execution_fills",
        "backtest_fee_items", "backtest_exercise_decisions", "backtest_assignment_decisions",
        "backtest_expiration_events", "backtest_physical_settlements",
        "backtest_cash_settlements", "backtest_dividend_settlements", "backtest_stock_positions",
        "backtest_cost_basis_records", "backtest_ledger_postings",
        "backtest_pin_risk_diagnostics", "backtest_settlement_reconciliation",
        "backtest_execution_reproducibility_checksums"})

\* the two services that add to a stored run and refuse one that is not there
CalibrationRows ==
    Of({"backtest_execution_calibration_datasets", "backtest_execution_fill_quality_observations",
        "backtest_execution_slippage_models", "backtest_execution_spread_capture_models",
        "backtest_execution_partial_fill_models", "backtest_execution_transaction_cost_policies",
        "backtest_execution_broker_policy_versions", "backtest_execution_policy_comparisons",
        "backtest_execution_quality_scores", "backtest_execution_real_vs_simulated",
        "backtest_execution_validation_runs", "backtest_execution_calibration_drift",
        "backtest_execution_stress_test_results", "backtest_execution_calibration_checksums"})

MarginRows1 ==
    Of({"backtest_account_configurations", "backtest_margin_policies",
        "backtest_margin_calculations", "backtest_buying_power_snapshots",
        "backtest_collateral_records", "backtest_cash_balances", "backtest_cash_settlement_flows",
        "backtest_interest_accruals", "backtest_borrow_records"})

MarginRows2 ==
    Of({"backtest_borrow_accruals", "backtest_margin_call_events", "backtest_liquidation_plans",
        "backtest_liquidation_steps", "backtest_liquidation_outcomes",
        "backtest_broker_policy_comparisons", "backtest_margin_reconciliations",
        "backtest_margin_reproducibility_checksums"})

PortfolioRows ==
    Of({"portfolio_eligible_candidates", "portfolio_rejected_candidates", "portfolio_allocations",
        "portfolio_constraint_outcomes", "portfolio_correlations", "portfolio_clusters",
        "portfolio_risk_contributions", "portfolio_scenarios", "portfolio_rebalance_plans"})

\* the services that replace what they are given, without a row of a run
WorkspaceRows ==
    Of({"replay_sessions", "replay_branches", "replay_checkpoints", "replay_bookmarks",
        "replay_events", "replay_annotations", "replay_filters", "replay_comparisons",
        "replay_diagnostics", "replay_reproducibility_reports", "decision_explanations",
        "experiments", "experiment_comparisons", "workspace_metadata"})

RiskRows ==
    Of({"risk_factor_definitions", "risk_scenario_definitions", "risk_scenario_versions",
        "risk_scenario_shocks", "risk_scenario_runs", "risk_instrument_scenario_results",
        "risk_strategy_scenario_results", "risk_portfolio_scenario_results",
        "risk_scenario_greeks_impacts", "risk_scenario_margin_impacts",
        "risk_scenario_liquidity_impacts", "risk_scenario_matrices", "risk_attributions",
        "risk_limit_breaches", "risk_management_comparisons", "historical_scenario_metadata",
        "risk_quality_diagnostics", "risk_reproducibility_checksums"})

LibraryRows ==
    Of({"strategy_template_registry", "strategy_template_versions", "strategy_template_aliases",
        "strategy_parameter_schemas", "strategy_definition_documents", "strategy_definition_legs",
        "strategy_validation_results", "strategy_payoff_summaries",
        "strategy_risk_classifications", "strategy_compatibility_metadata",
        "strategy_optimizer_contracts", "strategy_template_checksums"})

ManagementRows ==
    Of({"roll_policy_registry", "roll_policy_aliases", "backtest_roll_requests",
        "backtest_roll_candidates", "backtest_roll_eligibility_results",
        "backtest_roll_executions", "backtest_roll_fills", "backtest_partial_roll_states",
        "backtest_roll_reconciliations", "backtest_basis_transfers", "backtest_conversion_plans",
        "backtest_conversion_executions", "backtest_management_comparisons",
        "backtest_roll_analytics", "backtest_conversion_analytics",
        "strategy_management_optimizer_contracts", "strategy_management_checksums"})

PolicyRows ==
    Of({"strategy_policy_registry", "strategy_policy_aliases", "strategy_policy_set_versions",
        "strategy_policy_evaluations", "strategy_policy_conflicts", "strategy_policy_checksums"})

StoreBacktest ==
    Service({}, Of({"backtest_runs"}), "first",
            BacktestRows1 \cup BacktestRows2 \cup BacktestRows3 \cup BacktestRows4)

StoreCalibration ==
    Service({"backtest_runs"}, {}, "latest", CalibrationRows)

StoreMargin ==
    Service({"backtest_runs"}, {}, "latest", MarginRows1 \cup MarginRows2)

StorePortfolio ==
    Service({}, Of({"portfolio_runs"}), "latest", PortfolioRows)

StoreOptimization ==
    Service({}, Of({"optimization_runs"}), "latest", OptimizationWrites)

StoreResearch ==
    Service({}, Of({"research_runs"}), "latest", ResearchWrites)

StoreValidation ==
    Service({}, Of({"validation_runs"}), "once", ValidationWrites \ Of({"validation_runs"}))

StoreWorkspace ==
    Service({}, {}, "latest", WorkspaceRows)

StoreRiskLab ==
    Service({}, {}, "latest", RiskRows)

StoreLibrary ==
    Service({}, {}, "latest", LibraryRows)

StoreManagement ==
    Service({}, {}, "latest", ManagementRows)

StorePolicies ==
    Service({}, {}, "latest", PolicyRows)

StoreArtifact ==
    Service({}, {}, "latest", ArtifactWrites)

StoreObservations ==
    Service({}, {}, "latest", ObservationWrites)

CreateSlice ==
    Service({}, Of({"volatility_time_slices"}), "once", Of({"volatility_time_slice_nodes"}))

CreateSnapshot ==
    Service({}, Of({"dataset_snapshots"}), "once", Of({"snapshot_source_manifests"}))

\* corporate actions: raw records stay, what is derived from them is replaced
InsertRaw ==
    Service({}, {}, "first", Of({"raw_vendor_records"}))

InsertNormalized ==
    Service({}, {}, "latest", Of({"normalized_corporate_actions", "symbol_history"}))

BuildUnderlyingView ==
    Service({}, {}, "latest", Of({"adjusted_underlying_price_views"}))

BuildOptionView ==
    Service({}, {}, "latest", Of({"adjusted_option_contract_views"}))

\* ingestion: contracts, manifests and quotes by the policy of the configuration
ByPolicy == {"option_contracts", "dataset_manifests", "option_quotes"}
IngestInsertOnly ==
    Service({}, {}, "first", {w \in Of(ByPolicy) : w.mode = "keep"})
IngestUpsert ==
    Service({}, {}, "latest", {w \in Of(ByPolicy) : w.mode = "replace"})
IngestSeries ==
    Service({}, {}, "latest", PriceWrites \cup DividendWrites \cup EarningsWrites \cup
        ActionWrites \cup RateWrites)

IngestLineage ==
    Service({}, {}, "each", Of({"data_lineage_records"}))

RecordAudit ==
    Service({}, {}, "each", AuditWrites)

Services ==
    "StoreBacktest" :> StoreBacktest @@ "StoreCalibration" :> StoreCalibration @@
    "StoreMargin" :> StoreMargin @@ "StorePortfolio" :> StorePortfolio @@
    "StoreOptimization" :> StoreOptimization @@ "StoreResearch" :> StoreResearch @@
    "StoreValidation" :> StoreValidation @@ "StoreWorkspace" :> StoreWorkspace @@
    "StoreRiskLab" :> StoreRiskLab @@ "StoreLibrary" :> StoreLibrary @@
    "StoreManagement" :> StoreManagement @@ "StorePolicies" :> StorePolicies @@
    "StoreArtifact" :> StoreArtifact @@ "StoreObservations" :> StoreObservations @@
    "CreateSlice" :> CreateSlice @@ "CreateSnapshot" :> CreateSnapshot @@
    "InsertRaw" :> InsertRaw @@ "InsertNormalized" :> InsertNormalized @@
    "BuildUnderlyingView" :> BuildUnderlyingView @@
    "BuildOptionView" :> BuildOptionView @@ "IngestInsertOnly" :> IngestInsertOnly @@
    "IngestUpsert" :> IngestUpsert @@ "IngestSeries" :> IngestSeries @@
    "IngestLineage" :> IngestLineage @@ "RecordAudit" :> RecordAudit
=============================================================================
