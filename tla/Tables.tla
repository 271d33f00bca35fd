------------------------------- MODULE Tables -------------------------------
(* The tables the object-relational models of backend/database declare: for   *)
(* each one the tables its foreign keys refer to, the columns of its unique   *)
(* constraints, which of those columns may be null, and the columns a later   *)
(* revision adds to a table of an earlier one.  The other columns hold data   *)
(* no property tells apart.  An id column every table has is left out.        *)
EXTENDS Sequences, FiniteSets, TLC

Table(refs, key) ==
    [refs |-> refs, keys |-> {key} \ {{}}, optional |-> {}, added |-> {}]

\* a table with a second unique constraint
AlsoUnique(decl, key) == [decl EXCEPT !.keys = @ \cup {key}]

\* a table some of whose key columns may be null: SQL compares no null, so the
\* constraint does not hold two rows apart that are null there
Loose(decl, columns) == [decl EXCEPT !.optional = columns]

\* a table an ALTER TABLE of a later revision gives more columns
Extended(decl, columns) == [decl EXCEPT !.added = @ \cup columns]

\* the rows of a run: unique within the row of the run they belong to
ChildOf(parent, key) == Table({parent}, {"run_row_id"} \cup key)
OfRun(key) == ChildOf("backtest_runs", key)

ReferenceTables ==
    "data_providers" :> Table({}, {"name"}) @@
    "dataset_manifests" :> Table({"data_providers"}, {"provider_id", "dataset_name",
        "dataset_version"}) @@
    "underlyings" :> Table({}, {"symbol"}) @@
    "exchanges" :> Table({}, {"code"}) @@
    "trading_calendar" :> Table({"exchanges"}, {"exchange_id", "trade_date"}) @@
    "option_contracts" :> Table({"data_providers", "underlyings", "exchanges"}, {"provider_id",
        "provider_contract_id"})

MarketDataTables ==
    "option_quotes" :> Table({"option_contracts", "data_providers", "dataset_manifests"},
        {"contract_id", "quote_timestamp", "provider_id", "manifest_id"}) @@
    "underlying_prices" :> Table({"underlyings", "data_providers", "dataset_manifests"},
        {"underlying_id", "price_timestamp", "provider_id", "manifest_id"}) @@
    "dividends" :> Table({"underlyings", "data_providers", "dataset_manifests"}, {"underlying_id",
        "ex_date", "provider_id", "manifest_id"}) @@
    "earnings_events" :> Table({"underlyings", "data_providers", "dataset_manifests"},
        {"underlying_id", "event_date", "provider_id", "manifest_id"}) @@
    "corporate_actions" :> Extended(Table({"underlyings", "data_providers", "dataset_manifests"},
        {"underlying_id", "action_date", "action_type", "provider_id", "manifest_id"}),
        {"announcement_timestamp", "provider_action_id", "cash_amount", "multiplier_after",
        "deliverable_after", "source_metadata"}) @@
    "interest_rate_curves" :> Table({"data_providers", "dataset_manifests"}, {"provider_id",
        "manifest_id", "as_of_date", "tenor_days"})

VolatilityTables ==
    "volatility_observations" :> Table({"dataset_manifests"}, {"symbol", "valuation_timestamp",
        "expiration", "strike", "option_type", "quote_source", "pricing_model", "manifest_id"}) @@
    "volatility_time_slices" :> Table({"dataset_snapshots"}, {"slice_id"}) @@
    "volatility_time_slice_nodes" :> Table({"volatility_time_slices"}, {"slice_id", "tenor_days",
        "x", "node_kind"})

ResearchTables ==
    "research_runs" :> Table({"dataset_manifests"}, {"run_id"}) @@
    "research_opportunities" :> ChildOf("research_runs", {"as_of_timestamp"}) @@
    "optimization_runs" :> Table({}, {"run_id"}) @@
    "optimization_candidate_results" :> ChildOf("optimization_runs", {"candidate_id"})

ValidationTables ==
    "validation_runs" :> Table({}, {"run_id"}) @@
    "validation_candidate_results" :> ChildOf("validation_runs", {"candidate_id"}) @@
    "validation_folds" :> ChildOf("validation_runs", {"split_id"})

PortfolioTables ==
    "portfolio_runs" :> Table({}, {"run_id"}) @@
    "portfolio_eligible_candidates" :> ChildOf("portfolio_runs", {"candidate_id"}) @@
    "portfolio_rejected_candidates" :> ChildOf("portfolio_runs", {"candidate_id"}) @@
    "portfolio_allocations" :> ChildOf("portfolio_runs", {"candidate_id"}) @@
    "portfolio_constraint_outcomes" :> Loose(ChildOf("portfolio_runs", {"constraint_name",
        "candidate_id"}), {"candidate_id"})

PortfolioRiskTables ==
    "portfolio_correlations" :> ChildOf("portfolio_runs", {"left_id", "right_id", "kind"}) @@
    "portfolio_clusters" :> ChildOf("portfolio_runs", {"candidate_id"}) @@
    "portfolio_risk_contributions" :> ChildOf("portfolio_runs", {"candidate_id"}) @@
    "portfolio_scenarios" :> ChildOf("portfolio_runs", {"scenario_name"}) @@
    "portfolio_rebalance_plans" :> ChildOf("portfolio_runs", {"candidate_id"})

BacktestTables ==
    "backtest_runs" :> Table({}, {"run_id"}) @@
    "backtest_events" :> OfRun({"sequence_number", "event_type"}) @@
    "backtest_order_intents" :> OfRun({"intent_id"}) @@
    "backtest_research_fills" :> OfRun({"intent_id"}) @@
    "backtest_positions" :> OfRun({"position_id", "as_of_timestamp"}) @@
    "backtest_position_legs" :> OfRun({"position_id", "leg_id", "as_of_timestamp"})

LedgerTables ==
    "backtest_valuations" :> Loose(OfRun({"valuation_timestamp", "position_id", "leg_id"}),
        {"leg_id"}) @@
    "backtest_cash_ledger_entries" :> OfRun({"entry_index"}) @@
    "backtest_portfolio_snapshots" :> OfRun({"snapshot_timestamp"}) @@
    "backtest_lifecycle_triggers" :> OfRun({"trigger_timestamp", "position_id", "trigger"}) @@
    "backtest_run_comparisons" :> Table({}, {"left_run_id", "right_run_id",
        "comparison_key_checksum"}) @@
    "backtest_scenario_results" :> OfRun({"scenario_name"}) @@
    "backtest_reproducibility_checksums" :> OfRun({"checksum_key"})

TemplateTables ==
    "backtest_strategy_definitions" :> Table({"backtest_runs"}, {"definition_id"}) @@
    "backtest_strategy_templates" :> OfRun({"template_name", "strategy_instance_id"}) @@
    "strategy_template_registry" :> Table({}, {"canonical_identifier"}) @@
    "strategy_template_versions" :> Table({}, {"canonical_identifier", "template_version"}) @@
    "strategy_template_aliases" :> Table({}, {"alias"}) @@
    "strategy_parameter_schemas" :> Table({}, {"canonical_identifier", "template_version"}) @@
    "strategy_definition_documents" :> Table({}, {"strategy_definition_id"})

DefinitionTables ==
    "strategy_definition_legs" :> Table({}, {"strategy_definition_id", "leg_label"}) @@
    "strategy_validation_results" :> Table({}, {"strategy_definition_id"}) @@
    "strategy_payoff_summaries" :> Table({}, {"strategy_definition_id"}) @@
    "strategy_risk_classifications" :> Table({}, {"canonical_identifier", "template_version"}) @@
    "strategy_compatibility_metadata" :> Table({}, {"canonical_identifier",
        "template_version"}) @@
    "strategy_optimizer_contracts" :> Table({}, {"canonical_identifier", "template_version"}) @@
    "strategy_template_checksums" :> Table({}, {"checksum_key"})

PolicyTables ==
    "strategy_policy_registry" :> Table({}, {"policy_id"}) @@
    "strategy_policy_aliases" :> Table({}, {"alias"}) @@
    "strategy_policy_set_versions" :> Table({}, {"set_id", "set_version"}) @@
    "strategy_policy_evaluations" :> Table({}, {"run_id", "evaluation_id"}) @@
    "strategy_policy_conflicts" :> Table({}, {"run_id", "conflict_id"})

RollPolicyTables ==
    "strategy_policy_checksums" :> Table({}, {"checksum_key"}) @@
    "roll_policy_registry" :> Table({}, {"canonical_identifier"}) @@
    "roll_policy_aliases" :> Table({}, {"alias"}) @@
    "backtest_roll_requests" :> Table({}, {"run_id", "request_id"})

RollTables ==
    "backtest_roll_candidates" :> Table({}, {"run_id", "candidate_id"}) @@
    "backtest_roll_eligibility_results" :> Table({}, {"run_id", "eligibility_id"}) @@
    "backtest_roll_executions" :> Table({}, {"run_id", "execution_id"}) @@
    "backtest_roll_fills" :> Table({}, {"run_id", "execution_id", "fill_timestamp",
        "leg_label"}) @@
    "backtest_partial_roll_states" :> Table({}, {"run_id", "state_id"}) @@
    "backtest_roll_reconciliations" :> Table({}, {"run_id", "reconciliation_id"})

ConversionTables ==
    "backtest_basis_transfers" :> Table({}, {"run_id", "basis_transfer_id"}) @@
    "backtest_conversion_plans" :> Table({}, {"run_id", "conversion_id"}) @@
    "backtest_conversion_executions" :> Table({}, {"run_id", "execution_id"}) @@
    "backtest_management_comparisons" :> Table({}, {"run_id", "comparison_id"}) @@
    "backtest_roll_analytics" :> Table({}, {"run_id", "analytics_id"}) @@
    "backtest_conversion_analytics" :> Table({}, {"run_id", "analytics_id"}) @@
    "strategy_management_optimizer_contracts" :> Table({}, {"contract_id"})

ScenarioTables ==
    "strategy_management_checksums" :> Table({}, {"checksum_key"}) @@
    "risk_factor_definitions" :> Table({}, {"factor_id"}) @@
    "risk_scenario_definitions" :> Table({}, {"scenario_id"}) @@
    "risk_scenario_versions" :> Table({}, {"scenario_id", "version"}) @@
    "risk_scenario_shocks" :> Table({}, {"scenario_id", "version", "ordering", "factor_id"}) @@
    "risk_scenario_runs" :> Table({}, {"run_id"})

ScenarioResultTables ==
    "risk_instrument_scenario_results" :> Table({}, {"run_id", "instrument_id"}) @@
    "risk_strategy_scenario_results" :> Table({}, {"run_id", "strategy_id"}) @@
    "risk_portfolio_scenario_results" :> Table({}, {"run_id", "portfolio_id"}) @@
    "risk_scenario_greeks_impacts" :> Table({}, {"run_id", "scope", "scope_id"}) @@
    "risk_scenario_margin_impacts" :> Table({}, {"run_id", "scope", "scope_id"}) @@
    "risk_scenario_liquidity_impacts" :> Table({}, {"run_id", "scope", "scope_id"}) @@
    "risk_scenario_matrices" :> Table({}, {"run_id", "matrix_id", "row_key", "column_key"})

ScenarioReportTables ==
    "risk_attributions" :> Table({}, {"run_id", "attribution_id"}) @@
    "risk_limit_breaches" :> Table({}, {"run_id", "metric"}) @@
    "risk_management_comparisons" :> Table({}, {"run_id", "comparison_id"}) @@
    "historical_scenario_metadata" :> Table({}, {"scenario_id"}) @@
    "risk_quality_diagnostics" :> Table({}, {"run_id", "diagnostic_id"}) @@
    "risk_reproducibility_checksums" :> Table({}, {"checksum_key"})

LifecycleTables ==
    "backtest_strategy_instances" :> OfRun({"strategy_instance_id", "as_of_timestamp"}) @@
    "backtest_position_instances" :> OfRun({"position_instance_id", "as_of_timestamp"}) @@
    "backtest_state_transitions" :> OfRun({"strategy_instance_id", "sequence_number"}) @@
    "backtest_transition_guards" :> Table({"backtest_runs", "backtest_state_transitions"},
        {"run_row_id", "transition_row_id", "guard_name"}) @@
    "backtest_roll_plans" :> OfRun({"plan_id"}) @@
    "backtest_roll_relationships" :> OfRun({"plan_id", "relationship_type", "leg_label"})

HistoryTables ==
    "backtest_partial_fills" :> OfRun({"strategy_instance_id", "position_instance_id",
        "leg_label", "fill_timestamp"}) @@
    "backtest_reconciliation_events" :> OfRun({"strategy_instance_id", "position_instance_id",
        "event_timestamp"}) @@
    "backtest_integrity_failures" :> OfRun({"strategy_instance_id", "position_instance_id",
        "failure_timestamp", "reason_code"}) @@
    "backtest_strategy_histories" :> OfRun({"strategy_instance_id", "history_timestamp",
        "history_kind"}) @@
    "backtest_strategy_analytics" :> OfRun({"strategy_instance_id", "snapshot_timestamp"})

AnalyticsTables ==
    "backtest_portfolio_analytics" :> OfRun({"snapshot_timestamp"}) @@
    "backtest_pnl_attribution" :> OfRun({"strategy_instance_id", "snapshot_timestamp"}) @@
    "backtest_greeks_attribution" :> OfRun({"strategy_instance_id", "snapshot_timestamp"}) @@
    "backtest_reconstructed_trades" :> OfRun({"trade_id"}) @@
    "backtest_strategy_cycles" :> OfRun({"cycle_id"}) @@
    "backtest_replay_snapshots" :> OfRun({"snapshot_id"}) @@
    "backtest_event_overlays" :> OfRun({"event_sequence_number"}) @@
    "backtest_arbitration_decisions" :> OfRun({"decision_id"})

ExecutionTables ==
    "backtest_comparison_runs" :> OfRun({"comparison_id"}) @@
    "backtest_export_metadata" :> OfRun({"export_id"}) @@
    "backtest_execution_requests" :> OfRun({"request_id"}) @@
    "backtest_quote_selections" :> OfRun({"request_id"}) @@
    "backtest_fill_attempts" :> OfRun({"request_id", "attempt_timestamp"}) @@
    "backtest_execution_fills" :> Loose(OfRun({"request_id", "fill_timestamp"}),
        {"fill_timestamp"})

SettlementTables ==
    "backtest_fee_items" :> OfRun({"request_id", "event_timestamp", "fee_type"}) @@
    "backtest_exercise_decisions" :> OfRun({"request_id", "decision_timestamp"}) @@
    "backtest_assignment_decisions" :> OfRun({"request_id", "decision_timestamp"}) @@
    "backtest_expiration_events" :> OfRun({"request_id", "expiration_timestamp"}) @@
    "backtest_physical_settlements" :> OfRun({"request_id", "settlement_timestamp"}) @@
    "backtest_cash_settlements" :> OfRun({"request_id", "settlement_timestamp"}) @@
    "backtest_dividend_settlements" :> OfRun({"strategy_id", "position_id", "ex_date"})

StockTables ==
    "backtest_stock_positions" :> OfRun({"symbol", "strategy_id", "position_id",
        "as_of_timestamp"}) @@
    "backtest_cost_basis_records" :> OfRun({"strategy_cycle_id", "as_of_timestamp"}) @@
    "backtest_ledger_postings" :> OfRun({"posting_id"}) @@
    "backtest_pin_risk_diagnostics" :> OfRun({"request_id", "event_timestamp"}) @@
    "backtest_settlement_reconciliation" :> OfRun({"strategy_id", "position_id",
        "event_timestamp"}) @@
    "backtest_execution_reproducibility_checksums" :> OfRun({"checksum_key"})

ReplayTables ==
    "replay_sessions" :> Table({}, {"session_id"}) @@
    "replay_branches" :> Table({}, {"session_id", "branch_id"}) @@
    "replay_checkpoints" :> Table({}, {"session_id", "checkpoint_id"}) @@
    "replay_bookmarks" :> Table({}, {"session_id", "bookmark_id"}) @@
    "replay_events" :> Table({}, {"session_id", "branch_id", "event_sequence"}) @@
    "replay_annotations" :> Table({}, {"session_id", "annotation_id"}) @@
    "replay_filters" :> Table({}, {"session_id", "filter_id"}) @@
    "replay_comparisons" :> Table({}, {"session_id", "comparison_id"})

ExperimentTables ==
    "replay_diagnostics" :> Table({}, {"session_id", "diagnostic_id"}) @@
    "replay_reproducibility_reports" :> Table({}, {"session_id", "report_id"}) @@
    "decision_explanations" :> Table({}, {"session_id", "explanation_id"}) @@
    "experiments" :> Table({}, {"experiment_id"}) @@
    "experiment_comparisons" :> Table({}, {"comparison_id"}) @@
    "workspace_metadata" :> Table({}, {"workspace_key"}) @@
    "institutional_research_artifacts" :> Table({}, {"artifact_id"})

AccountTables ==
    "backtest_account_configurations" :> OfRun({"account_id"}) @@
    "backtest_margin_policies" :> OfRun({"account_id", "policy_name", "policy_version"}) @@
    "backtest_margin_calculations" :> OfRun({"calculation_id"}) @@
    "backtest_buying_power_snapshots" :> OfRun({"account_id", "event_timestamp"})

CashTables ==
    "backtest_collateral_records" :> Loose(OfRun({"account_id", "event_timestamp", "position_id",
        "collateral_type"}), {"position_id"}) @@
    "backtest_cash_balances" :> OfRun({"account_id", "event_timestamp"}) @@
    "backtest_cash_settlement_flows" :> OfRun({"posting_id"}) @@
    "backtest_interest_accruals" :> OfRun({"accrual_id"}) @@
    "backtest_borrow_records" :> OfRun({"borrow_id"})

LiquidationTables ==
    "backtest_borrow_accruals" :> OfRun({"accrual_id"}) @@
    "backtest_margin_call_events" :> OfRun({"call_id"}) @@
    "backtest_liquidation_plans" :> OfRun({"plan_id"}) @@
    "backtest_liquidation_steps" :> OfRun({"step_id"}) @@
    "backtest_liquidation_outcomes" :> OfRun({"plan_id", "event_timestamp"}) @@
    "backtest_broker_policy_comparisons" :> OfRun({"comparison_id"})

CalibrationTables ==
    "backtest_execution_calibration_datasets" :> OfRun({"dataset_id"}) @@
    "backtest_execution_fill_quality_observations" :> OfRun({"observation_id"}) @@
    "backtest_execution_slippage_models" :> OfRun({"model_id"}) @@
    "backtest_execution_spread_capture_models" :> OfRun({"model_id"})

BrokerPolicyTables ==
    "backtest_execution_partial_fill_models" :> OfRun({"model_id"}) @@
    "backtest_execution_transaction_cost_policies" :> OfRun({"policy_id"}) @@
    "backtest_execution_broker_policy_versions" :> OfRun({"policy_name", "policy_version"}) @@
    "backtest_execution_policy_comparisons" :> OfRun({"comparison_id"}) @@
    "backtest_execution_quality_scores" :> OfRun({"score_id"})

CalibrationResultTables ==
    "backtest_execution_real_vs_simulated" :> OfRun({"comparison_id"}) @@
    "backtest_execution_validation_runs" :> OfRun({"validation_run_id"}) @@
    "backtest_execution_calibration_drift" :> OfRun({"drift_id"}) @@
    "backtest_execution_stress_test_results" :> OfRun({"scenario_name", "event_timestamp"}) @@
    "backtest_execution_calibration_checksums" :> OfRun({"checksum_key"}) @@
    "backtest_margin_reconciliations" :> OfRun({"reconciliation_id"}) @@
    "backtest_margin_reproducibility_checksums" :> OfRun({"checksum_key"})

LineageTables ==
    "data_lineage_records" :> Table({"data_providers", "dataset_manifests"}, {}) @@
    "raw_vendor_records" :> Table({"data_providers"}, {"provider_id", "entity_type",
        "provider_record_id", "checksum"}) @@
    "normalized_corporate_actions" :> Table({"raw_vendor_records", "data_providers",
        "dataset_manifests", "underlyings"}, {"provider_id", "provider_action_id"}) @@
    "symbol_history" :> Table({"underlyings", "data_providers", "normalized_corporate_actions"},
        {"underlying_id", "old_symbol", "new_symbol", "effective_date"}) @@
    "adjusted_underlying_price_views" :> Table({"underlyings", "underlying_prices",
        "normalized_corporate_actions"}, {"underlying_id", "price_timestamp", "view_name",
        "policy_name"})

SnapshotTables ==
    "adjusted_option_contract_views" :> Table({"option_contracts",
        "normalized_corporate_actions"}, {"contract_id", "as_of_date", "view_name",
        "policy_name"}) @@
    "dataset_snapshots" :> Table({"dataset_manifests", "data_providers", "dataset_snapshots"},
        {}) @@
    "snapshot_source_manifests" :> Table({"dataset_snapshots", "dataset_manifests"},
        {"snapshot_id", "source_manifest_id"}) @@
    "audit_events" :> Table({"data_providers", "dataset_manifests", "dataset_snapshots"}, {})

ProviderTables ==
    "provider_jobs" :> Table({}, {"job_id"}) @@
    "provider_job_events" :> Table({"provider_jobs"}, {"job_id", "sequence"}) @@
    "provider_checkpoints" :> Table({"provider_jobs"}, {"job_id", "checkpoint_id"}) @@
    "provider_failures" :> Table({"provider_jobs"}, {}) @@
    "provider_operational_artifacts" :> AlsoUnique(Table({}, {"artifact_id"}), {"checksum"})

\* Base.metadata, with and without the tables only _bootstrap imports
Models ==
    ReferenceTables @@ MarketDataTables @@ VolatilityTables @@ ResearchTables @@
    ValidationTables @@ PortfolioTables @@ PortfolioRiskTables @@ BacktestTables @@
    LedgerTables @@ TemplateTables @@ DefinitionTables @@ PolicyTables @@ RollPolicyTables @@
    RollTables @@ ConversionTables @@ ScenarioTables @@ ScenarioResultTables @@
    ScenarioReportTables @@ LifecycleTables @@ HistoryTables @@ AnalyticsTables @@
    ExecutionTables @@ SettlementTables @@ StockTables @@ ReplayTables @@ ExperimentTables @@
    AccountTables @@ CashTables @@ LiquidationTables @@ CalibrationTables @@
    BrokerPolicyTables @@ CalibrationResultTables @@ LineageTables @@ SnapshotTables

BootstrapTables == Models @@ ProviderTables
=============================================================================
