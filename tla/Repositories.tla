---------------------------- MODULE Repositories ----------------------------
(* The statements the repositories of backend/database issue: for each table  *)
(* one is written to, the columns its ON CONFLICT clause names and what it    *)
(* does with a row that is there already.  Their payloads are not modelled.   *)
EXTENDS FiniteSets

Write(table, mode, key) == [table |-> table, mode |-> mode, key |-> key]

\* ON CONFLICT DO NOTHING: the row that is there stays
KeepFirst(table, key) == Write(table, "keep", key)

\* ON CONFLICT DO UPDATE of every column the conflict does not name
Replace(table, key) == Write(table, "replace", key)

\* ON CONFLICT DO UPDATE that leaves some columns as the first insert wrote them
ReplaceSome(table, key) == Write(table, "replace_some", key)

\* a plain INSERT, refused when the unique columns are taken
Create(table, key) == Write(table, "create", key)

\* a plain INSERT into a table without a unique constraint
AddTo(table) == Write(table, "append", {})

\* unique within the row of the run it belongs to
OnRun(key) == {"run_row_id"} \cup key

\* backtests: a run's row is replaced, the rows under it are kept as first stored
BacktestRunWrites ==
    { ReplaceSome("backtest_runs", {"run_id"}) }

BacktestWrites1 ==
    { KeepFirst("backtest_events", OnRun({"sequence_number", "event_type"})),
      KeepFirst("backtest_order_intents", OnRun({"intent_id"})),
      KeepFirst("backtest_research_fills", OnRun({"intent_id"})),
      KeepFirst("backtest_positions", OnRun({"position_id", "as_of_timestamp"})),
      KeepFirst("backtest_position_legs", OnRun({"position_id", "leg_id", "as_of_timestamp"})),
      KeepFirst("backtest_valuations", OnRun({"valuation_timestamp", "position_id", "leg_id"})),
      KeepFirst("backtest_cash_ledger_entries", OnRun({"entry_index"})),
      KeepFirst("backtest_portfolio_snapshots", OnRun({"snapshot_timestamp"})) }

BacktestWrites2 ==
    { KeepFirst("backtest_lifecycle_triggers", OnRun({"trigger_timestamp", "position_id",
          "trigger"})),
      KeepFirst("backtest_run_comparisons", {"left_run_id", "right_run_id",
          "comparison_key_checksum"}),
      KeepFirst("backtest_scenario_results", OnRun({"scenario_name"})),
      KeepFirst("backtest_reproducibility_checksums", OnRun({"checksum_key"})),
      KeepFirst("backtest_strategy_definitions", {"definition_id"}),
      KeepFirst("backtest_strategy_templates", OnRun({"template_name", "strategy_instance_id"})),
      KeepFirst("backtest_strategy_instances", OnRun({"strategy_instance_id",
          "as_of_timestamp"})) }

BacktestWrites3 ==
    { KeepFirst("backtest_position_instances", OnRun({"position_instance_id",
          "as_of_timestamp"})) }

BacktestWrites4 ==
    { KeepFirst("backtest_state_transitions", OnRun({"strategy_instance_id",
          "sequence_number"})) }

BacktestWrites5 ==
    { KeepFirst("backtest_transition_guards", OnRun({"transition_row_id", "guard_name"})),
      KeepFirst("backtest_roll_plans", OnRun({"plan_id"})) }

BacktestWrites6 ==
    { KeepFirst("backtest_roll_relationships", OnRun({"plan_id", "relationship_type",
          "leg_label"})),
      KeepFirst("backtest_partial_fills", OnRun({"strategy_instance_id", "position_instance_id",
          "leg_label", "fill_timestamp"})),
      KeepFirst("backtest_reconciliation_events", OnRun({"strategy_instance_id",
          "position_instance_id", "event_timestamp"})),
      KeepFirst("backtest_integrity_failures", OnRun({"strategy_instance_id",
          "position_instance_id", "failure_timestamp", "reason_code"})),
      KeepFirst("backtest_strategy_histories", OnRun({"strategy_instance_id", "history_timestamp",
          "history_kind"})),
      KeepFirst("backtest_strategy_analytics", OnRun({"strategy_instance_id",
          "snapshot_timestamp"})) }

BacktestWrites7 ==
    { KeepFirst("backtest_portfolio_analytics", OnRun({"snapshot_timestamp"})) }

BacktestWrites8 ==
    { KeepFirst("backtest_pnl_attribution", OnRun({"strategy_instance_id",
          "snapshot_timestamp"})),
      KeepFirst("backtest_greeks_attribution", OnRun({"strategy_instance_id",
          "snapshot_timestamp"})),
      KeepFirst("backtest_reconstructed_trades", OnRun({"trade_id"})),
      KeepFirst("backtest_strategy_cycles", OnRun({"cycle_id"})),
      KeepFirst("backtest_replay_snapshots", OnRun({"snapshot_id"})) }

BacktestWrites9 ==
    { KeepFirst("backtest_event_overlays", OnRun({"event_sequence_number"})),
      KeepFirst("backtest_arbitration_decisions", OnRun({"decision_id"})),
      KeepFirst("backtest_comparison_runs", OnRun({"comparison_id"})),
      KeepFirst("backtest_export_metadata", OnRun({"export_id"})),
      KeepFirst("backtest_execution_requests", OnRun({"request_id"})),
      KeepFirst("backtest_quote_selections", OnRun({"request_id"})),
      KeepFirst("backtest_fill_attempts", OnRun({"request_id", "attempt_timestamp"})),
      KeepFirst("backtest_execution_fills", OnRun({"request_id", "fill_timestamp"})),
      KeepFirst("backtest_fee_items", OnRun({"request_id", "event_timestamp", "fee_type"})),
      KeepFirst("backtest_exercise_decisions", OnRun({"request_id", "decision_timestamp"})),
      KeepFirst("backtest_assignment_decisions", OnRun({"request_id", "decision_timestamp"})),
      KeepFirst("backtest_expiration_events", OnRun({"request_id", "expiration_timestamp"})),
      KeepFirst("backtest_physical_settlements", OnRun({"request_id", "settlement_timestamp"})),
      KeepFirst("backtest_cash_settlements", OnRun({"request_id", "settlement_timestamp"})),
      KeepFirst("backtest_dividend_settlements", OnRun({"strategy_id", "position_id",
          "ex_date"})),
      KeepFirst("backtest_stock_positions", OnRun({"symbol", "strategy_id", "position_id",
          "as_of_timestamp"})) }

BacktestWrites10 ==
    { KeepFirst("backtest_cost_basis_records", OnRun({"strategy_cycle_id", "as_of_timestamp"})) }

BacktestWrites11 ==
    { KeepFirst("backtest_ledger_postings", OnRun({"posting_id"})),
      KeepFirst("backtest_pin_risk_diagnostics", OnRun({"request_id", "event_timestamp"})),
      KeepFirst("backtest_settlement_reconciliation", OnRun({"strategy_id", "position_id",
          "event_timestamp"})),
      KeepFirst("backtest_execution_reproducibility_checksums", OnRun({"checksum_key"})) }

\* execution calibration
CalibrationWrites1 ==
    { Replace("backtest_execution_calibration_datasets", OnRun({"dataset_id"})),
      Replace("backtest_execution_fill_quality_observations", OnRun({"observation_id"})),
      Replace("backtest_execution_slippage_models", OnRun({"model_id"})),
      Replace("backtest_execution_spread_capture_models", OnRun({"model_id"})),
      Replace("backtest_execution_partial_fill_models", OnRun({"model_id"})),
      Replace("backtest_execution_transaction_cost_policies", OnRun({"policy_id"})),
      Replace("backtest_execution_broker_policy_versions", OnRun({"policy_name",
          "policy_version"})) }

CalibrationWrites2 ==
    { Replace("backtest_execution_policy_comparisons", OnRun({"comparison_id"})),
      Replace("backtest_execution_quality_scores", OnRun({"score_id"})) }

CalibrationWrites3 ==
    { Replace("backtest_execution_real_vs_simulated", OnRun({"comparison_id"})),
      Replace("backtest_execution_validation_runs", OnRun({"validation_run_id"})),
      Replace("backtest_execution_calibration_drift", OnRun({"drift_id"})),
      Replace("backtest_execution_stress_test_results", OnRun({"scenario_name",
          "event_timestamp"})),
      Replace("backtest_execution_calibration_checksums", OnRun({"checksum_key"})) }

\* accounts and margin
MarginWrites1 ==
    { Replace("backtest_account_configurations", OnRun({"account_id"})),
      Replace("backtest_margin_policies", OnRun({"account_id", "policy_name", "policy_version"})),
      Replace("backtest_margin_calculations", OnRun({"calculation_id"})) }

MarginWrites2 ==
    { Replace("backtest_buying_power_snapshots", OnRun({"account_id", "event_timestamp"})) }

MarginWrites3 ==
    { Replace("backtest_collateral_records", OnRun({"account_id", "event_timestamp",
          "position_id", "collateral_type"})),
      Replace("backtest_cash_balances", OnRun({"account_id", "event_timestamp"})) }

MarginWrites4 ==
    { Replace("backtest_cash_settlement_flows", OnRun({"posting_id"})),
      Replace("backtest_interest_accruals", OnRun({"accrual_id"})),
      Replace("backtest_borrow_records", OnRun({"borrow_id"})),
      Replace("backtest_borrow_accruals", OnRun({"accrual_id"})),
      Replace("backtest_margin_call_events", OnRun({"call_id"})) }

MarginWrites5 ==
    { Replace("backtest_liquidation_plans", OnRun({"plan_id"})),
      Replace("backtest_liquidation_steps", OnRun({"step_id"})),
      Replace("backtest_liquidation_outcomes", OnRun({"plan_id", "event_timestamp"})),
      Replace("backtest_broker_policy_comparisons", OnRun({"comparison_id"})),
      Replace("backtest_margin_reconciliations", OnRun({"reconciliation_id"})),
      Replace("backtest_margin_reproducibility_checksums", OnRun({"checksum_key"})) }

\* portfolios
PortfolioRunWrites ==
    { ReplaceSome("portfolio_runs", {"run_id"}) }

PortfolioWrites ==
    { Replace("portfolio_eligible_candidates", OnRun({"candidate_id"})),
      Replace("portfolio_rejected_candidates", OnRun({"candidate_id"})),
      Replace("portfolio_allocations", OnRun({"candidate_id"})),
      Replace("portfolio_constraint_outcomes", OnRun({"constraint_name", "candidate_id"})),
      Replace("portfolio_correlations", OnRun({"left_id", "right_id", "kind"})),
      Replace("portfolio_clusters", OnRun({"candidate_id"})),
      Replace("portfolio_risk_contributions", OnRun({"candidate_id"})),
      Replace("portfolio_scenarios", OnRun({"scenario_name"})),
      Replace("portfolio_rebalance_plans", OnRun({"candidate_id"})) }

\* replay sessions and experiments
ReplayWorkspaceWrites1 ==
    { Replace("replay_sessions", {"session_id"}),
      Replace("replay_branches", {"session_id", "branch_id"}),
      Replace("replay_checkpoints", {"session_id", "checkpoint_id"}),
      Replace("replay_bookmarks", {"session_id", "bookmark_id"}),
      Replace("replay_events", {"session_id", "branch_id", "event_sequence"}),
      Replace("replay_annotations", {"session_id", "annotation_id"}),
      Replace("replay_filters", {"session_id", "filter_id"}),
      Replace("replay_comparisons", {"session_id", "comparison_id"}),
      Replace("replay_diagnostics", {"session_id", "diagnostic_id"}),
      Replace("replay_reproducibility_reports", {"session_id", "report_id"}),
      Replace("decision_explanations", {"session_id", "explanation_id"}) }

ReplayWorkspaceWrites2 ==
    { Replace("experiments", {"experiment_id"}),
      Replace("experiment_comparisons", {"comparison_id"}),
      Replace("workspace_metadata", {"workspace_key"}) }

\* the risk lab
RiskLabWrites1 ==
    { Replace("risk_factor_definitions", {"factor_id"}),
      Replace("risk_scenario_definitions", {"scenario_id"}),
      Replace("risk_scenario_versions", {"scenario_id", "version"}),
      Replace("risk_scenario_shocks", {"scenario_id", "version", "ordering", "factor_id"}),
      Replace("risk_scenario_runs", {"run_id"}),
      Replace("risk_instrument_scenario_results", {"run_id", "instrument_id"}),
      Replace("risk_strategy_scenario_results", {"run_id", "strategy_id"}),
      Replace("risk_portfolio_scenario_results", {"run_id", "portfolio_id"}),
      Replace("risk_scenario_greeks_impacts", {"run_id", "scope", "scope_id"}) }

RiskLabWrites2 ==
    { Replace("risk_scenario_margin_impacts", {"run_id", "scope", "scope_id"}),
      Replace("risk_scenario_liquidity_impacts", {"run_id", "scope", "scope_id"}),
      Replace("risk_scenario_matrices", {"run_id", "matrix_id", "row_key", "column_key"}),
      Replace("risk_attributions", {"run_id", "attribution_id"}),
      Replace("risk_limit_breaches", {"run_id", "metric"}),
      Replace("risk_management_comparisons", {"run_id", "comparison_id"}),
      Replace("historical_scenario_metadata", {"scenario_id"}),
      Replace("risk_quality_diagnostics", {"run_id", "diagnostic_id"}),
      Replace("risk_reproducibility_checksums", {"checksum_key"}) }

\* strategy templates and definitions
StrategyLibraryWrites ==
    { Replace("strategy_template_registry", {"canonical_identifier"}),
      Replace("strategy_template_versions", {"canonical_identifier", "template_version"}),
      Replace("strategy_template_aliases", {"alias"}),
      Replace("strategy_parameter_schemas", {"canonical_identifier", "template_version"}),
      Replace("strategy_definition_documents", {"strategy_definition_id"}),
      Replace("strategy_definition_legs", {"strategy_definition_id", "leg_label"}),
      Replace("strategy_validation_results", {"strategy_definition_id"}),
      Replace("strategy_payoff_summaries", {"strategy_definition_id"}),
      Replace("strategy_risk_classifications", {"canonical_identifier", "template_version"}),
      Replace("strategy_compatibility_metadata", {"canonical_identifier", "template_version"}),
      Replace("strategy_optimizer_contracts", {"canonical_identifier", "template_version"}),
      Replace("strategy_template_checksums", {"checksum_key"}) }

\* rolls and conversions
StrategyManagementWrites1 ==
    { Replace("roll_policy_registry", {"canonical_identifier"}),
      Replace("roll_policy_aliases", {"alias"}),
      Replace("backtest_roll_requests", {"run_id", "request_id"}),
      Replace("backtest_roll_candidates", {"run_id", "candidate_id"}),
      Replace("backtest_roll_eligibility_results", {"run_id", "eligibility_id"}),
      Replace("backtest_roll_executions", {"run_id", "execution_id"}),
      Replace("backtest_roll_fills", {"run_id", "execution_id", "fill_timestamp", "leg_label"}),
      Replace("backtest_partial_roll_states", {"run_id", "state_id"}),
      Replace("backtest_roll_reconciliations", {"run_id", "reconciliation_id"}),
      Replace("backtest_basis_transfers", {"run_id", "basis_transfer_id"}) }

StrategyManagementWrites2 ==
    { Replace("backtest_conversion_plans", {"run_id", "conversion_id"}),
      Replace("backtest_conversion_executions", {"run_id", "execution_id"}),
      Replace("backtest_management_comparisons", {"run_id", "comparison_id"}),
      Replace("backtest_roll_analytics", {"run_id", "analytics_id"}),
      Replace("backtest_conversion_analytics", {"run_id", "analytics_id"}),
      Replace("strategy_management_optimizer_contracts", {"contract_id"}),
      Replace("strategy_management_checksums", {"checksum_key"}) }

\* mutant: the sets are upserted on a key without their version
PolicyWritesWithoutVersion ==
    { Replace("strategy_policy_registry", {"policy_id"}),
      Replace("strategy_policy_aliases", {"alias"}),
      Replace("strategy_policy_set_versions", {"set_id"}),
      Replace("strategy_policy_evaluations", {"run_id", "evaluation_id"}),
      Replace("strategy_policy_conflicts", {"run_id", "conflict_id"}),
      Replace("strategy_policy_checksums", {"checksum_key"}) }

\* policies
StrategyPolicyWrites ==
    { Replace("strategy_policy_registry", {"policy_id"}),
      Replace("strategy_policy_aliases", {"alias"}),
      Replace("strategy_policy_set_versions", {"set_id", "set_version"}),
      Replace("strategy_policy_evaluations", {"run_id", "evaluation_id"}),
      Replace("strategy_policy_conflicts", {"run_id", "conflict_id"}),
      Replace("strategy_policy_checksums", {"checksum_key"}) }

\* market data: a policy of the ingestion chooses between the two statements
ContractWrites ==
    { Replace("option_contracts", {"provider_id", "provider_contract_id"}),
      KeepFirst("option_contracts", {"provider_id", "provider_contract_id"}) }

QuoteWrites ==
    { Replace("option_quotes", {"contract_id", "quote_timestamp", "provider_id", "manifest_id"}),
      KeepFirst("option_quotes", {"contract_id", "quote_timestamp", "provider_id",
          "manifest_id"}) }

PriceWrites ==
    { Replace("underlying_prices", {"underlying_id", "price_timestamp", "provider_id",
          "manifest_id"}) }

DividendWrites ==
    { Replace("dividends", {"underlying_id", "ex_date", "provider_id", "manifest_id"}) }

EarningsWrites ==
    { Replace("earnings_events", {"underlying_id", "event_date", "provider_id", "manifest_id"}) }

ActionWrites ==
    { Replace("corporate_actions", {"underlying_id", "action_date", "action_type", "provider_id",
          "manifest_id"}) }

RateWrites ==
    { Replace("interest_rate_curves", {"provider_id", "manifest_id", "as_of_date",
          "tenor_days"}) }

ManifestWrites ==
    { Replace("dataset_manifests", {"provider_id", "dataset_name", "dataset_version"}),
      KeepFirst("dataset_manifests", {"provider_id", "dataset_name", "dataset_version"}),
      AddTo("data_lineage_records") }

\* corporate actions, snapshots and the audit trail
CorporateActionWrites ==
    { KeepFirst("raw_vendor_records", {"provider_id", "entity_type", "provider_record_id",
          "checksum"}),
      ReplaceSome("normalized_corporate_actions", {"provider_id", "provider_action_id"}),
      ReplaceSome("symbol_history", {"underlying_id", "old_symbol", "new_symbol",
          "effective_date"}),
      Replace("adjusted_underlying_price_views", {"underlying_id", "price_timestamp", "view_name",
          "policy_name"}),
      Replace("adjusted_option_contract_views", {"contract_id", "as_of_date", "view_name",
          "policy_name"}) }

SnapshotWrites ==
    { Create("dataset_snapshots", {"id"}),
      KeepFirst("snapshot_source_manifests", {"snapshot_id", "source_manifest_id"}) }

AuditWrites ==
    { AddTo("audit_events") }

\* optimisation and research
OptimizationRunWrites ==
    { ReplaceSome("optimization_runs", {"run_id"}) }

OptimizationWrites ==
    { Replace("optimization_candidate_results", OnRun({"candidate_id"})) }

ResearchRunWrites ==
    { ReplaceSome("research_runs", {"run_id"}) }

ResearchWrites ==
    { Replace("research_opportunities", OnRun({"as_of_timestamp"})) }

\* volatility
ObservationWrites ==
    { ReplaceSome("volatility_observations", {"symbol", "valuation_timestamp", "expiration",
          "strike", "option_type", "quote_source", "pricing_model", "manifest_id"}) }

SliceWrites ==
    { Create("volatility_time_slices", {"slice_id"}),
      Replace("volatility_time_slice_nodes", {"slice_id", "tenor_days", "x", "node_kind"}) }

\* strategy validation and institutional research write rows of the ORM
ValidationWrites ==
    { Create("validation_runs", {"run_id"}),
      Create("validation_candidate_results", OnRun({"candidate_id"})),
      Create("validation_folds", OnRun({"split_id"})) }

\* a SELECT by artifact_id first, then an INSERT or an UPDATE of every column
ArtifactWrites ==
    { Write("institutional_research_artifacts", "select_first", {"artifact_id"}) }

Writes ==
    BacktestRunWrites \cup BacktestWrites1 \cup BacktestWrites2 \cup BacktestWrites3 \cup
    BacktestWrites4 \cup BacktestWrites5 \cup BacktestWrites6 \cup BacktestWrites7 \cup
    BacktestWrites8 \cup BacktestWrites9 \cup BacktestWrites10 \cup BacktestWrites11 \cup
    CalibrationWrites1 \cup CalibrationWrites2 \cup CalibrationWrites3 \cup
    MarginWrites1 \cup MarginWrites2 \cup MarginWrites3 \cup MarginWrites4 \cup
    MarginWrites5 \cup PortfolioRunWrites \cup PortfolioWrites \cup
    ReplayWorkspaceWrites1 \cup ReplayWorkspaceWrites2 \cup RiskLabWrites1 \cup
    RiskLabWrites2 \cup StrategyLibraryWrites \cup StrategyManagementWrites1 \cup
    StrategyManagementWrites2 \cup StrategyPolicyWrites \cup ContractWrites \cup
    QuoteWrites \cup PriceWrites \cup DividendWrites \cup EarningsWrites \cup
    ActionWrites \cup RateWrites \cup ManifestWrites \cup CorporateActionWrites \cup
    SnapshotWrites \cup AuditWrites \cup OptimizationRunWrites \cup OptimizationWrites \cup
    ResearchRunWrites \cup ResearchWrites \cup ObservationWrites \cup SliceWrites \cup
    ValidationWrites \cup ArtifactWrites
=============================================================================
