----------------------------- MODULE Revisions ------------------------------
(* The Alembic revisions of backend/database/migrations/versions: what each   *)
(* upgrade() creates, in its order, and what each downgrade() drops, in its   *)
(* order.  Indexes follow their table and are left out.                       *)
EXTENDS Tables, Integers, SequencesExt

Create0002a ==
    << <<"raw_vendor_records", Table({"data_providers"}, {"provider_id", "entity_type",
           "provider_record_id", "checksum"})>>,
       <<"normalized_corporate_actions", Table({"raw_vendor_records", "data_providers",
           "dataset_manifests", "underlyings"}, {"provider_id", "provider_action_id"})>>,
       <<"symbol_history", Table({"underlyings", "data_providers",
           "normalized_corporate_actions"}, {"underlying_id", "old_symbol", "new_symbol",
           "effective_date"})>>,
       <<"adjusted_underlying_price_views", Table({"underlyings", "underlying_prices",
           "normalized_corporate_actions"}, {"underlying_id", "price_timestamp", "view_name",
           "policy_name"})>>,
       <<"adjusted_option_contract_views", Table({"option_contracts",
           "normalized_corporate_actions"}, {"contract_id", "as_of_date", "view_name",
           "policy_name"})>> >>

Create0002b ==
    << <<"dataset_snapshots", Table({"dataset_manifests", "data_providers", "dataset_snapshots"},
           {})>>,
       <<"snapshot_source_manifests", Table({"dataset_snapshots", "dataset_manifests"},
           {"snapshot_id", "source_manifest_id"})>>,
       <<"audit_events", Table({"data_providers", "dataset_manifests", "dataset_snapshots"}, {})>>
           >>

Drop0002 ==
    <<"audit_events", "snapshot_source_manifests", "dataset_snapshots",
      "adjusted_option_contract_views", "adjusted_underlying_price_views", "symbol_history",
      "normalized_corporate_actions", "raw_vendor_records">>

Create0003 ==
    << <<"volatility_observations", Table({"dataset_manifests"}, {"symbol", "valuation_timestamp",
           "expiration", "strike", "option_type", "quote_source", "pricing_model",
           "manifest_id"})>>,
       <<"volatility_time_slices", Table({"dataset_snapshots"}, {"slice_id"})>>,
       <<"volatility_time_slice_nodes", Table({"volatility_time_slices"}, {"slice_id",
           "tenor_days", "x", "node_kind"})>> >>

\* mutant: a table the downgrade forgets
Drop0003Short ==
    <<"volatility_time_slice_nodes", "volatility_time_slices">>

Drop0003 ==
    <<"volatility_time_slice_nodes", "volatility_time_slices", "volatility_observations">>

Create0004 ==
    << <<"research_runs", Table({"dataset_manifests"}, {"run_id"})>>,
       <<"research_opportunities", ChildOf("research_runs", {"as_of_timestamp"})>> >>

\* mutant: the parent dropped before its rows' table
Drop0004ParentFirst ==
    <<"research_runs", "research_opportunities">>

Drop0004 ==
    <<"research_opportunities", "research_runs">>

Create0005a ==
    << <<"optimization_runs", Table({}, {"run_id"})>>,
       <<"optimization_problems", ChildOf("optimization_runs", {})>>,
       <<"optimization_parameter_spaces", ChildOf("optimization_runs", {})>>,
       <<"optimization_objectives", Table({"optimization_runs"}, {})>>,
       <<"optimization_constraints", Table({"optimization_runs"}, {})>>,
       <<"optimization_candidate_evaluations", ChildOf("optimization_runs", {"candidate_id"})>>,
       <<"optimizer_trials", ChildOf("optimization_runs", {"trial_id"})>>,
       <<"optimization_pareto_fronts", ChildOf("optimization_runs", {})>>,
       <<"optimization_selected_candidates", ChildOf("optimization_runs", {"candidate_id"})>> >>

Create0005b ==
    << <<"optimization_walk_forward_runs", ChildOf("optimization_runs", {})>>,
       <<"optimization_walk_forward_folds", Table({"optimization_walk_forward_runs",
           "optimization_runs"}, {"walk_forward_run_row_id", "fold_id"})>>,
       <<"optimization_fold_selections", Table({"optimization_walk_forward_folds"},
           {"walk_forward_fold_row_id", "candidate_id"})>>,
       <<"optimization_fold_results", Table({"optimization_walk_forward_folds"},
           {"walk_forward_fold_row_id"})>>,
       <<"optimization_checkpoints", ChildOf("optimization_runs", {})>>,
       <<"optimization_reproducibility_checksums", ChildOf("optimization_runs", {})>>,
       <<"optimization_execution_diagnostics", ChildOf("optimization_runs", {})>> >>

Drop0005 ==
    <<"optimization_execution_diagnostics", "optimization_reproducibility_checksums",
      "optimization_checkpoints", "optimization_fold_results", "optimization_fold_selections",
      "optimization_walk_forward_folds", "optimization_walk_forward_runs",
      "optimization_selected_candidates", "optimization_pareto_fronts", "optimizer_trials",
      "optimization_candidate_evaluations", "optimization_constraints", "optimization_objectives",
      "optimization_parameter_spaces", "optimization_problems", "optimization_runs">>

Create0006 ==
    << <<"validation_runs", Table({}, {"run_id"})>>,
       <<"validation_candidate_results", ChildOf("validation_runs", {"candidate_id"})>>,
       <<"validation_folds", ChildOf("validation_runs", {"split_id"})>> >>

Drop0006 ==
    <<"validation_folds", "validation_candidate_results", "validation_runs">>

Create0007a ==
    << <<"portfolio_runs", Table({}, {"run_id"})>>,
       <<"portfolio_eligible_candidates", ChildOf("portfolio_runs", {"candidate_id"})>>,
       <<"portfolio_rejected_candidates", ChildOf("portfolio_runs", {"candidate_id"})>>,
       <<"portfolio_allocations", ChildOf("portfolio_runs", {"candidate_id"})>>,
       <<"portfolio_constraint_outcomes", Loose(ChildOf("portfolio_runs", {"constraint_name",
           "candidate_id"}), {"candidate_id"})>>,
       <<"portfolio_correlations", ChildOf("portfolio_runs", {"left_id", "right_id", "kind"})>>,
       <<"portfolio_clusters", ChildOf("portfolio_runs", {"candidate_id"})>> >>

Create0007b ==
    << <<"portfolio_risk_contributions", ChildOf("portfolio_runs", {"candidate_id"})>>,
       <<"portfolio_scenarios", ChildOf("portfolio_runs", {"scenario_name"})>>,
       <<"portfolio_rebalance_plans", ChildOf("portfolio_runs", {"candidate_id"})>> >>

Drop0007 ==
    <<"portfolio_rebalance_plans", "portfolio_scenarios", "portfolio_risk_contributions",
      "portfolio_clusters", "portfolio_correlations", "portfolio_constraint_outcomes",
      "portfolio_allocations", "portfolio_rejected_candidates", "portfolio_eligible_candidates",
      "portfolio_runs">>

Create0008a ==
    << <<"backtest_runs", Table({}, {"run_id"})>>,
       <<"backtest_events", OfRun({"sequence_number", "event_type"})>>,
       <<"backtest_order_intents", OfRun({"intent_id"})>>,
       <<"backtest_research_fills", OfRun({"intent_id"})>>,
       <<"backtest_positions", OfRun({"position_id", "as_of_timestamp"})>>,
       <<"backtest_position_legs", OfRun({"position_id", "leg_id", "as_of_timestamp"})>> >>

Create0008b ==
    << <<"backtest_valuations", Loose(OfRun({"valuation_timestamp", "position_id", "leg_id"}),
           {"leg_id"})>>,
       <<"backtest_cash_ledger_entries", OfRun({"entry_index"})>>,
       <<"backtest_portfolio_snapshots", OfRun({"snapshot_timestamp"})>>,
       <<"backtest_lifecycle_triggers", OfRun({"trigger_timestamp", "position_id", "trigger"})>>,
       <<"backtest_run_comparisons", Table({}, {"left_run_id", "right_run_id",
           "comparison_key_checksum"})>>,
       <<"backtest_scenario_results", OfRun({"scenario_name"})>>,
       <<"backtest_reproducibility_checksums", OfRun({"checksum_key"})>> >>

Drop0008 ==
    <<"backtest_reproducibility_checksums", "backtest_scenario_results",
      "backtest_run_comparisons", "backtest_lifecycle_triggers", "backtest_portfolio_snapshots",
      "backtest_cash_ledger_entries", "backtest_valuations", "backtest_position_legs",
      "backtest_positions", "backtest_research_fills", "backtest_order_intents",
      "backtest_events", "backtest_runs">>

Create0009a ==
    << <<"backtest_strategy_definitions", Table({"backtest_runs"}, {"definition_id"})>>,
       <<"backtest_strategy_templates", OfRun({"template_name", "strategy_instance_id"})>>,
       <<"backtest_strategy_instances", OfRun({"strategy_instance_id", "as_of_timestamp"})>>,
       <<"backtest_position_instances", OfRun({"position_instance_id", "as_of_timestamp"})>>,
       <<"backtest_state_transitions", OfRun({"strategy_instance_id", "sequence_number"})>>,
       <<"backtest_transition_guards", Table({"backtest_runs", "backtest_state_transitions"},
           {"run_row_id", "transition_row_id", "guard_name"})>>,
       <<"backtest_roll_plans", OfRun({"plan_id"})>> >>

Create0009b ==
    << <<"backtest_roll_relationships", OfRun({"plan_id", "relationship_type", "leg_label"})>>,
       <<"backtest_partial_fills", OfRun({"strategy_instance_id", "position_instance_id",
           "leg_label", "fill_timestamp"})>>,
       <<"backtest_reconciliation_events", OfRun({"strategy_instance_id", "position_instance_id",
           "event_timestamp"})>>,
       <<"backtest_integrity_failures", OfRun({"strategy_instance_id", "position_instance_id",
           "failure_timestamp", "reason_code"})>>,
       <<"backtest_strategy_histories", OfRun({"strategy_instance_id", "history_timestamp",
           "history_kind"})>> >>

Drop0009 ==
    <<"backtest_strategy_histories", "backtest_integrity_failures",
      "backtest_reconciliation_events", "backtest_partial_fills", "backtest_roll_relationships",
      "backtest_roll_plans", "backtest_transition_guards", "backtest_state_transitions",
      "backtest_position_instances", "backtest_strategy_instances", "backtest_strategy_templates",
      "backtest_strategy_definitions">>

Create0010a ==
    << <<"backtest_strategy_analytics", OfRun({"strategy_instance_id", "snapshot_timestamp"})>>,
       <<"backtest_portfolio_analytics", OfRun({"snapshot_timestamp"})>>,
       <<"backtest_pnl_attribution", OfRun({"strategy_instance_id", "snapshot_timestamp"})>>,
       <<"backtest_greeks_attribution", OfRun({"strategy_instance_id", "snapshot_timestamp"})>>,
       <<"backtest_reconstructed_trades", OfRun({"trade_id"})>>,
       <<"backtest_strategy_cycles", OfRun({"cycle_id"})>>,
       <<"backtest_replay_snapshots", OfRun({"snapshot_id"})>> >>

Create0010b ==
    << <<"backtest_event_overlays", OfRun({"event_sequence_number"})>>,
       <<"backtest_arbitration_decisions", OfRun({"decision_id"})>>,
       <<"backtest_comparison_runs", OfRun({"comparison_id"})>>,
       <<"backtest_export_metadata", OfRun({"export_id"})>> >>

Drop0010 ==
    <<"backtest_export_metadata", "backtest_comparison_runs", "backtest_arbitration_decisions",
      "backtest_event_overlays", "backtest_replay_snapshots", "backtest_strategy_cycles",
      "backtest_reconstructed_trades", "backtest_greeks_attribution", "backtest_pnl_attribution",
      "backtest_portfolio_analytics", "backtest_strategy_analytics">>

Create0011a ==
    << <<"backtest_execution_requests", OfRun({"request_id"})>>,
       <<"backtest_quote_selections", OfRun({"request_id"})>>,
       <<"backtest_fill_attempts", OfRun({"request_id", "attempt_timestamp"})>>,
       <<"backtest_execution_fills", Loose(OfRun({"request_id", "fill_timestamp"}),
           {"fill_timestamp"})>>,
       <<"backtest_fee_items", OfRun({"request_id", "event_timestamp", "fee_type"})>>,
       <<"backtest_exercise_decisions", OfRun({"request_id", "decision_timestamp"})>> >>

Create0011b ==
    << <<"backtest_assignment_decisions", OfRun({"request_id", "decision_timestamp"})>>,
       <<"backtest_expiration_events", OfRun({"request_id", "expiration_timestamp"})>>,
       <<"backtest_physical_settlements", OfRun({"request_id", "settlement_timestamp"})>>,
       <<"backtest_cash_settlements", OfRun({"request_id", "settlement_timestamp"})>>,
       <<"backtest_dividend_settlements", OfRun({"strategy_id", "position_id", "ex_date"})>>,
       <<"backtest_stock_positions", OfRun({"symbol", "strategy_id", "position_id",
           "as_of_timestamp"})>>,
       <<"backtest_cost_basis_records", OfRun({"strategy_cycle_id", "as_of_timestamp"})>> >>

Create0011c ==
    << <<"backtest_ledger_postings", OfRun({"posting_id"})>>,
       <<"backtest_pin_risk_diagnostics", OfRun({"request_id", "event_timestamp"})>>,
       <<"backtest_settlement_reconciliation", OfRun({"strategy_id", "position_id",
           "event_timestamp"})>>,
       <<"backtest_execution_reproducibility_checksums", OfRun({"checksum_key"})>> >>

Drop0011 ==
    <<"backtest_execution_reproducibility_checksums", "backtest_settlement_reconciliation",
      "backtest_pin_risk_diagnostics", "backtest_ledger_postings", "backtest_cost_basis_records",
      "backtest_stock_positions", "backtest_dividend_settlements", "backtest_cash_settlements",
      "backtest_physical_settlements", "backtest_expiration_events",
      "backtest_assignment_decisions", "backtest_exercise_decisions", "backtest_fee_items",
      "backtest_execution_fills", "backtest_fill_attempts", "backtest_quote_selections",
      "backtest_execution_requests">>

Create0012a ==
    << <<"backtest_account_configurations", OfRun({"account_id"})>>,
       <<"backtest_margin_policies", OfRun({"account_id", "policy_name", "policy_version"})>>,
       <<"backtest_margin_calculations", OfRun({"calculation_id"})>>,
       <<"backtest_buying_power_snapshots", OfRun({"account_id", "event_timestamp"})>>,
       <<"backtest_collateral_records", Loose(OfRun({"account_id", "event_timestamp",
           "position_id", "collateral_type"}), {"position_id"})>> >>

Create0012b ==
    << <<"backtest_cash_balances", OfRun({"account_id", "event_timestamp"})>>,
       <<"backtest_cash_settlement_flows", OfRun({"posting_id"})>>,
       <<"backtest_interest_accruals", OfRun({"accrual_id"})>>,
       <<"backtest_borrow_records", OfRun({"borrow_id"})>>,
       <<"backtest_borrow_accruals", OfRun({"accrual_id"})>>,
       <<"backtest_margin_call_events", OfRun({"call_id"})>> >>

Create0012c ==
    << <<"backtest_liquidation_plans", OfRun({"plan_id"})>>,
       <<"backtest_liquidation_steps", OfRun({"step_id"})>>,
       <<"backtest_liquidation_outcomes", OfRun({"plan_id", "event_timestamp"})>>,
       <<"backtest_broker_policy_comparisons", OfRun({"comparison_id"})>>,
       <<"backtest_margin_reconciliations", OfRun({"reconciliation_id"})>>,
       <<"backtest_margin_reproducibility_checksums", OfRun({"checksum_key"})>> >>

Drop0012 ==
    <<"backtest_margin_reproducibility_checksums", "backtest_margin_reconciliations",
      "backtest_broker_policy_comparisons", "backtest_liquidation_outcomes",
      "backtest_liquidation_steps", "backtest_liquidation_plans", "backtest_margin_call_events",
      "backtest_borrow_accruals", "backtest_borrow_records", "backtest_interest_accruals",
      "backtest_cash_settlement_flows", "backtest_cash_balances", "backtest_collateral_records",
      "backtest_buying_power_snapshots", "backtest_margin_calculations",
      "backtest_margin_policies", "backtest_account_configurations">>

Create0013a ==
    << <<"backtest_execution_calibration_datasets", OfRun({"dataset_id"})>>,
       <<"backtest_execution_fill_quality_observations", OfRun({"observation_id"})>>,
       <<"backtest_execution_slippage_models", OfRun({"model_id"})>>,
       <<"backtest_execution_spread_capture_models", OfRun({"model_id"})>>,
       <<"backtest_execution_partial_fill_models", OfRun({"model_id"})>> >>

Create0013b ==
    << <<"backtest_execution_transaction_cost_policies", OfRun({"policy_id"})>>,
       <<"backtest_execution_broker_policy_versions", OfRun({"policy_name", "policy_version"})>>,
       <<"backtest_execution_policy_comparisons", OfRun({"comparison_id"})>>,
       <<"backtest_execution_quality_scores", OfRun({"score_id"})>>,
       <<"backtest_execution_real_vs_simulated", OfRun({"comparison_id"})>>,
       <<"backtest_execution_validation_runs", OfRun({"validation_run_id"})>> >>

Create0013c ==
    << <<"backtest_execution_calibration_drift", OfRun({"drift_id"})>>,
       <<"backtest_execution_stress_test_results", OfRun({"scenario_name", "event_timestamp"})>>,
       <<"backtest_execution_calibration_checksums", OfRun({"checksum_key"})>> >>

Drop0013 ==
    <<"backtest_execution_calibration_checksums", "backtest_execution_stress_test_results",
      "backtest_execution_calibration_drift", "backtest_execution_validation_runs",
      "backtest_execution_real_vs_simulated", "backtest_execution_quality_scores",
      "backtest_execution_policy_comparisons", "backtest_execution_broker_policy_versions",
      "backtest_execution_transaction_cost_policies", "backtest_execution_partial_fill_models",
      "backtest_execution_spread_capture_models", "backtest_execution_slippage_models",
      "backtest_execution_fill_quality_observations", "backtest_execution_calibration_datasets">>

Create0014a ==
    << <<"strategy_template_registry", Table({}, {"canonical_identifier"})>>,
       <<"strategy_template_versions", Table({}, {"canonical_identifier", "template_version"})>>,
       <<"strategy_template_aliases", Table({}, {"alias"})>>,
       <<"strategy_parameter_schemas", Table({}, {"canonical_identifier", "template_version"})>>,
       <<"strategy_definition_documents", Table({}, {"strategy_definition_id"})>>,
       <<"strategy_definition_legs", Table({}, {"strategy_definition_id", "leg_label"})>>,
       <<"strategy_validation_results", Table({}, {"strategy_definition_id"})>> >>

Create0014b ==
    << <<"strategy_payoff_summaries", Table({}, {"strategy_definition_id"})>>,
       <<"strategy_risk_classifications", Table({}, {"canonical_identifier",
           "template_version"})>>,
       <<"strategy_compatibility_metadata", Table({}, {"canonical_identifier",
           "template_version"})>>,
       <<"strategy_optimizer_contracts", Table({}, {"canonical_identifier",
           "template_version"})>>,
       <<"strategy_template_checksums", Table({}, {"checksum_key"})>> >>

Drop0014 ==
    <<"strategy_template_checksums", "strategy_optimizer_contracts",
      "strategy_compatibility_metadata", "strategy_risk_classifications",
      "strategy_payoff_summaries", "strategy_validation_results", "strategy_definition_legs",
      "strategy_definition_documents", "strategy_parameter_schemas", "strategy_template_aliases",
      "strategy_template_versions", "strategy_template_registry">>

Create0015 ==
    << <<"strategy_policy_registry", Table({}, {"policy_id"})>>,
       <<"strategy_policy_aliases", Table({}, {"alias"})>>,
       <<"strategy_policy_set_versions", Table({}, {"set_id", "set_version"})>>,
       <<"strategy_policy_evaluations", Table({}, {"run_id", "evaluation_id"})>>,
       <<"strategy_policy_conflicts", Table({}, {"run_id", "conflict_id"})>>,
       <<"strategy_policy_checksums", Table({}, {"checksum_key"})>> >>

Drop0015 ==
    <<"strategy_policy_checksums", "strategy_policy_conflicts", "strategy_policy_evaluations",
      "strategy_policy_set_versions", "strategy_policy_aliases", "strategy_policy_registry">>

Create0016a ==
    << <<"roll_policy_registry", Table({}, {"canonical_identifier"})>>,
       <<"roll_policy_aliases", Table({}, {"alias"})>>,
       <<"backtest_roll_requests", Table({}, {"run_id", "request_id"})>>,
       <<"backtest_roll_candidates", Table({}, {"run_id", "candidate_id"})>>,
       <<"backtest_roll_eligibility_results", Table({}, {"run_id", "eligibility_id"})>>,
       <<"backtest_roll_executions", Table({}, {"run_id", "execution_id"})>>,
       <<"backtest_roll_fills", Table({}, {"run_id", "execution_id", "fill_timestamp",
           "leg_label"})>> >>

Create0016b ==
    << <<"backtest_partial_roll_states", Table({}, {"run_id", "state_id"})>>,
       <<"backtest_roll_reconciliations", Table({}, {"run_id", "reconciliation_id"})>>,
       <<"backtest_basis_transfers", Table({}, {"run_id", "basis_transfer_id"})>>,
       <<"backtest_conversion_plans", Table({}, {"run_id", "conversion_id"})>>,
       <<"backtest_conversion_executions", Table({}, {"run_id", "execution_id"})>>,
       <<"backtest_management_comparisons", Table({}, {"run_id", "comparison_id"})>>,
       <<"backtest_roll_analytics", Table({}, {"run_id", "analytics_id"})>>,
       <<"backtest_conversion_analytics", Table({}, {"run_id", "analytics_id"})>> >>

Create0016c ==
    << <<"strategy_management_optimizer_contracts", Table({}, {"contract_id"})>>,
       <<"strategy_management_checksums", Table({}, {"checksum_key"})>> >>

Drop0016 ==
    <<"strategy_management_checksums", "strategy_management_optimizer_contracts",
      "backtest_conversion_analytics", "backtest_roll_analytics",
      "backtest_management_comparisons", "backtest_conversion_executions",
      "backtest_conversion_plans", "backtest_basis_transfers", "backtest_roll_reconciliations",
      "backtest_partial_roll_states", "backtest_roll_fills", "backtest_roll_executions",
      "backtest_roll_eligibility_results", "backtest_roll_candidates", "backtest_roll_requests",
      "roll_policy_aliases", "roll_policy_registry">>

Create0017a ==
    << <<"risk_factor_definitions", Table({}, {"factor_id"})>>,
       <<"risk_scenario_definitions", Table({}, {"scenario_id"})>>,
       <<"risk_scenario_versions", Table({}, {"scenario_id", "version"})>>,
       <<"risk_scenario_shocks", Table({}, {"scenario_id", "version", "ordering", "factor_id"})>>,
       <<"risk_scenario_runs", Table({}, {"run_id"})>>,
       <<"risk_instrument_scenario_results", Table({}, {"run_id", "instrument_id"})>> >>

Create0017b ==
    << <<"risk_strategy_scenario_results", Table({}, {"run_id", "strategy_id"})>>,
       <<"risk_portfolio_scenario_results", Table({}, {"run_id", "portfolio_id"})>>,
       <<"risk_scenario_greeks_impacts", Table({}, {"run_id", "scope", "scope_id"})>>,
       <<"risk_scenario_margin_impacts", Table({}, {"run_id", "scope", "scope_id"})>>,
       <<"risk_scenario_liquidity_impacts", Table({}, {"run_id", "scope", "scope_id"})>>,
       <<"risk_scenario_matrices", Table({}, {"run_id", "matrix_id", "row_key", "column_key"})>>,
       <<"risk_attributions", Table({}, {"run_id", "attribution_id"})>> >>

Create0017c ==
    << <<"risk_limit_breaches", Table({}, {"run_id", "metric"})>>,
       <<"risk_management_comparisons", Table({}, {"run_id", "comparison_id"})>>,
       <<"historical_scenario_metadata", Table({}, {"scenario_id"})>>,
       <<"risk_quality_diagnostics", Table({}, {"run_id", "diagnostic_id"})>>,
       <<"risk_reproducibility_checksums", Table({}, {"checksum_key"})>> >>

Drop0017 ==
    <<"risk_reproducibility_checksums", "risk_quality_diagnostics",
      "historical_scenario_metadata", "risk_management_comparisons", "risk_limit_breaches",
      "risk_attributions", "risk_scenario_matrices", "risk_scenario_liquidity_impacts",
      "risk_scenario_margin_impacts", "risk_scenario_greeks_impacts",
      "risk_portfolio_scenario_results", "risk_strategy_scenario_results",
      "risk_instrument_scenario_results", "risk_scenario_runs", "risk_scenario_shocks",
      "risk_scenario_versions", "risk_scenario_definitions", "risk_factor_definitions">>

Create0018a ==
    << <<"replay_sessions", Table({}, {"session_id"})>>,
       <<"replay_branches", Table({}, {"session_id", "branch_id"})>>,
       <<"replay_checkpoints", Table({}, {"session_id", "checkpoint_id"})>>,
       <<"replay_bookmarks", Table({}, {"session_id", "bookmark_id"})>>,
       <<"replay_events", Table({}, {"session_id", "branch_id", "event_sequence"})>>,
       <<"replay_annotations", Table({}, {"session_id", "annotation_id"})>>,
       <<"replay_filters", Table({}, {"session_id", "filter_id"})>>,
       <<"replay_comparisons", Table({}, {"session_id", "comparison_id"})>> >>

Create0018b ==
    << <<"replay_diagnostics", Table({}, {"session_id", "diagnostic_id"})>>,
       <<"replay_reproducibility_reports", Table({}, {"session_id", "report_id"})>>,
       <<"decision_explanations", Table({}, {"session_id", "explanation_id"})>>,
       <<"experiments", Table({}, {"experiment_id"})>>,
       <<"experiment_comparisons", Table({}, {"comparison_id"})>>,
       <<"workspace_metadata", Table({}, {"workspace_key"})>> >>

Drop0018 ==
    <<"workspace_metadata", "experiment_comparisons", "experiments", "decision_explanations",
      "replay_reproducibility_reports", "replay_diagnostics", "replay_comparisons",
      "replay_filters", "replay_annotations", "replay_events", "replay_bookmarks",
      "replay_checkpoints", "replay_branches", "replay_sessions">>

Create0019 ==
    << <<"institutional_research_artifacts", Table({}, {"artifact_id"})>> >>

Drop0019 ==
    <<"institutional_research_artifacts">>

\* mutant: events unique by job instead of by job and sequence
Create0020NoSequence ==
    << <<"provider_jobs", Table({}, {"job_id"})>>,
       <<"provider_job_events", Table({"provider_jobs"}, {"job_id"})>>,
       <<"provider_checkpoints", Table({"provider_jobs"}, {"job_id", "checkpoint_id"})>>,
       <<"provider_failures", Table({"provider_jobs"}, {})>> >>

Create0020 ==
    << <<"provider_jobs", Table({}, {"job_id"})>>,
       <<"provider_job_events", Table({"provider_jobs"}, {"job_id", "sequence"})>>,
       <<"provider_checkpoints", Table({"provider_jobs"}, {"job_id", "checkpoint_id"})>>,
       <<"provider_failures", Table({"provider_jobs"}, {})>> >>

Drop0020 ==
    <<"provider_failures", "provider_checkpoints", "provider_job_events", "provider_jobs">>

Create0021 ==
    << <<"provider_operational_artifacts", AlsoUnique(Table({}, {"artifact_id"}), {"checksum"})>>
           >>

Drop0021 ==
    <<"provider_operational_artifacts">>

\* mutant: a revision that creates what an earlier one has created
Create0022Again ==
    Create0021 \o << <<"provider_runtime_state", Table({}, {"state_id"})>> >>

Create0022 ==
    << <<"provider_runtime_state", AlsoUnique(AlsoUnique(Table({}, {"provider", "state_kind",
           "state_id"}), {"checksum"}), {"state_id"})>> >>

Drop0022 ==
    <<"provider_runtime_state">>

\* the columns 0002 adds to the corporate actions, and drops again
Columns0002 ==
    {"announcement_timestamp", "provider_action_id", "cash_amount",
     "multiplier_after", "deliverable_after", "source_metadata"}

\* the tables revision r creates, in order, and those its downgrade drops, in
\* order; 0001 writes no table by name (SchemaEvolution)
Creates ==
    << <<>>, Create0002a \o Create0002b, Create0003, Create0004,
       Create0005a \o Create0005b, Create0006, Create0007a \o Create0007b,
       Create0008a \o Create0008b, Create0009a \o Create0009b, Create0010a \o Create0010b,
       Create0011a \o Create0011b \o Create0011c,
       Create0012a \o Create0012b \o Create0012c,
       Create0013a \o Create0013b \o Create0013c, Create0014a \o Create0014b, Create0015,
       Create0016a \o Create0016b \o Create0016c,
       Create0017a \o Create0017b \o Create0017c, Create0018a \o Create0018b, Create0019,
       Create0020, Create0021, Create0022 >>

Drops ==
    << <<>>, Drop0002, Drop0003, Drop0004, Drop0005, Drop0006, Drop0007, Drop0008,
       Drop0009, Drop0010, Drop0011, Drop0012, Drop0013, Drop0014, Drop0015, Drop0016,
       Drop0017, Drop0018, Drop0019, Drop0020, Drop0021, Drop0022 >>
=============================================================================
