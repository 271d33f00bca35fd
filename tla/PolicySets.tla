------------------------------ MODULE PolicySets -----------------------------
(* The evaluation of a stored policy set over the life of a strategy          *)
(* (backtesting/strategy_policy_library.py, evaluate_policy_set) and the      *)
(* resolution of what its policies say (policies.py,                          *)
(* PolicyConflictResolver).  The set keeps names, and each evaluation looks   *)
(* them up again, among the aliases registered by then.  An observation is a  *)
(* whole number, a share counted in per cent, or Unknown.                     *)
EXTENDS Integers, SequencesExt, FiniteSetsExt

CONSTANTS
    Composed,      \* the policy sets besides those that ship: [policies, mode]
    Parameters,    \* what the policies may have been registered with
    Contexts,      \* what may be observed
    Redirected,    \* names an alias is registered for once the library is filled
    MaxAliases,    \* bound: how many of them
    Unknown        \* an observation nobody has

VARIABLES
    parameters,
    aliases,       \* name -> policy
    set,           \* the policy set of this strategy
    context,       \* what was observed at the last evaluation
    signals,       \* what its policies said, in the order of the set
    winner         \* the place of the signal that won, 0 where none did

vars == <<parameters, aliases, set, context, signals, winner>>

-----------------------------------------------------------------------------
(* The library as it is filled: seven policies, and one of a caller that has  *)
(* no evaluator; the aliases; the sets.                                       *)
Evaluated == {"entry.iv_rank_floor", "exit.profit_target", "exit.stop_loss",
              "management.roll_dte_window", "earnings.avoid_near_event",
              "dividend.avoid_ex_div_window", "roll.delta_breach"}
Policies == Evaluated \cup {"custom"}

\* exit, roll and earnings policies
Mandatory(p) == p \in {"exit.profit_target", "exit.stop_loss", "earnings.avoid_near_event",
                       "roll.delta_breach"}

Priority ==
    [p \in Policies |->
        CASE p = "entry.iv_rank_floor" -> 40
          [] p = "management.roll_dte_window" -> 30
          [] p = "custom" -> 20
          [] p = "dividend.avoid_ex_div_window" -> 15
          [] p = "exit.profit_target" -> 10
          [] p = "exit.stop_loss" -> 5
          [] p = "roll.delta_breach" -> 3
          [] p = "earnings.avoid_near_event" -> 1]

Shipped ==
    [a \in {"profit_target", "stop_loss", "earnings_block", "delta_roll"} |->
        CASE a = "profit_target"  -> "exit.profit_target"
          [] a = "stop_loss"      -> "exit.stop_loss"
          [] a = "earnings_block" -> "earnings.avoid_near_event"
          [] a = "delta_roll"     -> "roll.delta_breach"]

PmccCore ==
    [policies |-> <<"entry.iv_rank_floor", "exit.profit_target", "exit.stop_loss",
                    "management.roll_dte_window", "earnings.avoid_near_event",
                    "dividend.avoid_ex_div_window", "roll.delta_breach">>,
     mode |-> "priority_ordering"]
WheelCore ==
    [policies |-> <<"entry.iv_rank_floor", "exit.profit_target", "exit.stop_loss",
                    "earnings.avoid_near_event">>,
     mode |-> "priority_ordering"]

Sets == {PmccCore, WheelCore} \cup Composed

-----------------------------------------------------------------------------
(* When a policy passes.  What is not known fails, but for the dividend       *)
(* window, which nobody is in unless it is said.                              *)
EvaluatePolicy(p, c) ==
    LET known(o) == o # Unknown IN
    CASE p = "entry.iv_rank_floor" -> known(c.iv_rank) /\ c.iv_rank >= parameters.minimum
      [] p = "exit.profit_target"  -> known(c.pnl_pct) /\ c.pnl_pct >= parameters.target
      [] p = "exit.stop_loss"      -> known(c.pnl_pct) /\ c.pnl_pct <= parameters.threshold
      [] p = "management.roll_dte_window" -> known(c.dte) /\ c.dte <= parameters.max_dte
      [] p = "earnings.avoid_near_event"  -> known(c.earnings) /\ c.earnings > parameters.min_days
      [] p = "dividend.avoid_ex_div_window" -> parameters.block_window => ~c.in_dividend_window
      [] p = "roll.delta_breach"   -> known(c.delta) /\ c.delta >= parameters.limit

\* an alias goes ahead of a policy of its name
ResolvePolicy(name) == IF name \in DOMAIN aliases THEN aliases[name] ELSE name

\* the policy is evaluated under the name listed, its priority looked up under its own
Signal(name, c) ==
    LET p == ResolvePolicy(name)
    IN  [policy |-> p, passed |-> EvaluatePolicy(p, c), priority |-> Priority[ResolvePolicy(p)]]

\* the signals that count, passed or not, the least priority first and of equals the
\* one listed first
Pool(said) ==
    LET mandatory == {i \in DOMAIN said : Mandatory(said[i].policy)}
    IN  IF mandatory # {} THEN mandatory ELSE DOMAIN said
Ahead(said, i, j) ==
    said[i].priority < said[j].priority \/ (said[i].priority = said[j].priority /\ i <= j)
ResolveFirst(said, mode) == IF said = <<>> THEN 0 ELSE 1              \* mutant
Resolve(said, mode) ==
    IF said = <<>> THEN 0
    ELSE IF mode = "first_match" THEN 1
    ELSE CHOOSE i \in Pool(said) : \A j \in Pool(said) : Ahead(said, i, j)

-----------------------------------------------------------------------------
Init ==
    /\ parameters \in Parameters /\ set \in Sets /\ context = CHOOSE c \in Contexts : TRUE
    /\ aliases = Shipped /\ signals = <<>> /\ winner = 0

\* of a policy that is registered, under a name that is no other's alias: else it raises
\* and changes nothing
RegisterAlias(alias, p) ==
    /\ Cardinality(DOMAIN aliases) < Cardinality(DOMAIN Shipped) + MaxAliases
    /\ alias \notin DOMAIN aliases
    /\ aliases' = [a \in DOMAIN aliases \cup {alias} |-> IF a = alias THEN p ELSE aliases[a]]
    /\ UNCHANGED <<parameters, set, context, signals, winner>>

\* a policy without an evaluator raises, and nobody wins
EvaluatePolicySet(c) ==
    /\ context' = c
    /\ IF \E i \in DOMAIN set.policies : ResolvePolicy(set.policies[i]) \notin Evaluated
       THEN signals' = <<>> /\ winner' = 0
       ELSE /\ signals' = [i \in DOMAIN set.policies |-> Signal(set.policies[i], c)]
            /\ winner' = Resolve(signals', set.mode)
    /\ UNCHANGED <<parameters, aliases, set>>

Next ==
    \/ \E a \in Redirected, p \in Policies : RegisterAlias(a, p)
    \/ \E c \in Contexts : EvaluatePolicySet(c)

Spec == Init /\ [][Next]_vars

-----------------------------------------------------------------------------
ConstantsType ==
    /\ \A s \in Composed :
          /\ s.policies \in Seq(Policies \cup DOMAIN Shipped)
          /\ s.mode \in {"first_match", "priority_ordering", "all_match_diagnostics"}
    /\ \A c \in Contexts : c.earnings \in Int \cup {Unknown}
    /\ \A p \in Parameters : p.min_days \in Int
    /\ Contexts # {} /\ Unknown \notin Int

TypeOK ==
    /\ parameters \in Parameters /\ set \in Sets /\ context \in Contexts
    /\ DOMAIN aliases \subseteq DOMAIN Shipped \cup Redirected
    /\ \A a \in DOMAIN aliases : aliases[a] \in Policies
    /\ signals = <<>> \/ DOMAIN signals = DOMAIN set.policies
    /\ winner \in DOMAIN signals \cup {0}

\* The earnings policy blocks: where a set that lists it lets any signal win that
\* passed, earnings are known and further away than the window, whatever else was
\* observed and whatever aliases were registered before the evaluation or after it.
\* Three things undo it in the code: a set that takes its first signal; an alias
\* registered under the policy's own name, which the stored set follows to another
\* policy; and an alias of a policy the set comes to, whose priority is then that
\* of a third.
EarningsBlock ==
    LET listed == {set.policies[i] : i \in DOMAIN set.policies}
        byName == "earnings.avoid_near_event" \in listed \ DOMAIN aliases
        straight == \A n \in listed : ResolvePolicy(ResolvePolicy(n)) = ResolvePolicy(n)
    IN  /\ winner # 0 /\ signals[winner].passed /\ set.mode # "first_match"
        /\ byName \/ "earnings_block" \in listed
        /\ straight
        => context.earnings # Unknown /\ context.earnings > parameters.min_days
=============================================================================
