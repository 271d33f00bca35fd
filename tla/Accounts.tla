------------------------------- MODULE Accounts ------------------------------
(* One margin account: its cash ledger (portfolio/cash.py), the Reg T         *)
(* requirement of its positions and the calls of the monitor (margin.py), the *)
(* liquidation of positions to meet a deficit (liquidation.py) and the        *)
(* reconciliation of it all (reconciliation.py).  Who posts, holds, pays and  *)
(* closes is not under src/.  Money is whole, and every percentage of it too. *)
EXTENDS Integers, SequencesExt, FiniteSetsExt

CONSTANTS
    Configurations, \* [type, settled, unsettled, minimumExcess, house, pending,
                   \* obliged]: the house overlay in percent, what is reserved for
                   \* orders and exercises, and for assignments and settlements
    Books,          \* the positions held, each a candidate for liquidation
    Timing,         \* settlement days of the kinds of cash events
    Amounts,        \* of the postings
    LastDay,        \* bound: days
    MaxPostings     \* bound: postings

ConstantsType == \A e \in DOMAIN Timing : Timing[e] \in Nat

VARIABLES
    account, held,
    day,
    postings,      \* the ledger, as listed
    margin,        \* the monitor's answer about this ledger, None before
    plan,          \* the liquidation just planned, None for none
    outcome,       \* what simulate made of it
    verdict        \* of the reconciliation just made

vars == <<account, held, day, postings, margin, plan, outcome, verdict>>

None == [present |-> FALSE]
SumOver(s, F(_)) ==
    LET upTo[i \in 0 .. Len(s)] == IF i = 0 THEN 0 ELSE upTo[i - 1] + F(s[i]) IN upTo[Len(s)]
PerCent(p, x) == (p * x) \div 100

Init ==
    /\ account \in Configurations /\ held \in Books
    /\ day = 0 /\ postings = <<>>
    /\ margin = None /\ plan = None /\ outcome = None /\ verdict = None

\* an answer is the caller's until the ledger moves on; nothing under src/ acts
\* on one
Forget == plan' = None /\ outcome' = None /\ verdict' = None

-----------------------------------------------------------------------------
(* The ledger.  A posting takes effect on its trade day and settles some days *)
(* later; what is reserved is no cash event.                                  *)
LagDays(event) == IF event \in DOMAIN Timing THEN Timing[event] ELSE 0

Posting(when, lag, amount, reserved, collateral) ==
    [effective |-> when, settles |-> when + lag, amount |-> amount,
     reserved |-> reserved, collateral |-> collateral]

Post(event, amount, when) ==
    /\ Len(postings) < MaxPostings
    /\ postings' = Append(postings, Posting(when, LagDays(event), amount, 0, 0))
    /\ Forget /\ margin' = None
    /\ UNCHANGED <<account, held, day>>

Reserve(amount, collateral) ==
    /\ Len(postings) < MaxPostings
    /\ postings' = Append(postings, Posting(day, 0, 0, IF collateral THEN 0 ELSE amount,
                                                      IF collateral THEN amount ELSE 0))
    /\ Forget /\ margin' = None
    /\ UNCHANGED <<account, held, day>>

\* what was unsettled when the account was opened stays so
Snapshot(asOf) ==
    LET seen    == SelectSeq(postings, LAMBDA p : p.effective <= asOf)
        settled == account.settled + SumOver(seen, LAMBDA p : IF p.settles <= asOf THEN p.amount ELSE 0)
        unsettled == account.unsettled + SumOver(seen, LAMBDA p : IF p.settles <= asOf THEN 0 ELSE p.amount)
        reserved == SumOver(seen, LAMBDA p : p.reserved)
        collateral == SumOver(seen, LAMBDA p : p.collateral)
    IN  [settled |-> settled, unsettled |-> unsettled, reserved |-> reserved,
         collateral |-> collateral, free |-> settled - reserved - collateral,
         net |-> settled + unsettled]

NextDay ==
    /\ day < LastDay
    /\ day' = day + 1
    /\ Forget /\ margin' = None
    /\ UNCHANGED <<account, held, postings>>

-----------------------------------------------------------------------------
(* The requirement of a position, by the family of its strategy.  The net     *)
(* premium is a credit in the families of credit and a debit in the others.   *)
Value(p) == Max({p.marketValue, -p.marketValue})
Debit(p) == Max({0, p.netPremium})
Contracts(p) == Max({leg.quantity : leg \in ToSet(p.legs)})
Struck(p) == SelectSeq(p.legs, LAMBDA leg : leg.kind # "stock")
Strikes(p) == {leg.strike : leg \in ToSet(Struck(p))}

LossOfOne(p) ==                                                     \* mutant
    LET loss == IF Len(Struck(p)) >= 2
                THEN Max({0, (Max(Strikes(p)) - Min(Strikes(p))) * 100 - p.netPremium})
                ELSE Max({p.netPremium, -p.netPremium})
    IN  IF p.legs = <<>> THEN Value(p)
        ELSE IF p.definedRisk /\ ~p.uncovered THEN loss
        ELSE Max({loss, PerCent(20, Value(p))})
DefinedRiskLoss(p) ==
    LET loss == IF Len(Struck(p)) >= 2
                THEN Max({0, (Max(Strikes(p)) - Min(Strikes(p))) * Contracts(p) * 100 - p.netPremium})
                ELSE Max({p.netPremium, -p.netPremium})
    IN  IF p.legs = <<>> THEN Value(p)
        ELSE IF p.definedRisk /\ ~p.uncovered THEN loss
        ELSE Max({loss, PerCent(20, Value(p))})

CashSecured(p) == Max(Strikes(p)) * Contracts(p) * 100 - Debit(p)

\* initial, maintenance
FamilyRequirement(p) ==
    CASE p.family = "long_stock"  -> <<PerCent(50, Value(p)), PerCent(25, Value(p))>>
      [] p.family = "short_stock" -> <<PerCent(150, Value(p)), PerCent(130, Value(p))>>
      [] p.family = "covered_call" -> <<PerCent(50, Value(p)), PerCent(25, Value(p))>>
      [] p.family = "cash_secured_put" -> <<CashSecured(p), CashSecured(p)>>
      [] p.family \in {"long_option", "debit_spread", "butterfly"} -> <<Debit(p), Debit(p)>>
      [] p.family \in {"credit_spread", "iron_condor", "jade_lizard"} ->
             <<DefinedRiskLoss(p), DefinedRiskLoss(p)>>
      [] p.family = "calendar" ->
             <<Max({DefinedRiskLoss(p), Debit(p)}), Max({DefinedRiskLoss(p), Debit(p)})>>
      [] p.family = "uncovered_option" ->
             <<Max({PerCent(20, Value(p)), DefinedRiskLoss(p)}), Max({PerCent(15, Value(p)), DefinedRiskLoss(p)})>>
      [] OTHER -> <<Max({DefinedRiskLoss(p), PerCent(25, Value(p))}), Max({DefinedRiskLoss(p), PerCent(20, Value(p))})>>

Requirement(p, n) ==
    IF p.uncovered THEN Max({FamilyRequirement(p)[n], PerCent(IF n = 1 THEN 20 ELSE 15, Value(p))})
    ELSE FamilyRequirement(p)[n]

\* for an event and for concentration, of the initial requirement
AddOn(p) ==
    (IF p.eventRisk THEN PerCent(10, Requirement(p, 1)) ELSE 0)
    + PerCent(Max({0, p.concentration - 20}), Requirement(p, 1))

InitialRequirement(p)     == Requirement(p, 1) + AddOn(p)
MaintenanceRequirement(p) == Requirement(p, 2) + AddOn(p)

BaseBuyingPower(cash) ==
    CASE account.type = "cash" -> Max({0, cash.settled - cash.reserved})
      [] account.type = "ira"  -> Max({0, cash.net - cash.reserved})
      [] OTHER                 -> Max({0, 2 * cash.net - cash.reserved})

\* the add-ons of the positions are added to the totals once more
Evaluate(cash) ==
    LET addOns      == SumOver(held, AddOn)
                       + PerCent(account.house, SumOver(held, LAMBDA p : Max({0, p.marketValue})))
        initial     == SumOver(held, InitialRequirement) + addOns + account.pending + account.obliged
        maintenance == SumOver(held, MaintenanceRequirement) + addOns + account.obliged
    IN  [initial |-> initial, maintenance |-> maintenance,
         buyingPower |-> BaseBuyingPower(cash) - initial,
         excess |-> cash.net - maintenance - cash.reserved]

Calls(result, cash) ==
    {reason \in {"initial_margin_failure", "maintenance_margin_breach", "borrow_failure"} :
        \/ reason = "initial_margin_failure" /\ result.initial > cash.net
        \/ reason = "maintenance_margin_breach" /\ result.excess < account.minimumExcess
        \/ reason = "borrow_failure" /\ \E i \in DOMAIN held : held[i].hardToBorrow}

Monitor ==
    /\ LET cash == Snapshot(day)   result == Evaluate(cash)
       IN  margin' = [present |-> TRUE, result |-> result, calls |-> Calls(result, cash),
                      required |-> Max({result.excess, -result.excess}),
                      met |-> FALSE]
    /\ Forget /\ UNCHANGED <<account, held, day, postings>>

Called == margin.present /\ "maintenance_margin_breach" \in margin.calls

\* the holder pays what was asked, there and then, and the monitor looks again
MeetCall ==
    /\ Called /\ ~margin.met /\ Len(postings) < MaxPostings
    /\ postings' = Append(postings, Posting(day, 0, margin.required, 0, 0))
    /\ LET cash == [Snapshot(day) EXCEPT !.net = @ + margin.required, !.settled = @ + margin.required]
           result == Evaluate(cash)
       IN  margin' = [present |-> TRUE, result |-> result, calls |-> Calls(result, cash),
                      required |-> Max({result.excess, -result.excess}),
                      met |-> TRUE]
    /\ Forget /\ UNCHANGED <<account, held, day>>

-----------------------------------------------------------------------------
(* The liquidation.  Candidates of equal keys stay in the order given.        *)
Flag(b) == IF b THEN 1 ELSE 0
Policies ==
    {"largest_margin_relief_first", "lowest_expected_value_loss_first", "lowest_robustness_score_first",
     "highest_risk_contribution_first", "highest_liquidity_first", "most_liquid_losing_position_first",
     "close_uncovered_risk_first", "close_assignment_created_exposure_first", "strategy_preserving",
     "composite_priority"}
RankKey(policy, c) ==
    CASE policy = "largest_margin_relief_first"      -> <<-c.relief, c.id>>
      [] policy = "lowest_expected_value_loss_first" -> <<c.loss, c.id>>
      [] policy = "lowest_robustness_score_first"    -> <<c.robustness, c.id>>
      [] policy = "highest_risk_contribution_first"  -> <<-c.risk, c.id>>
      [] policy = "highest_liquidity_first"          -> <<-c.liquidity, c.id>>
      [] policy = "most_liquid_losing_position_first" -> <<c.loss, -c.liquidity>>
      [] policy = "close_uncovered_risk_first"       -> <<1 - Flag(c.uncovered), c.id>>
      [] policy = "close_assignment_created_exposure_first" -> <<1 - Flag(c.assigned), c.id>>
      [] policy = "strategy_preserving"              -> <<Flag(c.definedRisk), -c.relief>>
      [] OTHER -> <<-(2 * c.relief + c.liquidity - 2 * c.loss - c.robustness + c.risk), c.id>>

Rank(policy) ==
    LET place(i) == Append(RankKey(policy, held[i]), i)
        before(i, j) == \E n \in 1 .. 3 : place(i)[n] < place(j)[n]
                                          /\ \A k \in 1 .. n - 1 : place(i)[k] = place(j)[k]
        order == SortSeq([i \in DOMAIN held |-> i], before)
    IN  [i \in DOMAIN order |-> held[order[i]]]

Liquidable(c, preserving, minimumSize) ==
    /\ ~c.restricted
    /\ ~(preserving /\ c.definedRisk /\ ~c.uncovered)
    /\ minimumSize > 0 => c.legs # <<>> /\ Contracts(c) > minimumSize
    /\ c.relief > 0

StepsWhole(deficit, candidates) ==                                  \* mutant
    FoldLeft(LAMBDA done, c :
        IF SumOver(done, LAMBDA s : s.relief) >= deficit THEN done
        ELSE Append(done, [position |-> c.id, relief |-> c.relief, whole |-> TRUE,
                           loss |-> c.loss, uncovered |-> c.uncovered]),
        <<>>, candidates)

\* one candidate after another, of the last only the fraction that is needed
Steps(deficit, candidates) ==
    FoldLeft(LAMBDA done, c :
        LET left == deficit - SumOver(done, LAMBDA s : s.relief)
            taken == Min({left, c.relief})
        IN  IF left <= 0 THEN done
            ELSE Append(done, [position |-> c.id, relief |-> taken, whole |-> taken = c.relief,
                               loss |-> (c.loss * taken) \div c.relief,
                               uncovered |-> c.uncovered]),
        <<>>, candidates)

PlanLiquidation(policy, deficit, preserving, minimumSize) ==
    /\ Called /\ plan = None
    /\ LET able  == SelectSeq(Rank(policy), LAMBDA c : Liquidable(c, preserving, minimumSize))
           steps == Steps(deficit, able)
       IN  plan' = [present |-> TRUE, largestFirst |-> policy = "largest_margin_relief_first", deficit |-> deficit,
                    preserving |-> preserving, minimumSize |-> minimumSize, steps |-> steps,
                    solved |-> SumOver(steps, LAMBDA s : s.relief) >= deficit]
    /\ outcome' = None /\ verdict' = None
    /\ UNCHANGED <<account, held, day, postings, margin>>

Simulate ==
    /\ plan # None /\ outcome = None
    /\ LET relief == SumOver(plan.steps, LAMBDA s : s.relief)
           loss   == SumOver(plan.steps, LAMBDA s : s.loss)
       IN  outcome' = [present |-> TRUE, loss |-> loss,
                       deficit |-> Max({0, plan.deficit - relief}),
                       excess  |-> margin.result.excess + relief - loss,
                       broken  |-> \E s \in ToSet(plan.steps) : s.uncovered]
    /\ UNCHANGED <<account, held, day, postings, margin, plan, verdict>>

-----------------------------------------------------------------------------
\* the first check of verify() sets the cash with the unsettled against the cash
\* without; half of the others compare a number with itself
Reconcile(reserved, collateral) ==
    LET cash == Snapshot(day)
    IN  /\ margin # None
        /\ verdict' = [present |-> TRUE,
                       exact |-> reserved = cash.reserved /\ collateral = cash.collateral,
                       reconciled |-> /\ cash.settled + cash.unsettled
                                         = cash.free + cash.reserved + cash.collateral
                                      /\ reserved = cash.reserved
                                      /\ collateral = cash.collateral]
        /\ plan' = None /\ outcome' = None
        /\ UNCHANGED <<account, held, day, postings, margin>>

\* what is reserved, and what it is expected to be, is an amount of money
Sums == {amount \in Amounts : amount > 0}

Next ==
    \/ \E event \in DOMAIN Timing \cup {"release"}, amount \in Amounts, when \in {day, day + 1} :
           Post(event, amount, when)
    \/ \E amount \in Sums, collateral \in BOOLEAN : Reserve(amount, collateral)
    \/ NextDay \/ Monitor \/ MeetCall \/ Simulate
    \/ \E policy \in Policies, preserving \in BOOLEAN, size \in {0, 2} :
           PlanLiquidation(policy, margin.required, preserving, size)
    \/ \E reserved, collateral \in {0} \cup Sums : Reconcile(reserved, collateral)

Spec == Init /\ [][Next]_vars

-----------------------------------------------------------------------------
TypeOK ==
    /\ account \in Configurations /\ held \in Books /\ day \in 0 .. LastDay
    /\ Len(postings) <= MaxPostings
    /\ plan # None => margin # None
    /\ outcome # None => plan # None

\* The books reconcile only when nothing is unsettled, and then whenever the
\* expected reservations are the real ones: money on its way, and the unsettled
\* cash of the opening, which nothing ever settles, make verify() raise.  A
\* posting is worth the same before and after it settles (post, snapshot,
\* AccountReconciliationEngine.verify).
ReconciledIsSettled ==
    /\ verdict # None =>
           (verdict.reconciled <=> verdict.exact /\ Snapshot(day).unsettled = 0)
    /\ \A later \in 0 .. LastDay + 2 :
           \* every posting has settled by then
           later >= Max({0} \cup {postings[i].settles : i \in DOMAIN postings}) =>
               /\ Snapshot(later).unsettled = account.unsettled
               /\ Snapshot(later).net = account.settled + account.unsettled
                                         + SumOver(postings, LAMBDA p : p.amount)

\* A liquidation takes what it needs and no more: at most its last step closes a
\* position in part, it is solved exactly when the candidates that may be closed
\* suffice, no other order closes fewer positions than largest relief first, and
\* what is planned is what the simulation leaves over (plan, _rank, simulate).
LiquidationIsExact ==
    plan # None =>
        LET able == SelectSeq(held, LAMBDA c : Liquidable(c, plan.preserving, plan.minimumSize))
            relieved == SumOver(plan.steps, LAMBDA s : s.relief)
            others == {Steps(plan.deficit, SelectSeq(Rank(p), LAMBDA c :
                           Liquidable(c, plan.preserving, plan.minimumSize))) : p \in Policies}
        IN  /\ relieved = Min({plan.deficit, SumOver(able, LAMBDA c : c.relief)})
            /\ plan.solved = (relieved = plan.deficit)
            /\ \A i \in 1 .. Len(plan.steps) - 1 : plan.steps[i].whole
            /\ plan.largestFirst =>
                   \A o \in others : Len(plan.steps) <= Len(o)
            /\ outcome # None => (plan.solved <=> outcome.deficit = 0)

\* What a position of defined risk must hold is at least what it can lose at
\* expiration, at any price, in the families that are sold as such; the jade
\* lizard, of whose put the loss below the strikes is not counted, is left out
\* (_evaluate_position, _defined_risk_loss).
Payoff(p, price) ==
    SumOver(p.legs, LAMBDA leg :
        (IF leg.buys THEN 100 ELSE -100) * leg.quantity
        * Max({0, IF leg.kind = "call" THEN price - leg.strike ELSE leg.strike - price}))
    + (IF p.family \in {"credit_spread", "iron_condor", "cash_secured_put"} THEN p.netPremium ELSE -p.netPremium)
MarginCoversWorst ==
    margin # None =>
        \A i \in DOMAIN held :
            LET p == held[i]
                needed == Requirement(p, 1)
            IN  /\ p.family \in {"long_option", "debit_spread", "butterfly", "credit_spread",
                                 "iron_condor", "cash_secured_put"}
                /\ ~p.uncovered
                => \A price \in 0 .. 10 : Payoff(p, price) >= -needed

\* A maintenance call that is paid in full leaves no deficit, and is over at once
\* unless the account must keep a minimum: what is asked is what is missing to
\* zero, not to the minimum (MarginMonitor.evaluate).
PaidCallsEnd ==
    margin # None /\ margin.met =>
        /\ margin.result.excess >= 0
        /\ Called => account.minimumExcess > 0
=============================================================================
