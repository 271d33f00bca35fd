-------------------------------- MODULE Rolls -------------------------------
(* The rolls of one position (backtesting/strategy_management.py): a target   *)
(* is selected, RollEligibilityGuard judges it, build_roll_plan makes a plan, *)
(* the caller executes an eligible plan, whole or in part, and asks           *)
(* reconcile_partial_roll what to do with the rest.  The caller, who counts   *)
(* the rolls and the debits and passes the elapsed time, is not under src/.   *)
EXTENDS Integers, Sequences, FiniteSetsExt

CONSTANTS
    Estimates,     \* net credits (> 0) and debits (< 0) of a roll, or Unknown
    Fees,          \* the fees of one roll
    Expirations,   \* expiration days listed
    Monthly,       \* those that fall on a day from the 15th to the 21st
    Limits,        \* what a request may ask: minimumCredit, maximumDebit,
                   \* maximumCumulative, each a number or Unknown
    MaxRolls,      \* max_roll_count
    TimeOut,       \* timeout_seconds of a partial roll
    LastDay,       \* bound: days of the run
    Unknown        \* None

ConstantsType ==
    /\ Unknown \notin Int /\ Estimates \subseteq Int \cup {Unknown}
    /\ Fees \in Int /\ MaxRolls \in Nat /\ TimeOut \in Nat /\ LastDay \in Nat \ {0}
    /\ \A l \in Limits :
          {l.minimumCredit, l.maximumDebit, l.maximumCumulative} \subseteq Int \cup {Unknown}

VARIABLES
    request,       \* the limits of this position's requests
    day,           \* requested_timestamp
    phase,         \* "open", "planned", "partial", "closed"
    plan,          \* the plan last built, NoPlan for none
    plans,         \* the plans executed, in order
    debits,        \* the caller's cumulative debit
    credits,       \* and credit
    partial,       \* the PartialRollState of the roll under way
    elapsed        \* seconds since that roll began

vars == <<request, day, phase, plan, plans, debits, credits, partial, elapsed>>

NoPlan == [eligible |-> FALSE]
Whole  == [naked |-> FALSE, filled |-> {}]

TypeOK ==
    /\ request \in Limits /\ day \in 1 .. LastDay
    /\ phase \in {"open", "planned", "partial", "closed"}
    /\ \A i \in DOMAIN plans : plans[i].estimate \in Estimates
    /\ debits \in Nat /\ credits \in Nat
    /\ partial.naked \in BOOLEAN /\ partial.filled \subseteq {"close", "target"}
    /\ elapsed \in 0 .. TimeOut

Init ==
    /\ request \in Limits /\ day = 1 /\ phase = "open"
    /\ plan = NoPlan /\ plans = <<>> /\ debits = 0 /\ credits = 0
    /\ partial = Whole /\ elapsed = 0

-----------------------------------------------------------------------------
(* RollTargetSelector                                                         *)
FutureExpirations(now) == {e \in Expirations : e > now}
NextWeekly(now) == IF FutureExpirations(now) = {} THEN Unknown ELSE Min(FutureExpirations(now))
NextMonthly(now) ==
    LET months == FutureExpirations(now) \cap Monthly
    IN  IF months # {} THEN Min(months) ELSE NextWeekly(now)
Distance(a, b) == Max({a - b, b - a})
\* the first listed of the nearest, in no order
NearestTargetDte(now, dte) ==
    LET future == FutureExpirations(now)
    IN  IF future = {} THEN {Unknown}
        ELSE {e \in future : \A f \in future : Distance(e - now, dte) <= Distance(f - now, dte)}

Targets(now) == {NextWeekly(now), NextMonthly(now)} \cup NearestTargetDte(now, 2)

-----------------------------------------------------------------------------
(* RollEligibilityGuard.  Of its twenty findings about the market, the margin *)
(* and the risk, each a rejection of its own, two stand for all: at most one  *)
(* speaks against a candidate, Unknown for none.                              *)
Circumstances ==
    {"target_quote_unavailable", "policy_cooldown_active"}

TargetRejections(target, strikeGiven, byDelta) ==
    (IF target = Unknown THEN {"invalid_target_expiration"} ELSE {})
    \cup (IF ~strikeGiven /\ ~byDelta THEN {"invalid_target_strike"} ELSE {})

RejectionsOfCount(estimate) ==                                      \* mutant
    IF Len(plans) > MaxRolls THEN {"maximum_roll_count_reached"} ELSE {}
LimitRejections(estimate) ==
    {code \in {"maximum_roll_count_reached", "maximum_cumulative_debit_exceeded",
               "minimum_credit_not_met", "maximum_debit_exceeded"} :
        \/ code = "maximum_roll_count_reached" /\ Len(plans) >= MaxRolls
        \/ /\ code = "maximum_cumulative_debit_exceeded"
           /\ request.maximumCumulative # Unknown
           /\ debits > request.maximumCumulative
        \/ /\ code = "minimum_credit_not_met"
           /\ request.minimumCredit # Unknown
           /\ IF estimate = Unknown THEN TRUE ELSE estimate < request.minimumCredit
        \/ /\ code = "maximum_debit_exceeded"
           /\ request.maximumDebit # Unknown /\ estimate # Unknown
           /\ estimate < 0 /\ -estimate > request.maximumDebit}

CircumstanceRejections(against) == IF against = Unknown THEN {} ELSE {against}

Rejections(target, strikeGiven, byDelta, estimate, against) ==
    TargetRejections(target, strikeGiven, byDelta) \cup LimitRejections(estimate)
        \cup CircumstanceRejections(against)

\* build_roll_plan refuses quantities, never an ineligible candidate: a plan
\* carries its evaluation and the caller looks at it
BuildRollPlan(target, strikeGiven, byDelta, estimate, against, quantity) ==
    /\ phase = "open"
    /\ quantity > 0
    /\ plan' = [eligible |-> Rejections(target, strikeGiven, byDelta, estimate, against) = {},
                estimate |-> estimate, fees |-> Fees,
                warned   |-> estimate = Unknown]
    /\ phase' = IF plan'.eligible THEN "planned" ELSE "open"
    /\ UNCHANGED <<request, day, plans, debits, credits, partial, elapsed>>

-----------------------------------------------------------------------------
\* what the roll costs: as estimated, or anything when nothing was estimated
Cost(estimate) == IF estimate = Unknown THEN Estimates \ {Unknown} ELSE {estimate}

Booked(net) ==
    /\ debits' = debits + Max({0, -net})
    /\ credits' = credits + Max({0, net})
    /\ plans' = Append(plans, plan)

ExecuteRoll ==
    /\ phase = "planned" /\ plan.eligible
    /\ \E net \in Cost(plan.estimate) : Booked(net)
    /\ phase' = "open" /\ plan' = NoPlan
    /\ UNCHANGED <<request, day, partial, elapsed>>

\* the sides of the roll that were filled; naked when the target was opened and
\* the source is not closed, or a protecting source leg is closed alone
FillPartly(filled, naked) ==
    /\ phase = "planned" /\ plan.eligible
    /\ phase' = "partial"
    /\ partial' = [naked |-> naked, filled |-> filled]
    /\ elapsed' = 0
    /\ UNCHANGED <<request, day, plan, plans, debits, credits>>

Wait ==
    \/ /\ phase = "partial" /\ elapsed < TimeOut
       /\ elapsed' = elapsed + 1
       /\ UNCHANGED <<request, day, phase, plan, plans, debits, credits, partial>>
    \/ /\ phase # "partial" /\ day < LastDay
       /\ day' = day + 1
       /\ UNCHANGED <<request, phase, plan, plans, debits, credits, partial, elapsed>>

\* reconcile_partial_roll
FallbackCloseLate    == elapsed > TimeOut /\ partial.naked          \* mutant
FallbackClose        == elapsed >= TimeOut /\ partial.naked
CancelRoll(allowed)  == elapsed >= TimeOut /\ ~allowed
RetryRoll(allowed)   == elapsed < TimeOut /\ allowed

\* the caller asks, and does what was scheduled: the close before the cancel
Reconcile(allowed) ==
    /\ phase = "partial"
    /\ \/ /\ FallbackClose
          /\ phase' = "closed" /\ plan' = NoPlan /\ partial' = Whole
          /\ UNCHANGED <<plans, debits, credits>>
       \/ /\ ~FallbackClose /\ CancelRoll(allowed)
          /\ phase' = "open" /\ plan' = NoPlan /\ partial' = Whole
          /\ UNCHANGED <<plans, debits, credits>>
       \/ /\ RetryRoll(allowed)
          /\ \/ /\ \E net \in Cost(plan.estimate) : Booked(net)
                /\ phase' = "open" /\ plan' = NoPlan /\ partial' = Whole
             \/ /\ partial' \in [naked : BOOLEAN, filled : SUBSET {"close", "target"}]
                /\ UNCHANGED <<phase, plan, plans, debits, credits>>
       \/ /\ ~FallbackClose /\ ~CancelRoll(allowed) /\ ~RetryRoll(allowed)
          /\ UNCHANGED <<phase, plan, partial, plans, debits, credits>>
    /\ UNCHANGED <<request, day, elapsed>>

Next ==
    \/ \E target \in Targets(day), given, byDelta \in BOOLEAN, estimate \in Estimates,
          against \in Circumstances \cup {Unknown}, quantity \in {0, 1} :
           BuildRollPlan(target, given, byDelta, estimate, against, quantity)
    \/ ExecuteRoll
    \/ \E filled \in SUBSET {"close", "target"}, naked \in BOOLEAN : FillPartly(filled, naked)
    \/ Wait
    \/ \E allowed \in BOOLEAN : Reconcile(allowed)

\* the clock of a partial roll runs and a caller who would retry goes on asking
Spec ==
    /\ Init /\ [][Next]_vars
    /\ WF_vars(phase = "partial" /\ Wait)
    /\ WF_vars(Reconcile(TRUE))

-----------------------------------------------------------------------------
Priced == \A i \in DOMAIN plans : ~plans[i].warned

\* summarize_rolls over the plans executed
Total(amounts) ==
    LET upTo[n \in 0 .. Len(amounts)] == IF n = 0 THEN 0 ELSE upTo[n - 1] + amounts[n]
    IN  upTo[Len(amounts)]
DebitOf(p)  == IF p.estimate = Unknown THEN 0 ELSE Max({0, -p.estimate})
CreditOf(p) == IF p.estimate = Unknown THEN 0 ELSE Max({0, p.estimate})
CumulativeDebit  == Total([i \in DOMAIN plans |-> DebitOf(plans[i])])
CumulativeCredit == Total([i \in DOMAIN plans |-> CreditOf(plans[i])])
CumulativeFees   == Total([i \in DOMAIN plans |-> plans[i].fees])
\* what validate_basis_transfer_invariants expects of the roll cost
CumulativeRollCost == CumulativeDebit - CumulativeCredit + CumulativeFees

\* A position is rolled at most MaxRolls times and its debits pass the cap on
\* their sum by at most one roll, itself within the cap on one: the guard sees
\* the debits of the rolls before, not that of the candidate
\* (RollEligibilityGuard.evaluate).  A roll nobody could price escapes both caps;
\* of a limit below zero, which nothing refuses, nothing is said.
Asked(limit) == limit # Unknown /\ limit >= 0
RollsAreCapped ==
    /\ Len(plans) <= MaxRolls
    /\ Priced /\ Asked(request.maximumCumulative) /\ Asked(request.maximumDebit) =>
           debits <= request.maximumCumulative + request.maximumDebit
    /\ Asked(request.minimumCredit) => debits = 0

\* The analytics over the executed plans tell the caller's own sums when every
\* one of them was priced, and the roll cost the basis check expects is theirs
\* (summarize_rolls, validate_basis_transfer_invariants).
AnalyticsAgree ==
    Priced => /\ CumulativeDebit = debits /\ CumulativeCredit = credits
              /\ CumulativeRollCost = debits - credits + Fees * Len(plans)

\* A position left naked by half a roll does not stay so: it is retried into
\* another state or closed once the time is out.  (One left partly rolled but
\* covered, with a retry allowed, may stay: past the time nothing is scheduled.)
NakedRollsEnd == (phase = "partial" /\ partial.naked) ~> ~(phase = "partial" /\ partial.naked)
=============================================================================
