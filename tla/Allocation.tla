----------------------------- MODULE Allocation -----------------------------
(* Capital among strategies: a portfolio is constructed again and again       *)
(* (portfolio/allocation.py with eligibility.py, sizing.py and            *)
(* rebalancing.py), each time from the allocations of the last, and actions   *)
(* that compete for what is free are arbitrated (backtesting/arbitration.py). *)
(* A weight is a whole number of Unit parts; whoever calls construct hands it *)
(* the allocations of its last run.                                           *)
EXTENDS Integers, Sequences, FiniteSetsExt, Functions

CONSTANTS
    Profiles,   \* what a candidate may look like: [eligible, latest, robustness, value,
                \* volatility]; value is the expected value and the expected return
    Ids,        \* candidates 1..N, in the order of their names
    Sizings,    \* SizingPolicy; MINIMUM_VARIANCE sizes by inverse_volatility whatever it says
    Settings,   \* [maximum, minimum, reserve, asOf]: the diversification policy, the
                \* reserve and the date
    Capital,    \* bound: what is free for the actions
    Unit, KellyCap, Drift,
    Actions,    \* lists of competing actions
    Rankings,   \* ArbitrationPolicy
    MaxRuns     \* bound: constructions

\* What the classes of the code hold: amounts are not negative, a volatility is positive, and
\* the actions of a list are told apart.
Sizing == {"equal_weight", "expected_value_weighted", "robustness_weighted",
           "kelly_fractional", "inverse_volatility"}
Ranking == {"fixed_priority", "risk_first", "capital_efficiency", "highest_robustness_score",
            "highest_expected_value", "lowest_marginal_risk", "strategy_age_priority",
            "first_in_first_out", "composite_score"}
ProfileType ==
    [eligible : BOOLEAN, latest : Int, robustness : Int, value : Int, volatility : Nat \ {0}]
ActionType ==
    [id : Int, mandatory : BOOLEAN, capital : Nat, value : Int, risk : Int, marginal : Int,
     score : Int, age : Int, submitted : Int]
ConstantsType ==
    /\ Ids \subseteq Nat /\ IsFiniteSet(Ids) /\ Profiles \subseteq ProfileType
    /\ "equal_weight" \in Sizings /\ Sizings \subseteq Sizing /\ Rankings \subseteq Ranking
    /\ Settings \subseteq [maximum : Nat, minimum : Nat, reserve : Nat, asOf : Int]
    /\ {Capital, Unit, KellyCap, MaxRuns} \subseteq Nat /\ Drift \in Int
    /\ Actions \subseteq Seq(ActionType)
    /\ \A list \in Actions : \A i, j \in DOMAIN list : list[i].id = list[j].id => i = j

VARIABLES
    problem,    \* of the last construction: [candidates, sizing, settings]
    allocations, \* its selected allocations, by candidate
    previous,   \* and those it was given
    changes,    \* its rebalance plan
    runs,
    decision    \* of the last arbitration

vars == <<problem, allocations, previous, changes, runs, decision>>

None == [by |-> "none"]
Nothing == [c \in {} |-> 0]
Free == [maximum |-> Unit, minimum |-> 0, reserve |-> 0, asOf |-> 0]

Init ==
    /\ problem = [candidates |-> Nothing, sizing |-> "equal_weight", settings |-> Free]
    /\ allocations = Nothing /\ previous = Nothing /\ changes = Nothing
    /\ runs = 0 /\ decision = None

-----------------------------------------------------------------------------
(* EligibilityEngine, PositionSizer                                           *)
Eligible(p) == {i \in DOMAIN p.candidates : p.candidates[i].eligible}

Raw(sizing, c) ==
    CASE sizing = "expected_value_weighted" -> Max({c.value, 0})
      [] sizing = "robustness_weighted" -> Max({c.robustness, 0})
      [] sizing = "kelly_fractional" -> Min({KellyCap, Max({c.value, 0}) \div (c.volatility * c.volatility)})
      [] sizing = "inverse_volatility" -> Unit \div c.volatility
      [] OTHER -> 1

SumOf(f) == FoldFunction(+, 0, f)

\* the share of each, or none of anything when there is nothing to share
Weight(p, i) ==
    LET raw == [j \in Eligible(p) |-> Raw(p.sizing, p.candidates[j])]
    IN  IF SumOf(raw) = 0 THEN 0 ELSE (Unit * raw[i]) \div SumOf(raw)

-----------------------------------------------------------------------------
(* PortfolioAllocator: a candidate's place, and the candidate at a place      *)
AheadByName(p, i, j) == i < j                                       \* mutant
Ahead(p, i, j) ==
    LET c == p.candidates
    IN  \/ c[i].robustness > c[j].robustness
        \/ c[i].robustness = c[j].robustness /\ c[i].value > c[j].value
        \/ c[i].robustness = c[j].robustness /\ c[i].value = c[j].value /\ i < j

Place(p, i) == Cardinality({j \in Eligible(p) : j = i \/ Ahead(p, j, i)})
Rank(p) == [n \in 1 .. Cardinality(Eligible(p)) |-> CHOOSE i \in Eligible(p) : Place(p, i) = n]

Available(p) == Max({0, Unit - p.settings.reserve})
Target(p, i) == Max({p.settings.minimum, Min({p.settings.maximum, Weight(p, i)})})

LeftWhole(p, used) == Available(p)                                  \* mutant
Left(p, used) == Available(p) - used

Greedy(p) ==
    LET order == Rank(p)
        share(used, i) == Min({Target(p, i), Left(p, used)})
        used[n \in 0 .. Cardinality(Eligible(p))] ==
            IF n = 0 THEN 0 ELSE used[n - 1] + share(used[n - 1], order[n])
        given(i) == share(used[Place(p, i) - 1], i)
    IN  [i \in {j \in Eligible(p) : given(j) > 0} |-> given(i)]

-----------------------------------------------------------------------------
(* RebalanceEngine: a change for every candidate of either portfolio          *)
WeightIn(a, i) == IF i \in DOMAIN a THEN a[i] ELSE 0

HeldAfter(before, after) == DOMAIN after                            \* mutant
Held(before, after) == DOMAIN before \cup DOMAIN after

Plan(before, after) ==
    [i \in Held(before, after) |->
        LET delta == WeightIn(after, i) - WeightIn(before, i)
        IN  [delta |-> delta,
             drifted |-> Max({delta, -delta}) >= Drift,
             completed |-> WeightIn(before, i) > 0 /\ WeightIn(after, i) = 0]]

\* construct raises when any candidate, an ineligible one too, has seen later than asOf
Construct(p) ==
    /\ runs < MaxRuns /\ decision = None
    /\ \A i \in DOMAIN p.candidates : p.candidates[i].latest <= p.settings.asOf
    /\ problem' = p
    /\ previous' = allocations
    /\ allocations' = Greedy(p)
    /\ changes' = Plan(allocations, allocations')
    /\ runs' = runs + 1
    /\ UNCHANGED decision

-----------------------------------------------------------------------------
(* CrossStrategyArbitrator: an action is [id, mandatory, capital, value,      *)
(* risk, marginal, score, age, submitted]; ties keep the order of the list.   *)
(* A decision keeps nothing and touches no portfolio: one is enough.          *)
Key(by, a) ==
    LET first(test) == IF test THEN 0 ELSE 1
    IN  CASE by = "fixed_priority" -> <<a.risk, a.submitted>>
          [] by = "risk_first" -> <<first(a.mandatory), a.risk>>
          [] by = "capital_efficiency" -> <<a.capital>>
          [] by = "highest_robustness_score" -> <<-a.score, a.submitted>>
          [] by = "highest_expected_value" -> <<-a.value, a.submitted>>
          [] by = "lowest_marginal_risk" -> <<a.marginal, a.submitted>>
          [] by = "strategy_age_priority" -> <<-a.age, a.submitted>>
          [] by = "first_in_first_out" -> <<a.submitted>>
          [] by = "composite_score" ->
               <<first(a.mandatory), -a.value, a.capital, -a.score, a.marginal>>

Before(k, m) == \E n \in DOMAIN k : k[n] < m[n] /\ \A j \in 1 .. n - 1 : k[j] = m[j]

Turn(by, list, i) ==
    Cardinality({j \in DOMAIN list : \/ Before(Key(by, list[j]), Key(by, list[i]))
                                     \/ Key(by, list[j]) = Key(by, list[i]) /\ j <= i})
Ranked(by, list) == [n \in DOMAIN list |-> list[CHOOSE i \in DOMAIN list : Turn(by, list, i) = n]]

SpendsNothing(a) == 0                                               \* mutant
Spends(a) == a.capital

\* what is left after the first n of the ranking
LeftAfter(ranked, capital) ==
    LET left[n \in 0 .. Len(ranked)] ==
            IF n = 0 THEN capital
            ELSE left[n - 1] - IF ranked[n].capital <= left[n - 1] THEN Spends(ranked[n]) ELSE 0
    IN  left

Decide(by, list, capital) ==
    LET ranked == Ranked(by, list)
        left   == LeftAfter(ranked, capital)
        fits(n) == ranked[n].capital <= left[n - 1]
    IN  /\ runs = 0 /\ decision = None
        /\ decision' = [by |-> by, capital |-> capital, remaining |-> left[Len(ranked)],
                        accepted |-> {ranked[n] : n \in {k \in DOMAIN ranked : fits(k)}},
                        rejected |-> {ranked[n] : n \in {k \in DOMAIN ranked : ~fits(k)}}]
        /\ UNCHANGED <<problem, allocations, previous, changes, runs>>

Next ==
    \/ \E c \in [Ids -> Profiles], sizing \in Sizings, settings \in Settings :
          Construct([candidates |-> c, sizing |-> sizing, settings |-> settings])
    \/ \E by \in Rankings, list \in Actions, capital \in 0 .. Capital : Decide(by, list, capital)

Spec == Init /\ [][Next]_vars

-----------------------------------------------------------------------------
\* The type of every variable.
TypeOK ==
    /\ problem.sizing \in Sizings /\ runs \in 0 .. MaxRuns
    /\ DOMAIN allocations \subseteq Ids /\ \A i \in DOMAIN allocations : allocations[i] \in 1 .. Unit

\* allocation.py:182-189, 226-259.  A portfolio is within its reserve, no weight passes the larger of
\* the two limits, and only eligible candidates have one; who got less than its target was cut
\* because nothing was left, and whoever got anything has only whole targets ranked before it.
PortfolioIsFunded ==
    LET more(j, i) == problem.candidates[j].robustness > problem.candidates[i].robustness
        limit == Max({problem.settings.minimum, problem.settings.maximum})
    IN  /\ SumOf(allocations) <= Available(problem)
        /\ DOMAIN allocations \subseteq Eligible(problem)
        /\ \A i \in DOMAIN allocations :
            /\ allocations[i] <= limit
            /\ \A j \in Eligible(problem) : more(j, i) => WeightIn(allocations, j) = Target(problem, j)
        /\ \A i \in Eligible(problem) :
            WeightIn(allocations, i) < Target(problem, i) => SumOf(allocations) = Available(problem)

\* rebalancing.py:23-45.  From whatever was held, the plan leads to what was selected, and a
\* candidate held before that is not eligible any more is closed by it.
PlanLeadsThere ==
    /\ \A i \in Ids :
        WeightIn(previous, i) + (IF i \in DOMAIN changes THEN changes[i].delta ELSE 0)
            = WeightIn(allocations, i)
    /\ \A i \in DOMAIN previous \ Eligible(problem) : i \in DOMAIN changes /\ changes[i].completed

\* arbitration.py:56-79.  What is accepted can be paid together, and nothing was rejected that what
\* remains would pay; where mandatory actions come first, none is rejected for an optional one.
ArbitrationIsFair ==
    LET sum(actions) == SumOf([a \in actions |-> a.capital])
    IN  decision # None =>
        /\ sum(decision.accepted) + decision.remaining = decision.capital /\ decision.remaining >= 0
        /\ \A a \in decision.rejected :
            /\ a.capital > decision.remaining
            /\ decision.by \in {"risk_first", "composite_score"} /\ a.mandatory =>
                 a.capital > decision.capital - sum({b \in decision.accepted : b.mandatory})
=============================================================================
