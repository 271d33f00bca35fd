----------------------------- MODULE Structures -----------------------------
(* One strategy structure: a template of the catalogue, the contracts chosen  *)
(* for its legs, the verdict of StrategyStructureValidator and the summary of *)
(* StrategyPayoffAnalyzer (backtesting/strategy_library.py).  Prices are      *)
(* whole numbers; an option costs what MarketPremium says, a share EntryPrice.*)
EXTENDS Templates, FiniteSetsExt

CONSTANTS
    Chosen,        \* the templates structures are built of
    Strikes,       \* the strikes listed
    Expirations,   \* the expirations listed, in order
    Flaws,         \* the ways in which the last contract may not belong
    Grids,         \* the price grids a summary may be asked for
    Far            \* a price above every strike and every grid

ASSUME StructureAssumption ==
    /\ Chosen \subseteq Catalogue
    /\ Strikes \subseteq 1 .. Far - 1 /\ Expirations \subseteq Nat

VARIABLES
    template,      \* the template chosen, NoTemplate before
    selected,      \* the contracts of its legs so far, as a sequence
    verdict,       \* the codes of the errors and of the warnings
    summary        \* what the payoff analyzer answered

vars == <<template, selected, verdict, summary>>

NoTemplate == Of(None, None, <<>>)
NotAsked   == [asked |-> FALSE]
EntryPrice == 2
MarketPremium(kind, strike) == IF kind = "put" THEN strike ELSE Far - strike

TypeOK ==
    /\ template \in Chosen \cup {NoTemplate}
    /\ Len(selected) <= Len(template.legs)
    /\ verdict = NotAsked \/ verdict.errors \cup verdict.warnings \subseteq STRING
    /\ summary = NotAsked \/ summary.grid \in Grids

Init == template = NoTemplate /\ selected = <<>> /\ verdict = NotAsked /\ summary = NotAsked

IsOption(leg) == leg.kind \in {"call", "put"}

-----------------------------------------------------------------------------
(* The contracts.  The code takes the selected legs from its caller: one per  *)
(* leg of the template, in any strike, expiration and multiplier.             *)
Contract(label, leg, strike, expiration, multiplier, priced, flaw) ==
    [label      |-> IF flaw = "label" THEN 1 ELSE label,
     kind       |-> leg.kind,
     buys       |-> leg.buys,
     quantity   |-> IF flaw = "quantity" THEN 0 ELSE leg.ratio,
     strike     |-> strike,
     expiration |-> expiration,
     multiplier |-> multiplier,
     premium    |-> IF leg.kind = "stock" THEN EntryPrice
                    ELSE IF priced /\ IsOption(leg) THEN MarketPremium(leg.kind, strike)
                    ELSE 0,
     flaw       |-> flaw]

Choose(t) ==
    /\ template = NoTemplate
    /\ template' = t
    /\ UNCHANGED <<selected, verdict, summary>>

SelectLeg(strike, expiration, multiplier, priced, flaw) ==
    /\ verdict = NotAsked /\ Len(selected) < Len(template.legs)
    /\ LET n == Len(selected) + 1
           leg == template.legs[n]
       IN  /\ flaw # None => n = Len(template.legs)
           /\ IsOption(leg) => multiplier = 100
           /\ IF IsOption(leg) THEN TRUE ELSE strike = Min(Strikes)
           /\ leg.expiryHint = None => expiration = Min(Expirations)
           /\ n > 1 => priced = (\E i \in DOMAIN selected : IsOption(selected[i]) /\ selected[i].premium # 0)
                       \/ ~\E i \in DOMAIN selected : IsOption(selected[i])
           /\ selected' = Append(selected,
                  Contract(n, leg, strike, expiration, multiplier, priced, flaw))
    /\ UNCHANGED <<template, verdict, summary>>

-----------------------------------------------------------------------------
(* The structure check.                                                       *)
StrikeRank(hint) ==
    CASE hint \in {"lowest", "lower"} -> 0
      [] hint \in {"inner_low", "higher"} -> 1
      [] hint = "body" -> 2
      [] hint = "inner_high" -> 3
      [] hint = "highest" -> 4

\* the contract the dictionary keyed by label holds: the last of its label
Under(label) == selected[Max({i \in DOMAIN selected : selected[i].label = label})]
Labelled == {l \in DOMAIN template.legs :
                \E i \in DOMAIN selected : selected[i].label = l}

NoStrikeOrder == FALSE                                              \* mutant
HasStrikeOrderingIssue ==
    \E l, r \in {k \in Labelled : template.legs[k].strikeHint # None} :
        LET left == StrikeRank(template.legs[l].strikeHint)
            right == StrikeRank(template.legs[r].strikeHint)
        IN  /\ left < right \/ (left = right /\ l < r)
            /\ Under(r).strike < Under(l).strike

Hinted(hint) == {Under(l).expiration : l \in {k \in Labelled : template.legs[k].expiryHint = hint}}

HasExpirationOrderingIssue ==
    /\ Hinted("front") # {} /\ Hinted("back") # {}
    /\ Max(Hinted("front")) >= Min(Hinted("back"))

Errors ==
    LET Flawed(f) == \E i \in DOMAIN selected : selected[i].flaw = f
        Code(c, holds) == IF holds THEN {c} ELSE {}
    IN  IF selected = <<>> THEN {"missing_legs"}
        ELSE Code("duplicate_legs", Cardinality({selected[i].label : i \in DOMAIN selected})
                                        # Len(selected))
             \cup Code("invalid_quantity", \E i \in DOMAIN selected : selected[i].quantity <= 0)
             \cup Code("mixed_underlyings", Flawed("underlying") /\ Len(selected) > 1)
             \cup Code("mixed_multipliers",
                       Cardinality({selected[i].multiplier : i \in DOMAIN selected}) > 1)
             \cup Code("unsupported_exercise_style", Flawed("style"))
             \cup Code("incompatible_settlement", Flawed("settlement"))
             \cup Code("invalid_strike_order", HasStrikeOrderingIssue)
             \cup Code("invalid_expiration_order", HasExpirationOrderingIssue)

Warnings ==
    IF selected = <<>> THEN {}
    ELSE {c \in {"unsupported_contract_adjustments", "incomplete_data", "undefined_risk"} :
             \/ c = "unsupported_contract_adjustments"
                /\ \E i \in DOMAIN selected : selected[i].flaw = "adjusted"
             \/ c = "incomplete_data" /\ \E i \in DOMAIN selected : selected[i].flaw = "unrated"
             \/ c = "undefined_risk" /\ ~DefinedRisk(template)}

Validate ==
    /\ template # NoTemplate /\ verdict = NotAsked
    /\ Len(selected) \in {0, Len(template.legs)}
    /\ verdict' = [asked |-> TRUE, errors |-> Errors, warnings |-> Warnings]
    /\ UNCHANGED <<template, selected, summary>>

-----------------------------------------------------------------------------
(* The payoff summary.                                                        *)
LegPayoff(leg, price) ==
    LET sign == IF leg.buys THEN 1 ELSE -1
        contracts == sign * leg.quantity * Max({1, leg.multiplier})
    IN  CASE leg.kind = "call"  -> contracts * (Max({0, price - leg.strike}) - leg.premium)
          [] leg.kind = "put"   -> contracts * (Max({0, leg.strike - price}) - leg.premium)
          [] leg.kind = "stock" -> sign * leg.quantity * (price - leg.premium)
          [] OTHER              -> sign * leg.quantity * leg.premium

PayoffAtPrice(price) ==
    MapThenSumSet(LAMBDA i : LegPayoff(selected[i], price), DOMAIN selected)

\* the grid prices with a breakeven at them or before their successor: a zero at
\* the last price is not one
BreakevenPoints(grid) ==
    {p \in grid \ {Max(grid)} :
        LET next == Min({q \in grid : q > p})
        IN  \/ PayoffAtPrice(p) = 0
            \/ PayoffAtPrice(p) < 0 /\ PayoffAtPrice(next) > 0
            \/ PayoffAtPrice(p) > 0 /\ PayoffAtPrice(next) < 0}

CreditOrDebit ==
    LET net == MapThenSumSet(LAMBDA i :
                   (IF selected[i].buys THEN -1 ELSE 1)
                   * selected[i].premium * selected[i].quantity * Max({1, selected[i].multiplier}),
                   DOMAIN selected)
    IN  IF net = 0 THEN "even" ELSE IF net > 0 THEN "credit" ELSE "debit"

Summarize(grid) ==
    /\ verdict # NotAsked /\ summary = NotAsked
    /\ LET payoffs == {PayoffAtPrice(p) : p \in grid}
           empty   == selected = <<>> \/ grid = {}
       IN  summary' = [asked |-> TRUE, grid |-> grid,
                       breakevens    |-> IF empty THEN {} ELSE BreakevenPoints(grid),
                       maximumLoss   |-> IF empty THEN None ELSE Min(payoffs),
                       maximumProfit |-> IF empty THEN None ELSE Max(payoffs),
                       capitalAtRisk |-> IF empty THEN None
                                         ELSE -Min({0} \cup payoffs),
                       tag |-> IF selected = <<>> THEN "even" ELSE CreditOrDebit]
    /\ UNCHANGED <<template, selected, verdict>>

Next ==
    \/ \E t \in Chosen : Choose(t)
    \/ \E strike \in Strikes, expiration \in Expirations, multiplier \in {1, 100},
          priced \in BOOLEAN, flaw \in Flaws \cup {None} :
           SelectLeg(strike, expiration, multiplier, priced, flaw)
    \/ Validate
    \/ \E grid \in Grids : Summarize(grid)

Spec == Init /\ [][Next]_vars

-----------------------------------------------------------------------------
Accepted == verdict # NotAsked /\ verdict.errors = {}
Covering == /\ summary # NotAsked /\ 0 \in summary.grid
            /\ \A i \in DOMAIN selected : selected[i].strike \in summary.grid
            /\ \E p \in summary.grid : \A i \in DOMAIN selected : selected[i].strike < p

\* What the summary of an accepted structure calls its capital at risk is the
\* worst that can happen to it at any price, above the grid too, when its
\* template says the risk is defined and the grid holds zero, the strikes and a
\* price above them: catalogue, check and payoff agree (template legs and risk
\* classes, StrategyStructureValidator.validate, StrategyPayoffAnalyzer.summarize).
\* Left out: the templates of several expirations, of which two (ratio_calendar,
\* ratio_diagonal) claim a defined risk and are short one call more than long.
CapitalAtRiskIsWorst ==
    Accepted /\ Covering /\ DefinedRisk(template) /\ ~MultiExpiry(template) =>
        \A p \in 0 .. Far : PayoffAtPrice(p) >= -summary.capitalAtRisk

\* Profit does not turn into loss without a reported breakeven between the two:
\* between two prices of the grid of opposite signs there is one
\* (_breakeven_points, whose last point is never one).
BreakevensSeparate ==
    summary # NotAsked =>
        \A p, q \in summary.grid :
            p < q /\ PayoffAtPrice(p) * PayoffAtPrice(q) < 0 =>
                \E b \in summary.breakevens : p <= b /\ b < q

\* A structure the check accepts keeps the view of the name it carries, whatever
\* strikes were chosen: a bull spread never loses by a rise, a bear spread never
\* by a fall, an iron condor earns most between its short strikes (the strike
\* hints of the templates, _has_strike_ordering_issue).
ViewIsKept ==
    Accepted /\ selected # <<>> =>
        /\ template.id \in {"vertical.bull_call_spread", "vertical.bull_put_spread"} =>
               \A p \in 0 .. Far - 1 : PayoffAtPrice(p) <= PayoffAtPrice(p + 1)
        /\ template.id \in {"vertical.bear_call_spread", "vertical.bear_put_spread"} =>
               \A p \in 0 .. Far - 1 : PayoffAtPrice(p) >= PayoffAtPrice(p + 1)
        /\ template.id = "iron.iron_condor" =>
               \A p \in 0 .. Far, q \in selected[2].strike .. selected[3].strike :
                   PayoffAtPrice(p) <= PayoffAtPrice(q)
=============================================================================
