----------------------------- MODULE Execution -----------------------------
(* An order of several legs (backtesting/execution.py): each leg is given a   *)
(* quote (quote_selection.py) and filled by the research model             *)
(* (fill_models.py), and the coordinator says whether to cancel or to retry   *)
(* the rest.  The caller, who asks again for what remains, is not under src/. *)
(* Prices are whole numbers, ratios are in halves.                            *)
EXTENDS Integers, FiniteSetsExt, Functions

CONSTANTS
    Requests,   \* by leg: [quantity, buys, minimum, allOrNone, noFill]
    Terms,      \* [mode, price, through, delay, fallback, least, timeout, exposure]
    Tapes,      \* the quotes of a contract: sets of [time, bid, ask, last]
    Ratios,     \* fill ratios of the policy, in halves
    Slippage,   \* fixed_per_contract; the multiplier of the spread is 1, the others are 0
    Absent,     \* None
    LastMoment, \* bound: the time runs 0..LastMoment
    MaxTries    \* bound: attempts at one order

\* The legs of a request, the terms and the quotes, as their classes type them.  Something is
\* asked for, and the fill an order is kept for is at most the whole.
PriceType == Nat \cup {Absent}
LegType == [quantity : Nat, buys : BOOLEAN, minimum : Nat, allOrNone : BOOLEAN, noFill : BOOLEAN]
TermsType ==
    [mode : {"exact", "next_after_delay", "nearest_prior"},
     price : {"bid", "ask", "last", "midpoint", "through_spread"}, through : Int, delay : Int,
     fallback : BOOLEAN, least : 0 .. 2, timeout : Int, exposure : Int]
QuoteType == [time : Nat, bid : PriceType, ask : PriceType, last : PriceType]
ConstantsType ==
    /\ \A request \in Requests :
          /\ IsFiniteSet(DOMAIN request) /\ \A l \in DOMAIN request : request[l] \in LegType
          /\ \E l \in DOMAIN request : request[l].quantity > 0
    /\ Terms \subseteq TermsType /\ \A quotes \in Tapes : quotes \subseteq QuoteType
    /\ Ratios \subseteq Int /\ {Slippage, LastMoment, MaxTries} \subseteq Nat /\ Absent \notin Int

VARIABLES
    order, terms,
    now,
    tape, ratio, \* by leg, what the last attempt found
    asked,      \* by leg what the next attempt asks for
    got,        \* by leg what the caller has
    result,     \* the last MultiLegExecutionResult
    tries

vars == <<order, terms, now, tape, ratio, asked, got, result, tries>>

None == [legs |-> <<>>, timedOut |-> FALSE, cancelled |-> FALSE, retry |-> TRUE, breached |-> FALSE]
Clamp(x, low, high) == Max({low, Min({high, x})})
Total(f) == FoldFunction(+, 0, f)

Init ==
    /\ order \in Requests /\ terms \in Terms
    /\ now = 0 /\ tries = 0 /\ result = None
    /\ tape = [l \in DOMAIN order |-> {}] /\ ratio = [l \in DOMAIN order |-> 0]
    /\ asked = [l \in DOMAIN order |-> order[l].quantity]
    /\ got = [l \in DOMAIN order |-> 0]

-----------------------------------------------------------------------------
(* QuoteSelector                                                              *)
Delayed(t) == t + Max({0, terms.delay})
Fallback(t) == [time |-> Delayed(t), bid |-> Absent, ask |-> Absent, last |-> Absent]

PriorOrNot(quotes, t) == {q \in quotes : q.time <= t + 1}            \* mutant
Prior(quotes, t) == {q \in quotes : q.time <= t}

\* the quotes a policy may choose from; it takes the latest prior one, or the first
Selectable(quotes, t) ==
    CASE terms.mode = "exact" -> {q \in quotes : q.time = t}
      [] terms.mode = "next_after_delay" -> {q \in quotes : q.time >= Delayed(t)}
      [] terms.mode = "nearest_prior" -> Prior(quotes, t)

Earliest(quotes) == CHOOSE q \in quotes : \A r \in quotes : q.time <= r.time
Latest(quotes)   == CHOOSE q \in quotes : \A r \in quotes : q.time >= r.time

Select(quotes, t) ==
    LET able == Selectable(quotes, t)
    IN  IF able = {} THEN (IF terms.fallback THEN Fallback(t) ELSE Absent)
        ELSE IF terms.mode = "nearest_prior" THEN Latest(able) ELSE Earliest(able)

TwoSided(q) == q.bid # Absent /\ q.ask # Absent
Spread(q) == IF TwoSided(q) THEN Max({0, q.ask - q.bid}) ELSE 0

PriceOf(q) ==
    CASE q = Absent -> Absent
      [] terms.price = "bid" -> q.bid
      [] terms.price = "ask" -> q.ask
      [] terms.price = "last" -> q.last
      [] terms.price = "midpoint" -> IF TwoSided(q) THEN (q.bid + q.ask) \div 2 ELSE Absent
      [] terms.price = "through_spread" ->
           IF TwoSided(q) THEN q.bid + (Clamp(terms.through, 0, 2) * (q.ask - q.bid)) \div 2 ELSE Absent

-----------------------------------------------------------------------------
(* ResearchFillModelEngine                                                    *)
FillPrice(leg, q) ==
    LET slip == Slippage + Spread(q)
    IN  Max({0, PriceOf(q) + (IF leg.buys THEN slip ELSE -slip)})

ShareUnclamped(quantity, r) == (quantity * r) \div 2                \* mutant
Share(quantity, r) == (quantity * Clamp(r, 0, 2)) \div 2

FilledQuantity(leg, quantity, r) ==
    LET share == Share(quantity, r)
        tooFew == share < leg.minimum
        broken == leg.allOrNone /\ share # quantity
    IN  IF leg.noFill \/ tooFew \/ broken THEN 0 ELSE share

Fill(leg, quantity, q, r) ==
    IF q = Absent \/ PriceOf(q) = Absent
    THEN [quote |-> q, filled |-> 0, remaining |-> quantity, price |-> Absent]
    ELSE LET n == FilledQuantity(leg, quantity, r)
         IN  [quote |-> q, filled |-> n, remaining |-> quantity - n,
              price |-> IF n > 0 THEN FillPrice(leg, q) ELSE Absent]

-----------------------------------------------------------------------------
(* MultiLegExecutionCoordinator.execute, for the legs not yet filled       *)
NextAskedKept(legs) == asked                                         \* mutant
NextAsked(legs) == [l \in DOMAIN order |-> IF l \in DOMAIN legs THEN legs[l].remaining ELSE 0]

Cancels(legs, t) ==
    LET sum == Total([l \in DOMAIN legs |-> legs[l].filled])
        all == Max({1, Total([l \in DOMAIN legs |-> asked[l]])})
    IN  t >= terms.timeout /\ 2 * sum < terms.least * all

Retries(legs, t) ==
    Total([l \in DOMAIN legs |-> legs[l].filled]) < Max({1, Total([l \in DOMAIN legs |-> asked[l]])})
    /\ ~Cancels(legs, t)

Unfilled(leg) == IF leg.price = Absent THEN 0 ELSE leg.remaining * leg.price

Execute(t, tapes, ratios) ==
    LET wanted == {l \in DOMAIN order : asked[l] > 0}
        legs == [l \in wanted |-> Fill(order[l], asked[l], Select(tapes[l], t), ratios[l])]
    IN  /\ result.retry /\ tries < MaxTries
        /\ tries' = tries + 1 /\ now' = t /\ tape' = tapes /\ ratio' = ratios
        /\ result' = [legs |-> legs, timedOut |-> t >= terms.timeout,
                      cancelled |-> Cancels(legs, t), retry |-> Retries(legs, t),
                      breached |-> Total([l \in wanted |-> Unfilled(legs[l])]) > terms.exposure]
        /\ got' = [l \in DOMAIN order |-> got[l] + IF l \in wanted THEN legs[l].filled ELSE 0]
        /\ asked' = NextAsked(legs)
        /\ UNCHANGED <<order, terms>>

Next ==
    \E t \in now .. LastMoment, tapes \in [DOMAIN order -> Tapes], ratios \in [DOMAIN order -> Ratios] :
        Execute(t, tapes, ratios)

Spec == Init /\ [][Next]_vars

-----------------------------------------------------------------------------
\* The type of every variable.
TypeOK ==
    /\ order \in Requests /\ terms \in Terms /\ now \in 0 .. LastMoment /\ tries \in 0 .. MaxTries
    /\ \A l \in DOMAIN order : asked[l] \in Nat /\ got[l] \in Nat /\ tape[l] \in Tapes \cup {{}}

\* quote_selection.py:55-70.  No leg is filled at a quote of the future, unless a delay asks for
\* the first one after it, and none at a quote that a later one had replaced by then.
QuotesAreOfTheirTime ==
    \A l \in DOMAIN result.legs :
        LET q == result.legs[l].quote
            between(a, b) == {r \in tape[l] : a <= r.time /\ r.time <= b}
        IN  result.legs[l].filled > 0 =>
              CASE terms.mode = "exact" -> q.time = now
                [] terms.mode = "nearest_prior" -> q.time <= now /\ between(q.time + 1, now) = {}
                [] terms.mode = "next_after_delay" ->
                     q.time >= Delayed(now) /\ between(Delayed(now), q.time - 1) = {}

\* execution.py:132-180, fill_models.py:102-122.  However often an order is retried, its legs are
\* filled once: what is filled and what is asked for add up to the order, all or none of a leg
\* that says so, and never less at a time than it takes.
OrdersAddUp ==
    /\ \A l \in DOMAIN order :
        /\ got[l] + asked[l] = order[l].quantity
        /\ order[l].allOrNone => got[l] \in {0, order[l].quantity}
    /\ \A l \in DOMAIN result.legs : result.legs[l].filled \in {0} \cup order[l].minimum .. order[l].quantity

\* execution.py:172-178.  An order is retried exactly while something remains and it was not given
\* up, and it is given up only when its time is over.
VerdictsAgree ==
    /\ result.cancelled => result.timedOut /\ ~result.retry /\ \E l \in DOMAIN order : asked[l] > 0
    /\ result.retry \/ result.cancelled <=> \E l \in DOMAIN order : asked[l] > 0

\* quote_selection.py, fill_models.py:87-103.  Slippage goes against the order: nothing is bought
\* below the price selected nor sold above it, and nothing is filled without one.
SlippageIsAdverse ==
    \A l \in DOMAIN result.legs :
        LET leg == result.legs[l]
        IN  leg.filled > 0 =>
              /\ PriceOf(leg.quote) # Absent
              /\ IF order[l].buys THEN leg.price >= PriceOf(leg.quote) ELSE leg.price <= PriceOf(leg.quote)
=============================================================================
