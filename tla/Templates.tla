------------------------------ MODULE Templates -----------------------------
(* The catalogue of strategy templates the platform ships                     *)
(* (backtesting/strategy_library.py, _default_templates): of each template    *)
(* the class of its risk and its legs.  A leg is what the structure checks    *)
(* and the payoff read of it: its kind, its direction, its ratio, the         *)
(* multiplier of its contract, its place among the strikes and among the      *)
(* expirations.  The labels, by which the code pairs a selected leg with its  *)
(* template leg, are the places in the sequence.                              *)
EXTENDS Integers, Sequences

None == "none"

Leg(kind, buys, ratio, multiplier) ==
    [kind |-> kind, buys |-> buys, ratio |-> ratio, multiplier |-> multiplier,
     strikeHint |-> None, expiryHint |-> None]
BuyCall   == Leg("call", TRUE, 1, 100)
SellCall  == Leg("call", FALSE, 1, 100)
BuyPut    == Leg("put", TRUE, 1, 100)
SellPut   == Leg("put", FALSE, 1, 100)
BuyStock  == Leg("stock", TRUE, 100, 1)
SellStock == Leg("stock", FALSE, 100, 1)
BuyCash   == Leg("cash", TRUE, 1, 1)

Times(n, leg)  == [leg EXCEPT !.ratio = n]
At(hint, leg)  == [leg EXCEPT !.strikeHint = hint]
Front(leg)     == [leg EXCEPT !.expiryHint = "front"]
Back(leg)      == [leg EXCEPT !.expiryHint = "back"]
Of(identifier, risk, legs) == [id |-> identifier, risk |-> risk, legs |-> legs]

-----------------------------------------------------------------------------
\* the four classes of risk the templates are given
DefinedRisk(template) == template.risk \in {"bounded", "calendar"}
MultiExpiry(template) == template.risk = "calendar"

DirectionalTemplates ==
    {Of("directional.long_call", "unbounded", <<BuyCall>>),
     Of("directional.long_put", "bounded", <<BuyPut>>),
     Of("directional.short_call", "unbounded", <<SellCall>>),
     Of("directional.short_put", "unbounded", <<SellPut>>),
     Of("directional.covered_call", "covered", <<BuyStock, SellCall>>),
     Of("directional.cash_secured_put", "bounded", <<BuyCash, SellPut>>),
     Of("directional.protective_put", "bounded", <<BuyStock, BuyPut>>),
     Of("directional.collar", "bounded", <<BuyStock, BuyPut, SellCall>>),
     Of("directional.synthetic_long_stock", "unbounded", <<BuyCall, SellPut>>),
     Of("directional.synthetic_short_stock", "unbounded", <<SellCall, BuyPut>>),
     Of("directional.risk_reversal", "unbounded", <<SellPut, BuyCall>>),
     Of("directional.conversion", "bounded", <<BuyStock, BuyPut, SellCall>>),
     Of("directional.reversal", "unbounded", <<SellStock, BuyCall, SellPut>>)}

VerticalTemplates ==
    {Of("vertical.bull_call_spread", "bounded", <<At("lower", BuyCall),
            At("higher", SellCall)>>),
     Of("vertical.bear_call_spread", "bounded", <<At("lower", SellCall),
            At("higher", BuyCall)>>),
     Of("vertical.bull_put_spread", "bounded", <<At("higher", SellPut),
            At("lower", BuyPut)>>),
     Of("vertical.bear_put_spread", "bounded", <<At("higher", BuyPut),
            At("lower", SellPut)>>),
     Of("vertical.call_debit_spread", "bounded", <<BuyCall, SellCall>>),
     Of("vertical.call_credit_spread", "bounded", <<SellCall, BuyCall>>),
     Of("vertical.put_debit_spread", "bounded", <<BuyPut, SellPut>>),
     Of("vertical.put_credit_spread", "bounded", <<SellPut, BuyPut>>)}

IronTemplates ==
    {Of("iron.iron_condor", "bounded", <<At("lowest", BuyPut),
            At("inner_low", SellPut), At("inner_high", SellCall),
            At("highest", BuyCall)>>),
     Of("iron.iron_butterfly", "bounded", <<BuyPut, SellPut, SellCall, BuyCall>>),
     Of("iron.reverse_iron_condor", "unbounded", <<SellPut, BuyPut, BuyCall,
            SellCall>>),
     Of("iron.reverse_iron_butterfly", "unbounded", <<SellPut, BuyPut, BuyCall,
            SellCall>>),
     Of("iron.unbalanced_iron_condor", "bounded", <<BuyPut, SellPut, SellCall,
            Times(2, BuyCall)>>),
     Of("iron.broken_wing_iron_butterfly", "bounded", <<BuyPut, SellPut, SellCall,
            BuyCall>>)}

ButterflyTemplates ==
    {Of("butterfly.long_call_butterfly", "bounded", <<BuyCall, Times(2, SellCall),
            BuyCall>>),
     Of("butterfly.long_put_butterfly", "bounded", <<BuyPut, Times(2, SellPut),
            BuyPut>>),
     Of("butterfly.short_call_butterfly", "unbounded", <<SellCall,
            Times(2, BuyCall), SellCall>>),
     Of("butterfly.short_put_butterfly", "unbounded", <<SellPut, Times(2, BuyPut),
            SellPut>>),
     Of("butterfly.broken_wing_butterfly", "bounded", <<BuyCall, Times(2, SellCall),
            BuyCall>>),
     Of("condor.call_condor", "bounded", <<BuyCall, SellCall, SellCall, BuyCall>>),
     Of("condor.put_condor", "bounded", <<BuyPut, SellPut, SellPut, BuyPut>>),
     Of("condor.short_condor", "unbounded", <<SellCall, BuyCall, BuyCall, SellCall>>)}

VolatilityTemplates ==
    {Of("volatility.long_straddle", "bounded", <<BuyCall, BuyPut>>),
     Of("volatility.short_straddle", "unbounded", <<SellCall, SellPut>>),
     Of("volatility.long_strangle", "bounded", <<BuyCall, BuyPut>>),
     Of("volatility.short_strangle", "unbounded", <<SellCall, SellPut>>),
     Of("volatility.strip", "bounded", <<BuyCall, Times(2, BuyPut)>>),
     Of("volatility.strap", "bounded", <<Times(2, BuyCall), BuyPut>>),
     Of("volatility.gut_straddle", "bounded", <<BuyCall, BuyPut>>),
     Of("volatility.gut_strangle", "bounded", <<BuyCall, BuyPut>>)}

CalendarTemplates ==
    {Of("calendar.call_calendar", "calendar", <<Front(SellCall), Back(BuyCall)>>),
     Of("calendar.put_calendar", "calendar", <<Front(SellPut), Back(BuyPut)>>),
     Of("calendar.atm_calendar", "calendar", <<Front(SellCall), Back(BuyCall)>>),
     Of("calendar.otm_calendar", "calendar", <<Front(SellCall), Back(BuyCall)>>),
     Of("calendar.double_calendar", "calendar", <<Front(SellPut), Back(BuyPut),
            Front(SellCall), Back(BuyCall)>>),
     Of("calendar.ratio_calendar", "calendar", <<Front(Times(2, SellCall)),
            Back(BuyCall)>>),
     Of("calendar.horizontal_calendar", "calendar", <<Front(SellCall), Back(BuyCall)>>)}

DiagonalTemplates ==
    {Of("diagonal.call_diagonal", "calendar", <<Front(SellCall), Back(BuyCall)>>),
     Of("diagonal.put_diagonal", "calendar", <<Front(SellPut), Back(BuyPut)>>),
     Of("diagonal.double_diagonal", "calendar", <<Front(SellPut), Back(BuyPut),
            Front(SellCall), Back(BuyCall)>>),
     Of("diagonal.ratio_diagonal", "calendar", <<Front(Times(2, SellCall)),
            Back(BuyCall)>>),
     Of("calendar.earnings_calendar", "calendar", <<Front(SellCall), Back(BuyCall)>>),
     Of("calendar.pre_earnings_calendar", "calendar", <<Front(SellCall),
            Back(BuyCall)>>),
     Of("calendar.post_earnings_calendar", "calendar", <<Front(SellCall),
            Back(BuyCall)>>)}

CoveredTemplates ==
    {Of("covered.traditional_covered_call", "covered", <<BuyStock, SellCall>>),
     Of("covered.pmcc", "calendar", <<Back(BuyCall), Front(SellCall)>>),
     Of("covered.synthetic_covered_call", "covered", <<BuyCall, SellCall>>),
     Of("covered.stock_replacement_long_call", "bounded", <<BuyCall>>),
     Of("covered.leaps_diagonal", "calendar", <<Back(BuyCall), Front(SellCall)>>),
     Of("covered.covered_strangle", "unbounded", <<BuyStock, SellCall, SellPut>>),
     Of("covered.wheel_strategy_state_template", "covered", <<BuyCash, SellPut,
            BuyStock, SellCall>>)}

RatioTemplates ==
    {Of("ratio.call_ratio_spread", "unbounded", <<BuyCall, Times(2, SellCall)>>),
     Of("ratio.put_ratio_spread", "unbounded", <<BuyPut, Times(2, SellPut)>>),
     Of("ratio.call_backspread", "unbounded", <<SellCall, Times(2, BuyCall)>>),
     Of("ratio.put_backspread", "unbounded", <<SellPut, Times(2, BuyPut)>>),
     Of("ratio.front_spread", "unbounded", <<Front(Times(2, BuyCall)),
            Back(SellCall)>>),
     Of("ratio.backspread", "unbounded", <<SellCall, Times(2, BuyCall)>>)}

LizardTemplates ==
    {Of("lizard.jade_lizard", "unbounded", <<SellPut, SellCall, BuyCall>>),
     Of("lizard.reverse_jade_lizard", "unbounded", <<BuyPut, BuyCall, SellCall>>),
     Of("lizard.big_lizard", "unbounded", <<SellPut, SellCall, Times(2, BuyCall)>>),
     Of("lizard.twisted_sister", "bounded", <<SellPut, SellCall, BuyPut, BuyCall>>),
     Of("lizard.seagull", "unbounded", <<BuyCall, SellCall, SellPut>>),
     Of("lizard.fence", "covered", <<BuyStock, BuyPut, SellCall>>)}

BoxTemplates ==
    {Of("arbitrage.long_box", "bounded", <<BuyCall, SellCall, BuyPut, SellPut>>),
     Of("arbitrage.short_box", "unbounded", <<SellCall, BuyCall, SellPut, BuyPut>>),
     Of("arbitrage.jelly_roll", "bounded", <<Front(SellCall), Back(BuyCall),
            Front(BuyPut), Back(SellPut)>>),
     Of("arbitrage.dividend_arbitrage_placeholder", "covered", <<BuyStock, SellCall,
            BuyPut>>)}

CustomTemplates ==
    {Of("custom.custom_multi_leg", "bounded", <<BuyCall>>)}
Catalogue ==
    UNION {DirectionalTemplates, VerticalTemplates, IronTemplates, ButterflyTemplates,
           VolatilityTemplates, CalendarTemplates, DiagonalTemplates, CoveredTemplates,
           RatioTemplates, LizardTemplates, BoxTemplates, CustomTemplates}
=============================================================================
