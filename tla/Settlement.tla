----------------------------- MODULE Settlement -----------------------------
(***************************************************************************)
(* ExerciseAssignmentOrchestrator.process_expiration                       *)
(* (backend/backtesting/execution.py) over SettlementEngine                *)
(* (backend/backtesting/settlement.py): a position in one option contract  *)
(* is put through expiration processing, again and again while contracts   *)
(* remain, and its postings are added up.  Amounts are whole; the carry of *)
(* the strike, a fraction of a day's interest, is an input.                *)
(***************************************************************************)
EXTENDS Integers

CONSTANTS
    Price, Strike,      \* of the underlying, and of the contract
    Quantity,           \* contracts a position may open with
    Multiplier,         \* shares of a contract
    Threshold,          \* exercise_threshold
    Extrinsic, Dividend, Fee, Carry,    \* of a call, the last for the whole position
    Settling,           \* {"physical", "cash"} or a part of it
    MaxCalls            \* bound: times a position is processed

ASSUME AmountsType ==
    /\ Price \subseteq Nat /\ Strike \subseteq Nat /\ Quantity \subseteq Nat \ {0}
    /\ Extrinsic \subseteq Nat /\ Dividend \subseteq Nat /\ Fee \subseteq Nat /\ Carry \subseteq Nat
ASSUME SettlingType == Settling \subseteq {"physical", "cash"}
ASSUME MultiplierType == Multiplier \in Nat \ {0}
\* With a threshold of zero every contract would be in the money.
ASSUME ThresholdType == Threshold \in Nat \ {0}
ASSUME MaxCallsType == MaxCalls \in Nat

VARIABLES
    contract,   \* what was opened: [type, settlement, strike, long, quantity]
    held,       \* contracts still open
    settled,    \* contracts the postings say were settled
    cash,       \* amounts posted, fees among them
    fees,       \* fees posted
    shares,     \* stock_position_change posted
    quote,      \* price and fee of the last settlement
    calls
vars == <<contract, held, settled, cash, fees, shares, quote, calls>>

Contract == [type : {"call", "put"}, settlement : Settling, strike : Strike,
             long : BOOLEAN, quantity : Quantity]

Init ==
    /\ contract \in Contract /\ held = contract.quantity
    /\ settled = 0 /\ cash = 0 /\ fees = 0 /\ shares = 0 /\ calls = 0
    /\ quote = [price |-> 0, fee |-> 0]

-----------------------------------------------------------------------------
Positive(x) == IF x > 0 THEN x ELSE 0
Sign == IF contract.long THEN 1 ELSE -1

IntrinsicOfCall(price) == Positive(price - contract.strike)             \* mutant
Intrinsic(price) ==
    Positive(IF contract.type = "call" THEN price - contract.strike ELSE contract.strike - price)
InTheMoney(price) == Intrinsic(price) >= Threshold

\* long_exercise_decision: what is worth exercising; the other decisions settle nothing.
Exercises(price, extrinsic, dividend, fee, carry) ==
    InTheMoney(price) /\ Intrinsic(price) * held + dividend > extrinsic + fee + carry

\* short_assignment_decision: the risk of being assigned, and half or all of the contracts.
Risk(price, extrinsic, dividend) ==
    Intrinsic(price) - extrinsic
    + (IF contract.type = "call" /\ extrinsic < dividend THEN dividend ELSE 0)
    + (IF contract.type = "put" /\ Intrinsic(price) * 10 > contract.strike THEN 1 ELSE 0)
AssignedQuantity(half) == IF half THEN held \div 2 ELSE held

-----------------------------------------------------------------------------
(* settle *)

Settles(price, extrinsic, dividend, fee, carry) ==
    /\ InTheMoney(price)
    /\ IF contract.long THEN Exercises(price, extrinsic, dividend, fee, carry)
                        ELSE Risk(price, extrinsic, dividend) > 0
SettleQuantity(half) == IF contract.long THEN held ELSE AssignedQuantity(half)

StockChange(n) == n * Multiplier * (IF contract.type = "call" THEN Sign ELSE -Sign)
StrikeCashReceived(n) == contract.strike * n * Multiplier * Sign        \* mutant
StrikeCash(n) == -(contract.strike * StockChange(n))
\* The whole position's intrinsic value, however many contracts settle.
CashMove(price) == Intrinsic(price) * held * Multiplier * Sign

ResidualWhole(n) == held                                                \* mutant
Residual(n) == Positive(held - n)

Settle(price, extrinsic, dividend, fee, carry, half) ==
    LET n == SettleQuantity(half)
        physical == contract.settlement = "physical"
    IN  /\ calls < MaxCalls /\ held > 0
        /\ Settles(price, extrinsic, dividend, fee, carry)
        /\ held' = Residual(n)
        /\ settled' = settled + n
        /\ cash' = cash + (IF physical THEN StrikeCash(n) ELSE CashMove(price)) - fee
        /\ fees' = fees + fee
        /\ shares' = shares + (IF physical THEN StockChange(n) ELSE 0)
        /\ quote' = [price |-> price, fee |-> fee]
        /\ calls' = calls + 1
        /\ UNCHANGED contract

\* Worthless, abandoned or not assigned: nothing is posted and the contracts remain.
Worthless(price, extrinsic, dividend, fee, carry) ==
    /\ calls < MaxCalls /\ held > 0
    /\ ~Settles(price, extrinsic, dividend, fee, carry)
    /\ calls' = calls + 1
    /\ UNCHANGED <<contract, held, settled, cash, fees, shares, quote>>

Process_expiration ==
    \E price \in Price, extrinsic \in Extrinsic, dividend \in Dividend, fee \in Fee, carry \in Carry :
        \/ \E half \in BOOLEAN : Settle(price, extrinsic, dividend, fee, carry, half)
        \/ Worthless(price, extrinsic, dividend, fee, carry)
Spec == Init /\ [][Process_expiration]_vars

-----------------------------------------------------------------------------
TypeOK ==
    /\ contract \in Contract /\ held \in Nat /\ settled \in Nat /\ calls \in 0 .. MaxCalls
    /\ cash \in Int /\ fees \in Nat /\ shares \in Int
    /\ quote \in [price : Nat, fee : Nat]

\* settlement.py:263-264, 306-308.  However often a position is processed, and however it is
\* assigned in part, its contracts are settled once or remain: none is lost, none comes back.
ContractsAreConserved == TypeOK /\ held + settled = contract.quantity

\* settlement.py:275-296.  Each contract settled in shares moves its multiplier of them, in its
\* own direction, and every share changes hands for the strike: what was posted in cash is
\* exactly the price of the shares posted, and the fees.
BooksBalance ==
    contract.settlement = "physical" =>
        /\ shares = settled * Multiplier * (IF (contract.type = "call") = contract.long THEN 1 ELSE -1)
        /\ cash = -(contract.strike * shares) - fees

\* What a settlement of n contracts is worth at its price: the shares at that price, and cash.
Worth(n) == Intrinsic(quote'.price) * n * Multiplier * Sign
Gained == (cash' - cash) + quote'.price * (shares' - shares) + quote'.fee

\* settlement.py:230-235, 275-296.  A settlement in shares, and one of a long position, gains or
\* costs the intrinsic value of the contracts it settles, less the fees.
PaysIntrinsic ==
    [][settled' # settled /\ (contract.settlement = "physical" \/ contract.long)
       => Gained = Worth(settled' - settled)]_vars

\* settlement.py:308; tests/test_backtesting_execution_settlement_foundation.py:256.  Every
\* settlement that says it is reconciled, and all do, gains or costs the intrinsic value of the
\* contracts it settles, less the fees.
ReconciledMeansPaid == [][settled' # settled => Gained = Worth(settled' - settled)]_vars
=============================================================================
