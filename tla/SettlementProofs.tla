-------------------------- MODULE SettlementProofs --------------------------
(***************************************************************************)
(* Proofs about Settlement, for every set of prices, strikes, quantities   *)
(* and fees, every multiplier and every number of calls.                   *)
(***************************************************************************)
EXTENDS Settlement, TLAPS

\* The direction in which a contract moves shares: the buyer of a call and the seller of a put
\* take them.
Direction == IF (contract.type = "call") = contract.long THEN 1 ELSE -1

(* What the operators return *)

\* settlement.py:230-234: an intrinsic value is never negative.
LEMMA IntrinsicType ==
    ASSUME TypeOK, NEW price \in Price
    PROVE  Intrinsic(price) \in Nat
  <1>1. price \in Nat /\ contract.strike \in Nat
    BY AmountsType DEF TypeOK, Contract
  <1> DEFINE gap == IF contract.type = "call" THEN price - contract.strike
                                             ELSE contract.strike - price
  <1>2. gap \in Int
    BY <1>1
  <1>3. Intrinsic(price) = Positive(gap)
    BY DEF Intrinsic
  <1> HIDE DEF gap
  <1> QED
    BY <1>2, <1>3 DEF Positive

\* settlement.py:190, 263-264: what settles is a part of what is held.
LEMMA SettleQuantityType ==
    ASSUME TypeOK, NEW half \in BOOLEAN
    PROVE  SettleQuantity(half) \in 0 .. held
  BY DEF TypeOK, SettleQuantity, AssignedQuantity

\* settlement.py:276-282: the shares of n contracts.
LEMMA StockChangeIs ==
    ASSUME TypeOK, NEW n \in Nat
    PROVE  StockChange(n) = (n * Multiplier) * Direction /\ StockChange(n) \in Int
  <1>1. n * Multiplier \in Int
    BY MultiplierType
  <1>2. contract.type \in {"call", "put"} /\ contract.long \in BOOLEAN
    BY DEF TypeOK, Contract
  <1>3. (IF contract.type = "call" THEN Sign ELSE -Sign) = Direction /\ Direction \in Int
    BY <1>2 DEF Sign, Direction
  <1> QED
    BY <1>1, <1>3 DEF StockChange

\* Multiplication distributes: the one fact of arithmetic the books rest on.
LEMMA Distributes ==
    ASSUME NEW a \in Int, NEW b \in Int, NEW m \in Int
    PROVE  (a + b) * m = a * m + b * m
  BY SMT

\* settlement.py:266-274: the cash posted is an amount.
LEMMA CashMoveType ==
    ASSUME TypeOK, NEW price \in Price
    PROVE  CashMove(price) \in Int
  <1> DEFINE value == Intrinsic(price) * held * Multiplier
  <1>1. Intrinsic(price) \in Nat /\ held \in Nat /\ Multiplier \in Nat
    BY IntrinsicType, MultiplierType DEF TypeOK
  <1>2. value \in Nat
    <2>1. Intrinsic(price) * held \in Nat
      BY <1>1
    <2> QED
      BY <1>1, <2>1
  <1>3. CashMove(price) = value * Sign
    BY DEF CashMove
  <1>4. Sign \in Int
    BY DEF Sign
  <1> HIDE DEF value
  <1> QED
    BY <1>2, <1>3, <1>4
-----------------------------------------------------------------------------
(* The invariant *)

IInv == ContractsAreConserved /\ BooksBalance

LEMMA InitInvariant == Init => IInv
  <1> SUFFICES ASSUME Init PROVE IInv
    OBVIOUS
  <1>1. TypeOK
    BY AmountsType, MaxCallsType DEF Init, TypeOK, Contract
  <1>2. ContractsAreConserved
    BY <1>1 DEF Init, ContractsAreConserved, TypeOK, Contract
  <1>3. BooksBalance
    <2> DEFINE direction == IF (contract.type = "call") = contract.long THEN 1 ELSE -1
    <2>1. Multiplier \in Nat /\ contract.strike \in Nat
      BY <1>1, AmountsType, MultiplierType DEF TypeOK, Contract
    <2>2. direction \in Int
      OBVIOUS
    <2> HIDE DEF direction
    <2>3. 0 * Multiplier * direction = 0 /\ contract.strike * 0 = 0
      BY <2>1, <2>2
    <2> USE DEF direction
    <2> QED
      BY <2>1, <2>3 DEF Init, BooksBalance
  <1> QED
    BY <1>2, <1>3 DEF IInv

\* settle: one proof step per conjunct.
LEMMA SettleKeepsInvariant ==
    ASSUME IInv, NEW price \in Price, NEW extrinsic \in Extrinsic, NEW dividend \in Dividend,
           NEW fee \in Fee, NEW carry \in Carry, NEW half \in BOOLEAN,
           Settle(price, extrinsic, dividend, fee, carry, half)
    PROVE  IInv'
  <1> DEFINE n == SettleQuantity(half)
  <1>1. TypeOK /\ n \in 0 .. held /\ n \in Nat
    <2>1. TypeOK
      BY DEF IInv, ContractsAreConserved
    <2> QED
      BY <2>1, SettleQuantityType DEF TypeOK
  <1>2. StockChange(n) = (n * Multiplier) * Direction /\ StockChange(n) \in Int
    BY <1>1, StockChangeIs
  <1>3. CashMove(price) \in Int
    BY <1>1, CashMoveType
  <1>4. fee \in Nat /\ price \in Nat /\ contract.strike \in Nat /\ Multiplier \in Nat
    BY <1>1, AmountsType, MultiplierType DEF TypeOK, Contract
  <1>5. StrikeCash(n) \in Int /\ StrikeCash(n) = -(contract.strike * StockChange(n))
    BY <1>2, <1>4 DEF StrikeCash
  <1>6. held' = held - n /\ settled' = settled + n /\ fees' = fees + fee /\ contract' = contract
    BY <1>1 DEF Settle, Residual, Positive, TypeOK
  <1>7. quote' = [price |-> price, fee |-> fee] /\ calls' = calls + 1 /\ calls < MaxCalls
    BY DEF Settle
  <1>8. contract.settlement = "physical" =>
            cash' = cash + StrikeCash(n) - fee /\ shares' = shares + StockChange(n)
    BY DEF Settle
  <1>9. contract.settlement # "physical" =>
            cash' = cash + CashMove(price) - fee /\ shares' = shares + 0
    BY DEF Settle
  <1> HIDE DEF n
  <1>10. TypeOK'
    <2>1. held' \in Nat /\ settled' \in Nat /\ fees' \in Nat
      BY <1>1, <1>4, <1>6 DEF TypeOK
    <2>2. cash' \in Int /\ shares' \in Int
      BY <1>1, <1>2, <1>3, <1>4, <1>5, <1>8, <1>9 DEF TypeOK
    <2>3. quote' \in [price : Nat, fee : Nat] /\ calls' \in 0 .. MaxCalls
      BY <1>1, <1>4, <1>7, MaxCallsType DEF TypeOK
    <2>4. contract' \in Contract
      BY <1>1, <1>6 DEF TypeOK
    <2> QED
      BY <2>1, <2>2, <2>3, <2>4 DEF TypeOK, Contract
  <1>11. ContractsAreConserved'
    BY <1>1, <1>6, <1>10, AmountsType DEF ContractsAreConserved, IInv, TypeOK, Contract
  <1>12. BooksBalance'
    <2> SUFFICES ASSUME contract.settlement = "physical"
                 PROVE  /\ shares' = (settled' * Multiplier) * Direction
                        /\ cash' = -(contract.strike * shares') - fees'
      BY <1>6 DEF BooksBalance, Direction
    <2>1. shares = (settled * Multiplier) * Direction /\ cash = -(contract.strike * shares) - fees
      BY DEF IInv, BooksBalance, Direction
    <2>2. settled \in Nat /\ shares \in Int /\ cash \in Int /\ fees \in Nat /\ Direction \in Int
      BY <1>1 DEF TypeOK, Direction
    <2>3. (settled + n) * Multiplier = settled * Multiplier + n * Multiplier
      BY <2>2, <1>1, <1>4, Distributes
    <2>4. (settled * Multiplier + n * Multiplier) * Direction
          = (settled * Multiplier) * Direction + (n * Multiplier) * Direction
      <3>1. settled * Multiplier \in Int /\ n * Multiplier \in Int
        BY <2>2, <1>1, <1>4
      <3> QED
        BY <3>1, <2>2, Distributes
    <2>5. shares' = (settled' * Multiplier) * Direction
      BY <2>1, <2>3, <2>4, <1>2, <1>6, <1>8
    <2>6. contract.strike * (shares + StockChange(n))
          = contract.strike * shares + contract.strike * StockChange(n)
      BY <2>2, <1>2, <1>4, Distributes
    <2>7. contract.strike * shares \in Int /\ contract.strike * StockChange(n) \in Int
      BY <2>2, <1>2, <1>4
    <2>8. cash' = -(contract.strike * shares') - fees'
      BY <2>1, <2>2, <2>6, <2>7, <1>4, <1>5, <1>6, <1>8
    <2> QED
      BY <2>5, <2>8
  <1> QED
    BY <1>11, <1>12 DEF IInv

LEMMA StepInvariant == IInv /\ [Process_expiration]_vars => IInv'
  <1> SUFFICES ASSUME IInv, [Process_expiration]_vars PROVE IInv'
    OBVIOUS
  <1>1. CASE UNCHANGED vars
    BY <1>1 DEF IInv, TypeOK, ContractsAreConserved, BooksBalance, Contract, vars
  <1>2. CASE Process_expiration
    <2>1. PICK price \in Price, extrinsic \in Extrinsic, dividend \in Dividend, fee \in Fee,
               carry \in Carry :
              \/ \E half \in BOOLEAN : Settle(price, extrinsic, dividend, fee, carry, half)
              \/ Worthless(price, extrinsic, dividend, fee, carry)
      BY <1>2 DEF Process_expiration
    <2>2. CASE \E half \in BOOLEAN : Settle(price, extrinsic, dividend, fee, carry, half)
      BY <2>2, SettleKeepsInvariant
    <2>3. CASE Worthless(price, extrinsic, dividend, fee, carry)
      <3>1. TypeOK'
        BY <2>3, MaxCallsType DEF IInv, ContractsAreConserved, TypeOK, Worthless, Contract
      <3>2. ContractsAreConserved' /\ BooksBalance'
        BY <2>3, <3>1 DEF IInv, Worthless, ContractsAreConserved, BooksBalance
      <3> QED
        BY <3>2 DEF IInv
    <2> QED
      BY <2>1, <2>2, <2>3
  <1> QED
    BY <1>1, <1>2
-----------------------------------------------------------------------------
(* What one settlement pays *)

\* What is settled is in the money, so its intrinsic value is the plain difference
\* (settlement.py:96, 230-242).
LEMMA IntrinsicWhenSettled ==
    ASSUME TypeOK, NEW price \in Price, InTheMoney(price)
    PROVE  Intrinsic(price) = IF contract.type = "call" THEN price - contract.strike
                                                        ELSE contract.strike - price
  <1> DEFINE gap == IF contract.type = "call" THEN price - contract.strike
                                             ELSE contract.strike - price
  <1>1. price \in Nat /\ contract.strike \in Nat
    BY AmountsType DEF TypeOK, Contract
  <1>2. gap \in Int
    BY <1>1
  <1>3. Intrinsic(price) = Positive(gap)
    BY DEF Intrinsic
  <1> HIDE DEF gap
  <1>4. Positive(gap) >= Threshold /\ Threshold \in Nat \ {0}
    BY <1>3, ThresholdType DEF InTheMoney
  <1>5. Positive(gap) = gap
    BY <1>2, <1>4 DEF Positive
  <1> QED
    BY <1>3, <1>5 DEF gap

\* Shares taken at the strike and held at the price are worth the difference.
LEMMA SharesAtPrice ==
    ASSUME NEW strike \in Int, NEW price \in Int, NEW moved \in Int
    PROVE  -(strike * moved) + price * moved = (price - strike) * moved
  BY SMT

LEMMA SettlePays ==
    ASSUME IInv, NEW price \in Price, NEW extrinsic \in Extrinsic, NEW dividend \in Dividend,
           NEW fee \in Fee, NEW carry \in Carry, NEW half \in BOOLEAN,
           Settle(price, extrinsic, dividend, fee, carry, half),
           contract.settlement = "physical" \/ contract.long
    PROVE  Gained = Worth(settled' - settled)
  <1> DEFINE n == SettleQuantity(half)
             moved == n * Multiplier
             intrinsic == Intrinsic(price)
  <1>1. TypeOK
    BY DEF IInv, ContractsAreConserved
  <1>2. n \in Nat /\ n \in 0 .. held
    BY <1>1, SettleQuantityType DEF TypeOK
  <1>3. price \in Nat /\ fee \in Nat /\ contract.strike \in Nat /\ Multiplier \in Nat
    BY <1>1, AmountsType, MultiplierType DEF TypeOK, Contract
  <1>4. intrinsic \in Nat /\ Sign \in Int
    BY <1>1, IntrinsicType DEF Sign
  <1>5. settled' - settled = n
    BY <1>1, <1>2 DEF Settle, TypeOK
  <1>6. quote'.price = price /\ quote'.fee = fee
    BY DEF Settle
  <1>7. moved \in Nat /\ (intrinsic * n) * Multiplier = intrinsic * moved
    BY <1>2, <1>3, <1>4
  <1>8. Worth(n) = (intrinsic * moved) * Sign
    BY <1>6, <1>7 DEF Worth
  <1>9. cash \in Int /\ shares \in Int
    BY <1>1 DEF TypeOK
  <1>10. CASE contract.settlement = "physical"
    <2> DEFINE change == StockChange(n)
    <2>1. change \in Int
      BY <1>1, <1>2, StockChangeIs
    <2>2. change = moved * (IF contract.type = "call" THEN Sign ELSE -Sign)
      BY DEF StockChange
    <2>3. cash' = cash + (-(contract.strike * change)) - fee /\ shares' = shares + change
      BY <1>10 DEF Settle, StrikeCash
    <2> HIDE DEF change
    <2>4. contract.strike * change \in Int /\ price * change \in Int
      BY <1>3, <2>1
    <2>5. shares' - shares = change /\ cash' - cash = -(contract.strike * change) - fee
      BY <1>3, <1>9, <2>1, <2>3, <2>4
    <2>6. Gained = -(contract.strike * change) + price * change
      BY <1>3, <1>6, <2>4, <2>5 DEF Gained
    <2>7. Gained = (price - contract.strike) * change
      BY <1>3, <2>1, <2>6, SharesAtPrice
    <2>8. InTheMoney(price)
      BY DEF Settle, Settles
    <2>9. (price - contract.strike) * change = (intrinsic * moved) * Sign
      <3> HIDE DEF moved
      <3>1. CASE contract.type = "call"
        <4>1. intrinsic = price - contract.strike /\ change = moved * Sign
          BY <1>1, <2>2, <2>8, <3>1, IntrinsicWhenSettled
        <4> HIDE DEF intrinsic
        <4> QED
          BY <1>3, <1>4, <1>7, <4>1
      <3>2. CASE contract.type # "call"
        <4>1. intrinsic = contract.strike - price /\ change = moved * (-Sign)
          BY <1>1, <2>2, <2>8, <3>2, IntrinsicWhenSettled
        <4> HIDE DEF intrinsic
        <4>2. price - contract.strike = -intrinsic
          BY <1>3, <4>1
        <4>3. (-intrinsic) * (moved * (-Sign)) = (intrinsic * moved) * Sign
          BY <1>4, <1>7
        <4> QED
          BY <4>1, <4>2, <4>3
      <3> QED
        BY <3>1, <3>2
    <2> QED
      BY <1>5, <1>8, <2>7, <2>9
  <1>11. CASE contract.settlement # "physical"
    <2>1. n = held
      BY <1>11 DEF SettleQuantity
    <2>2. CashMove(price) = (intrinsic * moved) * Sign /\ CashMove(price) \in Int
      BY <1>1, <1>7, <2>1, CashMoveType DEF CashMove
    <2>3. cash' = cash + CashMove(price) - fee /\ shares' = shares + 0
      BY <1>11 DEF Settle
    <2>4. Gained = CashMove(price)
      BY <1>3, <1>6, <1>9, <2>2, <2>3 DEF Gained
    <2> QED
      BY <1>5, <1>8, <2>2, <2>4
  <1> QED
    BY <1>10, <1>11
-----------------------------------------------------------------------------
\* A position's contracts are settled once or remain (settlement.py:263-264, 306-308).
THEOREM ContractsConserved == Spec => []ContractsAreConserved
  <1>1. IInv => ContractsAreConserved
    BY DEF IInv
  <1> QED
    BY <1>1, InitInvariant, StepInvariant, PTL DEF Spec

\* Every share changes hands for the strike, whatever the multiplier (settlement.py:275-296).
THEOREM Balanced == Spec => []BooksBalance
  <1>1. IInv => BooksBalance
    BY DEF IInv
  <1> QED
    BY <1>1, InitInvariant, StepInvariant, PTL DEF Spec

\* A settlement in shares, or of a long position, pays the intrinsic value of what it settles,
\* whatever the price, the strike and the multiplier (settlement.py:230-235, 275-296).
THEOREM Pays == Spec => PaysIntrinsic
  <1> DEFINE A == (settled' # settled /\ (contract.settlement = "physical" \/ contract.long))
                    => Gained = Worth(settled' - settled)
  <1>1. IInv /\ [Process_expiration]_vars => [A]_vars
    <2> SUFFICES ASSUME IInv, Process_expiration, settled' # settled,
                        contract.settlement = "physical" \/ contract.long
                 PROVE  Gained = Worth(settled' - settled)
      OBVIOUS
    <2>1. PICK price \in Price, extrinsic \in Extrinsic, dividend \in Dividend, fee \in Fee,
               carry \in Carry :
              \/ \E half \in BOOLEAN : Settle(price, extrinsic, dividend, fee, carry, half)
              \/ Worthless(price, extrinsic, dividend, fee, carry)
      BY DEF Process_expiration
    <2>2. CASE \E half \in BOOLEAN : Settle(price, extrinsic, dividend, fee, carry, half)
      BY <2>2, SettlePays
    <2>3. CASE Worthless(price, extrinsic, dividend, fee, carry)
      BY <2>3 DEF Worthless
    <2> QED
      BY <2>1, <2>2, <2>3
  <1>2. Init => IInv
    BY InitInvariant
  <1>3. IInv /\ [Process_expiration]_vars => IInv'
    BY StepInvariant
  <1> QED
    BY <1>1, <1>2, <1>3, PTL DEF Spec, PaysIntrinsic
=============================================================================
