------------------------- MODULE VaruHoldingsProofs -------------------------
(***************************************************************************)
(* Proofs about the ledger of VaruHoldings, for every finite set of        *)
(* options and every set of fills and prices: first what needs one         *)
(* position at a time (IInv), then what totalError comes to, a sum over    *)
(* all positions (LedgerInv).                                              *)
(***************************************************************************)
EXTENDS VaruHoldings, FiniteSums, TLAPS

LEMMA QuotientRemainder ==
  ASSUME NEW a \in Nat, NEW n \in Nat \ {0}
  PROVE  /\ a \div n \in Nat
         /\ a % n \in 0..(n - 1)
         /\ a = n * (a \div n) + (a % n)
BY SMT

(* Rounding to even never leaves the whole numbers a quotient lies between. *)
LEMMA DivWithin ==
  ASSUME NEW a \in Nat, NEW n \in Nat \ {0}, NEW lo \in Nat, NEW hi \in Nat,
         lo * n <= a, a <= hi * n
  PROVE  Div(a, n) \in Nat /\ lo <= Div(a, n) /\ Div(a, n) <= hi
<1> DEFINE q == a \div n
           r == a % n
<1>1. q \in Nat /\ r \in 0..(n - 1) /\ a = n * q + r
  BY QuotientRemainder
<1>2. q % 2 \in 0..1
  BY <1>1, SMT
<1>3. Div(a, n) = IF 2 * r + (q % 2) > n THEN q + 1 ELSE q
  BY DEF Div
<1> HIDE DEF q, r
<1>4. lo <= q
  <2>1. SUFFICES ASSUME q + 1 <= lo PROVE FALSE
    BY <1>1
  <2>2. (q + 1) * n <= lo * n
    BY <2>1, <1>1, SMT
  <2>3. n * q + n <= a
    BY <2>2, <1>1, SMT
  <2> QED
    BY <2>3, <1>1, SMT
<1>5. q <= hi
  <2>1. SUFFICES ASSUME hi + 1 <= q PROVE FALSE
    BY <1>1
  <2>2. (hi + 1) * n <= q * n
    BY <2>1, <1>1, SMT
  <2> QED
    BY <2>2, <1>1, SMT
<1>6. ASSUME q = hi PROVE r = 0
  BY <1>6, <1>1, SMT
<1>7. CASE q = hi
  BY <1>1, <1>2, <1>3, <1>4, <1>6, <1>7, SMT
<1>8. CASE q < hi
  BY <1>1, <1>3, <1>4, <1>8, SMT
<1> QED
  BY <1>5, <1>7, <1>8, <1>1

(* A mean of an average and a price, weighted by contracts, keeps to the    *)
(* bounds of both once it is divided and rounded.                           *)
LEMMA MeanWithin ==
  ASSUME NEW avg \in Nat, NEW price \in Nat,
         NEW m \in Nat \ {0}, NEW k \in Nat \ {0},
         NEW lo \in Nat, NEW hi \in Nat,
         lo <= avg, avg <= hi, lo <= price, price <= hi
  PROVE  LET mean == Div(avg * m + price * k, m + k)
         IN mean \in Nat /\ lo <= mean /\ mean <= hi
<1>1. avg * m + price * k \in Nat /\ m + k \in Nat \ {0}
  BY SMT
<1>2. lo * m <= avg * m /\ lo * k <= price * k
  BY SMT
<1>3. avg * m <= hi * m /\ price * k <= hi * k
  BY SMT
<1>4. lo * (m + k) <= avg * m + price * k
  BY <1>2, SMT
<1>5. avg * m + price * k <= hi * (m + k)
  BY <1>3, SMT
<1> QED
  BY <1>1, <1>4, <1>5, DivWithin

-----------------------------------------------------------------------------
(* The inductive invariant: the positions and the cash flows, without the   *)
(* sums over positions.                                                     *)

PositionsInv ==
  /\ quantity \in [Options -> Int]
  /\ average \in [Options -> Nat]
  /\ AverageWithinPrices

CashInv ==
  /\ cash \in Int /\ debits \in Int /\ credits \in Int
  /\ cash = credits - debits

IInv == PositionsInv /\ CashInv /\ OnlyErrorPanics

LEMMA InvInit == Init => IInv
<1> SUFFICES ASSUME Init PROVE IInv
  OBVIOUS
<1>1. PositionsInv
  BY DEF Init, PositionsInv, AverageWithinPrices, Held, NoPositions
<1>2. CashInv
  BY DEF Init, CashInv
<1>3. OnlyErrorPanics
  BY DEF Init, OnlyErrorPanics
<1> QED
  BY <1>1, <1>2, <1>3 DEF IInv

(* Whatever the fill does to its position, a price bounds what is left.     *)
LEMMA AfterWithin ==
  ASSUME PositionsInv, NEW x \in Options, NEW delta \in Deltas, NEW price \in Prices,
         quantity[x] + delta # 0
  PROVE  /\ AverageAfter(x, delta, price) \in Nat
         /\ \E lo, hi \in Prices : /\ lo <= AverageAfter(x, delta, price)
                                   /\ AverageAfter(x, delta, price) <= hi
<1> DEFINE after == AverageAfter(x, delta, price)
<1>1. /\ quantity[x] \in Int /\ average[x] \in Nat
      /\ delta \in Int \ {0} /\ price \in Nat /\ Prices \subseteq Nat
  BY HoldingsAssumption DEF PositionsInv
<1>2. CASE after = price
  <2>1. price <= price
    BY <1>1
  <2> QED
    BY <1>1, <1>2, <2>1
<1>3. CASE Held(x) /\ after = average[x]
  BY <1>1, <1>3 DEF PositionsInv, AverageWithinPrices
<1>4. CASE Held(x) /\ Grows(x, delta) /\ after = GrownAverage(x, delta, price)
  <2> DEFINE m == Magnitude(quantity[x])
             k == Magnitude(delta)
  <2>1. PICK lo \in Prices, hi \in Prices : lo <= average[x] /\ average[x] <= hi
    BY <1>4 DEF PositionsInv, AverageWithinPrices
  <2>2. m \in Nat \ {0} /\ k \in Nat \ {0} /\ Magnitude(quantity[x] + delta) = m + k
    BY <1>1, <1>4 DEF Magnitude, Grows, Held
  <2>3. after = Div(average[x] * m + price * k, m + k)
    BY <1>4, <2>2 DEF GrownAverage
  <2>4. PICK low \in Prices : low <= lo /\ low <= price
    BY <1>1
  <2>5. PICK high \in Prices : hi <= high /\ price <= high
    BY <1>1
  <2>6. low \in Nat /\ high \in Nat /\ low <= average[x] /\ average[x] <= high
    BY <1>1, <2>1, <2>4, <2>5
  <2> HIDE DEF after, m, k
  <2>7. after \in Nat /\ low <= after /\ after <= high
    BY <1>1, <2>2, <2>3, <2>4, <2>5, <2>6, MeanWithin
  <2> QED
    BY <2>7 DEF after
<1> QED
  BY <1>1, <1>2, <1>3, <1>4 DEF AverageAfter, Held, Grows

LEMMA InvNext == IInv /\ [Next]_vars => IInv'
<1> SUFFICES ASSUME IInv, [Next]_vars PROVE IInv'
  OBVIOUS
<1>1. CASE UNCHANGED vars
  BY <1>1 DEF IInv, PositionsInv, AverageWithinPrices, Held, CashInv, OnlyErrorPanics, vars
<1>2. CASE Next
  <2>1. PICK x \in Options, delta \in Deltas, price \in Prices : Fill(x, delta, price)
    BY <1>2 DEF Next
  <2>2. Add(x, delta, price)
    BY <2>1 DEF Fill
  <2>3. delta \in Int \ {0} /\ price \in Nat
    BY HoldingsAssumption
  <2>4. PositionsInv'
    <3>1. /\ quantity' = [quantity EXCEPT ![x] = @ + delta]
          /\ average' = [average EXCEPT ![x] = AverageAfter(x, delta, price)]
      BY <2>2 DEF Add
    <3>2. /\ PositionsInv
          /\ quantity \in [Options -> Int] /\ average \in [Options -> Nat]
      BY DEF IInv, PositionsInv
    <3>3. quantity[x] + delta = 0 => AverageAfter(x, delta, price) = 0
      BY <2>3, <3>2 DEF AverageAfter, Held, Grows
    <3>4. AverageAfter(x, delta, price) \in Nat
      BY <3>2, <3>3, AfterWithin
    <3>5. quantity' \in [Options -> Int] /\ average' \in [Options -> Nat]
      BY <2>3, <3>1, <3>2, <3>4
    <3>6. ASSUME NEW y \in Options, quantity'[y] # 0
          PROVE  \E lo, hi \in Prices : lo <= average'[y] /\ average'[y] <= hi
      <4>1. CASE y = x
        <5>1. quantity'[y] = quantity[x] + delta
              /\ average'[y] = AverageAfter(x, delta, price)
          BY <3>1, <3>2, <4>1
        <5> QED
          BY <3>2, <3>6, <5>1, AfterWithin
      <4>2. CASE y # x
        <5>1. quantity'[y] = quantity[y] /\ average'[y] = average[y]
          BY <3>1, <3>2, <4>2
        <5> QED
          BY <3>2, <3>6, <5>1 DEF PositionsInv, AverageWithinPrices, Held
      <4> QED
        BY <4>1, <4>2
    <3> QED
      BY <3>5, <3>6 DEF PositionsInv, AverageWithinPrices, Held
  <2>5. CashInv'
    <3> DEFINE dollars == price * Magnitude(delta) * kMultiplier
    <3>1. dollars \in Int
      BY <2>3 DEF Magnitude, kMultiplier
    <3>2. \/ cash' = cash - dollars /\ debits' = debits + dollars /\ credits' = credits
          \/ cash' = cash + dollars /\ credits' = credits + dollars /\ debits' = debits
      BY <2>2 DEF Add, Flow
    <3> HIDE DEF dollars
    <3> QED
      BY <3>1, <3>2 DEF IInv, CashInv
  <2>6. OnlyErrorPanics'
    <3>1. ASSUME NEW y \in Options, quantity'[y] # 0
          PROVE  average'[y] > 0
      <4>1. PICK lo \in Prices, hi \in Prices : lo <= average'[y] /\ average'[y] <= hi
        BY <2>4, <3>1 DEF PositionsInv, AverageWithinPrices, Held
      <4>2. average'[y] \in Nat /\ lo \in Nat \ {0}
        BY <2>4, HoldingsAssumption DEF PositionsInv
      <4> QED
        BY <4>1, <4>2
    <3>2. cash' = credits' - debits'
      BY <2>5 DEF CashInv
    <3>3. Check
      BY <2>2 DEF Add
    <3> DEFINE positive == \A y \in Options : quantity'[y] # 0 => average'[y] > 0
               balanced == cash' = credits' - debits'
               bounded == Magnitude(totalError') <= MaxError
    <3>4. positive /\ balanced
      BY <3>1, <3>2
    <3>5. alive' = (positive /\ balanced /\ bounded)
      BY <3>3 DEF Check
    <3> HIDE DEF positive, balanced, bounded
    <3>6. alive' \/ ~bounded
      BY <3>4, <3>5, Zenon
    <3> QED
      BY <3>6 DEF OnlyErrorPanics, bounded
  <2> QED
    BY <2>4, <2>5, <2>6 DEF IInv
<1> QED
  BY <1>1, <1>2

LEMMA InvHolds == Spec => []IInv
BY InvInit, InvNext, PTL DEF Spec

(* Growing, reducing, flipping and rounding keep every average cost between *)
(* two prices of fills, whatever the prices and however many the fills:     *)
(* Holding.check never meets a nonpositive average.                         *)
THEOREM AveragesStayWithinPrices == Spec => []AverageWithinPrices
<1>1. IInv => AverageWithinPrices
  BY DEF IInv, PositionsInv
<1> QED
  BY <1>1, InvHolds, PTL

(* check() stops the ledger for its rounding error and for nothing else.    *)
THEOREM OnlyRoundingStopsTheLedger == Spec => []OnlyErrorPanics
<1>1. IInv => OnlyErrorPanics
  BY DEF IInv
<1> QED
  BY <1>1, InvHolds, PTL

-----------------------------------------------------------------------------
(* The sums over positions.  What a fill adds to totalError is what its    *)
(* position changes in value by, less what was paid and realized for it.   *)

Cost(x)  == -(average[x] * quantity[x] * kMultiplier)
Costs    == [x \in Options |-> Cost(x)]

(* In cents of a contract: the error of one fill, 100 times. *)
Slip(x, delta, price) ==
  AverageAfter(x, delta, price) * (quantity[x] + delta)
    - average[x] * quantity[x] - price * delta

(* Rounding half to even misses by at most half. *)
LEMMA DivMisses ==
  ASSUME NEW a \in Nat, NEW n \in Nat \ {0}
  PROVE  /\ Div(a, n) \in Nat
         /\ 2 * (Div(a, n) * n - a) <= n
         /\ 2 * (a - Div(a, n) * n) <= n
<1> DEFINE q == a \div n
           r == a % n
<1>1. q \in Nat /\ r \in 0..(n - 1) /\ a = n * q + r
  BY QuotientRemainder
<1>2. q % 2 \in 0..1
  BY <1>1, SMT
<1>3. Div(a, n) = IF 2 * r + (q % 2) > n THEN q + 1 ELSE q
  BY DEF Div
<1> HIDE DEF q, r
<1>4. CASE 2 * r + (q % 2) > n
  <2>1. Div(a, n) = q + 1 /\ 2 * r >= n
    BY <1>1, <1>2, <1>3, <1>4
  <2>2. (q + 1) * n - a = n - r
    BY <1>1
  <2> QED
    BY <1>1, <2>1, <2>2
<1>5. CASE ~(2 * r + (q % 2) > n)
  <2>1. Div(a, n) = q /\ 2 * r <= n
    BY <1>1, <1>2, <1>3, <1>5
  <2>2. a - q * n = r
    BY <1>1
  <2> QED
    BY <1>1, <2>1, <2>2
<1> QED
  BY <1>4, <1>5

(* Every fill but one that grows a position books exactly what it realizes. *)
LEMMA ProfitIsExact ==
  ASSUME NEW x \in Options, NEW delta \in Int \ {0}, NEW price \in Nat,
         quantity[x] \in Int, average[x] \in Nat, ~Grows(x, delta)
  PROVE  Profit(x, delta, price) = kMultiplier * Slip(x, delta, price)
<1>1. PICK q \in Int, a \in Nat : q = quantity[x] /\ a = average[x]
  OBVIOUS
<1>2. CASE q = 0
  <2>1. /\ Profit(x, delta, price) = 0
        /\ Slip(x, delta, price) = price * (0 + delta) - a * 0 - price * delta
    BY <1>1, <1>2 DEF Profit, Slip, AverageAfter, Held
  <2>2. price * (0 + delta) - a * 0 - price * delta = 0
    BY <1>1
  <2> QED
    BY <2>1, <2>2 DEF kMultiplier
<1>3. CASE q > 0
  <2>1. delta < 0
    BY <1>1, <1>3 DEF Grows, Held
  <2>2. Profit(x, delta, price)
          = (price - a) * kMultiplier * Lesser(Magnitude(delta), Magnitude(q))
    BY <1>1, <1>3 DEF Profit, Held
  <2>3. CASE q + delta = 0
    <3>1. Slip(x, delta, price) = 0 * (q + delta) - a * q - price * delta
      <4>1. AverageAfter(x, delta, price) = 0
        BY <1>1, <1>3, <2>1, <2>3 DEF AverageAfter, Held, Grows
      <4> QED
        BY <1>1, <4>1 DEF Slip
    <3>2. Lesser(Magnitude(delta), Magnitude(q)) = q /\ delta = -q
      BY <1>3, <2>1, <2>3 DEF Lesser, Magnitude
    <3>3. (price - a) * 100 * q = 100 * (0 * (q + delta) - a * q - price * delta)
      <4>1. 0 * (q + delta) = 0 /\ price * delta = -(price * q)
        BY <3>2
      <4>2. (price - a) * 100 * q = 100 * (0 - a * q - (-(price * q)))
        OBVIOUS
      <4> QED
        BY <4>1, <4>2
    <3> QED
      BY <2>2, <3>1, <3>2, <3>3 DEF kMultiplier
  <2>4. CASE q + delta < 0
    <3>1. Slip(x, delta, price) = price * (q + delta) - a * q - price * delta
      BY <1>1, <1>3, <2>1, <2>4 DEF Slip, AverageAfter, Held, Grows
    <3>2. Lesser(Magnitude(delta), Magnitude(q)) = q
      BY <1>3, <2>1, <2>4 DEF Lesser, Magnitude
    <3>3. (price - a) * 100 * q = 100 * (price * (q + delta) - a * q - price * delta)
      OBVIOUS
    <3> QED
      BY <2>2, <3>1, <3>2, <3>3 DEF kMultiplier
  <2>5. CASE q + delta > 0
    <3>1. Slip(x, delta, price) = a * (q + delta) - a * q - price * delta
      BY <1>1, <1>3, <2>1, <2>5 DEF Slip, AverageAfter, Held, Grows
    <3>2. Lesser(Magnitude(delta), Magnitude(q)) = -delta
      BY <1>3, <2>1, <2>5 DEF Lesser, Magnitude
    <3>3. (price - a) * 100 * (-delta)
            = 100 * (a * (q + delta) - a * q - price * delta)
      OBVIOUS
    <3> QED
      BY <2>2, <3>1, <3>2, <3>3 DEF kMultiplier
  <2> QED
    BY <2>3, <2>4, <2>5
<1>4. CASE q < 0
  <2>1. delta > 0
    BY <1>1, <1>4 DEF Grows, Held
  <2>2. Profit(x, delta, price)
          = (a - price) * kMultiplier * Lesser(Magnitude(delta), Magnitude(q))
    BY <1>1, <1>4, <2>1 DEF Profit, Held, Grows
  <2>3. CASE q + delta = 0
    <3>1. Slip(x, delta, price) = 0 * (q + delta) - a * q - price * delta
      <4>1. AverageAfter(x, delta, price) = 0
        BY <1>1, <1>4, <2>1, <2>3 DEF AverageAfter, Held, Grows
      <4> QED
        BY <1>1, <4>1 DEF Slip
    <3>2. Lesser(Magnitude(delta), Magnitude(q)) = -q /\ delta = -q
      BY <1>4, <2>1, <2>3 DEF Lesser, Magnitude
    <3>3. (a - price) * 100 * (-q) = 100 * (0 * (q + delta) - a * q - price * delta)
      <4>1. 0 * (q + delta) = 0 /\ price * delta = -(price * q)
        BY <3>2
      <4>2. (a - price) * 100 * (-q) = 100 * (0 - a * q - (-(price * q)))
        OBVIOUS
      <4> QED
        BY <4>1, <4>2
    <3> QED
      BY <2>2, <3>1, <3>2, <3>3 DEF kMultiplier
  <2>4. CASE q + delta > 0
    <3>1. Slip(x, delta, price) = price * (q + delta) - a * q - price * delta
      BY <1>1, <1>4, <2>1, <2>4 DEF Slip, AverageAfter, Held, Grows
    <3>2. Lesser(Magnitude(delta), Magnitude(q)) = -q
      BY <1>4, <2>1, <2>4 DEF Lesser, Magnitude
    <3>3. (a - price) * 100 * (-q)
            = 100 * (price * (q + delta) - a * q - price * delta)
      OBVIOUS
    <3> QED
      BY <2>2, <3>1, <3>2, <3>3 DEF kMultiplier
  <2>5. CASE q + delta < 0
    <3>1. Slip(x, delta, price) = a * (q + delta) - a * q - price * delta
      BY <1>1, <1>4, <2>1, <2>5 DEF Slip, AverageAfter, Held, Grows
    <3>2. Lesser(Magnitude(delta), Magnitude(q)) = delta
      BY <1>4, <2>1, <2>5 DEF Lesser, Magnitude
    <3>3. (a - price) * 100 * delta
            = 100 * (a * (q + delta) - a * q - price * delta)
      OBVIOUS
    <3> QED
      BY <2>2, <3>1, <3>2, <3>3 DEF kMultiplier
  <2> QED
    BY <2>3, <2>4, <2>5
<1> QED
  BY <1>2, <1>3, <1>4

(* Growing a position realizes nothing, and misses by its rounding. *)
LEMMA GrowthMisses ==
  ASSUME NEW x \in Options, NEW delta \in Int \ {0}, NEW price \in Nat,
         quantity[x] \in Int, average[x] \in Nat, Grows(x, delta)
  PROVE  /\ Profit(x, delta, price) = 0
         /\ Slip(x, delta, price) \in Int
         /\ 2 * Slip(x, delta, price) <= Magnitude(quantity[x] + delta)
         /\ -(2 * Slip(x, delta, price)) <= Magnitude(quantity[x] + delta)
<1>1. PICK q \in Int, a \in Nat : q = quantity[x] /\ a = average[x]
  OBVIOUS
<1>2. Profit(x, delta, price) = 0
  BY DEF Profit
<1> DEFINE m == Magnitude(q)
           k == Magnitude(delta)
           n == Magnitude(q + delta)
           A == Div(a * m + price * k, n)
<1>3. AverageAfter(x, delta, price) = A
  BY <1>1 DEF AverageAfter, GrownAverage, Grows
<1>4. \/ q > 0 /\ delta > 0 /\ m = q /\ k = delta /\ n = q + delta
      \/ q < 0 /\ delta < 0 /\ m = -q /\ k = -delta /\ n = -(q + delta)
  BY <1>1 DEF Grows, Held, Magnitude
<1> HIDE DEF m, k, n
<1>5. m \in Nat \ {0} /\ k \in Nat \ {0} /\ n \in Nat \ {0}
  BY <1>4
<1>6. a * m + price * k \in Nat
  BY <1>5
<1>7. /\ A \in Nat
      /\ 2 * (A * n - (a * m + price * k)) <= n
      /\ 2 * ((a * m + price * k) - A * n) <= n
  BY <1>5, <1>6, DivMisses
<1>8. Slip(x, delta, price) = A * (q + delta) - a * q - price * delta
  BY <1>1, <1>3 DEF Slip
<1> HIDE DEF A
<1>9. CASE q > 0 /\ m = q /\ k = delta /\ n = q + delta
  <2>1. A * (q + delta) - a * q - price * delta = A * n - (a * m + price * k)
    BY <1>7, <1>9
  <2>2. A * n - (a * m + price * k) \in Int
    BY <1>5, <1>6, <1>7
  <2>3. (a * m + price * k) - A * n = -(A * n - (a * m + price * k))
    BY <1>5, <1>6, <1>7
  <2> DEFINE s == A * n - (a * m + price * k)
  <2>4. s \in Int /\ 2 * s <= n /\ 2 * (-s) <= n
    BY <1>7, <2>2, <2>3
  <2>5. Slip(x, delta, price) = s
    BY <1>8, <2>1
  <2> HIDE DEF s
  <2>6. 2 * s <= n /\ -(2 * s) <= n
    BY <1>5, <2>4
  <2> QED
    BY <1>1, <1>2, <2>4, <2>5, <2>6 DEF n
<1>10. CASE q < 0 /\ m = -q /\ k = -delta /\ n = -(q + delta)
  <2>1. A * (q + delta) - a * q - price * delta = (a * m + price * k) - A * n
    BY <1>7, <1>10
  <2>2. A * n - (a * m + price * k) \in Int
    BY <1>5, <1>6, <1>7
  <2>3. A * n - (a * m + price * k) = -((a * m + price * k) - A * n)
    BY <1>5, <1>6, <1>7
  <2> DEFINE s == (a * m + price * k) - A * n
  <2>4. s \in Int /\ 2 * s <= n /\ 2 * (-s) <= n
    BY <1>5, <1>6, <1>7, <2>2, <2>3
  <2>5. Slip(x, delta, price) = s
    BY <1>8, <2>1
  <2> HIDE DEF s
  <2>6. 2 * s <= n /\ -(2 * s) <= n
    BY <1>5, <2>4
  <2> QED
    BY <1>1, <1>2, <2>4, <2>5, <2>6 DEF n
<1> QED
  BY <1>4, <1>9, <1>10

(* The inductive invariant of the sums: totalError is what check() computes *)
(* after every fill, and no more than the rounding of the growths so far.  *)
LedgerInv ==
  /\ realized \in Int /\ totalError \in Int /\ volume \in Nat
  /\ debits \in Nat /\ credits \in Nat /\ alive \in BOOLEAN
  /\ fills \in 0..MaxFills /\ grown \in Nat
  /\ totalError = cash - (realized + SumFunction(Costs))
  /\ ErrorWithinRounding

LEMMA CostsType ==
  ASSUME PositionsInv
  PROVE  /\ Costs \in [Options -> Int] /\ IsFiniteSet(Options)
         /\ SumFunction(Costs) \in Int
<1>1. \A x \in Options : average[x] \in Nat /\ quantity[x] \in Int
  BY DEF PositionsInv
<1>2. \A x \in Options : Cost(x) \in Int
  BY <1>1 DEF Cost, kMultiplier
<1>3. Costs \in [Options -> Int]
  BY <1>2 DEF Costs
<1>4. IsFiniteSet(Options)
  BY HoldingsAssumption
<1> QED
  BY <1>3, <1>4, TotalInt

LEMMA LedgerInit == Init => LedgerInv
<1> SUFFICES ASSUME Init PROVE LedgerInv
  OBVIOUS
<1>1. \A x \in Options : average[x] = 0 /\ quantity[x] = 0
  BY DEF Init, NoPositions
<1>2. \A x \in Options : Cost(x) = 0
  <2>1. PICK i \in Int, j \in Int : i = 0 * 0 * 100 /\ j = -i
    OBVIOUS
  <2>2. j <= 0 /\ 0 <= j
    BY <2>1
  <2>3. j = 0
    BY <2>2
  <2> QED
    BY <1>1, <2>1, <2>3 DEF Cost, kMultiplier
<1>3. DOMAIN Costs = Options /\ \A x \in Options : Costs[x] = 0
  BY <1>2 DEF Costs
<1>4. SumFunction(Costs) = 0
  BY <1>3, TotalZero, HoldingsAssumption
<1>5. 0 = 0 - (0 + 0) /\ 2 * Magnitude(0) <= kMultiplier * 0
  BY DEF Magnitude, kMultiplier
<1> QED
  BY <1>4, <1>5, HoldingsAssumption DEF Init, LedgerInv, ErrorWithinRounding

(* A fill moves totalError by its slip less what it realizes. *)
LEMMA FillMoves ==
  ASSUME IInv, LedgerInv, PositionsInv', NEW x \in Options, NEW delta \in Deltas,
         NEW price \in Prices, Fill(x, delta, price)
  PROVE  /\ Profit(x, delta, price) \in Int /\ Slip(x, delta, price) \in Int
         /\ totalError' = totalError + kMultiplier * Slip(x, delta, price)
                                     - Profit(x, delta, price)
         /\ realized' \in Int /\ SumFunction(Costs)' \in Int
         /\ totalError' = cash' - (realized' + SumFunction(Costs)')
<1>1. /\ delta \in Int \ {0} /\ price \in Nat
      /\ quantity[x] \in Int /\ average[x] \in Nat
      /\ quantity \in [Options -> Int] /\ average \in [Options -> Nat]
  BY HoldingsAssumption DEF IInv, PositionsInv
<1>2. Add(x, delta, price)
  BY DEF Fill
<1>3. /\ quantity' = [quantity EXCEPT ![x] = @ + delta]
      /\ average' = [average EXCEPT ![x] = AverageAfter(x, delta, price)]
      /\ realized' = realized + Profit(x, delta, price)
      /\ Check
  BY <1>2 DEF Add
<1>4. /\ quantity'[x] = quantity[x] + delta
      /\ average'[x] = AverageAfter(x, delta, price)
      /\ \A y \in Options \ {x} : /\ quantity'[y] = quantity[y]
                                  /\ average'[y] = average[y]
  BY <1>1, <1>3
<1>5. /\ Costs \in [Options -> Int] /\ IsFiniteSet(Options)
      /\ SumFunction(Costs) \in Int
  BY CostsType DEF IInv
<1>6. \A y \in Options : average'[y] \in Nat /\ quantity'[y] \in Int
  BY DEF PositionsInv
<1>7. /\ Costs' \in [Options -> Int]
      /\ \A y \in Options : Costs'[y] = -(average'[y] * quantity'[y] * kMultiplier)
  <2>1. \A y \in Options : -(average'[y] * quantity'[y] * kMultiplier) \in Int
    BY <1>6 DEF kMultiplier
  <2> QED
    BY <2>1 DEF Costs, Cost
<1>8. \A y \in Options : Costs[y] = -(average[y] * quantity[y] * kMultiplier)
  BY DEF Costs, Cost
<1>9. \A y \in Options \ {x} : Costs'[y] = Costs[y]
  BY <1>4, <1>7, <1>8
<1>10. DifferAt(Options, Costs, x, Costs')
  BY <1>5, <1>7, <1>9 DEF DifferAt
<1>11. SumFunction(Costs') = SumFunction(Costs) - Costs[x] + Costs'[x]
  BY <1>10, TotalChanged
<1>12. UnrealizedCost(quantity', average') = SumFunction(Costs')
  BY DEF UnrealizedCost, Costs, Cost
<1>13. cash' = cash - price * delta * kMultiplier
  <2>1. cash \in Int
    BY DEF IInv, CashInv
  <2>2. CASE delta > 0
    <3>1. cash' = cash - price * Magnitude(delta) * kMultiplier
      BY <1>2, <2>2 DEF Add, Flow
    <3> QED
      BY <1>1, <2>2, <3>1 DEF Magnitude
  <2>3. CASE ~(delta > 0)
    <3>1. cash' = cash + price * Magnitude(delta) * kMultiplier
      BY <1>2, <2>3 DEF Add, Flow
    <3>2. Magnitude(delta) = -delta
      BY <1>1, <2>3 DEF Magnitude
    <3>3. cash + price * (-delta) * 100 = cash - price * delta * 100
      BY <1>1, <2>1
    <3> QED
      BY <3>1, <3>2, <3>3 DEF kMultiplier
  <2> QED
    BY <2>2, <2>3
<1>14. Profit(x, delta, price) \in Int /\ Slip(x, delta, price) \in Int
  <2>1. average'[x] \in Nat
    BY <1>6
  <2>2. Slip(x, delta, price) \in Int
    BY <1>1, <1>4, <2>1 DEF Slip
  <2>3. CASE Grows(x, delta)
    BY <1>1, <2>2, <2>3, GrowthMisses
  <2>4. CASE ~Grows(x, delta)
    BY <1>1, <2>2, <2>4, ProfitIsExact DEF kMultiplier
  <2> QED
    BY <2>2, <2>3, <2>4
<1>15. totalError' = cash' - (realized' + SumFunction(Costs'))
  BY <1>3, <1>12 DEF Check
<1>16. totalError = cash - (realized + SumFunction(Costs))
       /\ realized \in Int /\ cash \in Int
  BY DEF LedgerInv, IInv, CashInv
<1> DEFINE n == AverageAfter(x, delta, price)
           a == average[x]
           q == quantity[x]
           P == Profit(x, delta, price)
           C == SumFunction(Costs)
<1>17. /\ Costs[x] = -(a * q * 100)
       /\ Costs'[x] = -(n * (q + delta) * 100)
       /\ Slip(x, delta, price) = n * (q + delta) - a * q - price * delta
       /\ cash' = cash - price * delta * 100
       /\ n \in Nat /\ a \in Nat /\ q \in Int /\ P \in Int /\ C \in Int
  BY <1>1, <1>4, <1>5, <1>6, <1>7, <1>8, <1>13, <1>14 DEF Slip, kMultiplier
<1>18. SumFunction(Costs') = C + a * q * 100 - n * (q + delta) * 100
  <2>1. SumFunction(Costs') = C - Costs[x] + Costs'[x]
    BY <1>11
  <2> HIDE DEF n, a, q, P, C
  <2> QED
    BY <1>1, <1>17, <2>1
<1>19. realized' = realized + P
  BY <1>3
<1> HIDE DEF n, a, q, P, C
<1>20. n * (q + delta) \in Int /\ a * q \in Int /\ price * delta \in Int
  BY <1>1, <1>17
<1>21. PICK N \in Int, A \in Int, D \in Int :
         N = n * (q + delta) /\ A = a * q /\ D = price * delta
  BY <1>20
<1>22. totalError' = (cash - D * 100) - ((realized + P) + (C + A * 100 - N * 100))
  BY <1>15, <1>17, <1>18, <1>19, <1>21
<1>23. totalError' = totalError + 100 * (N - A - D) - P
  BY <1>16, <1>17, <1>21, <1>22 DEF C
<1> QED
  BY <1>14, <1>15, <1>16, <1>17, <1>18, <1>19, <1>21, <1>23
     DEF P, C, kMultiplier

LEMMA LedgerNext == IInv /\ LedgerInv /\ [Next]_vars => LedgerInv'
<1> SUFFICES ASSUME IInv, LedgerInv, [Next]_vars PROVE LedgerInv'
  OBVIOUS
<1>1. CASE UNCHANGED vars
  <2>1. Costs' = Costs
    BY <1>1 DEF vars, Costs, Cost
  <2> QED
    BY <1>1, <2>1 DEF vars, LedgerInv, ErrorWithinRounding
<1>2. CASE Next
  <2>1. PICK x \in Options, delta \in Deltas, price \in Prices : Fill(x, delta, price)
    BY <1>2 DEF Next
  <2>2. IInv' /\ PositionsInv'
    BY InvNext DEF IInv
  <2>3. /\ Profit(x, delta, price) \in Int /\ Slip(x, delta, price) \in Int
        /\ totalError' = totalError + kMultiplier * Slip(x, delta, price)
                                    - Profit(x, delta, price)
        /\ realized' \in Int /\ SumFunction(Costs)' \in Int
        /\ totalError' = cash' - (realized' + SumFunction(Costs)')
    BY <2>1, <2>2, FillMoves
  <2>4. /\ delta \in Int \ {0} /\ price \in Nat
        /\ quantity[x] \in Int /\ average[x] \in Nat
    BY HoldingsAssumption DEF IInv, PositionsInv
  <2>5. totalError \in Int /\ grown \in Nat /\ ErrorWithinRounding
    BY DEF LedgerInv
  <2>6. totalError' \in Int
    BY <2>3, <2>5 DEF kMultiplier
  <2>7. /\ grown' \in Nat /\ ErrorWithinRounding'
    <3>1. CASE ~Grows(x, delta)
      <4>1. totalError' = totalError
        BY <2>3, <2>4, <2>5, <3>1, ProfitIsExact DEF kMultiplier
      <4>2. grown' = grown
        BY <2>1, <3>1 DEF Fill
      <4> QED
        BY <2>5, <4>1, <4>2 DEF ErrorWithinRounding
    <3>2. CASE Grows(x, delta)
      <4>1. PICK m \in Nat, s \in Int :
              /\ m = Magnitude(quantity[x] + delta) /\ s = Slip(x, delta, price)
              /\ 2 * s <= m /\ -(2 * s) <= m
              /\ Profit(x, delta, price) = 0
        <5>1. Magnitude(quantity[x] + delta) \in Nat
          BY <2>4 DEF Magnitude
        <5> QED
          BY <2>4, <3>2, <5>1, GrowthMisses
      <4>2. totalError' = totalError + 100 * s
        BY <2>3, <2>5, <4>1 DEF kMultiplier
      <4>3. grown' = grown + m
        BY <2>1, <3>2, <4>1 DEF Fill
      <4>4. /\ 2 * totalError <= 100 * grown /\ -(2 * totalError) <= 100 * grown
        <5>1. 2 * (IF totalError < 0 THEN -totalError ELSE totalError)
                <= 100 * grown
          BY <2>5 DEF ErrorWithinRounding, Magnitude, kMultiplier
        <5>2. CASE totalError < 0
          BY <2>5, <5>1, <5>2
        <5>3. CASE ~(totalError < 0)
          BY <2>5, <5>1, <5>3
        <5> QED
          BY <5>2, <5>3
      <4>5. /\ 2 * totalError' <= 100 * grown' /\ -(2 * totalError') <= 100 * grown'
        BY <2>5, <4>1, <4>2, <4>3, <4>4
      <4>6. grown' \in Nat
        BY <2>5, <4>1, <4>3
      <4> QED
        <5>1. PICK T \in Int, G \in Nat : T = totalError' /\ G = grown'
          BY <2>6, <4>6
        <5>2. 2 * T <= 100 * G /\ -(2 * T) <= 100 * G
          BY <4>5, <5>1
        <5>3. 2 * Magnitude(T) <= 100 * G
          <6>1. CASE T < 0
            <7>1. 2 * (-T) = -(2 * T)
              OBVIOUS
            <7> QED
              BY <5>2, <6>1, <7>1 DEF Magnitude
          <6>2. CASE ~(T < 0)
            BY <5>2, <6>2 DEF Magnitude
          <6> QED
            BY <6>1, <6>2
        <5> QED
          BY <4>6, <5>1, <5>3 DEF ErrorWithinRounding, Magnitude, kMultiplier
    <3> QED
      BY <3>1, <3>2
  <2>8. /\ volume' \in Nat /\ debits' \in Nat /\ credits' \in Nat
    <3>1. /\ volume \in Nat /\ debits \in Nat /\ credits \in Nat
      BY DEF LedgerInv
    <3>2. Add(x, delta, price)
      BY <2>1 DEF Fill
    <3>3. Magnitude(delta) \in Nat
      BY <2>4 DEF Magnitude
    <3>4. price * Magnitude(delta) * kMultiplier \in Nat
      <4>1. price * Magnitude(delta) \in Nat
        BY <2>4, <3>3
      <4> QED
        BY <4>1 DEF kMultiplier
    <3>5. volume' = volume + Magnitude(delta)
      BY <3>2 DEF Add
    <3>6. \/ /\ debits' = debits + price * Magnitude(delta) * kMultiplier
             /\ credits' = credits
          \/ /\ credits' = credits + price * Magnitude(delta) * kMultiplier
             /\ debits' = debits
      BY <3>2 DEF Add, Flow
    <3> QED
      BY <3>1, <3>3, <3>4, <3>5, <3>6
  <2>9. fills' \in 0..MaxFills
    BY <2>1, HoldingsAssumption DEF Fill, LedgerInv
  <2>10. alive' \in BOOLEAN
    BY <2>1 DEF Fill, Add, Check
  <2> QED
    BY <2>3, <2>6, <2>7, <2>8, <2>9, <2>10 DEF LedgerInv
<1> QED
  BY <1>1, <1>2

LEMMA LedgerHolds == Spec => [](IInv /\ LedgerInv)
<1>1. Init => IInv /\ LedgerInv
  BY InvInit, LedgerInit
<1>2. (IInv /\ LedgerInv) /\ [Next]_vars => (IInv /\ LedgerInv)'
  BY InvNext, LedgerNext
<1> QED
  BY <1>1, <1>2, PTL DEF Spec

(* Types: debits, credits, the volume and every average cost never go      *)
(* below zero (holdings.go:32-49).                                         *)
THEOREM HoldingsTypes == Spec => []TypeOK
<1>1. IInv /\ LedgerInv => TypeOK
  BY DEF IInv, PositionsInv, CashInv, LedgerInv, TypeOK
<1> QED
  BY <1>1, LedgerHolds, PTL

(* The error that check() measures and -max-error bounds (holdings.go:131- *)
(* 150) is rounding and nothing else: at most half of the smallest decimal *)
(* for each share held after each fill that grew a position.               *)
THEOREM ErrorIsRounding == Spec => []ErrorWithinRounding
<1>1. LedgerInv => ErrorWithinRounding
  BY DEF LedgerInv
<1> QED
  BY <1>1, LedgerHolds, PTL

(* Opening, reducing, closing and flipping a position book exactly what    *)
(* they realize (holdings.go:79-98): only growing one moves the error.     *)
THEOREM OnlyGrowthMovesTheError == Spec => ErrorOnlyFromGrowth
<1>1. (IInv /\ LedgerInv) /\ [Next]_vars =>
        [totalError' # totalError => \E x \in Options :
           quantity'[x] # quantity[x] /\ Grows(x, quantity'[x] - quantity[x])]_vars
  <2> SUFFICES ASSUME IInv, LedgerInv, Next, totalError' # totalError
               PROVE  \E x \in Options :
                        /\ quantity'[x] # quantity[x]
                        /\ Grows(x, quantity'[x] - quantity[x])
    OBVIOUS
  <2>1. PICK x \in Options, delta \in Deltas, price \in Prices : Fill(x, delta, price)
    BY DEF Next
  <2>2. PositionsInv'
    BY InvNext DEF IInv
  <2>3. /\ Profit(x, delta, price) \in Int /\ Slip(x, delta, price) \in Int
        /\ totalError' = totalError + kMultiplier * Slip(x, delta, price)
                                    - Profit(x, delta, price)
    BY <2>1, <2>2, FillMoves
  <2>4. /\ delta \in Int \ {0} /\ price \in Nat
        /\ quantity[x] \in Int /\ average[x] \in Nat /\ totalError \in Int
        /\ quantity \in [Options -> Int]
    BY HoldingsAssumption DEF IInv, PositionsInv, LedgerInv
  <2>5. Grows(x, delta)
    <3>1. ASSUME ~Grows(x, delta) PROVE FALSE
      BY <2>3, <2>4, <3>1, ProfitIsExact DEF kMultiplier
    <3> QED
      BY <3>1
  <2>6. quantity'[x] = quantity[x] + delta
    BY <2>1, <2>4 DEF Fill, Add
  <2>7. quantity'[x] # quantity[x] /\ quantity'[x] - quantity[x] = delta
    BY <2>4, <2>6
  <2> QED
    BY <2>5, <2>7
<1> QED
  BY <1>1, LedgerHolds, PTL DEF Spec, ErrorOnlyFromGrowth
=============================================================================
