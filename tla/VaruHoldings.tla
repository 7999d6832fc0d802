---------------------------- MODULE VaruHoldings ----------------------------
(***************************************************************************)
(* The ledger of src/cmd/varu/holdings.go, fed with fills by live.go and   *)
(* backtest.go: positions with a weighted average cost, cash, realized     *)
(* profit, and the rounding error that check() measures after every fill   *)
(* and panics about.                                                       *)
(*                                                                         *)
(* Quantities count contracts; prices and averages count the smallest      *)
(* decimal, a millionth of a dollar.  A product of the two is exact in     *)
(* src/decimal, so division is the only operation that rounds.  The width  *)
(* of Decimal (int64, with a panic on overflow) is not modelled.           *)
(***************************************************************************)
EXTENDS Integers, FiniteSetsExt

CONSTANTS
  Options,     (* the options of today's chain                     *)
  Deltas,      (* the signed contract counts of fills              *)
  Prices,      (* the execution prices of fills                    *)
  MaxFills,    (* bound: fills booked                              *)
  MaxError     (* the -max-error flag                              *)

ASSUME HoldingsAssumption ==
  /\ IsFiniteSet(Options)
  /\ Deltas \subseteq Int \ {0}
  /\ Prices \subseteq Nat \ {0}
  /\ MaxFills \in Nat /\ MaxError \in Nat

VARIABLES
  quantity,    (* Holding.Quantity, 0 for an option not in Positions     *)
  average,     (* Holding.AverageCost, 0 for an option not in Positions  *)
  cash, debits, credits,      (* Cash, TotalDebits, TotalCredits         *)
  realized,    (* RealizedPnL                                            *)
  totalError,  (* TotalError                                             *)
  volume,      (* Volume                                                 *)
  alive,       (* FALSE: check() has panicked                            *)
  fills,       (* fills booked                                           *)
  grown        (* history: contracts held after each fill that grew      *)
               (* a position, added up                                   *)

vars == <<quantity, average, cash, debits, credits, realized, totalError,
          volume, alive, fills, grown>>

kMultiplier == 100

Magnitude(n) == IF n < 0 THEN -n ELSE n
Lesser(m, n) == IF m < n THEN m ELSE n

(* Mutant: the quotient is truncated. *)
DivTruncating(a, n) == a \div n

(* Decimal.Div of a nonnegative amount: half to even. *)
Div(a, n) == LET quo == a \div n
             IN IF 2 * (a % n) + (quo % 2) > n THEN quo + 1 ELSE quo

Held(x) == quantity[x] # 0

-----------------------------------------------------------------------------
(* What a fill makes of the position it meets. *)

Grows(x, delta) == Held(x) /\ (quantity[x] > 0) = (delta > 0)

(* Mutants: short contracts count as negative cost; or the new contracts   *)
(* are not divided by.                                                     *)
GrownAverageSigned(x, delta, price) ==
  Div(average[x] * quantity[x] + price * delta, Magnitude(quantity[x] + delta))

GrownAverageUndivided(x, delta, price) ==
  Div(average[x] * Magnitude(quantity[x]) + price * Magnitude(delta),
      Magnitude(quantity[x]))

GrownAverage(x, delta, price) ==
  Div(average[x] * Magnitude(quantity[x]) + price * Magnitude(delta),
      Magnitude(quantity[x] + delta))

(* A fill that overlaps zero opens the rest of its contracts at its price. *)
AverageAfter(x, delta, price) ==
  IF ~Held(x) THEN price
  ELSE IF Grows(x, delta) THEN GrownAverage(x, delta, price)
  ELSE IF quantity[x] + delta = 0 THEN 0
  ELSE IF (quantity[x] > 0) # (quantity[x] + delta > 0) THEN price
  ELSE average[x]

(* Mutant: the contracts a fill opens beyond zero are closed as well. *)
ProfitOverlapping(x, delta, price) ==
  IF ~Held(x) \/ Grows(x, delta) THEN 0
  ELSE (IF quantity[x] > 0 THEN price - average[x] ELSE average[x] - price)
       * kMultiplier * Magnitude(delta)

(* Profit is realized on the contracts a fill closes. *)
Profit(x, delta, price) ==
  IF ~Held(x) \/ Grows(x, delta) THEN 0
  ELSE (IF quantity[x] > 0 THEN price - average[x] ELSE average[x] - price)
       * kMultiplier * Lesser(Magnitude(delta), Magnitude(quantity[x]))

-----------------------------------------------------------------------------
(* Holdings.Add and the check it defers. *)

UnrealizedCost(q, a) == SumFunction([x \in Options |-> -(a[x] * q[x] * kMultiplier)])

Check ==
  /\ totalError' = cash' - (realized' + UnrealizedCost(quantity', average'))
  /\ alive' = /\ \A x \in Options : quantity'[x] # 0 => average'[x] > 0
              /\ cash' = credits' - debits'
              /\ Magnitude(totalError') <= MaxError

(* Mutant: a sale is not entered in the ledger of credits. *)
FlowOneSided(delta, dollars) ==
  IF delta > 0
  THEN cash' = cash - dollars /\ debits' = debits + dollars /\ UNCHANGED credits
  ELSE cash' = cash + dollars /\ UNCHANGED <<debits, credits>>

Flow(delta, dollars) ==
  IF delta > 0
  THEN cash' = cash - dollars /\ debits' = debits + dollars /\ UNCHANGED credits
  ELSE cash' = cash + dollars /\ credits' = credits + dollars /\ UNCHANGED debits

Add(x, delta, price) ==
  /\ volume' = volume + Magnitude(delta)
  /\ Flow(delta, price * Magnitude(delta) * kMultiplier)
  /\ quantity' = [quantity EXCEPT ![x] = @ + delta]
  /\ average' = [average EXCEPT ![x] = AverageAfter(x, delta, price)]
  /\ realized' = realized + Profit(x, delta, price)
  /\ Check

(* A fill arrives: onFillEvent, loadSchwabOrder or simulateFillOrder. *)
Fill(x, delta, price) ==
  /\ alive /\ fills < MaxFills
  /\ fills' = fills + 1
  /\ Add(x, delta, price)
  /\ grown' = IF Grows(x, delta) THEN grown + Magnitude(quantity[x] + delta) ELSE grown

NoPositions == [x \in Options |-> 0]

Init ==
  /\ quantity = NoPositions /\ average = NoPositions
  /\ cash = 0 /\ debits = 0 /\ credits = 0
  /\ realized = 0 /\ totalError = 0 /\ volume = 0
  /\ alive = TRUE /\ fills = 0 /\ grown = 0

Next == \E x \in Options, delta \in Deltas, price \in Prices : Fill(x, delta, price)

Spec == Init /\ [][Next]_vars

-----------------------------------------------------------------------------
(* Properties. *)

TypeOK ==
  /\ quantity \in [Options -> Int] /\ average \in [Options -> Nat]
  /\ cash \in Int /\ debits \in Nat /\ credits \in Nat
  /\ realized \in Int /\ totalError \in Int /\ volume \in Nat
  /\ alive \in BOOLEAN /\ fills \in 0..MaxFills /\ grown \in Nat

(* However often a position is grown, reduced, flipped and rounded, its     *)
(* average cost stays between two prices that fills can have, and above zero *)
(* (holdings.go:57-98).                                                     *)
AverageWithinPrices ==
  \A x \in Options : Held(x) =>
    \E lo, hi \in Prices : lo <= average[x] /\ average[x] <= hi

(* Of the three panics of check(), only the error budget can stop the      *)
(* ledger: no average ever goes to zero and cash never leaves the sum of   *)
(* its flows (holdings.go:112-126, 145-150).                               *)
OnlyErrorPanics == alive \/ ~(Magnitude(totalError) <= MaxError)

(* Only growing a position moves TotalError: opening, reducing, closing and *)
(* flipping book exactly what they realize (holdings.go:79-98).  In         *)
(* particular nothing takes an error back when its position closes.         *)
ErrorOnlyFromGrowth ==
  [][totalError' # totalError => \E x \in Options :
       quantity'[x] # quantity[x] /\ Grows(x, quantity'[x] - quantity[x])]_vars

(* Rounding costs at most half a millionth of a dollar per share, for each  *)
(* contract held after each growth: how long -max-error can be kept.        *)
ErrorWithinRounding == 2 * Magnitude(totalError) <= kMultiplier * grown
=============================================================================
