----------------------------- MODULE CubbyEntry -----------------------------
(***************************************************************************)
(* The average prices that cubby's simulated fills keep: FilledPrice of an *)
(* order and EntryPrice of an equity (order.go:142-163), in the smallest   *)
(* decimals of src/decimal, of which TicksPerPrice make the unit of price  *)
(* that Cubby counts in.  The margins and the book do not read them.       *)
(***************************************************************************)
EXTENDS Cubby

CONSTANT TicksPerPrice   (* 10^6 in the code *)

ASSUME EntryAssumption == TicksPerPrice \in Nat \ {0}

VARIABLES
  filledPrice,   (* Order.FilledPrice, 0 until there is an order          *)
  entryPrice,    (* Equity.EntryPrice                                     *)
  paid,          (* history: the prices paid since the equity was flat    *)
  shorted,       (* history: it has been short since it was flat          *)
  rounding       (* history: shares each average was taken over, added up *)

averages == <<filledPrice, entryPrice>>
entryVars == <<vars, averages, paid, shorted, rounding>>

(* Decimal.Div: half to even, with the sign of the exact quotient. *)
Div(a, n) ==
  LET k   == Abs(n)
      quo == Abs(a) \div k
      near == IF 2 * (Abs(a) % k) + (quo % 2) > k THEN quo + 1 ELSE quo
  IN IF (a < 0) = (n < 0) THEN near ELSE -near

Ticks(o) == TicksPerPrice * FillPrice(o)

FilledPriceAfter(o) ==
  Div(filledPrice[o] * order[o].filled + Ticks(o) * FillQuantity(o),
      order[o].filled + FillQuantity(o))

(* A buy averages, whatever the sign of the position; a sale only resets.  *)
(* Mutant: a sale does not.                                                *)
EntryPriceKept(o) ==
  LET e == order[o].equity
  IN IF Divides(o) \/ order[o].side = "sell" THEN entryPrice[e]
     ELSE Div(entryPrice[e] * position[e] + Ticks(o) * FillQuantity(o),
              position[e] + FillQuantity(o))

EntryPriceAfter(o) ==
  LET e == order[o].equity
      n == FillQuantity(o)
  IN IF Divides(o) THEN entryPrice[e]
     ELSE IF order[o].side = "buy"
          THEN Div(entryPrice[e] * position[e] + Ticks(o) * n, position[e] + n)
     ELSE IF position[e] - n = 0 THEN 0 ELSE entryPrice[e]

Average(o) ==
  LET e == order[o].equity
      flat == position'[e] = 0
  IN /\ filledPrice' = IF Divides(o) THEN filledPrice
                       ELSE [filledPrice EXCEPT ![o] = FilledPriceAfter(o)]
     /\ entryPrice' = [entryPrice EXCEPT ![e] = EntryPriceAfter(o)]
     /\ paid' = [paid EXCEPT ![e] =
                   IF flat THEN {}
                   ELSE IF order[o].side = "buy" THEN @ \cup {Ticks(o)} ELSE @]
     /\ shorted' = [shorted EXCEPT ![e] = ~flat /\ (@ \/ position'[e] < 0)]
     /\ rounding' = IF order[o].filled = 0 THEN rounding
                    ELSE rounding + order[o].filled + FillQuantity(o)

EntryInit ==
  /\ Init
  /\ filledPrice = [o \in 1..MaxOrders |-> 0]
  /\ entryPrice = [e \in Equities |-> 0]
  /\ paid = [e \in Equities |-> {}]
  /\ shorted = [e \in Equities |-> FALSE]
  /\ rounding = 0

FillsAverage(o) ==
  /\ SimulateFill(o)
  /\ IF Outcome(o) = "fill" THEN Average(o)
     ELSE UNCHANGED <<averages, paid, shorted, rounding>>

NothingFills ==
  /\ \/ NextBar
     \/ CheckMarketClose
     \/ \E e \in Equities, q \in Quantities, limit \in Limits :
          Order(e, q, limit)
     \/ \E o \in DOMAIN order : Cancel(o)
     \/ EndOfBar
  /\ UNCHANGED <<averages, paid, shorted, rounding>>

EntryNext ==
  /\ stopped = "no"
  /\ (\E o \in todo : FillsAverage(o)) \/ NothingFills

EntrySpec == EntryInit /\ [][EntryNext]_entryVars
-----------------------------------------------------------------------------
(* Properties.                                                             *)

(* What orders paid, computed from their averages as their owners compute  *)
(* it, is what the account paid, but for half a tick for each share an     *)
(* average was taken over again.                                           *)
FilledPricesAddUp ==
  stopped # "division" =>
    LET traded == SumFunction([o \in DOMAIN order |->
                                 Signed(o, filledPrice[o] * order[o].filled)])
        spent  == Cash0 - interest - cash
    IN 2 * Abs(TicksPerPrice * spent - 10 * traded) <= 10 * rounding

(* The entry price of an equity that was not short since it was last flat  *)
(* lies between the prices paid since; of a flat one it is zero.           *)
EntryWithinPaid ==
  \A e \in Equities : ~shorted[e] =>
    IF position[e] = 0 THEN stopped # "division" => entryPrice[e] = 0
    ELSE /\ \E p \in paid[e] : p <= entryPrice[e]
         /\ \E p \in paid[e] : entryPrice[e] <= p

(* The averages of order.go agree with the money it books: over partial    *)
(* fills, partial sales, closes and re-openings of several orders.         *)
AveragesFollowFills == FilledPricesAddUp /\ EntryWithinPaid
=============================================================================
