------------------------------- MODULE Cubby -------------------------------
(***************************************************************************)
(* cubby's simulated trading: the loop of backtest.go that replays minute  *)
(* bars, the book of simulated orders (order.go), the margin they hold and *)
(* the buying power they are checked against (equity.go, cubby.go).        *)
(*                                                                         *)
(* A step of the loop is one of: NextBar (prices and clock), one order's   *)
(* simulateFill, the close of the day, one call of a strategy, and the end *)
(* of the iteration.  Money is counted in tenths of a dollar, so a margin  *)
(* rate of 3 is 30 percent; rates are constant (the floors per share and   *)
(* the rules for low prices are left out).  CubbyEntry adds the average    *)
(* prices; of them only the division that can fail matters here.           *)
(***************************************************************************)
EXTENDS Integers, Sequences, FiniteSetsExt

CONSTANTS
  Equities,     (* the registered symbols, numbered in their order        *)
  Shortable,    (* those that are shortable and easy to borrow            *)
  Bars,         (* the bars data files hold: [open, vwap, close, volume], *)
                (* volume being what the participation rate leaves us     *)
  Quantities,   (* what strategies order: signed, not zero                *)
  Limits,       (* and at which limits                                    *)
  Rate,         (* Asset.MarginRequirementLong and Short, in tenths       *)
  Cash0,        (* -cash, in tenths of a dollar                           *)
  Multiplier,   (* getBuyingPowerMultiplier                               *)
  Rekt,         (* -rekt                                                  *)
  Patience,     (* -patience                                              *)
  DailyInterest,(* what GetDailyInterest may charge on negative cash      *)
  DayLength, LooFrom, LooBy, OpenAt, LocFrom, CloseAt, (* clock           *)
  Horizon, MaxOrders (* bounds on a run: its minutes, the orders placed   *)

ASSUME CubbyAssumption ==
  /\ Equities \subseteq Nat /\ Shortable \subseteq Equities
  /\ IsFiniteSet(Equities)
  /\ Bars \subseteq [open : Nat \ {0}, vwap : Nat \ {0},
                     close : Nat \ {0}, volume : Nat]
  /\ Quantities \subseteq Int \ {0} /\ Limits \subseteq Nat \ {0}
  /\ Rate \in Nat /\ Cash0 \in Nat /\ Multiplier \in Nat /\ Rekt \in Nat
  /\ Patience \in Nat /\ DailyInterest \subseteq Nat
  /\ {DayLength, LooFrom, LooBy, OpenAt, LocFrom, CloseAt} \subseteq Nat
  /\ LooFrom <= LooBy /\ LooBy <= OpenAt /\ OpenAt < LocFrom
  /\ LocFrom < CloseAt /\ CloseAt < DayLength
  /\ Horizon \in Nat /\ MaxOrders \in Nat

VARIABLES
  now,       (* clocky.Now: minutes, -1 before the first bar              *)
  at,        (* where the loop is: "next", "fill" or "strategy"           *)
  bar,       (* the bars of this minute, until its fills are done         *)
  todo,      (* orders this minute has still to simulate                  *)
  opened, closed,  (* backtest.opened, closed                             *)
  price, position, (* Equity.Price (0: no bar yet) and Quantity           *)
  cash, dtbp, lastEquity, lastMaint, (* Cash and the account's figures    *)
  hold,      (* gMarginHold                                               *)
  order,     (* every order ever placed                                   *)
  open,      (* the keys of Orders, which Equity.Orders divides           *)
  stopped,   (* why the process ended, or "no"                            *)
  interest,  (* history: the interest charged so far                      *)
  steady,    (* history: no price has moved so far                        *)
  plain      (* history: no order so far could take a position across     *)
             (* zero, and each was checked at the price it may fill at    *)

clock    == <<now, at, bar, todo, opened, closed>>
account  == <<cash, dtbp, lastEquity, lastMaint>>
book     == <<hold, order, open>>
history  == <<interest, steady, plain>>
vars     == <<clock, price, position, account, book, stopped, history>>

----------------------------------------------------------------------------
(* Margins and values.                                                     *)
Abs(n)    == IF n < 0 THEN -n ELSE n
Least(m, n) == IF m < n THEN m ELSE n
Most(m, n)  == IF m < n THEN n ELSE m

MaintenanceMargin(q, p) == Rate * Abs(q) * p
InitialMargin(q, p) == Most(MaintenanceMargin(q, p), 5 * Abs(q) * p)

MarginUsed ==
  SumFunction([e \in Equities |-> MaintenanceMargin(position[e], price[e])])
(* A short position counts as an asset, as it does in the code. *)
PortfolioValue ==
  cash + SumFunction([e \in Equities |-> 10 * Abs(position[e]) * price[e]])

----------------------------------------------------------------------------
Final    == {"filled", "canceled", "expired"}
Statuses == Final \cup {"new", "partially_filled"}
Auction  == {"opg", "cls"}
TimeOfDay == now % DayLength
Day(t)    == t \div DayLength
Unfilled(o) == order[o].quantity - order[o].filled

TypeOK ==
  /\ now \in -1 .. Horizon - 1
  /\ at \in {"next", "fill", "strategy"}
  /\ DOMAIN bar \subseteq Equities /\ \A e \in DOMAIN bar : bar[e] \in Bars
  /\ todo \subseteq DOMAIN order /\ open \subseteq DOMAIN order
  /\ opened \in BOOLEAN /\ closed \in BOOLEAN
  /\ price \in [Equities -> Nat] /\ position \in [Equities -> Int]
  /\ cash \in Int /\ dtbp \in Nat /\ hold \in Nat
  /\ lastEquity \in Int /\ lastMaint \in Nat
  /\ order \in Seq([equity : Equities, side : {"buy", "sell"},
                    quantity : Nat \ {0}, filled : Nat, limit : Limits,
                    held : Nat, tif : Auction \cup {"day"},
                    orderedAt : Nat, status : Statuses])
  /\ \A o \in DOMAIN order : order[o].filled <= order[o].quantity
  /\ stopped \in {"no", "broken logic", "division", "margin call", "rekt"}
  /\ interest \in Nat /\ steady \in BOOLEAN /\ plain \in BOOLEAN

Init ==
  /\ now = -1 /\ at = "next" /\ bar = <<>> /\ todo = {}
  /\ opened = FALSE /\ closed = FALSE
  /\ price = [e \in Equities |-> 0] /\ position = [e \in Equities |-> 0]
  /\ cash = Cash0 /\ dtbp = Multiplier * Cash0
  /\ lastEquity = Cash0 /\ lastMaint = 0
  /\ hold = 0 /\ order = <<>> /\ open = {}
  /\ stopped = "no" /\ interest = 0 /\ steady = TRUE /\ plain = TRUE

----------------------------------------------------------------------------
(* The bars of one minute: prices, then setTime, which forgets what the    *)
(* last day reached and opens the market at the first minute of the        *)
(* session that has a bar.  Data files have gaps: any later minute.        *)
Opens(t, done) ==
  /\ ~done
  /\ t % DayLength >= OpenAt /\ t % DayLength < CloseAt

NextBar ==
  /\ at = "next"
  /\ \E t \in now + 1 .. Horizon - 1, E \in SUBSET Equities :
       \E b \in [E -> Bars] :
         LET newDay == Day(t) # Day(now)
             wasOpened == opened /\ ~newDay
         IN /\ E # {}
            /\ now' = t /\ bar' = b
            /\ price' = [e \in Equities |->
                           IF e \in E THEN b[e].close ELSE price[e]]
            /\ opened' = (wasOpened \/ Opens(t, wasOpened))
            /\ closed' = (closed /\ ~newDay)
            /\ dtbp' = IF Opens(t, wasOpened)
                       THEN Multiplier * (lastEquity - lastMaint) ELSE dtbp
            /\ todo' = {o \in open : order[o].equity \in E}
            /\ steady' = (steady /\ \A e \in E :
                            /\ price[e] \in {0, b[e].close}
                            /\ b[e].open = b[e].close
                            /\ b[e].vwap = b[e].close)
  /\ at' = "fill"
  /\ UNCHANGED <<position, cash, lastEquity, lastMaint, book, stopped,
                 interest, plain>>

----------------------------------------------------------------------------
(* simulateFill.  The part of it that decides, in the order of the code.   *)
(* Mutant: at its limit instead of at the price of the bar. *)
LimitOf(o) == order[o].limit

FillPrice(o) ==
  LET b == bar[order[o].equity]
  IN IF order[o].tif \in Auction THEN b.open ELSE b.vwap

Crosses(o) ==
  IF order[o].side = "buy" THEN FillPrice(o) <= order[o].limit
                           ELSE FillPrice(o) >= order[o].limit

(* Mutant: what was filled before is not taken off. *)
FillQuantityOfOrder(o) ==
  Least(order[o].quantity, IF order[o].tif \in Auction THEN order[o].quantity
                           ELSE bar[order[o].equity].volume)

FillQuantity(o) ==
  Least(Unfilled(o), IF order[o].tif \in Auction THEN order[o].quantity
                     ELSE bar[order[o].equity].volume)

(* Filling a buy would leave more margin used than the portfolio is worth. *)
CallsMargin(o) ==
  LET e == order[o].equity
      p == FillPrice(o)
  IN /\ order[o].side = "buy"
     /\ MarginUsed + MaintenanceMargin(position[e] + FillQuantity(o), p)
                   - MaintenanceMargin(position[e], p) > PortfolioValue

Late(o) ==
  /\ order[o].tif = "day"
  /\ TimeOfDay >= CloseAt \/ now - order[o].orderedAt > Patience

(* Not its time yet: before the open, or not the minute of its auction. *)
Early(o) ==
  \/ TimeOfDay < OpenAt
  \/ order[o].tif = "opg" /\ TimeOfDay # OpenAt
  \/ order[o].tif = "cls" /\ TimeOfDay # CloseAt

Outcome(o) ==
  LET auction == order[o].tif \in Auction
  IN IF order[o].status \in Final THEN "broken"
     ELSE IF Early(o)          THEN "wait"
     ELSE IF Late(o)           THEN "expired"
     ELSE IF ~Crosses(o)       THEN IF auction THEN "canceled" ELSE "wait"
     ELSE IF ~auction /\ bar[order[o].equity].volume = 0 THEN "wait"
     ELSE IF CallsMargin(o)    THEN "canceled"
     ELSE IF FillQuantity(o) <= 0 THEN "broken"
     ELSE "fill"

(* setStatus with a final status: the order leaves the maps and gives its  *)
(* whole hold back.  Mutants: the hold of an order that expired is kept;   *)
(* a canceled order stays in the maps.                                     *)
CloseKeepingHold(o, record) ==
  /\ order' = [order EXCEPT ![o] = record]
  /\ open'  = open \ {o}
  /\ hold'  = IF record.status = "expired" THEN hold ELSE hold - record.held

CloseInPlace(o, record) ==
  /\ order' = [order EXCEPT ![o] = record]
  /\ open'  = IF record.status = "canceled" THEN open ELSE open \ {o}
  /\ hold'  = hold - record.held

Close(o, record) ==
  /\ order' = [order EXCEPT ![o] = record]
  /\ open'  = open \ {o}
  /\ hold'  = hold - record.held

Signed(o, n) == IF order[o].side = "buy" THEN n ELSE -n

(* The entry price is divided by the position a buy made: there is none    *)
(* when the buy covers a short position exactly, and the panic ends the    *)
(* process with the order half updated.  (The filled price is divided by   *)
(* FilledQuantity, which a fill has just raised by at least one.)          *)
Divides(o) ==
  /\ order[o].side = "buy"
  /\ position[order[o].equity] + FillQuantity(o) = 0

Fill(o) ==
  LET n == FillQuantity(o)
      full == n = Unfilled(o)
      record == [order[o] EXCEPT !.filled = @ + n,
                   !.status = IF full THEN "filled" ELSE "partially_filled"]
  IN /\ cash' = cash - 10 * Signed(o, n) * FillPrice(o)
     /\ position' = [position EXCEPT ![order[o].equity] = @ + Signed(o, n)]
     /\ stopped' = IF Divides(o) THEN "division" ELSE stopped
     /\ IF Divides(o) THEN UNCHANGED book
        ELSE IF full THEN Close(o, record)
        ELSE order' = [order EXCEPT ![o] = record] /\ UNCHANGED <<open, hold>>

(* The orders of one equity come in the arbitrary order of a Go map, the   *)
(* equities in the order of their symbols.  "broken" stands for the two    *)
(* panics of simulateFill.                                                 *)
SimulateFill(o) ==
  /\ at = "fill" /\ o \in todo
  /\ \A u \in todo : order[o].equity <= order[u].equity
  /\ todo' = todo \ {o}
  /\ \/ /\ Outcome(o) \in {"wait", "broken"}
        /\ stopped' = IF Outcome(o) = "broken" THEN "broken logic" ELSE stopped
        /\ UNCHANGED <<position, cash, book>>
     \/ /\ Outcome(o) \in Final
        /\ Close(o, [order[o] EXCEPT !.status = Outcome(o)])
        /\ UNCHANGED <<position, cash, stopped>>
     \/ /\ Outcome(o) = "fill"
        /\ Fill(o)
  /\ UNCHANGED <<now, at, bar, opened, closed, price, dtbp, lastEquity,
                 lastMaint, history>>

(* checkMarketClose, after the fills: interest, the figures the next day's *)
(* buying power is computed from, and the margin call that ends the run.   *)
CheckMarketClose ==
  /\ at = "fill" /\ todo = {}
  /\ at' = "strategy" /\ bar' = <<>>
  /\ IF closed \/ TimeOfDay < CloseAt
     THEN UNCHANGED <<closed, cash, lastEquity, lastMaint, stopped, interest>>
     ELSE \E i \in IF cash < 0 THEN DailyInterest ELSE {0} :
            /\ closed' = TRUE
            /\ cash' = cash - i /\ interest' = interest + i
            /\ lastEquity' = PortfolioValue - i
            /\ lastMaint' = MarginUsed
            /\ stopped' = IF MarginUsed > PortfolioValue - i
                          THEN "margin call" ELSE stopped
  /\ UNCHANGED <<now, todo, opened, price, position, dtbp, book, steady, plain>>

----------------------------------------------------------------------------
(* What the strategies' OnBar callbacks may call.                          *)

(* The instruction Order chooses from the time; "none" is refused. *)
TimeInForce ==
  IF TimeOfDay < OpenAt \/ TimeOfDay >= CloseAt
  THEN IF TimeOfDay >= LooFrom /\ TimeOfDay < LooBy THEN "opg" ELSE "none"
  ELSE IF TimeOfDay >= LocFrom THEN "cls" ELSE "day"

(* The open orders of e on one side, added up. *)
Working(e, side) ==
  LET ours == {o \in open : order[o].equity = e /\ order[o].side = side}
  IN SumFunction([o \in ours |-> Unfilled(o)])

(* The order either moves the position away from zero, at a limit it can   *)
(* be checked at, or takes no more of it than other orders leave.          *)
Plain(e, q, limit) ==
  /\ price[e] > 0
  /\ \/ q > 0 /\ position[e] >= 0
     \/ q < 0 /\ position[e] <= 0 /\ limit >= price[e]
     \/ q < 0 /\ position[e] > 0 /\ Working(e, "sell") - q <= position[e]
     \/ q > 0 /\ position[e] < 0 /\ Working(e, "buy") + q <= -position[e]

(* The margin an order needs, and whether it is accepted. *)
MarginNeeded(e, q, mark) ==
  Most(0, InitialMargin(position[e] + q, mark)
          - MaintenanceMargin(position[e], mark))

(* Mutant: what the other open orders hold is not counted. *)
AffordableUnheld(e, q, mark) ==
  LET more == MaintenanceMargin(position[e] + q, mark)
              - MaintenanceMargin(position[e], mark)
      need == MarginNeeded(e, q, mark)
  IN /\ need > 0 => need <= dtbp - MarginUsed
     /\ more > 0 => MarginUsed + more <= PortfolioValue

Affordable(e, q, mark) ==
  LET more == MaintenanceMargin(position[e] + q, mark)
              - MaintenanceMargin(position[e], mark)
      need == MarginNeeded(e, q, mark)
  IN /\ need > 0 => need <= dtbp - MarginUsed - hold
     /\ more > 0 => MarginUsed + more <= PortfolioValue

Order(e, q, limit) ==
  LET mark == Least(limit, price[e])
  IN /\ at = "strategy" /\ Len(order) < MaxOrders
     /\ q < 0 /\ position[e] + q < 0 => e \in Shortable
     /\ Affordable(e, q, mark)
     /\ TimeInForce # "none"
     /\ order' = Append(order,
          [equity |-> e, side |-> IF q > 0 THEN "buy" ELSE "sell",
           quantity |-> Abs(q), filled |-> 0, limit |-> limit,
           held |-> MarginNeeded(e, q, mark), tif |-> TimeInForce,
           orderedAt |-> now, status |-> "new"])
     /\ open' = open \cup {Len(order) + 1}
     /\ hold' = hold + MarginNeeded(e, q, mark)
     /\ plain' = (plain /\ Plain(e, q, limit))
     /\ UNCHANGED <<clock, price, position, account, stopped, interest, steady>>

(* Mutant: an order that ended can be canceled again. *)
CancelAgain(o) ==
  /\ at = "strategy" /\ o \in DOMAIN order
  /\ Close(o, [order[o] EXCEPT !.status = "canceled"])
  /\ UNCHANGED <<clock, price, position, account, stopped, history>>

Cancel(o) ==
  /\ at = "strategy" /\ o \in DOMAIN order
  /\ order[o].status \notin Final
  /\ Close(o, [order[o] EXCEPT !.status = "canceled"])
  /\ UNCHANGED <<clock, price, position, account, stopped, history>>

(* The end of an iteration: an account that lost too much ends the run. *)
EndOfBar ==
  /\ at = "strategy"
  /\ at' = "next"
  /\ stopped' = IF PortfolioValue <= Rekt THEN "rekt" ELSE stopped
  /\ UNCHANGED <<now, bar, todo, opened, closed, price, position, account,
                 book, history>>

Next ==
  /\ stopped = "no"
  /\ \/ NextBar
     \/ \E o \in todo : SimulateFill(o)
     \/ CheckMarketClose
     \/ \E e \in Equities, q \in Quantities, limit \in Limits :
          Order(e, q, limit)
     \/ \E o \in DOMAIN order : Cancel(o)
     \/ EndOfBar

Spec == Init /\ [][Next]_vars
----------------------------------------------------------------------------
(* Properties.                                                             *)

(* gMarginHold is the margin the open orders hold, no more and no less:    *)
(* every way an order can end gives its hold back, once.                   *)
HoldExact == hold = SumFunction([o \in open |-> order[o].held])

(* The maps hold exactly the orders that are not final, and the two panics *)
(* that guard simulateFill are never reached: no order is simulated after  *)
(* its end, and none is left with nothing to fill.                         *)
OpenIsWorking ==
  /\ open = {o \in DOMAIN order : order[o].status \notin Final}
  /\ \A o \in open : Unfilled(o) > 0
  /\ stopped # "broken logic"

(* A position is what its orders filled, and while prices stand still the *)
(* cash, the interest charged and what the positions are worth come to the *)
(* money the account began with.                                           *)
LedgerExact ==
  /\ stopped # "division" => \A e \in Equities :
       LET ours == {o \in DOMAIN order : order[o].equity = e}
       IN position[e]
            = SumFunction([o \in ours |-> Signed(o, order[o].filled)])
  /\ steady =>
       cash + interest + SumFunction([e \in Equities |->
                                        10 * position[e] * price[e]]) = Cash0

(* Until the figures of a first day take effect, while prices stand still, *)
(* the account can afford every order it accepted: the margin used, and of *)
(* what the open orders hold the margin that what is unfilled of each will *)
(* use, stay within the buying power.  Partial fills, cancels and          *)
(* expirations in between do not change that.                              *)
FirstFigures == Day(now) <= 0 \/ (Day(now) = 1 /\ ~opened)
MarginToUse(o) ==
  Least(order[o].held,
        MaintenanceMargin(Unfilled(o),
                          Least(order[o].limit, price[order[o].equity])))
WithinBuyingPower ==
  plain /\ steady /\ FirstFigures =>
    MarginUsed + SumFunction([o \in open |-> MarginToUse(o)]) <= dtbp

(* What assertMarginConstraints says of every fill: the margin used and    *)
(* the margin held stay within the buying power, for otherwise "we placed  *)
(* orders we couldn't afford" (order.go:184-193).  Asked of the same       *)
(* orders, prices and figures as WithinBuyingPower.                        *)
FillsStayAfforded ==
  [][ (position' # position /\ stopped' = "no"
         /\ plain /\ steady /\ FirstFigures) =>
        MarginUsed' + hold' <= dtbp' ]_vars

(* An order that has ended stays as it is.                                 *)
FinalStays ==
  [][ \A o \in DOMAIN order \ open : order'[o] = order[o] ]_vars
=============================================================================
