------------------------------- MODULE Maker -------------------------------
(***************************************************************************)
(* The market maker of src/cmd/maker for one symbol: the main loop that    *)
(* quotes a buy and a sell around the market (main.go, state.go, the       *)
(* commands of tui.go), the goroutines that carry its requests to Alpaca,  *)
(* and Alpaca, which executes orders and reports them on a stream that     *)
(* nothing orders with the outcome of a request.                           *)
(*                                                                         *)
(* An order is named by its client order id; Alpaca's own id of an order   *)
(* is the same number (backtest.go names orders so too).  Prices are in    *)
(* ticks.  Abstracted away: fees and P&L, which no decision reads;         *)
(* survivor greed, and the moving average (any price is a possible mean).  *)
(***************************************************************************)
EXTENDS Integers, Sequences, FiniteSets

CONSTANTS
  Qty,        (* Config.qty: shares per order                              *)
  Target,     (* Config.target: the position aimed at                      *)
  Spread,     (* Config.spread, in ticks                                   *)
  Drift,      (* Config.drift, in ticks                                    *)
  Positions,  (* bound: the positions the account may start from           *)
  Markets,    (* bound: the quotes that arrive, with the mean they lead to *)
  MaxOrders,  (* bound: client order ids generated                         *)
  MaxDrops,   (* bound: disconnections of the stream that lose events      *)
  MaxLost     (* bound: requests carried out and yet reported as failed    *)

Sides == {"buy", "sell"}
IDs   == 1..MaxOrders
Nil   == 0

MaximumPosition == IF Target > 0 THEN 2 * Target ELSE 0
MinimumPosition == IF Target > 0 THEN 0 ELSE 2 * Target

ASSUME MakerAssumption ==
  /\ Qty \in Nat \ {0} /\ Target \in Int /\ Spread \in Nat \ {0} /\ Drift \in Nat
  /\ Positions \subseteq MinimumPosition..MaximumPosition
  /\ Markets \subseteq [bid : Nat, ask : Nat, mid : Nat]
  /\ MaxOrders \in Nat /\ MaxDrops \in Nat /\ MaxLost \in Nat

VARIABLES
  (* the main loop *)
  maker,          (* State of the symbol, gOrders and the requests made    *)
  running,        (* FALSE after a panic                                   *)
  (* the goroutines and what they leave to the main loop *)
  calls,          (* requests on their way                                 *)
  failedOrders,   (* gFailedOrders                                         *)
  failedReplaces, (* gFailedReplaces                                       *)
  stream,         (* orderUpdates, with the connection that feeds it       *)
  (* Alpaca *)
  order,          (* the orders by client order id                         *)
  net,            (* the account's position                                *)
  drops,          (* disconnections so far                                 *)
  lost            (* requests carried out and reported as failed so far    *)

callVars   == <<calls, failedOrders, failedReplaces>>
brokerVars == <<order, net, drops, lost>>
vars == <<maker, running, callVars, stream, brokerVars>>

NoOrder == [orderID |-> Nil, client |-> Nil, client2 |-> Nil, price |-> 0, price2 |-> 0]

-----------------------------------------------------------------------------
(* The operators below take the main loop's state m to the next one; the   *)
(* requests a step spawns are collected in m.spawned.                      *)

(* Mutant: the order that is to replace it is forgotten as well. *)
RemoveBothOrders(m, c) ==
  [m EXCEPT !.orders = @ \ ({c} \cup {m.side[s].client2 : s \in {t \in Sides : m.side[t].client = c}}),
            !.side = [s \in Sides |-> IF @[s].client = c THEN NoOrder ELSE @[s]]]

RemoveOrder(m, c) ==
  [m EXCEPT !.orders = @ \ {c},
            !.side = [s \in Sides |-> IF @[s].client = c THEN NoOrder ELSE @[s]]]

UndoReplaceOrder(m, c) ==
  [m EXCEPT !.orders = @ \ {c},
            !.side = [s \in Sides |->
               IF @[s].client2 = c THEN [@[s] EXCEPT !.client2 = Nil, !.price2 = 0]
                                   ELSE @[s]]]

(* A price that is not positive is recorded but not sent. *)
LimitOrder(m, s, p) ==
  IF p <= 0 THEN [m EXCEPT !.side[s] = [@ EXCEPT !.price = p]]
  ELSE [m EXCEPT !.side[s] = [@ EXCEPT !.price = p, !.client = m.next],
                 !.orders = @ \cup {m.next}, !.next = @ + 1,
                 !.spawned = @ \cup {[op |-> "create", id |-> m.next, side |-> s, price |-> p]}]

(* Mutant: the order is replaced before its id is known. *)
ReplaceUnknown(m, s, p) ==
  [m EXCEPT !.side[s] = [@ EXCEPT !.price2 = p, !.client2 = m.next],
            !.orders = @ \cup {m.next}, !.next = @ + 1,
            !.spawned = @ \cup {[op |-> "replace", id |-> m.next,
                                 of |-> m.side[s].orderID, price |-> p]}]

(* Without the order's id only the new price stays behind. *)
ReplaceOrder(m, s, p) ==
  IF m.side[s].orderID = Nil THEN [m EXCEPT !.side[s] = [@ EXCEPT !.price2 = p]]
  ELSE [m EXCEPT !.side[s] = [@ EXCEPT !.price2 = p, !.client2 = m.next],
                 !.orders = @ \cup {m.next}, !.next = @ + 1,
                 !.spawned = @ \cup {[op |-> "replace", id |-> m.next,
                                      of |-> m.side[s].orderID, price |-> p]}]

Distance(p, q) == IF p < q THEN q - p ELSE p - q

(* A side is quoted when it has no order and there is room, or requoted    *)
(* when no replacement is on its way and the price drifted.                *)
Requote(m, s, room, p) ==
  IF m.next > MaxOrders THEN m
  ELSE IF m.side[s].client = Nil
       THEN IF room THEN LimitOrder(m, s, p) ELSE m
       ELSE IF m.side[s].client2 = Nil /\ Distance(p, m.side[s].price) > Drift
            THEN ReplaceOrder(m, s, p) ELSE m

Lesser(a, b)  == IF a < b THEN a ELSE b
Greater(a, b) == IF a > b THEN a ELSE b

(* Around the mean, but never through the market.  Greed, which widens a   *)
(* price, is part of the mean and the quote it is drawn from.              *)
Quote(k) == [buy |-> Lesser(k.mid - Spread, k.bid), sell |-> Greater(k.mid + Spread, k.ask)]

(* A buy stays below our sell, the one at work and the one to replace it,  *)
(* and a sell above our buy.                                               *)
SellFloor(d) == IF d.price2 > 0 /\ (d.price = 0 \/ d.price2 < d.price) THEN d.price2 ELSE d.price

(* Mutant: the replacement that is on its way is not looked at. *)
BuyCeilAtWork(d) == d.price

BuyCeil(d) == IF d.price2 > 0 /\ d.price2 > d.price THEN d.price2 ELSE d.price

ClampBuy(m, p) ==
  LET floor == SellFloor(m.side["sell"])
  IN  IF floor > 0 /\ p >= floor THEN floor - 1 ELSE p

ClampSell(m, p) ==
  LET ceil == BuyCeil(m.side["buy"])
  IN  IF ceil > 0 /\ p <= ceil THEN ceil + 1 ELSE p

Trade(m, q) ==
  LET buyPrice  == ClampBuy(m, q.buy)
      sellPrice == ClampSell(m, q.sell)
      bought    == Requote(m, "buy", m.position + Qty <= MaximumPosition, buyPrice)
  IN  Requote(bought, "sell", m.position - Qty >= MinimumPosition, sellPrice)

(* m itself: halted, closed, no quote yet, or the mean not warmed up.      *)
Evaluate(m) ==
  {m} \cup IF m.disabled \/ m.cooldown \/ Target = 0 THEN {} ELSE {Trade(m, Quote(k)) : k \in Markets}

(* Mutant: the side is free once its order was replaced. *)
OnReplacedForgotten(m, u) ==
  LET d == m.side[u.side]
  IN  [m EXCEPT !.orders = @ \ {d.client},
                !.side[u.side] = [d EXCEPT !.orderID = u.by, !.client = Nil,
                                           !.client2 = Nil, !.price = d.price2]]

(* The side's order becomes the replacement, known to gOrders or not.      *)
OnReplaced(m, u) ==
  LET d == m.side[u.side]
  IN  [m EXCEPT !.orders = @ \ {d.client},
                !.side[u.side] = [d EXCEPT !.orderID = u.by, !.client = d.client2,
                                           !.client2 = Nil, !.price = d.price2]]

(* What the main loop's state may be after an order update.                *)
OnOrderUpdate(m, u) ==
  IF u.id \notin m.orders THEN {m}
  ELSE LET named  == IF m.side[u.side].orderID = Nil
                     THEN [m EXCEPT !.side[u.side] = [@ EXCEPT !.orderID = u.id]] ELSE m
           filled == IF u.qty > 0 THEN [named EXCEPT !.position = u.position] ELSE named
           moved  == CASE u.event = "replaced" -> OnReplaced(filled, u)
                       [] u.event = "rejected" -> [filled EXCEPT !.cooldown = TRUE]
                       [] OTHER                -> filled
       IN  IF u.final THEN Evaluate(RemoveOrder(moved, u.id)) ELSE {moved}

CancelBoth(m) ==
  [m EXCEPT !.spawned = {[op |-> "cancel", of |-> m.side[s].orderID] :
                          s \in {t \in Sides : m.side[t].orderID # Nil}}]

OnToggle(m) ==
  IF m.disabled THEN Evaluate([m EXCEPT !.disabled = FALSE])
                ELSE {CancelBoth([m EXCEPT !.disabled = TRUE])}

(* The main loop goes on in state m, and what it spawned goes out.         *)
Become(m) ==
  /\ maker' = [m EXCEPT !.spawned = {}]
  /\ calls' = calls \cup m.spawned

-----------------------------------------------------------------------------
(* The main loop's select. *)

OnQuote ==
  /\ running
  /\ \E m \in Evaluate(maker) : Become(m)
  /\ UNCHANGED <<running, failedOrders, failedReplaces, stream, brokerVars>>

OnUpdate ==
  /\ running /\ stream # <<>>
  /\ stream' = Tail(stream)
  /\ \E m \in OnOrderUpdate(maker, Head(stream)) : Become(m)
  /\ UNCHANGED <<running, failedOrders, failedReplaces, brokerVars>>

(* gOrders has no state for an order that is over: removeOrder would use   *)
(* a nil pointer.                                                          *)
OnFailedOrder ==
  /\ running
  /\ \E c \in failedOrders :
       /\ failedOrders' = failedOrders \ {c}
       /\ IF c \in maker.orders THEN Become(RemoveOrder(maker, c)) /\ UNCHANGED running
                                ELSE running' = FALSE /\ UNCHANGED <<maker, calls>>
  /\ UNCHANGED <<failedReplaces, stream, brokerVars>>

OnFailedReplace ==
  /\ running
  /\ \E c \in failedReplaces :
       /\ failedReplaces' = failedReplaces \ {c}
       /\ IF c \in maker.orders THEN Become(UndoReplaceOrder(maker, c)) /\ UNCHANGED running
                                ELSE running' = FALSE /\ UNCHANGED <<maker, calls>>
  /\ UNCHANGED <<failedOrders, stream, brokerVars>>

Toggle ==
  /\ running
  /\ \E m \in OnToggle(maker) : Become(m)
  /\ UNCHANGED <<running, failedOrders, failedReplaces, stream, brokerVars>>

CancelOrders ==
  /\ running
  /\ Become(CancelBoth(maker))
  /\ UNCHANGED <<running, failedOrders, failedReplaces, stream, brokerVars>>

CooldownEnds ==
  /\ maker.cooldown
  /\ maker' = [maker EXCEPT !.cooldown = FALSE]
  /\ UNCHANGED <<running, callVars, stream, brokerVars>>

-----------------------------------------------------------------------------
(* Alpaca.  An order is "none", "pending" (to replace another), "open" or  *)
(* "over"; by is the order that is to replace it.                          *)

Report(c, event, qty, position, final) ==
  [event |-> event, id |-> c, side |-> order[c].side, by |-> order[c].by,
   qty |-> qty, position |-> position, final |-> final]

Signed(s, n) == IF s = "buy" THEN n ELSE -n

(* A request that is refused, never arrives, or finds no token in the      *)
(* bucket is an error; so is one that was carried out when its reply is    *)
(* lost and the retry is refused.                                          *)
Fail(r) ==
  /\ failedOrders'   = IF r.op = "create" THEN failedOrders \cup {r.id} ELSE failedOrders
  /\ failedReplaces' = IF r.op = "replace" THEN failedReplaces \cup {r.id} ELSE failedReplaces

(* Mutant: a request that finds no token is given up without a word. *)
RefuseSilently(r) == UNCHANGED <<failedOrders, failedReplaces, stream, brokerVars>>

Refuse(r) ==
  /\ Fail(r)
  /\ UNCHANGED <<stream, brokerVars>>

Answer(r) ==
  \E failed \in {FALSE, lost < MaxLost} :
    IF failed THEN Fail(r) /\ lost' = lost + 1
              ELSE UNCHANGED <<failedOrders, failedReplaces, lost>>

(* A new order goes to work, or the venue rejects it.                      *)
Create(r) ==
  /\ r.op = "create"
  /\ \E rejected \in BOOLEAN :
       /\ order' = [order EXCEPT ![r.id] =
            [status |-> IF rejected THEN "over" ELSE "open", side |-> r.side,
             price |-> r.price, left |-> Qty, by |-> Nil]]
       /\ stream' = Append(stream,
            [event |-> IF rejected THEN "rejected" ELSE "new", id |-> r.id, side |-> r.side,
             by |-> Nil, qty |-> 0, position |-> net, final |-> rejected])
  /\ Answer(r)
  /\ UNCHANGED <<net, drops>>

(* Success does not mean that the open order has been replaced.            *)
Replace(r) ==
  /\ r.op = "replace" /\ r.price > 0
  /\ order[r.of].status = "open" /\ order[r.of].by = Nil
  /\ order' = [order EXCEPT ![r.of] = [@ EXCEPT !.by = r.id],
       ![r.id] = [status |-> "pending", side |-> order[r.of].side,
                  price |-> r.price, left |-> order[r.of].left, by |-> Nil]]
  /\ Answer(r)
  /\ UNCHANGED <<stream, net, drops>>

(* The order c is over without a successor; an order that was to replace   *)
(* it is rejected.                                                         *)
Over(c, orders) ==
  [i \in IDs |-> IF i = c \/ (i = orders[c].by) THEN [orders[i] EXCEPT !.status = "over"]
                                                ELSE orders[i]]

Rejection(c, n) ==
  IF order[c].by = Nil THEN <<>> ELSE <<Report(order[c].by, "rejected", 0, n, TRUE)>>

Leave(c) ==
  /\ order[c].status = "open"
  /\ order' = Over(c, order)
  /\ stream' = Append(stream, Report(c, "canceled", 0, net, TRUE)) \o Rejection(c, net)

Cancel(r) ==
  /\ r.op = "cancel"
  /\ Leave(r.of)
  /\ UNCHANGED <<failedOrders, failedReplaces, net, drops, lost>>

Request ==
  /\ \E r \in calls :
       /\ calls' = calls \ {r}
       /\ \/ Refuse(r)
          \/ Create(r)
          \/ Replace(r)
          \/ Cancel(r)
  /\ UNCHANGED <<maker, running>>

Execute ==
  /\ \E c \in IDs : \E n \in 1..order[c].left :
       LET done == [order EXCEPT ![c] = [@ EXCEPT !.left = order[c].left - n]]
           over == n = order[c].left
           pos  == net + Signed(order[c].side, n)
       IN  /\ order[c].status = "open"
           /\ net' = pos
           /\ order' = IF over THEN Over(c, done) ELSE done
           /\ stream' = Append(stream, Report(c, "fill", n, pos, over))
                          \o IF over THEN Rejection(c, pos) ELSE <<>>
  /\ UNCHANGED <<maker, running, callVars, drops, lost>>

Replaced ==
  /\ \E c \in IDs :
       /\ order[c].status = "open" /\ order[c].by # Nil
       /\ order' = [order EXCEPT ![c] = [@ EXCEPT !.status = "over"],
            ![order[c].by] = [@ EXCEPT !.status = "open", !.left = order[c].left]]
       /\ stream' = stream \o <<Report(c, "replaced", 0, net, TRUE),
                                Report(order[c].by, "new", 0, net, FALSE)>>
  /\ UNCHANGED <<maker, running, callVars, net, drops, lost>>

Expire ==
  /\ \E c \in IDs : Leave(c)
  /\ UNCHANGED <<maker, running, callVars, net, drops, lost>>

(* The connection breaks: what was not received is never sent again.       *)
Disconnect ==
  /\ drops < MaxDrops
  /\ \E n \in 0..Len(stream) - 1 : stream' = SubSeq(stream, 1, n)
  /\ drops' = drops + 1
  /\ UNCHANGED <<maker, running, callVars, order, net, lost>>

-----------------------------------------------------------------------------
Init ==
  /\ \E p \in Positions :
       maker = [position |-> p, side |-> [s \in Sides |-> NoOrder], orders |-> {}, next |-> 1,
                spawned |-> {}, disabled |-> FALSE, cooldown |-> FALSE]
  /\ running = TRUE
  /\ calls = {} /\ failedOrders = {} /\ failedReplaces = {} /\ stream = <<>>
  /\ order = [c \in IDs |-> [status |-> "none", side |-> "buy", price |-> 0, left |-> 0, by |-> Nil]]
  /\ net = maker.position /\ drops = 0 /\ lost = 0

MainLoop == OnQuote \/ OnUpdate \/ OnFailedOrder \/ OnFailedReplace \/ Toggle \/ CancelOrders
              \/ CooldownEnds
Alpaca   == Request \/ Execute \/ Replaced \/ Expire \/ Disconnect

Next == MainLoop \/ Alpaca

Spec == Init /\ [][Next]_vars

-----------------------------------------------------------------------------
(* Properties. *)

Requests == [op : {"create"}, id : IDs, side : Sides, price : Int]
              \cup [op : {"replace"}, id : IDs, of : IDs, price : Int]
              \cup [op : {"cancel"}, of : IDs]

Holdings == [orderID : IDs \cup {Nil}, client : IDs \cup {Nil}, client2 : IDs \cup {Nil},
             price : Int, price2 : Int]

TypeOK ==
  /\ maker \in [position : Int, side : [Sides -> Holdings], orders : SUBSET IDs,
                next : 1..MaxOrders + 1, spawned : {{}}, disabled : BOOLEAN, cooldown : BOOLEAN]
  /\ running \in BOOLEAN
  /\ calls \subseteq Requests
  /\ failedOrders \subseteq IDs /\ failedReplaces \subseteq IDs
  /\ stream \in Seq([event : {"new", "fill", "canceled", "replaced", "rejected"}, id : IDs,
                     side : Sides, by : IDs \cup {Nil}, qty : Nat, position : Int, final : BOOLEAN])
  /\ order \in [IDs -> [status : {"none", "pending", "open", "over"}, side : Sides, price : Int,
                        left : 0..Qty, by : IDs \cup {Nil}]]
  /\ net \in Int /\ drops \in 0..MaxDrops /\ lost \in 0..MaxLost

AtWork(s) == {c \in IDs : order[c].status = "open" /\ order[c].side = s}

(* The account never holds more than the symbol's maximum position nor     *)
(* less than its minimum (canBuy and canSell of Evaluate), however         *)
(* requests, executions, replacements and cancellations cross, as long as  *)
(* no event is lost and no request is carried out and said to have failed. *)
PositionWithinLimits ==
  drops = 0 /\ lost = 0 => net \in MinimumPosition..MaximumPosition

(* The buy at work is priced below the sell at work, while both are being  *)
(* moved and whatever order Alpaca carries the moves out in, even when     *)
(* events are lost (the clamp of Evaluate).                                *)
NoSelfTrade ==
  lost = 0 => \A b \in AtWork("buy"), s \in AtWork("sell") : order[b].price < order[s].price

Requested(c) == \E r \in calls : r.op # "cancel" /\ r.id = c
Ended(c) == order[c].status = "over" \/ (order[c].status = "none" /\ ~ Requested(c))

(* A side whose order has ended, or was never taken, is going to hear of   *)
(* it, by the stream or by gFailedOrders: it never waits for an order that *)
(* is not there.                                                           *)
EndIsReported ==
  drops = 0 /\ lost = 0 =>
    \A s \in Sides : LET c == maker.side[s].client
                     IN  c # Nil /\ Ended(c) =>
                           \/ c \in failedOrders
                           \/ \E i \in 1..Len(stream) : stream[i].id = c /\ stream[i].final

(* The main loop finds the state of every order whose request failed:      *)
(* removeOrder and undoReplaceOrder never use a nil pointer.               *)
FailuresAreKnown == lost = 0 => running
=============================================================================
