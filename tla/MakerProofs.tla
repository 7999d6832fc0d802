----------------------------- MODULE MakerProofs -----------------------------
(***************************************************************************)
(* Proofs about Maker, for every quantity, target, spread and drift, every *)
(* set of quotes and starting positions, and any number of orders,         *)
(* disconnections and lost replies.                                        *)
(*                                                                         *)
(* The inductive invariant has two layers.  Safe holds while no request    *)
(* was carried out and yet reported as failed, even when events are lost:  *)
(* where the orders at Alpaca, the requests, the failures and the events   *)
(* stand in the slots of the two sides.  From it follow that failures name *)
(* orders that are known and that the maker does not trade with itself.    *)
(* Told, Counted and Room hold while no event is lost either: every order  *)
(* the main loop waits for is going to be heard of, the position it knows  *)
(* is off by no more than the fills it has not heard of, and the account   *)
(* has room for everything that is at work or asked for.  From them follow *)
(* the position limits and that no end goes unreported.                    *)
(*                                                                         *)
(* Both layers are stated of the main loop's state m, the requests K, the  *)
(* failed orders fo and replacements fr, the stream st, the orders o and   *)
(* the account's position, so that they can be followed through the steps  *)
(* of a handler.                                                           *)
(***************************************************************************)
EXTENDS Maker, TLAPS

-----------------------------------------------------------------------------
(* The main loop's operators, field by field. *)

(* What the main loop's state, the events and the orders are in every state,*)
(* and in the steps between two states.                                     *)
Makers == [position : Int, side : [Sides -> Holdings], orders : SUBSET IDs,
           next : 1..MaxOrders + 1, spawned : SUBSET Requests, disabled : BOOLEAN,
           cooldown : BOOLEAN]
Events == [event : {"new", "fill", "canceled", "replaced", "rejected"}, id : IDs,
           side : Sides, by : IDs \cup {Nil}, qty : Nat, position : Int, final : BOOLEAN]
Orders == [IDs -> [status : {"none", "pending", "open", "over"}, side : Sides, price : Int,
                   left : 0..Qty, by : IDs \cup {Nil}]]

(* The names of orders; Nil is none of them. *)
LEMMA IDFacts ==
  /\ IDs \subseteq Nat /\ Nil \notin IDs /\ Nil = 0
  /\ \A c \in IDs : 1 <= c /\ c <= MaxOrders
  /\ MaxOrders \in Nat
BY MakerAssumption DEF IDs, Nil

(* What m and n have in common besides the side s. *)
SameOtherwise(m, n, s) ==
  /\ n.position = m.position /\ n.disabled = m.disabled /\ n.cooldown = m.cooldown
  /\ \A t \in Sides \ {s} : n.side[t] = m.side[t]

(* The main loop asks for nothing. *)
NothingNew(m, n) == n.orders = m.orders /\ n.next = m.next /\ n.spawned = m.spawned

(* The main loop asks for r, under an id of its own. *)
AsksFor(m, n, r) ==
  /\ n.orders = m.orders \cup {m.next} /\ n.next = m.next + 1
  /\ n.spawned = m.spawned \cup {r} /\ m.next \in IDs /\ r \in Requests

(* What a side holds, field by field. *)
SideIs(d, orderID, client, client2, price, price2) ==
  /\ d.orderID = orderID /\ d.client = client /\ d.client2 = client2
  /\ d.price = price /\ d.price2 = price2

(* The two requests of a requote. *)
CreateOf(m, s, p) == [op |-> "create", id |-> m.next, side |-> s, price |-> p]
ReplaceOf(m, s, p) == [op |-> "replace", id |-> m.next, of |-> m.side[s].orderID, price |-> p]

(* The types of a side's fields, and of the main loop's. *)
LEMMA HoldingFacts ==
  ASSUME NEW d \in Holdings
  PROVE  /\ d.orderID \in IDs \cup {Nil} /\ d.client \in IDs \cup {Nil}
         /\ d.client2 \in IDs \cup {Nil} /\ d.price \in Int /\ d.price2 \in Int
BY DEF Holdings

(* The types of a record's fields. *)
LEMMA MakerFacts ==
  ASSUME NEW m \in Makers
  PROVE  /\ m.position \in Int /\ m.side \in [Sides -> Holdings] /\ m.orders \subseteq IDs
         /\ m.next \in 1..MaxOrders + 1 /\ m.next \in Nat /\ m.spawned \subseteq Requests
         /\ m.disabled \in BOOLEAN /\ m.cooldown \in BOOLEAN
         /\ \A s \in Sides : m.side[s] \in Holdings
BY MakerAssumption DEF Makers

(* LimitOrder with a price that is not sent. *)
LEMMA LimitUnsent ==
  ASSUME NEW m \in Makers, NEW s \in Sides, NEW p \in Int, p <= 0
  PROVE  LET n == LimitOrder(m, s, p) IN
         /\ n \in Makers /\ SameOtherwise(m, n, s) /\ NothingNew(m, n)
         /\ SideIs(n.side[s], m.side[s].orderID, m.side[s].client, m.side[s].client2,
                   p, m.side[s].price2)
<1> DEFINE h == [m.side[s] EXCEPT !.price = p]
           n == [m EXCEPT !.side[s] = h]
<1>1. m.side[s] \in Holdings BY MakerFacts
<1>2. h \in Holdings /\ SideIs(h, m.side[s].orderID, m.side[s].client, m.side[s].client2,
                               p, m.side[s].price2)
  BY <1>1 DEF Holdings, SideIs
<1>3. LimitOrder(m, s, p) = n BY DEF LimitOrder
<1> HIDE DEF h
<1>4. n \in Makers BY <1>2 DEF Makers
<1>5. SameOtherwise(m, n, s) /\ NothingNew(m, n) BY DEF SameOtherwise, NothingNew, Makers
<1>6. n.side[s] = h BY DEF Makers
<1> QED BY <1>2, <1>3, <1>4, <1>5, <1>6

(* LimitOrder with a price that is sent. *)
LEMMA LimitSent ==
  ASSUME NEW m \in Makers, NEW s \in Sides, NEW p \in Int, p > 0, m.next <= MaxOrders
  PROVE  LET n == LimitOrder(m, s, p) IN
         /\ n \in Makers /\ SameOtherwise(m, n, s) /\ AsksFor(m, n, CreateOf(m, s, p))
         /\ SideIs(n.side[s], m.side[s].orderID, m.next, m.side[s].client2,
                   p, m.side[s].price2)
<1> DEFINE h == [m.side[s] EXCEPT !.price = p, !.client = m.next]
           r == CreateOf(m, s, p)
           n == [m EXCEPT !.side[s] = h, !.orders = @ \cup {m.next}, !.next = @ + 1,
                          !.spawned = @ \cup {r}]
<1>1. m.side[s] \in Holdings BY MakerFacts
<1>0. m.next \in IDs BY MakerFacts, MakerAssumption DEF IDs
<1>2. h \in Holdings /\ SideIs(h, m.side[s].orderID, m.next, m.side[s].client2,
                               p, m.side[s].price2)
  BY <1>0, <1>1, Zenon DEF Holdings, SideIs
<1>3. LimitOrder(m, s, p) = n BY DEF LimitOrder, CreateOf
<1>7. r \in Requests BY <1>0 DEF Requests, CreateOf
<1> HIDE DEF h, r
<1>8. m.next + 1 \in 1..MaxOrders + 1 BY MakerFacts, MakerAssumption
<1>4. n \in Makers BY <1>0, <1>2, <1>7, <1>8, Zenon DEF Makers
<1>5. SameOtherwise(m, n, s) /\ AsksFor(m, n, r) BY <1>0, <1>7 DEF SameOtherwise, AsksFor, Makers
<1>6. n.side[s] = h BY DEF Makers
<1> QED BY <1>2, <1>3, <1>4, <1>5, <1>6 DEF r

(* ReplaceOrder of an order whose id is not known. *)
LEMMA ReplaceUnsent ==
  ASSUME NEW m \in Makers, NEW s \in Sides, NEW p \in Int, m.side[s].orderID = Nil
  PROVE  LET n == ReplaceOrder(m, s, p) IN
         /\ n \in Makers /\ SameOtherwise(m, n, s) /\ NothingNew(m, n)
         /\ SideIs(n.side[s], m.side[s].orderID, m.side[s].client, m.side[s].client2,
                   m.side[s].price, p)
<1> DEFINE h == [m.side[s] EXCEPT !.price2 = p]
           n == [m EXCEPT !.side[s] = h]
<1>1. m.side[s] \in Holdings BY MakerFacts
<1>2. h \in Holdings /\ SideIs(h, m.side[s].orderID, m.side[s].client, m.side[s].client2,
                               m.side[s].price, p)
  BY <1>1 DEF Holdings, SideIs
<1>3. ReplaceOrder(m, s, p) = n BY DEF ReplaceOrder
<1> HIDE DEF h
<1>4. n \in Makers BY <1>2 DEF Makers
<1>5. SameOtherwise(m, n, s) /\ NothingNew(m, n) BY DEF SameOtherwise, NothingNew, Makers
<1>6. n.side[s] = h BY DEF Makers
<1> QED BY <1>2, <1>3, <1>4, <1>5, <1>6

(* ReplaceOrder of an order whose id is known. *)
LEMMA ReplaceSent ==
  ASSUME NEW m \in Makers, NEW s \in Sides, NEW p \in Int, m.side[s].orderID # Nil,
         m.next <= MaxOrders
  PROVE  LET n == ReplaceOrder(m, s, p) IN
         /\ n \in Makers /\ SameOtherwise(m, n, s) /\ AsksFor(m, n, ReplaceOf(m, s, p))
         /\ SideIs(n.side[s], m.side[s].orderID, m.side[s].client, m.next,
                   m.side[s].price, p)
<1> DEFINE h == [m.side[s] EXCEPT !.price2 = p, !.client2 = m.next]
           r == ReplaceOf(m, s, p)
           n == [m EXCEPT !.side[s] = h, !.orders = @ \cup {m.next}, !.next = @ + 1,
                          !.spawned = @ \cup {r}]
<1>1. m.side[s] \in Holdings BY MakerFacts
<1>0. m.next \in IDs BY MakerFacts, MakerAssumption DEF IDs
<1>2. h \in Holdings /\ SideIs(h, m.side[s].orderID, m.side[s].client, m.next,
                               m.side[s].price, p)
  BY <1>0, <1>1, Zenon DEF Holdings, SideIs
<1>3. ReplaceOrder(m, s, p) = n BY DEF ReplaceOrder, ReplaceOf
<1>7. r \in Requests BY <1>0, <1>1, HoldingFacts DEF Requests, ReplaceOf
<1> HIDE DEF h, r
<1>8. m.next + 1 \in 1..MaxOrders + 1 BY MakerFacts, MakerAssumption
<1>4. n \in Makers BY <1>0, <1>2, <1>7, <1>8, Zenon DEF Makers
<1>5. SameOtherwise(m, n, s) /\ AsksFor(m, n, r) BY <1>0, <1>7 DEF SameOtherwise, AsksFor, Makers
<1>6. n.side[s] = h BY DEF Makers
<1> QED BY <1>2, <1>3, <1>4, <1>5, <1>6 DEF r

(* The order c is forgotten, with the side it was the order of. *)
Removed(m, n, c) ==
  /\ n.position = m.position /\ n.disabled = m.disabled /\ n.cooldown = m.cooldown
  /\ n.orders = m.orders \ {c} /\ n.next = m.next /\ n.spawned = m.spawned
  /\ \A s \in Sides : n.side[s] = IF m.side[s].client = c THEN NoOrder ELSE m.side[s]

(* removeOrder does that. *)
LEMMA RemoveFacts ==
  ASSUME NEW m \in Makers, NEW c
  PROVE  RemoveOrder(m, c) \in Makers /\ Removed(m, RemoveOrder(m, c), c)
<1> DEFINE sides == [s \in Sides |-> IF m.side[s].client = c THEN NoOrder ELSE m.side[s]]
           n == [m EXCEPT !.orders = @ \ {c}, !.side = sides]
<1>1. NoOrder \in Holdings BY DEF NoOrder, Holdings
<1>2. sides \in [Sides -> Holdings] BY <1>1, MakerFacts
<1>3. RemoveOrder(m, c) = n BY DEF RemoveOrder
<1>4. \A s \in Sides : sides[s] = IF m.side[s].client = c THEN NoOrder ELSE m.side[s]
  OBVIOUS
<1> HIDE DEF sides
<1>5. n \in Makers BY <1>2, Zenon DEF Makers
<1>6. Removed(m, n, c) BY <1>4 DEF Removed, Makers
<1> QED BY <1>3, <1>5, <1>6

(* The order c, which was to replace a side's order, is forgotten. *)
Undone(m, n, c) ==
  /\ n.position = m.position /\ n.disabled = m.disabled /\ n.cooldown = m.cooldown
  /\ n.orders = m.orders \ {c} /\ n.next = m.next /\ n.spawned = m.spawned
  /\ \A s \in Sides :
       IF m.side[s].client2 = c
       THEN SideIs(n.side[s], m.side[s].orderID, m.side[s].client, Nil, m.side[s].price, 0)
       ELSE n.side[s] = m.side[s]

(* undoReplaceOrder does that. *)
LEMMA UndoFacts ==
  ASSUME NEW m \in Makers, NEW c
  PROVE  UndoReplaceOrder(m, c) \in Makers /\ Undone(m, UndoReplaceOrder(m, c), c)
<1> DEFINE undone(d) == [d EXCEPT !.client2 = Nil, !.price2 = 0]
           sides == [s \in Sides |-> IF m.side[s].client2 = c THEN undone(m.side[s])
                                                              ELSE m.side[s]]
           n == [m EXCEPT !.orders = @ \ {c}, !.side = sides]
<1>1. \A d \in Holdings : undone(d) \in Holdings
                          /\ SideIs(undone(d), d.orderID, d.client, Nil, d.price, 0)
  <2> TAKE d \in Holdings
  <2>1. 0 \in Int OBVIOUS
  <2>2. undone(d) \in Holdings BY <2>1, Zenon DEF Holdings
  <2> QED BY <2>2 DEF Holdings, SideIs
<1>3. UndoReplaceOrder(m, c) = n BY DEF UndoReplaceOrder
<1> HIDE DEF undone
<1>2. sides \in [Sides -> Holdings] BY <1>1, MakerFacts
<1>4. \A s \in Sides : IF m.side[s].client2 = c
         THEN SideIs(sides[s], m.side[s].orderID, m.side[s].client, Nil, m.side[s].price, 0)
         ELSE sides[s] = m.side[s]
  BY <1>1, MakerFacts
<1> HIDE DEF sides
<1>5. n \in Makers BY <1>2, Zenon DEF Makers
<1>6. Undone(m, n, c) BY <1>4 DEF Undone, Makers
<1> QED BY <1>3, <1>5, <1>6

(* A replaced event moves the side to the order that replaced its own. *)
LEMMA ReplacedFacts ==
  ASSUME NEW m \in Makers, NEW u \in Events
  PROVE  LET n == OnReplaced(m, u) IN
         /\ n \in Makers /\ SameOtherwise(m, n, u.side)
         /\ n.orders = m.orders \ {m.side[u.side].client}
         /\ n.next = m.next /\ n.spawned = m.spawned
         /\ SideIs(n.side[u.side], u.by, m.side[u.side].client2, Nil,
                   m.side[u.side].price2, m.side[u.side].price2)
<1> DEFINE s == u.side
           h == [m.side[s] EXCEPT !.orderID = u.by, !.client = m.side[s].client2,
                                  !.client2 = Nil, !.price = m.side[s].price2]
           n == [m EXCEPT !.orders = @ \ {m.side[s].client}, !.side[s] = h]
<1>0. s \in Sides /\ u.by \in IDs \cup {Nil} BY DEF Events
<1>1. m.side[s] \in Holdings BY <1>0, MakerFacts
<1>2. h \in Holdings /\ SideIs(h, u.by, m.side[s].client2, Nil, m.side[s].price2,
                               m.side[s].price2)
  BY <1>0, <1>1, Zenon DEF Holdings, SideIs
<1>3. OnReplaced(m, u) = n BY DEF OnReplaced
<1> HIDE DEF h, s
<1>4. n \in Makers BY <1>0, <1>2, Zenon DEF Makers
<1>5. SameOtherwise(m, n, s) /\ n.orders = m.orders \ {m.side[s].client} /\ n.next = m.next
      /\ n.spawned = m.spawned
  BY <1>0 DEF SameOtherwise, Makers
<1>6. n.side[s] = h BY <1>0 DEF Makers
<1> QED BY <1>2, <1>3, <1>4, <1>5, <1>6 DEF s

(* The side learns the id of its order. *)
NameOrder(m, s, c) == [m EXCEPT !.side[s] = [@ EXCEPT !.orderID = c]]

(* What naming an order changes. *)
LEMMA NameFacts ==
  ASSUME NEW m \in Makers, NEW s \in Sides, NEW c \in IDs
  PROVE  LET n == NameOrder(m, s, c) IN
         /\ n \in Makers /\ SameOtherwise(m, n, s) /\ NothingNew(m, n)
         /\ SideIs(n.side[s], c, m.side[s].client, m.side[s].client2,
                   m.side[s].price, m.side[s].price2)
<1> DEFINE h == [m.side[s] EXCEPT !.orderID = c]
           n == [m EXCEPT !.side[s] = h]
<1>1. m.side[s] \in Holdings BY MakerFacts
<1>2. h \in Holdings /\ SideIs(h, c, m.side[s].client, m.side[s].client2,
                               m.side[s].price, m.side[s].price2)
  BY <1>1 DEF Holdings, SideIs
<1>3. NameOrder(m, s, c) = n BY DEF NameOrder
<1> HIDE DEF h
<1>4. n \in Makers BY <1>2 DEF Makers
<1>5. SameOtherwise(m, n, s) /\ NothingNew(m, n) BY DEF SameOtherwise, NothingNew, Makers
<1>6. n.side[s] = h BY DEF Makers
<1> QED BY <1>2, <1>3, <1>4, <1>5, <1>6

(* The sides, the orders and the next id are as they were. *)
SameBooks(m, n) == n.side = m.side /\ n.orders = m.orders /\ n.next = m.next

(* A flag or the position changes nothing else. *)
LEMMA FlagFacts ==
  ASSUME NEW m \in Makers, NEW b \in BOOLEAN, NEW p \in Int
  PROVE  /\ LET n == [m EXCEPT !.cooldown = b] IN
              n \in Makers /\ SameBooks(m, n) /\ n.spawned = m.spawned /\ n.position = m.position
         /\ LET n == [m EXCEPT !.disabled = b] IN
              n \in Makers /\ SameBooks(m, n) /\ n.spawned = m.spawned /\ n.position = m.position
         /\ LET n == [m EXCEPT !.position = p] IN
              n \in Makers /\ SameBooks(m, n) /\ n.spawned = m.spawned /\ n.position = p
BY DEF Makers, SameBooks

(* Cancelling asks for cancellations only. *)
LEMMA CancelFacts ==
  ASSUME NEW m \in Makers
  PROVE  LET n == CancelBoth(m) IN
         /\ n \in Makers /\ SameBooks(m, n) /\ n.position = m.position
         /\ \A r \in n.spawned : r.op = "cancel"
<1> DEFINE cancels == {[op |-> "cancel", of |-> m.side[s].orderID] :
                        s \in {t \in Sides : m.side[t].orderID # Nil}}
           n == [m EXCEPT !.spawned = cancels]
<1>1. \A s \in Sides : m.side[s].orderID # Nil => m.side[s].orderID \in IDs
  BY MakerFacts, HoldingFacts
<1>2. cancels \subseteq Requests /\ \A r \in cancels : r.op = "cancel"
  BY <1>1 DEF Requests
<1>3. CancelBoth(m) = n BY DEF CancelBoth
<1> HIDE DEF cancels
<1>4. n \in Makers /\ SameBooks(m, n) /\ n.position = m.position /\ n.spawned = cancels
  BY <1>2 DEF Makers, SameBooks
<1> QED BY <1>2, <1>3, <1>4

(* The cases of a requote. *)
LEMMA RequoteCases ==
  ASSUME NEW m \in Makers, NEW s \in Sides, NEW room, NEW p \in Int
  PROVE  \/ Requote(m, s, room, p) = m
         \/ /\ m.next <= MaxOrders /\ m.side[s].client = Nil /\ room
            /\ Requote(m, s, room, p) = LimitOrder(m, s, p)
         \/ /\ m.next <= MaxOrders /\ m.side[s].client # Nil /\ m.side[s].client2 = Nil
            /\ Requote(m, s, room, p) = ReplaceOrder(m, s, p)
<1>1. m.next > MaxOrders \/ m.next <= MaxOrders BY MakerFacts, MakerAssumption
<1> QED BY <1>1 DEF Requote

(* Types of what a requote and an evaluation lead to; a quote is never      *)
(* crossed, and its sell is positive.                                       *)
LEMMA RequoteTypes ==
  ASSUME NEW m \in Makers, NEW s \in Sides, NEW room, NEW p \in Int
  PROVE  Requote(m, s, room, p) \in Makers
<1>1. p > 0 \/ p <= 0 OBVIOUS
<1> QED BY <1>1, RequoteCases, LimitSent, LimitUnsent, ReplaceSent, ReplaceUnsent

(* A quote's prices are integers, the bid below the ask. *)
LEMMA QuoteFacts ==
  ASSUME NEW k \in Markets
  PROVE  Quote(k).buy \in Int /\ Quote(k).sell \in Int /\ Quote(k).buy < Quote(k).sell
         /\ Quote(k).sell > 0
<1>1. k.bid \in Nat /\ k.ask \in Nat /\ k.mid \in Nat BY MakerAssumption
<1>2. Spread \in Nat /\ Spread > 0 BY MakerAssumption
<1> QED BY <1>1, <1>2 DEF Quote, Lesser, Greater

(* A clamped price is an integer. *)
LEMMA ClampTypes ==
  ASSUME NEW m \in Makers, NEW p \in Int
  PROVE  ClampBuy(m, p) \in Int /\ ClampSell(m, p) \in Int
<1>1. m.side["buy"] \in Holdings /\ m.side["sell"] \in Holdings BY MakerFacts DEF Sides
<1>2. SellFloor(m.side["sell"]) \in Int BY <1>1, HoldingFacts DEF SellFloor
<1>3. BuyCeil(m.side["buy"]) \in Int BY <1>1, HoldingFacts DEF BuyCeil
<1> QED BY <1>2, <1>3 DEF ClampBuy, ClampSell

(* An evaluation leaves a record of the market maker. *)
LEMMA EvaluateTypes ==
  ASSUME NEW m \in Makers, NEW n \in Evaluate(m)
  PROVE  n \in Makers
<1>1. CASE n = m BY <1>1
<1>2. ASSUME NEW k \in Markets, n = Trade(m, Quote(k)) PROVE n \in Makers
  <2> DEFINE buyPrice  == ClampBuy(m, Quote(k).buy)
             sellPrice == ClampSell(m, Quote(k).sell)
             bought    == Requote(m, "buy", m.position + Qty <= MaximumPosition, buyPrice)
  <2>1. buyPrice \in Int /\ sellPrice \in Int BY QuoteFacts, ClampTypes
  <2>2. bought \in Makers BY <2>1, RequoteTypes DEF Sides
  <2>3. n = Requote(bought, "sell", m.position - Qty >= MinimumPosition, sellPrice)
    BY <1>2 DEF Trade
  <2> HIDE DEF buyPrice, sellPrice, bought
  <2> QED BY <2>1, <2>2, <2>3, RequoteTypes DEF Sides
<1> QED BY <1>1, <1>2 DEF Evaluate

(* An order update, in the steps its handler takes. *)
NamedBy(m, u)  == IF m.side[u.side].orderID = Nil THEN NameOrder(m, u.side, u.id) ELSE m
FilledBy(m, u) == IF u.qty > 0 THEN [m EXCEPT !.position = u.position] ELSE m
MovedBy(m, u)  == IF u.event = "replaced" THEN OnReplaced(m, u)
                  ELSE IF u.event = "rejected" THEN [m EXCEPT !.cooldown = TRUE] ELSE m

(* The handler of an update is its steps in turn. *)
LEMMA UpdateSteps ==
  ASSUME NEW m, NEW u, u.id \in m.orders
  PROVE  OnOrderUpdate(m, u) =
           LET n == MovedBy(FilledBy(NamedBy(m, u), u), u)
           IN  IF u.final THEN Evaluate(RemoveOrder(n, u.id)) ELSE {n}
BY Zenon DEF OnOrderUpdate, NamedBy, FilledBy, MovedBy, NameOrder

(* Types of what an update leads to. *)
LEMMA StepTypes ==
  ASSUME NEW m \in Makers, NEW u \in Events
  PROVE  NamedBy(m, u) \in Makers /\ FilledBy(m, u) \in Makers /\ MovedBy(m, u) \in Makers
<1>1. u.side \in Sides /\ u.id \in IDs /\ u.position \in Int BY DEF Events
<1>2. NamedBy(m, u) \in Makers BY <1>1, NameFacts DEF NamedBy
<1>3. FilledBy(m, u) \in Makers BY <1>1, FlagFacts, Zenon DEF FilledBy
<1>5. [m EXCEPT !.cooldown = TRUE] \in Makers BY <1>1, FlagFacts, Zenon
<1>4. MovedBy(m, u) \in Makers BY <1>5, ReplacedFacts DEF MovedBy
<1> QED BY <1>2, <1>3, <1>4

(* So does an order update. *)
LEMMA UpdateTypes ==
  ASSUME NEW m \in Makers, NEW u \in Events, NEW n \in OnOrderUpdate(m, u)
  PROVE  n \in Makers
<1>1. CASE u.id \notin m.orders BY <1>1 DEF OnOrderUpdate
<1>2. CASE u.id \in m.orders
  <2> DEFINE a == MovedBy(FilledBy(NamedBy(m, u), u), u)
  <2>1. a \in Makers BY StepTypes
  <2>2. n \in IF u.final THEN Evaluate(RemoveOrder(a, u.id)) ELSE {a} BY <1>2, UpdateSteps
  <2> HIDE DEF a
  <2> QED BY <2>1, <2>2, RemoveFacts, EvaluateTypes
<1> QED BY <1>1, <1>2

(* Types of what the halt command leads to. *)
LEMMA ToggleTypes ==
  ASSUME NEW m \in Makers, NEW n \in OnToggle(m)
  PROVE  n \in Makers
<1>1. \A b \in BOOLEAN : [m EXCEPT !.disabled = b] \in Makers
  BY DEF Makers
<1>2. [m EXCEPT !.disabled = TRUE] \in Makers /\ [m EXCEPT !.disabled = FALSE] \in Makers
  BY <1>1, Zenon
<1> QED BY <1>2, CancelFacts, EvaluateTypes DEF OnToggle

-----------------------------------------------------------------------------
(* Alpaca's orders, field by field. *)

(* The types of an order's fields. *)
LEMMA OrderFacts ==
  ASSUME NEW o \in Orders, NEW c \in IDs
  PROVE  /\ o[c].status \in {"none", "pending", "open", "over"} /\ o[c].side \in Sides
         /\ o[c].price \in Int /\ o[c].left \in 0..Qty /\ o[c].by \in IDs \cup {Nil}
         /\ o[c].left \in Int
BY MakerAssumption DEF Orders

(* A record with these fields is an order. *)
LEMMA OrderIs ==
  ASSUME NEW x, NEW y, NEW p \in Int, NEW l \in 0..Qty, NEW b \in IDs \cup {Nil},
         x \in {"none", "pending", "open", "over"}, y \in Sides
  PROVE  [status |-> x, side |-> y, price |-> p, left |-> l, by |-> b]
           \in [status : {"none", "pending", "open", "over"}, side : Sides, price : Int,
                left : 0..Qty, by : IDs \cup {Nil}]
OBVIOUS

(* The order i is the same but for what is done to the whole of it. *)
SameTerms(o, q, i) == q[i].side = o[i].side /\ q[i].price = o[i].price

(* The order c is over, and with it the one that was to replace it. *)
OverTo(o, q, c) ==
  \A i \in IDs :
    /\ SameTerms(o, q, i) /\ q[i].by = o[i].by
    /\ i # c => q[i].left = o[i].left
    /\ q[i].status = IF i = c \/ i = o[c].by THEN "over" ELSE o[i].status

(* Over does that. *)
LEMMA OverFacts ==
  ASSUME NEW o \in Orders, NEW c \in IDs
  PROVE  /\ Over(c, o) \in Orders /\ OverTo(o, Over(c, o), c)
         /\ Over(c, o)[c].left = o[c].left
<1> DEFINE q == Over(c, o)
<1>1. \A i \in IDs : /\ SameTerms(o, q, i) /\ q[i].by = o[i].by /\ q[i].left = o[i].left
                     /\ q[i].status = IF i = c \/ i = o[c].by THEN "over" ELSE o[i].status
  BY DEF Over, SameTerms, Orders
<1>2. q \in Orders BY DEF Over, Orders
<1> QED BY <1>1, <1>2 DEF OverTo

(* An execution takes its shares off one order. *)
LEMMA FilledFacts ==
  ASSUME NEW o \in Orders, NEW c \in IDs, NEW n \in 1..o[c].left
  PROVE  LET q == [o EXCEPT ![c] = [@ EXCEPT !.left = o[c].left - n]] IN
         /\ q \in Orders
         /\ \A i \in IDs : /\ SameTerms(o, q, i) /\ q[i].by = o[i].by
                           /\ q[i].status = o[i].status
                           /\ i # c => q[i].left = o[i].left
         /\ q[c].left = o[c].left - n
<1> DEFINE h == [o[c] EXCEPT !.left = o[c].left - n]
           q == [o EXCEPT ![c] = h]
<1>1. o[c] \in [status : {"none", "pending", "open", "over"}, side : Sides, price : Int,
                left : 0..Qty, by : IDs \cup {Nil}]
  BY DEF Orders
<1>2. o[c].left - n \in 0..Qty BY OrderFacts, MakerAssumption
<1>3. h \in [status : {"none", "pending", "open", "over"}, side : Sides, price : Int,
             left : 0..Qty, by : IDs \cup {Nil}]
  BY <1>1, <1>2
<1>4. /\ h.side = o[c].side /\ h.price = o[c].price /\ h.by = o[c].by
      /\ h.status = o[c].status /\ h.left = o[c].left - n
  BY <1>1
<1>7. q = [o EXCEPT ![c] = [@ EXCEPT !.left = o[c].left - n]] OBVIOUS
<1> HIDE DEF h
<1>5. q \in Orders BY <1>3 DEF Orders
<1>6. q[c] = h /\ \A i \in IDs \ {c} : q[i] = o[i] BY DEF Orders
<1> HIDE DEF q
<1>8. \A i \in IDs : /\ SameTerms(o, q, i) /\ q[i].by = o[i].by /\ q[i].status = o[i].status
                     /\ i # c => q[i].left = o[i].left
  BY <1>4, <1>6 DEF SameTerms
<1> QED BY <1>4, <1>5, <1>6, <1>7, <1>8, Zenon

(* A new order. *)
LEMMA CreateFacts ==
  ASSUME NEW o \in Orders, NEW c \in IDs, NEW h, NEW s \in Sides, NEW p \in Int, NEW x,
         x \in {"open", "over"},
         h = [status |-> x, side |-> s, price |-> p, left |-> Qty, by |-> Nil]
  PROVE  LET q == [o EXCEPT ![c] = h] IN
         /\ q \in Orders
         /\ q[c].status = x /\ q[c].side = s /\ q[c].price = p /\ q[c].left = Qty
         /\ q[c].by = Nil
         /\ \A i \in IDs \ {c} : q[i] = o[i]
<1>1. Qty \in 0..Qty BY MakerAssumption
<1>2. h \in [status : {"none", "pending", "open", "over"}, side : Sides, price : Int,
             left : 0..Qty, by : IDs \cup {Nil}]
  BY <1>1, OrderIs
<1> DEFINE q == [o EXCEPT ![c] = h]
<1>3. q \in Orders BY <1>2 DEF Orders
<1>4. q[c] = h /\ \A i \in IDs \ {c} : q[i] = o[i] BY DEF Orders
<1> QED BY <1>3, <1>4

(* x is to replace c. *)
ReplaceTo(o, q, c, x, p) ==
  /\ SameTerms(o, q, c) /\ q[c].left = o[c].left /\ q[c].status = o[c].status
  /\ q[c].by = x
  /\ q[x].status = "pending" /\ q[x].side = o[c].side /\ q[x].price = p
  /\ q[x].left = o[c].left /\ q[x].by = Nil
  /\ \A i \in IDs \ {c, x} : q[i] = o[i]

(* Accepting a replacement. *)
LEMMA ReplaceFacts ==
  ASSUME NEW o \in Orders, NEW c \in IDs, NEW x \in IDs, NEW p \in Int, c # x
  PROVE  LET q == [o EXCEPT ![c] = [@ EXCEPT !.by = x],
                    ![x] = [status |-> "pending", side |-> o[c].side, price |-> p,
                            left |-> o[c].left, by |-> Nil]]
         IN  q \in Orders /\ ReplaceTo(o, q, c, x, p)
<1> DEFINE h == [o[c] EXCEPT !.by = x]
           k == [status |-> "pending", side |-> o[c].side, price |-> p,
                 left |-> o[c].left, by |-> Nil]
           R == [status : {"none", "pending", "open", "over"}, side : Sides, price : Int,
                 left : 0..Qty, by : IDs \cup {Nil}]
           q == [o EXCEPT ![c] = h, ![x] = k]
<1>1. o[c] \in R BY DEF Orders
<1>2. h \in R BY <1>1
<1>3. k \in R BY OrderIs, OrderFacts
<1>4. /\ h.side = o[c].side /\ h.price = o[c].price /\ h.by = x
      /\ h.status = o[c].status /\ h.left = o[c].left
  BY <1>1
<1>5. q = [o EXCEPT ![c] = [@ EXCEPT !.by = x],
                    ![x] = [status |-> "pending", side |-> o[c].side, price |-> p,
                            left |-> o[c].left, by |-> Nil]]
  OBVIOUS
<1>9. /\ k.side = o[c].side /\ k.price = p /\ k.by = Nil
      /\ k.status = "pending" /\ k.left = o[c].left
  OBVIOUS
<1> HIDE DEF h, k
<1>6. q \in Orders BY <1>2, <1>3 DEF Orders
<1>7. q[c] = h /\ q[x] = k /\ \A i \in IDs \ {c, x} : q[i] = o[i] BY DEF Orders
<1> HIDE DEF q, R
<1>8. ReplaceTo(o, q, c, x, p) BY <1>4, <1>7, <1>9 DEF ReplaceTo, SameTerms
<1> QED BY <1>5, <1>6, <1>8

(* x has replaced c. *)
ReplacedTo(o, q, c, x) ==
  /\ SameTerms(o, q, c) /\ q[c].left = o[c].left /\ q[c].by = o[c].by
  /\ q[c].status = "over"
  /\ SameTerms(o, q, x) /\ q[x].left = o[c].left /\ q[x].by = o[x].by
  /\ q[x].status = "open"
  /\ \A i \in IDs \ {c, x} : q[i] = o[i]

(* Making way for a replacement. *)
LEMMA ReplacedOrders ==
  ASSUME NEW o \in Orders, NEW c \in IDs, NEW x \in IDs, c # x
  PROVE  LET q == [o EXCEPT ![c] = [@ EXCEPT !.status = "over"],
                    ![x] = [@ EXCEPT !.status = "open", !.left = o[c].left]]
         IN  q \in Orders /\ ReplacedTo(o, q, c, x)
<1> DEFINE h == [o[c] EXCEPT !.status = "over"]
           k == [o[x] EXCEPT !.status = "open", !.left = o[c].left]
           R == [status : {"none", "pending", "open", "over"}, side : Sides, price : Int,
                 left : 0..Qty, by : IDs \cup {Nil}]
           q == [o EXCEPT ![c] = h, ![x] = k]
<1>1. o[c] \in R /\ o[x] \in R BY DEF Orders
<1>2. h \in R BY <1>1
<1>3. k \in R BY <1>1, Zenon
<1>4. /\ h.side = o[c].side /\ h.price = o[c].price /\ h.by = o[c].by
      /\ h.status = "over" /\ h.left = o[c].left
  BY <1>1
<1>5. q = [o EXCEPT ![c] = [@ EXCEPT !.status = "over"],
                    ![x] = [@ EXCEPT !.status = "open", !.left = o[c].left]]
  OBVIOUS
<1>9. /\ k.side = o[x].side /\ k.price = o[x].price /\ k.by = o[x].by
      /\ k.status = "open" /\ k.left = o[c].left
  BY <1>1
<1> HIDE DEF h, k
<1>6. q \in Orders BY <1>2, <1>3 DEF Orders
<1>7. q[c] = h /\ q[x] = k /\ \A i \in IDs \ {c, x} : q[i] = o[i] BY DEF Orders
<1> HIDE DEF q, R
<1>8. ReplacedTo(o, q, c, x) BY <1>4, <1>7, <1>9 DEF ReplacedTo, SameTerms
<1> QED BY <1>5, <1>6, <1>8

-----------------------------------------------------------------------------
(* Types. *)

(* The stream as a sequence of events: its end, its head, its prefixes. *)
LEMMA AppendFacts ==
  ASSUME NEW st \in Seq(Events), NEW u \in Events
  PROVE  /\ Append(st, u) \in Seq(Events) /\ Len(Append(st, u)) = Len(st) + 1
         /\ \A i \in 1..Len(st) : Append(st, u)[i] = st[i]
         /\ Append(st, u)[Len(st) + 1] = u
OBVIOUS

(* Two events appended one after the other. *)
LEMMA AppendTwo ==
  ASSUME NEW st \in Seq(Events), NEW u \in Events, NEW v \in Events
  PROVE  /\ Append(st, u) \o <<v>> = Append(Append(st, u), v)
         /\ st \o <<u, v>> = Append(Append(st, u), v)
         /\ Append(st, u) \o << >> = Append(st, u)
<1>1. Append(st, u) \in Seq(Events) /\ <<v>> \in Seq(Events) /\ <<u, v>> \in Seq(Events) OBVIOUS
<1>2. Append(st, u) \o <<v>> = Append(Append(st, u), v) BY <1>1
<1>3. st \o <<u, v>> = Append(Append(st, u), v) BY <1>1
<1>4. Append(st, u) \o << >> = Append(st, u) BY <1>1
<1> QED BY <1>2, <1>3, <1>4

(* The stream without its first event. *)
LEMMA TailFacts ==
  ASSUME NEW st \in Seq(Events), st # << >>
  PROVE  /\ Head(st) \in Events /\ Head(st) = st[1] /\ Len(st) >= 1
         /\ Tail(st) \in Seq(Events) /\ Len(Tail(st)) = Len(st) - 1
         /\ \A i \in 1..Len(Tail(st)) : Tail(st)[i] = st[i + 1]
OBVIOUS

(* The stream up to the place it is cut. *)
LEMMA PrefixFacts ==
  ASSUME NEW st \in Seq(Events), NEW n \in 0..Len(st) - 1
  PROVE  /\ SubSeq(st, 1, n) \in Seq(Events) /\ Len(SubSeq(st, 1, n)) = n
         /\ \A i \in 1..n : SubSeq(st, 1, n)[i] = st[i]
<1>1. SubSeq(st, 1, n) = [i \in 1..n |-> st[i]] OBVIOUS
<1>2. \A i \in 1..n : st[i] \in Events OBVIOUS
<1>3. n \in Nat OBVIOUS
<1>4. [i \in 1..n |-> st[i]] \in Seq(Events) BY <1>2, <1>3
<1> QED BY <1>1, <1>3, <1>4

(* An event, field by field. *)
EventIs(event, id, side, by, qty, position, final) ==
  [event |-> event, id |-> id, side |-> side, by |-> by, qty |-> qty, position |-> position,
   final |-> final]

(* A record with these fields is an event. *)
LEMMA EventTypes ==
  ASSUME NEW event \in {"new", "fill", "canceled", "replaced", "rejected"}, NEW id \in IDs,
         NEW side \in Sides, NEW by \in IDs \cup {Nil}, NEW qty \in Nat, NEW position \in Int,
         NEW final \in BOOLEAN
  PROVE  EventIs(event, id, side, by, qty, position, final) \in Events
BY DEF Events, EventIs

(* What Alpaca reports of an order is an event. *)
LEMMA ReportTypes ==
  ASSUME order \in Orders, NEW c \in IDs,
         NEW event \in {"new", "fill", "canceled", "replaced", "rejected"},
         NEW qty \in Nat, NEW position \in Int, NEW final \in BOOLEAN
  PROVE  /\ Report(c, event, qty, position, final) \in Events
         /\ Report(c, event, qty, position, final)
              = EventIs(event, c, order[c].side, order[c].by, qty, position, final)
BY EventTypes, OrderFacts, Zenon DEF Report, EventIs

(* The type invariant, in the form the proofs use. *)
TypeInv ==
  /\ maker \in Makers /\ maker.spawned = {}
  /\ running \in BOOLEAN
  /\ calls \subseteq Requests
  /\ failedOrders \subseteq IDs /\ failedReplaces \subseteq IDs
  /\ stream \in Seq(Events)
  /\ order \in Orders
  /\ net \in Int /\ drops \in 0..MaxDrops /\ lost \in 0..MaxLost

(* It implies the module's. *)
LEMMA TypesAre == TypeInv => TypeOK
<1>1. ASSUME maker \in Makers, maker.spawned = {}
      PROVE  maker \in [position : Int, side : [Sides -> Holdings], orders : SUBSET IDs,
                        next : 1..MaxOrders + 1, spawned : {{}}, disabled : BOOLEAN,
                        cooldown : BOOLEAN]
  BY <1>1 DEF Makers
<1> QED BY <1>1, Zenon DEF TypeInv, TypeOK, Events, Orders

(* It holds at the start. *)
LEMMA InitTypes == Init => TypeInv
<1> SUFFICES ASSUME Init PROVE TypeInv OBVIOUS
<1>1. PICK p \in Positions :
        maker = [position |-> p, side |-> [s \in Sides |-> NoOrder], orders |-> {}, next |-> 1,
                 spawned |-> {}, disabled |-> FALSE, cooldown |-> FALSE]
  BY Zenon DEF Init
<1>2. p \in Int BY MakerAssumption DEF MinimumPosition, MaximumPosition
<1>3. NoOrder \in Holdings BY DEF NoOrder, Holdings
<1>4. [s \in Sides |-> NoOrder] \in [Sides -> Holdings] BY <1>3
<1>5. 1 \in 1..MaxOrders + 1 BY MakerAssumption
<1>6. maker \in Makers /\ maker.spawned = {} /\ maker.position = p
  BY <1>1, <1>2, <1>4, <1>5 DEF Makers
<1>7. 0 \in 0..Qty /\ 0 \in Int /\ 0 \in 0..MaxDrops /\ 0 \in 0..MaxLost BY MakerAssumption
<1>8. order \in Orders
  <2>1. order = [c \in IDs |-> [status |-> "none", side |-> "buy", price |-> 0, left |-> 0,
                                by |-> Nil]]
    BY DEF Init
  <2>2. [status |-> "none", side |-> "buy", price |-> 0, left |-> 0, by |-> Nil]
          \in [status : {"none", "pending", "open", "over"}, side : Sides, price : Int,
               left : 0..Qty, by : IDs \cup {Nil}]
    BY <1>7, OrderIs DEF Sides
  <2> QED BY <2>1, <2>2 DEF Orders
<1>9. running \in BOOLEAN /\ calls \subseteq Requests /\ failedOrders \subseteq IDs
      /\ failedReplaces \subseteq IDs /\ stream \in Seq(Events)
  BY DEF Init
<1>10. net \in Int /\ drops \in 0..MaxDrops /\ lost \in 0..MaxLost
  BY <1>2, <1>6, <1>7 DEF Init
<1> QED BY <1>6, <1>8, <1>9, <1>10 DEF TypeInv

(* The main loop keeps it. *)
LEMMA BecomeTypes ==
  ASSUME TypeInv, NEW m \in Makers, Become(m)
  PROVE  maker' \in Makers /\ maker'.spawned = {} /\ calls' \subseteq Requests
<1>1. [m EXCEPT !.spawned = {}] \in Makers /\ [m EXCEPT !.spawned = {}].spawned = {}
  BY DEF Makers
<1> QED BY <1>1, MakerFacts DEF Become, TypeInv

(* The main loop keeps every type. *)
LEMMA LoopTypes == TypeInv /\ MainLoop => TypeInv'
<1> SUFFICES ASSUME TypeInv, MainLoop PROVE TypeInv' OBVIOUS
<1> USE DEF callVars, brokerVars
<1>1. CASE OnQuote BY <1>1, BecomeTypes, EvaluateTypes DEF OnQuote, TypeInv
<1>2. CASE OnUpdate
  <2>1. PICK m \in OnOrderUpdate(maker, Head(stream)) : Become(m) BY <1>2 DEF OnUpdate
  <2>2. stream # << >> /\ stream' = Tail(stream) BY <1>2 DEF OnUpdate
  <2>3. stream' \in Seq(Events) /\ Head(stream) \in Events BY <2>2, TailFacts DEF TypeInv
  <2>4. m \in Makers BY <2>3, UpdateTypes DEF TypeInv
  <2>5. maker' \in Makers /\ maker'.spawned = {} /\ calls' \subseteq Requests
    BY <2>1, <2>4, BecomeTypes
  <2> QED BY <1>2, <2>3, <2>5 DEF OnUpdate, TypeInv
<1>3. CASE OnFailedOrder
  <2>1. PICK c \in failedOrders :
          /\ failedOrders' = failedOrders \ {c}
          /\ \/ Become(RemoveOrder(maker, c)) /\ UNCHANGED running
             \/ running' = FALSE /\ UNCHANGED <<maker, calls>>
    BY <1>3, Zenon DEF OnFailedOrder
  <2>2. RemoveOrder(maker, c) \in Makers BY RemoveFacts DEF TypeInv
  <2>3. maker' \in Makers /\ maker'.spawned = {} /\ calls' \subseteq Requests
    BY <2>1, <2>2, BecomeTypes DEF TypeInv
  <2> QED BY <1>3, <2>1, <2>3, Zenon DEF OnFailedOrder, TypeInv
<1>4. CASE OnFailedReplace
  <2>1. PICK c \in failedReplaces :
          /\ failedReplaces' = failedReplaces \ {c}
          /\ \/ Become(UndoReplaceOrder(maker, c)) /\ UNCHANGED running
             \/ running' = FALSE /\ UNCHANGED <<maker, calls>>
    BY <1>4, Zenon DEF OnFailedReplace
  <2>2. UndoReplaceOrder(maker, c) \in Makers BY UndoFacts DEF TypeInv
  <2>3. maker' \in Makers /\ maker'.spawned = {} /\ calls' \subseteq Requests
    BY <2>1, <2>2, BecomeTypes DEF TypeInv
  <2> QED BY <1>4, <2>1, <2>3, Zenon DEF OnFailedReplace, TypeInv
<1>5. CASE Toggle BY <1>5, BecomeTypes, ToggleTypes DEF Toggle, TypeInv
<1>6. CASE CancelOrders BY <1>6, BecomeTypes, CancelFacts DEF CancelOrders, TypeInv
<1>7. CASE CooldownEnds
  <2>1. [maker EXCEPT !.cooldown = FALSE] \in Makers
        /\ [maker EXCEPT !.cooldown = FALSE].spawned = {}
    BY Zenon DEF TypeInv, Makers
  <2> QED BY <1>7, <2>1 DEF CooldownEnds, TypeInv
<1> QED BY <1>1, <1>2, <1>3, <1>4, <1>5, <1>6, <1>7 DEF MainLoop

(* The types of a request's fields; an answer, when no reply was lost. *)
LEMMA RequestFacts ==
  ASSUME NEW r \in Requests
  PROVE  /\ r.op \in {"create", "replace", "cancel"}
         /\ r.op = "create" => r.id \in IDs /\ r.side \in Sides /\ r.price \in Int
         /\ r.op = "replace" => r.id \in IDs /\ r.of \in IDs /\ r.price \in Int
         /\ r.op = "cancel" => r.of \in IDs
BY DEF Requests

(* What an answer changes of the failures and of the drops. *)
LEMMA AnswerFacts ==
  ASSUME TypeInv, NEW r \in Requests, Answer(r)
  PROVE  /\ failedOrders' \subseteq IDs /\ failedReplaces' \subseteq IDs
         /\ lost' \in 0..MaxLost
         /\ lost' = 0 => lost = 0 /\ UNCHANGED <<failedOrders, failedReplaces>>
<1>1. PICK failed \in {FALSE, lost < MaxLost} :
        IF failed THEN Fail(r) /\ lost' = lost + 1
                  ELSE UNCHANGED <<failedOrders, failedReplaces, lost>>
  BY Zenon DEF Answer
<1>2. lost \in Nat /\ lost <= MaxLost /\ MaxLost \in Nat BY MakerAssumption DEF TypeInv
<1>3. CASE failed
  <2>1. lost < MaxLost BY <1>1, <1>3, Zenon
  <2>2. lost' = lost + 1 /\ Fail(r) BY <1>1, <1>3
  <2>3. failedOrders' \subseteq IDs /\ failedReplaces' \subseteq IDs
    BY <2>2, RequestFacts DEF Fail, TypeInv
  <2> QED BY <1>2, <2>1, <2>2, <2>3
<1>4. CASE ~ failed BY <1>1, <1>4 DEF TypeInv
<1> QED BY <1>3, <1>4

(* The events of an order that leaves, and of the one that was to replace  *)
(* it.                                                                     *)
LEMMA LeaveStream ==
  ASSUME stream \in Seq(Events), order \in Orders, NEW c \in IDs, NEW u \in Events, NEW n \in Int
  PROVE  LET st == Append(stream, u) \o Rejection(c, n)
             v  == EventIs("rejected", order[c].by, order[order[c].by].side,
                           order[order[c].by].by, 0, n, TRUE)
         IN  /\ st \in Seq(Events)
             /\ order[c].by = Nil => st = Append(stream, u)
             /\ order[c].by # Nil => v \in Events /\ st = Append(Append(stream, u), v)
<1>1. CASE order[c].by = Nil BY <1>1, AppendTwo, AppendFacts DEF Rejection
<1>2. CASE order[c].by # Nil
  <2> DEFINE x == order[c].by
  <2>1. x \in IDs BY <1>2, OrderFacts
  <2>2. Report(x, "rejected", 0, n, TRUE) \in Events
        /\ Report(x, "rejected", 0, n, TRUE)
             = EventIs("rejected", x, order[x].side, order[x].by, 0, n, TRUE)
    BY <2>1, ReportTypes, Zenon
  <2>3. Rejection(c, n) = <<Report(x, "rejected", 0, n, TRUE)>> BY <1>2, Zenon DEF Rejection
  <2> DEFINE v == EventIs("rejected", x, order[x].side, order[x].by, 0, n, TRUE)
  <2>4. v \in Events /\ Rejection(c, n) = <<v>> BY <2>2, <2>3, Zenon
  <2> HIDE DEF v
  <2>5. Append(stream, u) \o <<v>> = Append(Append(stream, u), v) BY <2>4, AppendTwo
  <2>6. Append(stream, u) \in Seq(Events) BY AppendFacts
  <2>7. Append(Append(stream, u), v) \in Seq(Events) BY <2>4, <2>6, AppendFacts
  <2> QED BY <1>2, <2>4, <2>5, <2>7, Zenon DEF v
<1> QED BY <1>1, <1>2, Zenon

(* An order's end keeps the types. *)
LEMMA LeaveTypes ==
  ASSUME TypeInv, NEW c \in IDs, Leave(c)
  PROVE  order' \in Orders /\ stream' \in Seq(Events)
<1>1. order' = Over(c, order)
      /\ stream' = Append(stream, Report(c, "canceled", 0, net, TRUE)) \o Rejection(c, net)
  BY DEF Leave
<1>2. Report(c, "canceled", 0, net, TRUE) \in Events BY ReportTypes, Zenon DEF TypeInv
<1> QED BY <1>1, <1>2, OverFacts, LeaveStream, Zenon DEF TypeInv

(* The order of r goes to work, or is rejected. *)
Creates(r, rejected) ==
  /\ order' = [order EXCEPT ![r.id] =
       [status |-> IF rejected THEN "over" ELSE "open", side |-> r.side,
        price |-> r.price, left |-> Qty, by |-> Nil]]
  /\ stream' = Append(stream,
       [event |-> IF rejected THEN "rejected" ELSE "new", id |-> r.id, side |-> r.side,
        by |-> Nil, qty |-> 0, position |-> net, final |-> rejected])

(* n shares of the order c are traded. *)
Executes(c, n) ==
  LET done == [order EXCEPT ![c] = [@ EXCEPT !.left = order[c].left - n]]
      over == n = order[c].left
      pos  == net + Signed(order[c].side, n)
  IN  /\ order[c].status = "open"
      /\ net' = pos
      /\ order' = IF over THEN Over(c, done) ELSE done
      /\ stream' = Append(stream, Report(c, "fill", n, pos, over))
                     \o IF over THEN Rejection(c, pos) ELSE <<>>

(* Alpaca keeps the type invariant. *)
LEMMA AlpacaTypes == TypeInv /\ Alpaca => TypeInv'
<1> SUFFICES ASSUME TypeInv, Alpaca PROVE TypeInv' OBVIOUS
<1> USE DEF callVars, brokerVars
<1>1. CASE Request
  <2>1. PICK r \in calls : /\ calls' = calls \ {r}
                           /\ \/ Refuse(r) \/ Create(r) \/ Replace(r) \/ Cancel(r)
    BY <1>1 DEF Request
  <2>2. r \in Requests BY DEF TypeInv
  <2>3. maker' = maker /\ running' = running BY <1>1 DEF Request
  <2>4. CASE Refuse(r)
    <3>1. failedOrders' \subseteq IDs /\ failedReplaces' \subseteq IDs
      BY <2>2, <2>4, RequestFacts DEF Refuse, Fail, TypeInv
    <3> QED BY <2>1, <2>3, <2>4, <3>1 DEF Refuse, TypeInv
  <2>5. CASE Create(r)
    <3>1. r.op = "create" /\ Answer(r) /\ net' = net /\ drops' = drops BY <2>5 DEF Create
    <3>2. r.id \in IDs /\ r.side \in Sides /\ r.price \in Int BY <2>2, <3>1, RequestFacts
    <3>3. PICK rejected \in BOOLEAN : Creates(r, rejected) BY <2>5, Zenon DEF Create, Creates
    <3>4. order' \in Orders
      <4> DEFINE x == IF rejected THEN "over" ELSE "open"
                 h == [status |-> x, side |-> r.side, price |-> r.price, left |-> Qty,
                       by |-> Nil]
      <4>1. order' = [order EXCEPT ![r.id] = h] BY <3>3 DEF Creates
      <4>2. x \in {"open", "over"} OBVIOUS
      <4> HIDE DEF x
      <4>3. [order EXCEPT ![r.id] = h] \in Orders BY <3>2, <4>2, CreateFacts DEF TypeInv
      <4> QED BY <4>1, <4>3
    <3>5. EventIs(IF rejected THEN "rejected" ELSE "new", r.id, r.side, Nil, 0, net, rejected)
            \in Events
      BY <3>2, EventTypes, Zenon DEF TypeInv
    <3>6. stream' \in Seq(Events) BY <3>3, <3>5, AppendFacts DEF TypeInv, EventIs, Creates
    <3>7. failedOrders' \subseteq IDs /\ failedReplaces' \subseteq IDs /\ lost' \in 0..MaxLost
      BY <2>2, <3>1, AnswerFacts
    <3> QED BY <2>1, <2>3, <3>1, <3>4, <3>6, <3>7 DEF TypeInv
  <2>6. CASE Replace(r)
    <3>1. r.op = "replace" /\ Answer(r) /\ net' = net /\ drops' = drops /\ stream' = stream
      BY <2>6 DEF Replace
    <3>2. r.id \in IDs /\ r.of \in IDs /\ r.price \in Int BY <2>2, <3>1, RequestFacts
    <3>3. order' = [order EXCEPT ![r.of] = [@ EXCEPT !.by = r.id],
             ![r.id] = [status |-> "pending", side |-> order[r.of].side,
                        price |-> r.price, left |-> order[r.of].left, by |-> Nil]]
      BY <2>6 DEF Replace
    <3>4. order' \in Orders
      <4>1. CASE r.of # r.id BY <3>2, <3>3, <4>1, ReplaceFacts, Zenon DEF TypeInv
      <4>2. CASE r.of = r.id
        <5> DEFINE k == [status |-> "pending", side |-> order[r.of].side,
                         price |-> r.price, left |-> order[r.of].left, by |-> Nil]
        <5>1. k \in [status : {"none", "pending", "open", "over"}, side : Sides, price : Int,
                     left : 0..Qty, by : IDs \cup {Nil}]
          BY <3>2, OrderIs, OrderFacts DEF TypeInv
        <5>2. order' = [order EXCEPT ![r.id] = k]
          BY <3>2, <3>3, <4>2, Zenon DEF TypeInv, Orders
        <5> QED BY <3>2, <5>1, <5>2 DEF TypeInv, Orders
      <4> QED BY <4>1, <4>2
    <3>7. failedOrders' \subseteq IDs /\ failedReplaces' \subseteq IDs /\ lost' \in 0..MaxLost
      BY <2>2, <3>1, AnswerFacts
    <3> QED BY <2>1, <2>3, <3>1, <3>4, <3>7 DEF TypeInv
  <2>7. CASE Cancel(r)
    <3>1. r.of \in IDs /\ Leave(r.of) BY <2>2, <2>7, RequestFacts DEF Cancel
    <3> QED BY <2>1, <2>3, <2>7, <3>1, LeaveTypes DEF Cancel, TypeInv
  <2> QED BY <2>1, <2>4, <2>5, <2>6, <2>7
<1>2. CASE Execute
  <2>0. PICK c \in IDs : \E n \in 1..order[c].left : Executes(c, n)
    BY <1>2, Zenon DEF Execute, Executes
  <2>1. PICK n \in 1..order[c].left : Executes(c, n) BY <2>0
  <2> DEFINE done == [order EXCEPT ![c] = [@ EXCEPT !.left = order[c].left - n]]
             over == n = order[c].left
             pos  == net + Signed(order[c].side, n)
             u    == Report(c, "fill", n, pos, over)
  <2>2. n \in Nat BY OrderFacts DEF TypeInv
  <2>3. pos \in Int BY <2>2 DEF Signed, TypeInv
  <2>4. u \in Events BY <2>2, <2>3, ReportTypes, Zenon DEF TypeInv
  <2>5. order' \in Orders
    <3>1. done \in Orders BY FilledFacts, Zenon DEF TypeInv
    <3>2. Over(c, done) \in Orders BY <3>1, OverFacts
    <3> QED BY <2>1, <3>1, <3>2 DEF Executes
  <2>6. stream' \in Seq(Events)
    <3>1. CASE over BY <2>1, <2>3, <2>4, <3>1, LeaveStream, Zenon DEF TypeInv, Executes
    <3>2. CASE ~ over
      <4>1. stream' = Append(stream, u) \o << >> BY <2>1, <3>2 DEF Executes
      <4> QED BY <2>4, <4>1, AppendTwo, AppendFacts DEF TypeInv
    <3> QED BY <3>1, <3>2
  <2>7. net' \in Int BY <2>1, <2>3 DEF Executes
  <2> QED BY <1>2, <2>5, <2>6, <2>7 DEF Execute, TypeInv
<1>3. CASE Replaced
  <2>1. PICK c \in IDs :
          /\ order[c].status = "open" /\ order[c].by # Nil
          /\ order' = [order EXCEPT ![c] = [@ EXCEPT !.status = "over"],
               ![order[c].by] = [@ EXCEPT !.status = "open", !.left = order[c].left]]
          /\ stream' = stream \o <<Report(c, "replaced", 0, net, TRUE),
                                   Report(order[c].by, "new", 0, net, FALSE)>>
    BY <1>3, Zenon DEF Replaced
  <2> DEFINE x == order[c].by
             u == Report(c, "replaced", 0, net, TRUE)
             v == Report(x, "new", 0, net, FALSE)
  <2>2. x \in IDs BY <2>1, OrderFacts DEF TypeInv
  <2>3. u \in Events /\ v \in Events BY <2>2, ReportTypes, Zenon DEF TypeInv
  <2>4. stream' \in Seq(Events)
    <3>1. stream' = stream \o <<u, v>> BY <2>1
    <3> HIDE DEF u, v
    <3>2. stream' = Append(Append(stream, u), v) BY <2>3, <3>1, AppendTwo DEF TypeInv
    <3>3. Append(stream, u) \in Seq(Events) BY <2>3, AppendFacts DEF TypeInv
    <3> QED BY <2>3, <3>2, <3>3, AppendFacts
  <2>5. order' \in Orders
    <3>1. CASE c # x BY <2>1, <2>2, <3>1, ReplacedOrders, Zenon DEF TypeInv
    <3>2. CASE c = x
      <4> DEFINE R == [status : {"none", "pending", "open", "over"}, side : Sides, price : Int,
                       left : 0..Qty, by : IDs \cup {Nil}]
                 h == [order[c] EXCEPT !.status = "over"]
                 k == [h EXCEPT !.status = "open", !.left = order[c].left]
      <4>1. order[c] \in R BY DEF TypeInv, Orders
      <4>2. h \in R BY <4>1
      <4>3. k \in R BY <4>1, <4>2, Zenon
      <4>4. order' = [order EXCEPT ![c] = k] BY <2>1, <3>2, Zenon DEF TypeInv, Orders
      <4> HIDE DEF h, k
      <4> QED BY <4>3, <4>4 DEF TypeInv, Orders
    <3> QED BY <3>1, <3>2
  <2> QED BY <1>3, <2>4, <2>5, Zenon DEF Replaced, TypeInv
<1>4. CASE Expire BY <1>4, LeaveTypes DEF Expire, TypeInv
<1>5. CASE Disconnect
  <2>1. PICK n \in 0..Len(stream) - 1 : stream' = SubSeq(stream, 1, n)
    BY <1>5 DEF Disconnect
  <2>2. stream' \in Seq(Events) BY <2>1, PrefixFacts DEF TypeInv
  <2>3. drops' \in 0..MaxDrops
    <3>1. drops < MaxDrops /\ drops' = drops + 1 BY <1>5 DEF Disconnect
    <3> QED BY <3>1, MakerAssumption DEF TypeInv
  <2> QED BY <1>5, <2>2, <2>3 DEF Disconnect, TypeInv
<1> QED BY <1>1, <1>2, <1>3, <1>4, <1>5 DEF Alpaca

(* Every step keeps it. *)
LEMMA NextTypes == TypeInv /\ [Next]_vars => TypeInv'
<1>1. TypeInv /\ UNCHANGED vars => TypeInv' BY DEF TypeInv, vars, callVars, brokerVars
<1> QED BY <1>1, LoopTypes, AlpacaTypes DEF Next

(* The types hold in every reachable state. *)
LEMMA TypesHold == Spec => []TypeInv
BY InitTypes, NextTypes, PTL DEF Spec

(* Every variable of the market maker and of Alpaca has its type in every   *)
(* reachable state: positions and prices are integers, the sides, the       *)
(* requests on their way, the failures and the events name orders the maker *)
(* generated, and nothing is left spawned but not sent.                     *)
THEOREM MakerTypes == Spec => []TypeOK
BY TypesHold, TypesAre, PTL

-----------------------------------------------------------------------------
(* The invariant while no reply was lost. *)

Asks(K) == {r \in K : r.op # "cancel"}

(* The ids from maker.next on were never used. *)
Fresh(m, o) ==
  /\ \A c \in m.orders : c < m.next
  /\ \A c \in IDs : o[c].status # "none" => c < m.next
  /\ \A s \in Sides : m.side[s].client < m.next /\ m.side[s].client2 < m.next

(* No order is in two slots. *)
Distinct(m) ==
  \A s, t \in Sides :
    /\ m.side[s].client # Nil /\ m.side[s].client = m.side[t].client => s = t
    /\ m.side[s].client2 # Nil /\ m.side[s].client2 = m.side[t].client2 => s = t
    /\ m.side[s].client # Nil => m.side[s].client # m.side[t].client2

(* An order asked for is known to the main loop, has one request, has not   *)
(* failed, and Alpaca does not have it; an order whose request failed is    *)
(* known and never was Alpaca's.                                            *)
Asked(m, K, fo, fr, o) ==
  /\ \A r \in Asks(K) : r.id \in m.orders /\ o[r.id].status = "none" /\ r.id \notin fo /\ r.id \notin fr
  /\ \A r, q \in Asks(K) : r.id = q.id => r = q
  /\ \A c \in fo : c \in m.orders /\ o[c].status = "none" /\ c \notin fr
  /\ \A c \in fr : c \in m.orders /\ o[c].status = "none"

(* An order asked for is its side's, at the price asked. *)
Created(m, K) ==
  \A r \in K : r.op = "create" =>
    /\ r.price > 0
    /\ m.side[r.side].client = r.id
    /\ m.side[r.side].price = r.price

(* A replacement asked for is in the second slot of the side whose order it *)
(* is to replace, while that order is open; it never is a side's order.     *)
Replacing(m, K, fr, o) ==
  /\ \A r \in K : r.op = "replace" =>
       /\ o[r.of].status \in {"open", "over"}
       /\ \A s \in Sides : m.side[s].client # r.id
       /\ o[r.of].status = "open" =>
            /\ m.side[o[r.of].side].client = r.of
            /\ m.side[o[r.of].side].client2 = r.id
            /\ m.side[o[r.of].side].price2 = r.price
  /\ \A c \in fr : \A s \in Sides : m.side[s].client # c

(* The id a side remembers is of an order Alpaca took for that side; while  *)
(* that order is open it is the side's order. A replacement is only asked   *)
(* for beside an order and an id.                                           *)
NamedOf(d, s, o) ==
  /\ d.orderID # Nil =>
       /\ o[d.orderID].status \in {"open", "over"}
       /\ o[d.orderID].side = s
       /\ o[d.orderID].status = "open" => d.client = d.orderID
  /\ d.client # Nil => o[d.client].status # "pending"
  /\ d.client # Nil /\ o[d.client].status # "none" => o[d.client].side = s
  /\ d.client2 # Nil =>
       /\ d.client # Nil /\ d.orderID # Nil
       /\ o[d.client2].status # "none" => o[d.client].by = d.client2

Named(m, o) == \A s \in Sides : NamedOf(m.side[s], s, o)

(* An order that is to replace another is pending while the other is open,  *)
(* and both are in the slots of their side.                                 *)
Chain(m, o) ==
  /\ \A c \in IDs : o[c].by # Nil =>
       /\ o[c].by # c
       /\ o[c].status \in {"open", "over"}
       /\ o[o[c].by].status # "none"
       /\ o[o[c].by].side = o[c].side
       /\ o[c].status = "open" =>
            /\ o[o[c].by].status = "pending"
            /\ m.side[o[c].side].client = c
            /\ m.side[o[c].side].client2 = o[c].by
            /\ m.side[o[c].side].price2 = o[o[c].by].price
  /\ \A c \in IDs : o[c].status = "pending" => o[c].price > 0

(* The order c, priced p, is one of the two orders the side s knows of. *)
AtSlot(m, c, s, p) ==
  \/ m.side[s].client = c /\ m.side[s].price = p
  \/ m.side[s].client2 = c /\ m.side[s].price2 = p

(* Every order at work is known to its side, at its price. *)
Opened(m, o) ==
  \A c \in IDs : o[c].status = "open" => o[c].price > 0 /\ AtSlot(m, c, o[c].side, o[c].price)

(* What an event on the stream says is true of its order; a replaced event  *)
(* finds the order and its replacement in the slots of its side.            *)
HeardOf(m, u, o) ==
  /\ o[u.id].status \in {"open", "over"}
  /\ u.side = o[u.id].side
  /\ u.final => o[u.id].status = "over"
  /\ u.final /\ u.event # "replaced" =>
       o[u.id].by = Nil \/ o[o[u.id].by].status = "over"
  /\ u.event = "replaced" =>
       /\ u.final
       /\ u.by # Nil
       /\ u.by = o[u.id].by
       /\ o[u.by].status \in {"open", "over"}
       /\ m.side[u.side].client = u.id
       /\ m.side[u.side].client2 = u.by
       /\ m.side[u.side].price2 = o[u.by].price

(* Nothing follows the final event of an order. *)
LastWord(st) == \A i, j \in 1..Len(st) : i < j /\ st[i].id = st[j].id => ~ st[i].final

Heard(m, st, o) == LastWord(st) /\ \A i \in 1..Len(st) : HeardOf(m, st[i], o)

(* The prices a maker's buys are known to have are below those of its sells. *)
Apart(m) ==
  /\ m.side["sell"].price >= 0 /\ m.side["sell"].price2 >= 0
  /\ \A p \in {m.side["buy"].price, m.side["buy"].price2},
        q \in {m.side["sell"].price, m.side["sell"].price2} : p > 0 /\ q > 0 => p < q

(* The invariant of the maker while no reply was lost, whatever happens to  *)
(* the events.                                                              *)
Safe(m, K, fo, fr, st, o) ==
  /\ Fresh(m, o) /\ Distinct(m) /\ Asked(m, K, fo, fr, o) /\ Created(m, K)
  /\ Replacing(m, K, fr, o) /\ Named(m, o) /\ Chain(m, o) /\ Opened(m, o)
  /\ Heard(m, st, o) /\ Apart(m)

(* A price that crosses no price of the other side. *)
Clear(m, s, p) ==
  /\ s = "buy" => \A q \in {m.side["sell"].price, m.side["sell"].price2} :
                     p > 0 /\ q > 0 => p < q
  /\ s = "sell" => p > 0 /\ \A q \in {m.side["buy"].price, m.side["buy"].price2} :
                     q > 0 => q < p

(* The types of what the two records and a stream hold. *)
LEMMA SideFacts ==
  ASSUME NEW m \in Makers, NEW s \in Sides
  PROVE  /\ m.side[s].orderID \in IDs \cup {Nil} /\ m.side[s].client \in IDs \cup {Nil}
         /\ m.side[s].client2 \in IDs \cup {Nil} /\ m.side[s].price \in Int
         /\ m.side[s].price2 \in Int /\ m.next \in Nat
         /\ m.side[s].client \in Int /\ m.side[s].client2 \in Int
<1>1. m.side[s] \in Holdings /\ m.next \in Nat BY MakerFacts
<1>2. \A c \in IDs \cup {Nil} : c \in Int BY DEF IDs, Nil
<1> QED BY <1>1, <1>2, HoldingFacts

(* The types of an event's fields. *)
LEMMA EventFacts ==
  ASSUME NEW st \in Seq(Events)
  PROVE  /\ Len(st) \in Nat
         /\ \A i \in 1..Len(st) : /\ st[i] \in Events /\ st[i].side \in Sides
              /\ st[i].id \in IDs /\ st[i].by \in IDs \cup {Nil} /\ st[i].final \in BOOLEAN
              /\ st[i].qty \in Nat /\ st[i].position \in Int
<1>1. Len(st) \in Nat /\ \A i \in 1..Len(st) : st[i] \in Events OBVIOUS
<1> QED BY <1>1 DEF Events

(* Two records whose side s has the same order, with the same replacement  *)
(* under way.                                                              *)
SameSlot(m, n, s) ==
  /\ n.side[s].client = m.side[s].client
  /\ n.side[s].client2 = m.side[s].client2
  /\ n.side[s].price2 = m.side[s].price2

(* What is said of the replacements under way looks only at their sides.   *)
LEMMA ChainKeeps ==
  ASSUME NEW m, NEW n, NEW o, Chain(m, o),
         \A c \in IDs : o[c].by # Nil /\ o[c].status = "open" => SameSlot(m, n, o[c].side)
  PROVE  Chain(n, o)
BY DEF Chain, SameSlot

(* Nor is more than that looked at in the replacements asked for. *)
LEMMA ReplacingKeeps ==
  ASSUME NEW m, NEW n, NEW K, NEW fr, NEW o, Replacing(m, K, fr, o),
         \A r \in K : r.op = "replace" =>
           \A s \in Sides : n.side[s].client = r.id => m.side[s].client = r.id,
         \A r \in K : r.op = "replace" /\ o[r.of].status = "open" => SameSlot(m, n, o[r.of].side),
         \A c \in fr : \A s \in Sides : n.side[s].client = c => m.side[s].client = c
  PROVE  Replacing(n, K, fr, o)
BY Zenon DEF Replacing, SameSlot

(* Nor in the events on their way. *)
LEMMA HeardKeeps ==
  ASSUME NEW m, NEW n, NEW st, NEW o, Heard(m, st, o),
         \A i \in 1..Len(st) : st[i].event = "replaced" => SameSlot(m, n, st[i].side)
  PROVE  Heard(n, st, o)
<1>1. ASSUME NEW i \in 1..Len(st) PROVE HeardOf(n, st[i], o)
  <2>1. HeardOf(m, st[i], o) BY Zenon DEF Heard
  <2> QED BY <2>1, Zenon DEF HeardOf, SameSlot
<1> QED BY <1>1, Zenon DEF Heard

(* n is m with the slots of e and f, and perhaps of a side on which no     *)
(* replacement is under way, changed: e is no open order and no event is   *)
(* due of it, f is an id no order has and no request will.                 *)
Shifts(m, n, e, f, K, st, o) ==
  /\ \A s \in Sides : m.side[s].client2 # Nil /\ m.side[s].client # e /\ m.side[s].client2 # f =>
       SameSlot(m, n, s)
  /\ \A s \in Sides : \/ n.side[s].client \in {Nil, m.side[s].client}
                      \/ n.side[s].client \notin m.orders
                      \/ o[n.side[s].client].status # "none"
  /\ \A c \in IDs : o[c].status = "open" => c # e
  /\ \A i \in 1..Len(st) : st[i].id # e
  /\ \A c \in IDs : o[c].status # "none" => c # f
  /\ \A r \in K : r.op = "replace" => r.id # f

(* No order, event or request has the empty id. *)
LEMMA NilFacts ==
  ASSUME NEW K \in SUBSET Requests, NEW st \in Seq(Events)
  PROVE  /\ \A c \in IDs : c # Nil
         /\ \A i \in 1..Len(st) : st[i].id # Nil
         /\ \A r \in K : r.op = "replace" => r.id # Nil
<1>1. \A c \in IDs : c # Nil BY IDFacts
<1>2. \A i \in 1..Len(st) : st[i].id \in IDs BY EventFacts, Zenon
<1>3. \A r \in K : r.op = "replace" => r.id \in IDs BY RequestFacts
<1> QED BY <1>1, <1>2, <1>3, Zenon

(* Such a change keeps what is said of replacements and of events. *)
LEMMA ShiftKeeps ==
  ASSUME NEW m \in Makers, NEW K \in SUBSET Requests, NEW fo \in SUBSET IDs,
         NEW fr \in SUBSET IDs, NEW st \in Seq(Events), NEW o \in Orders,
         Safe(m, K, fo, fr, st, o), NEW n, NEW e, NEW f, Shifts(m, n, e, f, K, st, o)
  PROVE  Chain(n, o) /\ Replacing(n, K, fr, o) /\ Heard(n, st, o)
<1>a. Asked(m, K, fo, fr, o) BY Zenon DEF Safe
<1>b. \A s \in Sides : m.side[s].client2 # Nil /\ m.side[s].client # e /\ m.side[s].client2 # f =>
        SameSlot(m, n, s)
  BY Zenon DEF Shifts
<1>c. /\ \A c \in IDs : o[c].status = "open" => c # e
      /\ \A i \in 1..Len(st) : st[i].id # e
      /\ \A c \in IDs : o[c].status # "none" => c # f
      /\ \A r \in K : r.op = "replace" => r.id # f
  BY Zenon DEF Shifts
<1>d. ASSUME NEW s \in Sides, NEW c \in m.orders, c # Nil, o[c].status = "none",
             n.side[s].client = c
      PROVE  m.side[s].client = c
  BY <1>d, Zenon DEF Shifts
<1>1. Chain(n, o)
  <2>1. Chain(m, o) BY Zenon DEF Safe
  <2>2. ASSUME NEW c \in IDs, o[c].by # Nil, o[c].status = "open"
        PROVE  SameSlot(m, n, o[c].side)
    <3>1. o[c].side \in Sides /\ o[c].by \in IDs BY <2>2, OrderFacts
    <3>2. /\ m.side[o[c].side].client = c /\ m.side[o[c].side].client2 = o[c].by
          /\ o[o[c].by].status # "none"
      BY <2>1, <2>2, Zenon DEF Chain
    <3>3. c # e /\ o[c].by # f BY <1>c, <2>2, <3>1, <3>2, Zenon
    <3> QED BY <1>b, <2>2, <3>1, <3>2, <3>3, Zenon
  <2> QED BY <2>1, <2>2, ChainKeeps, Zenon
<1>2. Replacing(n, K, fr, o)
  <2>1. Replacing(m, K, fr, o) BY Zenon DEF Safe
  <2>2. ASSUME NEW r \in K, r.op = "replace"
        PROVE  /\ r.of \in IDs /\ r.id \in IDs /\ r.id # Nil
               /\ o[r.id].status = "none" /\ r.id \in m.orders
    <3>1. r.of \in IDs /\ r.id \in IDs BY <2>2, RequestFacts
    <3>2. r \in Asks(K) BY <2>2, Zenon DEF Asks
    <3>3. o[r.id].status = "none" /\ r.id \in m.orders BY <1>a, <3>2, Zenon DEF Asked
    <3> QED BY <3>1, <3>3, IDFacts
  <2>3. ASSUME NEW r \in K, r.op = "replace", o[r.of].status = "open"
        PROVE  SameSlot(m, n, o[r.of].side)
    <3>1. r.of \in IDs /\ r.id # Nil BY <2>2, <2>3
    <3>2. o[r.of].side \in Sides BY <3>1, OrderFacts
    <3>3. m.side[o[r.of].side].client = r.of /\ m.side[o[r.of].side].client2 = r.id
      BY <2>1, <2>3, Zenon DEF Replacing
    <3>4. r.of # e /\ r.id # f BY <1>c, <2>3, <3>1, Zenon
    <3> QED BY <1>b, <3>1, <3>2, <3>3, <3>4, Zenon
  <2>4. ASSUME NEW r \in K, r.op = "replace", NEW s \in Sides, n.side[s].client = r.id
        PROVE  m.side[s].client = r.id
    <3>1. r.id \in m.orders /\ r.id # Nil /\ o[r.id].status = "none" BY <2>2, <2>4, Zenon
    <3> QED BY <1>d, <2>4, <3>1, Zenon
  <2>5. ASSUME NEW c \in fr, NEW s \in Sides, n.side[s].client = c
        PROVE  m.side[s].client = c
    <3>1. c \in IDs /\ c # Nil BY IDFacts
    <3>2. c \in m.orders /\ o[c].status = "none" BY <1>a, Zenon DEF Asked
    <3> QED BY <1>d, <2>5, <3>1, <3>2, Zenon
  <2> QED BY <2>1, <2>3, <2>4, <2>5, ReplacingKeeps, Zenon
<1>3. Heard(n, st, o)
  <2>1. Heard(m, st, o) BY Zenon DEF Safe
  <2>2. ASSUME NEW i \in 1..Len(st), st[i].event = "replaced"
        PROVE  SameSlot(m, n, st[i].side)
    <3>1. HeardOf(m, st[i], o) BY <2>1, Zenon DEF Heard
    <3>2. st[i].side \in Sides /\ st[i].by \in IDs \cup {Nil} BY EventFacts
    <3>3. /\ m.side[st[i].side].client = st[i].id /\ m.side[st[i].side].client2 = st[i].by
          /\ st[i].by # Nil /\ o[st[i].by].status \in {"open", "over"}
      BY <2>2, <3>1 DEF HeardOf
    <3>4. st[i].id # e /\ st[i].by # f BY <1>c, <3>2, <3>3
    <3> QED BY <1>b, <3>2, <3>3, <3>4, Zenon
  <2> QED BY <2>1, <2>2, HeardKeeps, Zenon
<1> QED BY <1>1, <1>2, <1>3

(* A request under a new id.                                               *)
LEMMA AskedMore ==
  ASSUME NEW m, NEW n, NEW K, NEW fo, NEW fr, NEW o, NEW r, Asked(m, K, fo, fr, o),
         n.orders = m.orders \cup {r.id}, r.id \notin m.orders, r.op # "cancel",
         o[r.id].status = "none"
  PROVE  Asked(n, K \cup {r}, fo, fr, o)
<1>1. \A q \in Asks(K) : q.id \in m.orders /\ q.id # r.id BY Zenon DEF Asked
<1>2. r.id \notin fo /\ r.id \notin fr BY Zenon DEF Asked
<1>3. \A q \in Asks(K \cup {r}) : q \in Asks(K) \/ q = r BY Zenon DEF Asks
<1>4. ASSUME NEW q \in Asks(K \cup {r})
      PROVE  q.id \in n.orders /\ o[q.id].status = "none" /\ q.id \notin fo /\ q.id \notin fr
  <2>1. CASE q = r BY <2>1, <1>2
  <2>2. CASE q \in Asks(K) BY <2>2, Zenon DEF Asked
  <2> QED BY <2>1, <2>2, <1>3, Zenon
<1>5. ASSUME NEW q \in Asks(K \cup {r}), NEW p \in Asks(K \cup {r}), q.id = p.id PROVE q = p
  <2>1. CASE q \in Asks(K) /\ p \in Asks(K) BY <1>5, <2>1, Zenon DEF Asked
  <2> QED BY <1>1, <1>3, <1>5, <2>1, Zenon
<1>6. \A c \in fo : c \in n.orders /\ o[c].status = "none" /\ c \notin fr BY Zenon DEF Asked
<1>7. \A c \in fr : c \in n.orders /\ o[c].status = "none" BY Zenon DEF Asked
<1> QED BY <1>4, <1>5, <1>6, <1>7, Zenon DEF Asked

(* A new order asked for keeps it. *)
LEMMA LimitKeeps ==
  ASSUME NEW m \in Makers, NEW s \in Sides, NEW p \in Int, NEW n \in Makers,
         NEW K \in SUBSET Requests, NEW fo \in SUBSET IDs, NEW fr \in SUBSET IDs,
         NEW st \in Seq(Events), NEW o \in Orders,
         Safe(m, K, fo, fr, st, o), Clear(m, s, p), p > 0, m.side[s].client = Nil,
         SameOtherwise(m, n, s), AsksFor(m, n, CreateOf(m, s, p)),
         SideIs(n.side[s], m.side[s].orderID, m.next, m.side[s].client2, p, m.side[s].price2)
  PROVE  Safe(n, K \cup {CreateOf(m, s, p)}, fo, fr, st, o)
<1> DEFINE r == CreateOf(m, s, p)
<1> USE IDFacts
<1>0. /\ n.orders = m.orders \cup {m.next} /\ n.next = m.next + 1 /\ m.next \in IDs
      /\ \A t \in Sides \ {s} : n.side[t] = m.side[t]
      /\ n.side[s].orderID = m.side[s].orderID /\ n.side[s].client = m.next
      /\ n.side[s].client2 = m.side[s].client2 /\ n.side[s].price = p
      /\ n.side[s].price2 = m.side[s].price2
  BY DEF SameOtherwise, AsksFor, SideIs
<1>r. r \in Requests /\ r.op = "create" /\ r.id = m.next /\ r.side = s /\ r.price = p
  BY DEF AsksFor, CreateOf
<1>a. m.side[s].client2 = Nil BY Zenon DEF Safe, Named, NamedOf
<1>f. Fresh(m, o) BY DEF Safe
<1>n. /\ m.next \notin m.orders /\ o[m.next].status = "none"
      /\ \A t \in Sides : m.side[t].client # m.next /\ m.side[t].client2 # m.next
  BY <1>0, <1>f, OrderFacts, SideFacts DEF Fresh
<1> HIDE DEF r
<1>w. Shifts(m, n, Nil, Nil, K, st, o)
  <2>1. \A t \in Sides : m.side[t].client2 # Nil /\ m.side[t].client # Nil /\ m.side[t].client2 # Nil =>
          SameSlot(m, n, t)
    BY <1>0, <1>a, Zenon DEF SameSlot
  <2>2. \A t \in Sides : \/ n.side[t].client \in {Nil, m.side[t].client}
                         \/ n.side[t].client \notin m.orders
                         \/ o[n.side[t].client].status # "none"
    BY <1>0, <1>n, Zenon
  <2> QED BY <2>1, <2>2, NilFacts, Zenon DEF Shifts
<1>1. Fresh(n, o)
  <2>1. m.next \in Nat /\ m.orders \subseteq Nat BY MakerFacts, Zenon
  <2>2. \A c \in n.orders : c < n.next BY <2>1, <1>0, <1>f DEF Fresh
  <2>3. \A c \in IDs : o[c].status # "none" => c < n.next BY <2>1, <1>0, <1>f DEF Fresh
  <2>4. ASSUME NEW t \in Sides PROVE n.side[t].client < n.next /\ n.side[t].client2 < n.next
    <3>1. m.side[t].client < m.next /\ m.side[t].client2 < m.next BY <1>f DEF Fresh
    <3>2. m.side[t].client \in Int /\ m.side[t].client2 \in Int BY SideFacts
    <3> QED BY <2>1, <1>0, <3>1, <3>2
  <2> QED BY <2>2, <2>3, <2>4 DEF Fresh
<1>2. Distinct(n) BY <1>0, <1>n, <1>a DEF Safe, Distinct
<1>3. Asked(n, K \cup {r}, fo, fr, o) BY <1>0, <1>n, <1>r, AskedMore, Zenon DEF Safe
<1>4. Created(n, K \cup {r})
  <2>1. \A q \in K : q.op = "create" => q.side \in Sides /\ q.id \in IDs BY RequestFacts
  <2> QED BY <2>1, <1>0, <1>r DEF Safe, Created
<1>5. Replacing(n, K \cup {r}, fr, o)
  <2>1. Replacing(n, K, fr, o) BY <1>w, ShiftKeeps, Zenon
  <2> QED BY <2>1, <1>r, Zenon DEF Replacing
<1>6. Named(n, o)
  <2>1. \A t \in Sides : NamedOf(m.side[t], t, o) BY DEF Safe, Named
  <2>2. NamedOf(n.side[s], s, o) BY <2>1, <1>0, <1>n, <1>a DEF NamedOf
  <2> QED BY <2>1, <2>2, <1>0 DEF Named
<1>7. Chain(n, o) BY <1>w, ShiftKeeps, Zenon
<1>8. Opened(n, o)
  <2>1. Opened(m, o) BY Zenon DEF Safe
  <2>2. ASSUME NEW c \in IDs, NEW t \in Sides, AtSlot(m, c, t, o[c].price)
        PROVE  AtSlot(n, c, t, o[c].price)
    <3>1. CASE t = s BY <1>0, <1>a, <2>2, <3>1, Zenon DEF AtSlot
    <3>2. CASE t # s BY <1>0, <2>2, <3>2, Zenon DEF AtSlot
    <3> QED BY <3>1, <3>2
  <2>3. \A c \in IDs : o[c].side \in Sides BY OrderFacts, Zenon
  <2> QED BY <2>1, <2>2, <2>3, Zenon DEF Opened
<1>9. Heard(n, st, o) BY <1>w, ShiftKeeps, Zenon
<1>10. Apart(n)
  <2>1. Apart(m) BY DEF Safe
  <2>2. CASE s = "buy"
    <3>1. n.side["sell"] = m.side["sell"] BY <1>0, <2>2 DEF Sides
    <3> QED BY <2>1, <2>2, <3>1, <1>0 DEF Apart, Clear
  <2>3. CASE s = "sell"
    <3>1. n.side["buy"] = m.side["buy"] BY <1>0, <2>3 DEF Sides
    <3> QED BY <2>1, <2>3, <3>1, <1>0 DEF Apart, Clear
  <2> QED BY <2>2, <2>3 DEF Sides
<1> QED BY <1>1, <1>2, <1>3, <1>4, <1>5, <1>6, <1>7, <1>8, <1>9, <1>10 DEF Safe, r

(* A replacement asked for keeps it. *)
LEMMA ReplaceKeeps ==
  ASSUME NEW m \in Makers, NEW s \in Sides, NEW p \in Int, NEW n \in Makers,
         NEW K \in SUBSET Requests, NEW fo \in SUBSET IDs, NEW fr \in SUBSET IDs,
         NEW st \in Seq(Events), NEW o \in Orders,
         Safe(m, K, fo, fr, st, o), Clear(m, s, p), m.side[s].client # Nil,
         m.side[s].client2 = Nil, m.side[s].orderID # Nil,
         SameOtherwise(m, n, s), AsksFor(m, n, ReplaceOf(m, s, p)),
         SideIs(n.side[s], m.side[s].orderID, m.side[s].client, m.next, m.side[s].price, p)
  PROVE  Safe(n, K \cup {ReplaceOf(m, s, p)}, fo, fr, st, o)
<1> DEFINE r == ReplaceOf(m, s, p)
<1> USE IDFacts
<1>0. /\ n.orders = m.orders \cup {m.next} /\ n.next = m.next + 1 /\ m.next \in IDs
      /\ \A t \in Sides \ {s} : n.side[t] = m.side[t]
      /\ n.side[s].orderID = m.side[s].orderID /\ n.side[s].client = m.side[s].client
      /\ n.side[s].client2 = m.next /\ n.side[s].price = m.side[s].price
      /\ n.side[s].price2 = p
  BY DEF SameOtherwise, AsksFor, SideIs
<1>r. /\ r \in Requests /\ r.op = "replace" /\ r.id = m.next /\ r.of = m.side[s].orderID
      /\ r.price = p
  BY DEF AsksFor, ReplaceOf
<1>f. Fresh(m, o) BY DEF Safe
<1>n. /\ m.next \notin m.orders /\ o[m.next].status = "none"
      /\ \A t \in Sides : m.side[t].client # m.next /\ m.side[t].client2 # m.next
  BY <1>0, <1>f, OrderFacts, SideFacts DEF Fresh
<1>o. \A t \in Sides : NamedOf(m.side[t], t, o) BY DEF Safe, Named
<1> HIDE DEF r
<1>w. Shifts(m, n, Nil, Nil, K, st, o)
  <2>1. \A t \in Sides : m.side[t].client2 # Nil /\ m.side[t].client # Nil /\ m.side[t].client2 # Nil =>
          SameSlot(m, n, t)
    BY <1>0, Zenon DEF SameSlot
  <2>2. \A t \in Sides : \/ n.side[t].client \in {Nil, m.side[t].client}
                         \/ n.side[t].client \notin m.orders
                         \/ o[n.side[t].client].status # "none"
    BY <1>0, Zenon
  <2> QED BY <2>1, <2>2, NilFacts, Zenon DEF Shifts
<1>1. Fresh(n, o)
  <2>1. m.next \in Nat /\ m.orders \subseteq Nat BY MakerFacts, Zenon
  <2>2. \A c \in n.orders : c < n.next BY <2>1, <1>0, <1>f DEF Fresh
  <2>3. \A c \in IDs : o[c].status # "none" => c < n.next BY <2>1, <1>0, <1>f DEF Fresh
  <2>4. ASSUME NEW t \in Sides PROVE n.side[t].client < n.next /\ n.side[t].client2 < n.next
    <3>1. m.side[t].client < m.next /\ m.side[t].client2 < m.next BY <1>f DEF Fresh
    <3>2. m.side[t].client \in Int /\ m.side[t].client2 \in Int BY SideFacts
    <3> QED BY <2>1, <1>0, <3>1, <3>2
  <2> QED BY <2>2, <2>3, <2>4 DEF Fresh
<1>2. Distinct(n) BY <1>0, <1>n DEF Safe, Distinct
<1>3. Asked(n, K \cup {r}, fo, fr, o) BY <1>0, <1>n, <1>r, AskedMore, Zenon DEF Safe
<1>4. Created(n, K \cup {r})
  <2>1. \A q \in K : q.op = "create" => q.side \in Sides /\ q.id \in IDs BY RequestFacts
  <2> QED BY <2>1, <1>0, <1>r DEF Safe, Created
<1>5. Replacing(n, K \cup {r}, fr, o)
  <2>0. Replacing(n, K, fr, o) BY <1>w, ShiftKeeps, Zenon
  <2>1. NamedOf(m.side[s], s, o) BY <1>o
  <2>2. /\ o[r.of].status \in {"open", "over"} /\ o[r.of].side = s
        /\ o[r.of].status = "open" => m.side[s].client = r.of
    BY <2>1, <1>r, Zenon DEF NamedOf
  <2>3. \A t \in Sides : n.side[t].client # r.id BY <1>0, <1>n, <1>r, Zenon
  <2>4. o[r.of].status = "open" => /\ n.side[s].client = r.of /\ n.side[s].client2 = r.id
                                   /\ n.side[s].price2 = r.price
    BY <2>2, <1>0, <1>r, Zenon
  <2> QED BY <2>0, <2>2, <2>3, <2>4, Zenon DEF Replacing
<1>6. Named(n, o)
  <2>2. NamedOf(n.side[s], s, o) BY <1>o, <1>0, <1>n DEF NamedOf
  <2> QED BY <1>o, <2>2, <1>0 DEF Named
<1>7. Chain(n, o) BY <1>w, ShiftKeeps, Zenon
<1>8. Opened(n, o)
  <2>1. Opened(m, o) BY Zenon DEF Safe
  <2>2. ASSUME NEW c \in IDs, NEW t \in Sides, AtSlot(m, c, t, o[c].price)
        PROVE  AtSlot(n, c, t, o[c].price)
    <3>1. CASE t = s BY <1>0, <2>2, <3>1, Zenon DEF AtSlot
    <3>2. CASE t # s BY <1>0, <2>2, <3>2, Zenon DEF AtSlot
    <3> QED BY <3>1, <3>2
  <2>3. \A c \in IDs : o[c].side \in Sides BY OrderFacts, Zenon
  <2> QED BY <2>1, <2>2, <2>3, Zenon DEF Opened
<1>9. Heard(n, st, o) BY <1>w, ShiftKeeps, Zenon
<1>10. Apart(n)
  <2>1. Apart(m) BY DEF Safe
  <2>2. CASE s = "buy"
    <3>1. n.side["sell"] = m.side["sell"] BY <1>0, <2>2 DEF Sides
    <3> QED BY <2>1, <2>2, <3>1, <1>0 DEF Apart, Clear
  <2>3. CASE s = "sell"
    <3>1. n.side["buy"] = m.side["buy"] BY <1>0, <2>3 DEF Sides
    <3> QED BY <2>1, <2>3, <3>1, <1>0 DEF Apart, Clear
  <2> QED BY <2>2, <2>3 DEF Sides
<1> QED BY <1>1, <1>2, <1>3, <1>4, <1>5, <1>6, <1>7, <1>8, <1>9, <1>10 DEF Safe, r

(* A price that no order is sent with. *)
LEMMA PriceKeeps ==
  ASSUME NEW m \in Makers, NEW s \in Sides, NEW n \in Makers,
         NEW K \in SUBSET Requests, NEW fo \in SUBSET IDs, NEW fr \in SUBSET IDs,
         NEW st \in Seq(Events), NEW o \in Orders,
         Safe(m, K, fo, fr, st, o), Apart(n),
         SameOtherwise(m, n, s), n.orders = m.orders, n.next = m.next,
         n.side[s].orderID = m.side[s].orderID, n.side[s].client = m.side[s].client,
         n.side[s].client2 = m.side[s].client2,
         m.side[s].client # Nil => n.side[s].price = m.side[s].price,
         m.side[s].client2 # Nil => n.side[s].price2 = m.side[s].price2
  PROVE  Safe(n, K, fo, fr, st, o)
<1> USE IDFacts
<1>0. \A t \in Sides :
        /\ n.side[t].orderID = m.side[t].orderID /\ n.side[t].client = m.side[t].client
        /\ n.side[t].client2 = m.side[t].client2
        /\ m.side[t].client # Nil => n.side[t].price = m.side[t].price
        /\ m.side[t].client2 # Nil => n.side[t].price2 = m.side[t].price2
  BY DEF SameOtherwise
<1>w. Shifts(m, n, Nil, Nil, K, st, o)
  <2>1. \A t \in Sides : m.side[t].client2 # Nil /\ m.side[t].client # Nil /\ m.side[t].client2 # Nil =>
          SameSlot(m, n, t)
    BY <1>0, Zenon DEF SameSlot
  <2>2. \A t \in Sides : \/ n.side[t].client \in {Nil, m.side[t].client}
                         \/ n.side[t].client \notin m.orders
                         \/ o[n.side[t].client].status # "none"
    BY <1>0, Zenon
  <2> QED BY <2>1, <2>2, NilFacts, Zenon DEF Shifts
<1>1. Fresh(n, o) BY <1>0 DEF Safe, Fresh
<1>2. Distinct(n) BY <1>0 DEF Safe, Distinct
<1>3. Asked(n, K, fo, fr, o) BY DEF Safe, Asked
<1>4. Created(n, K)
  <2>1. \A q \in K : q.op = "create" => q.side \in Sides /\ q.id \in IDs BY RequestFacts
  <2> QED BY <2>1, <1>0 DEF Safe, Created
<1>5. Replacing(n, K, fr, o) BY <1>w, ShiftKeeps, Zenon
<1>6. Named(n, o)
  <2>1. ASSUME NEW t \in Sides PROVE NamedOf(n.side[t], t, o)
    <3>1. NamedOf(m.side[t], t, o) BY DEF Safe, Named
    <3> QED BY <1>0, <3>1 DEF NamedOf
  <2> QED BY <2>1 DEF Named
<1>7. Chain(n, o) BY <1>w, ShiftKeeps, Zenon
<1>8. Opened(n, o)
  <2>1. \A c \in IDs : o[c].side \in Sides BY OrderFacts
  <2>2. Opened(m, o) BY DEF Safe
  <2> QED BY <2>1, <2>2, <1>0 DEF Opened, AtSlot
<1>9. Heard(n, st, o) BY <1>w, ShiftKeeps, Zenon
<1> QED BY <1>1, <1>2, <1>3, <1>4, <1>5, <1>6, <1>7, <1>8, <1>9 DEF Safe

(* What the invariants say of m is in its sides, orders and next id. *)
LEMMA BooksKeep ==
  ASSUME NEW m \in Makers, NEW n \in Makers,
         NEW K \in SUBSET Requests, NEW fo \in SUBSET IDs, NEW fr \in SUBSET IDs,
         NEW st \in Seq(Events), NEW o \in Orders,
         Safe(m, K, fo, fr, st, o), SameBooks(m, n)
  PROVE  Safe(n, K, fo, fr, st, o)
<1> USE DEF SameBooks
<1>1. Fresh(n, o) BY DEF Safe, Fresh
<1>2. Distinct(n) BY DEF Safe, Distinct
<1>3. Asked(n, K, fo, fr, o) BY DEF Safe, Asked
<1>4. Created(n, K) BY DEF Safe, Created
<1>5. Replacing(n, K, fr, o) BY DEF Safe, Replacing
<1>6. Named(n, o) BY DEF Safe, Named
<1>7. Chain(n, o) BY DEF Safe, Chain
<1>8. Opened(n, o) BY DEF Safe, Opened, AtSlot
<1>9. Heard(n, st, o) BY DEF Safe, Heard, HeardOf
<1>10. Apart(n) BY DEF Safe, Apart
<1> QED BY <1>1, <1>2, <1>3, <1>4, <1>5, <1>6, <1>7, <1>8, <1>9, <1>10 DEF Safe

(* Nor do they mind a request or a failure less, or a cancel more. *)
LEMMA FewerKeep ==
  ASSUME NEW m \in Makers, NEW K \in SUBSET Requests, NEW fo \in SUBSET IDs,
         NEW fr \in SUBSET IDs, NEW st \in Seq(Events), NEW o \in Orders,
         NEW L \in SUBSET Requests, NEW go \in SUBSET fo, NEW gr \in SUBSET fr,
         Safe(m, K, fo, fr, st, o), Asks(L) \subseteq Asks(K)
  PROVE  Safe(m, L, go, gr, st, o)
<1>0. \A r \in L : r.op # "cancel" => r \in K BY DEF Asks
<1>3. Asked(m, L, go, gr, o) BY DEF Safe, Asked
<1>4. Created(m, L) BY <1>0 DEF Safe, Created
<1>5. Replacing(m, L, gr, o) BY <1>0 DEF Safe, Replacing
<1> QED BY <1>3, <1>4, <1>5 DEF Safe

(* A part of the stream. *)
LEMMA PartKeeps ==
  ASSUME NEW m \in Makers, NEW K \in SUBSET Requests, NEW fo \in SUBSET IDs,
         NEW fr \in SUBSET IDs, NEW st \in Seq(Events), NEW o \in Orders,
         NEW tt \in Seq(Events), NEW k \in Nat,
         Safe(m, K, fo, fr, st, o), Len(tt) + k <= Len(st),
         \A i \in 1..Len(tt) : tt[i] = st[i + k]
  PROVE  Safe(m, K, fo, fr, tt, o)
<1>1. Heard(m, st, o) BY DEF Safe
<1>2. Len(tt) \in Nat /\ Len(st) \in Nat BY EventFacts
<1>3. \A i \in 1..Len(tt) : i + k \in 1..Len(st) BY <1>2
<1>4. LastWord(tt) BY <1>1, <1>2, <1>3 DEF Heard, LastWord
<1>5. \A i \in 1..Len(tt) : HeardOf(m, tt[i], o) BY <1>1, <1>3 DEF Heard
<1>6. Heard(m, tt, o) BY <1>4, <1>5 DEF Heard
<1> QED BY <1>6 DEF Safe

(* The order e is over or was never taken, and nothing is left to say of   *)
(* it; if a side still has it, no order at Alpaca took its place.          *)
Gone(m, e, K, fo, fr, st, o) ==
  /\ o[e].status \in {"none", "over"}
  /\ \A r \in Asks(K) : r.id # e
  /\ e \notin fo /\ e \notin fr
  /\ \A i \in 1..Len(st) : st[i].id # e
  /\ \/ o[e].by = Nil
     \/ o[o[e].by].status = "over"
     \/ \A s \in Sides : m.side[s].client # e

(* Forgetting an order that is gone keeps it. *)
LEMMA RemoveKeeps ==
  ASSUME NEW m \in Makers, NEW e \in IDs, NEW n \in Makers,
         NEW K \in SUBSET Requests, NEW fo \in SUBSET IDs, NEW fr \in SUBSET IDs,
         NEW st \in Seq(Events), NEW o \in Orders,
         Safe(m, K, fo, fr, st, o), Removed(m, n, e), Gone(m, e, K, fo, fr, st, o)
  PROVE  Safe(n, K, fo, fr, st, o)
<1> USE IDFacts
<1>0. /\ n.orders = m.orders \ {e} /\ n.next = m.next
      /\ \A s \in Sides : n.side[s] = IF m.side[s].client = e THEN NoOrder ELSE m.side[s]
  BY DEF Removed
<1>d. /\ NoOrder.client = Nil /\ NoOrder.client2 = Nil /\ NoOrder.orderID = Nil
      /\ NoOrder.price = 0 /\ NoOrder.price2 = 0
  BY DEF NoOrder
<1>r. \A r \in K : r.op # "cancel" => r.id # e BY DEF Gone, Asks
<1>s. \A c \in IDs : o[c].side \in Sides BY OrderFacts, Zenon
<1>o. \A s \in Sides : NamedOf(m.side[s], s, o) BY DEF Safe, Named
<1>g. (\A c \in IDs : o[c].status = "open" => c # e) /\ \A i \in 1..Len(st) : st[i].id # e
  BY DEF Gone
<1>w. Shifts(m, n, e, Nil, K, st, o)
  <2>1. \A t \in Sides : m.side[t].client2 # Nil /\ m.side[t].client # e /\ m.side[t].client2 # Nil =>
          SameSlot(m, n, t)
    BY <1>0, Zenon DEF SameSlot
  <2>2. \A t \in Sides : \/ n.side[t].client \in {Nil, m.side[t].client}
                         \/ n.side[t].client \notin m.orders
                         \/ o[n.side[t].client].status # "none"
    BY <1>0, <1>d, Zenon
  <2> QED BY <2>1, <2>2, <1>g, NilFacts, Zenon DEF Shifts
<1>1. Fresh(n, o)
  <2>1. 0 < m.next BY MakerFacts
  <2>2. Fresh(m, o) BY DEF Safe
  <2> QED BY <2>1, <2>2, <1>0, <1>d DEF Fresh
<1>2. Distinct(n) BY <1>0, <1>d DEF Safe, Distinct
<1>3. Asked(n, K, fo, fr, o) BY <1>0 DEF Safe, Asked, Gone
<1>4. Created(n, K)
  <2>1. \A q \in K : q.op = "create" => q.side \in Sides /\ q.id \in IDs BY RequestFacts
  <2> QED BY <2>1, <1>0, <1>r DEF Safe, Created
<1>5. Replacing(n, K, fr, o) BY <1>w, ShiftKeeps, Zenon
<1>6. Named(n, o)
  <2>1. ASSUME NEW s \in Sides PROVE NamedOf(n.side[s], s, o)
    <3>1. NamedOf(NoOrder, s, o) BY <1>d DEF NamedOf
    <3> QED BY <3>1, <1>0, <1>o
  <2> QED BY <2>1 DEF Named
<1>7. Chain(n, o) BY <1>w, ShiftKeeps, Zenon
<1>8. Opened(n, o)
  <2>1. ASSUME NEW c \in IDs, o[c].status = "open"
        PROVE  o[c].price > 0 /\ AtSlot(n, c, o[c].side, o[c].price)
    <3> DEFINE s == o[c].side
    <3>1. s \in Sides /\ c # e BY <2>1, <1>s DEF Gone
    <3>2. o[c].price > 0 /\ AtSlot(m, c, s, o[c].price) BY <2>1 DEF Safe, Opened
    <3>3. m.side[s].client # e
      <4>1. SUFFICES ASSUME m.side[s].client = e PROVE FALSE OBVIOUS
      <4>2. m.side[s].client2 = c BY <3>1, <3>2, <4>1 DEF AtSlot
      <4>3. o[e].by = c BY <4>1, <4>2, <2>1, <3>1, <1>o DEF NamedOf
      <4> QED BY <4>1, <4>3, <3>1, <2>1 DEF Gone
    <3> QED BY <3>1, <3>2, <3>3, <1>0 DEF AtSlot
  <2> QED BY <2>1 DEF Opened
<1>9. Heard(n, st, o) BY <1>w, ShiftKeeps, Zenon
<1>10. Apart(n)
  <2>1. \A s \in Sides : /\ n.side[s].price \in {0, m.side[s].price}
                         /\ n.side[s].price2 \in {0, m.side[s].price2}
    BY <1>0, <1>d
  <2>2. "buy" \in Sides /\ "sell" \in Sides BY DEF Sides
  <2> QED BY <2>1, <2>2 DEF Safe, Apart
<1> QED BY <1>1, <1>2, <1>3, <1>4, <1>5, <1>6, <1>7, <1>8, <1>9, <1>10 DEF Safe

(* Forgetting a replacement that failed keeps it. *)
LEMMA UndoKeeps ==
  ASSUME NEW m \in Makers, NEW e \in IDs, NEW n \in Makers,
         NEW K \in SUBSET Requests, NEW fo \in SUBSET IDs, NEW fr \in SUBSET IDs,
         NEW st \in Seq(Events), NEW o \in Orders,
         Safe(m, K, fo, fr, st, o), Undone(m, n, e), o[e].status = "none",
         \A r \in Asks(K) : r.id # e, e \notin fo, e \notin fr
  PROVE  Safe(n, K, fo, fr, st, o)
<1> USE IDFacts
<1>0. /\ n.orders = m.orders \ {e} /\ n.next = m.next
      /\ \A s \in Sides : /\ n.side[s].orderID = m.side[s].orderID
                          /\ n.side[s].client = m.side[s].client
                          /\ n.side[s].price = m.side[s].price
  BY DEF Undone, SideIs
<1>d. \A s \in Sides : IF m.side[s].client2 = e
                       THEN n.side[s].client2 = Nil /\ n.side[s].price2 = 0
                       ELSE /\ n.side[s].client2 = m.side[s].client2
                            /\ n.side[s].price2 = m.side[s].price2
  BY DEF Undone, SideIs
<1>r. \A r \in K : r.op # "cancel" => r.id # e BY DEF Asks
<1>s. \A c \in IDs : o[c].side \in Sides BY OrderFacts
<1>g. (\A c \in IDs : o[c].status # "none" => c # e) /\ \A q \in K : q.op = "replace" => q.id # e
  BY <1>r
<1>w. Shifts(m, n, Nil, e, K, st, o)
  <2>1. \A t \in Sides : m.side[t].client2 # Nil /\ m.side[t].client # Nil /\ m.side[t].client2 # e =>
          SameSlot(m, n, t)
    BY <1>0, <1>d, Zenon DEF SameSlot
  <2>2. \A t \in Sides : \/ n.side[t].client \in {Nil, m.side[t].client}
                         \/ n.side[t].client \notin m.orders
                         \/ o[n.side[t].client].status # "none"
    BY <1>0, Zenon
  <2> QED BY <2>1, <2>2, <1>g, NilFacts, Zenon DEF Shifts
<1>1. Fresh(n, o)
  <2>1. 0 < m.next BY MakerFacts
  <2>2. Fresh(m, o) BY DEF Safe
  <2> QED BY <2>1, <2>2, <1>0, <1>d DEF Fresh
<1>2. Distinct(n) BY <1>0, <1>d DEF Safe, Distinct
<1>3. Asked(n, K, fo, fr, o) BY <1>0 DEF Safe, Asked
<1>4. Created(n, K)
  <2>1. \A q \in K : q.op = "create" => q.side \in Sides /\ q.id \in IDs BY RequestFacts
  <2> QED BY <2>1, <1>0, <1>r DEF Safe, Created
<1>5. Replacing(n, K, fr, o) BY <1>w, ShiftKeeps, Zenon
<1>6. Named(n, o)
  <2>1. ASSUME NEW s \in Sides PROVE NamedOf(n.side[s], s, o)
    <3>1. NamedOf(m.side[s], s, o) BY DEF Safe, Named
    <3> QED BY <3>1, <1>0, <1>d DEF NamedOf
  <2> QED BY <2>1 DEF Named
<1>7. Chain(n, o) BY <1>w, ShiftKeeps, Zenon
<1>8. Opened(n, o)
  <2>1. Opened(m, o) BY DEF Safe
  <2> QED BY <2>1, <1>0, <1>d, <1>s DEF Opened, AtSlot
<1>9. Heard(n, st, o) BY <1>w, ShiftKeeps, Zenon
<1>10. Apart(n)
  <2>1. \A s \in Sides : /\ n.side[s].price = m.side[s].price
                         /\ n.side[s].price2 \in {0, m.side[s].price2}
    BY <1>0, <1>d
  <2>2. "buy" \in Sides /\ "sell" \in Sides BY DEF Sides
  <2> QED BY <2>1, <2>2 DEF Safe, Apart
<1> QED BY <1>1, <1>2, <1>3, <1>4, <1>5, <1>6, <1>7, <1>8, <1>9, <1>10 DEF Safe

(* Learning an order's id keeps it. *)
LEMMA NameKeeps ==
  ASSUME NEW m \in Makers, NEW s \in Sides, NEW c \in IDs, NEW n \in Makers,
         NEW K \in SUBSET Requests, NEW fo \in SUBSET IDs, NEW fr \in SUBSET IDs,
         NEW st \in Seq(Events), NEW o \in Orders,
         Safe(m, K, fo, fr, st, o), m.side[s].orderID = Nil,
         o[c].status \in {"open", "over"}, o[c].side = s,
         SameOtherwise(m, n, s), NothingNew(m, n),
         SideIs(n.side[s], c, m.side[s].client, m.side[s].client2,
                m.side[s].price, m.side[s].price2)
  PROVE  Safe(n, K, fo, fr, st, o)
<1> USE IDFacts
<1>0. /\ n.orders = m.orders /\ n.next = m.next
      /\ \A t \in Sides : /\ n.side[t].client = m.side[t].client
                          /\ n.side[t].client2 = m.side[t].client2
                          /\ n.side[t].price = m.side[t].price
                          /\ n.side[t].price2 = m.side[t].price2
      /\ \A t \in Sides \ {s} : n.side[t] = m.side[t]
      /\ n.side[s].orderID = c
  BY DEF SameOtherwise, NothingNew, SideIs
<1>s. \A i \in IDs : o[i].side \in Sides BY OrderFacts
<1>o. \A t \in Sides : NamedOf(m.side[t], t, o) BY DEF Safe, Named
<1>w. Shifts(m, n, Nil, Nil, K, st, o)
  <2>1. \A t \in Sides : m.side[t].client2 # Nil /\ m.side[t].client # Nil /\ m.side[t].client2 # Nil =>
          SameSlot(m, n, t)
    BY <1>0, Zenon DEF SameSlot
  <2>2. \A t \in Sides : \/ n.side[t].client \in {Nil, m.side[t].client}
                         \/ n.side[t].client \notin m.orders
                         \/ o[n.side[t].client].status # "none"
    BY <1>0, Zenon
  <2> QED BY <2>1, <2>2, NilFacts, Zenon DEF Shifts
<1>1. Fresh(n, o) BY <1>0 DEF Safe, Fresh
<1>2. Distinct(n) BY <1>0 DEF Safe, Distinct
<1>3. Asked(n, K, fo, fr, o) BY <1>0 DEF Safe, Asked
<1>4. Created(n, K)
  <2>1. \A q \in K : q.op = "create" => q.side \in Sides /\ q.id \in IDs BY RequestFacts
  <2> QED BY <2>1, <1>0 DEF Safe, Created
<1>5. Replacing(n, K, fr, o) BY <1>w, ShiftKeeps, Zenon
<1>6. Named(n, o)
  <2>1. m.side[s].client2 = Nil BY <1>o DEF NamedOf
  <2>2. o[c].status = "open" => m.side[s].client = c
    BY <2>1 DEF Safe, Opened, AtSlot
  <2>3. NamedOf(n.side[s], s, o) BY <2>1, <2>2, <1>o, <1>0 DEF NamedOf
  <2> QED BY <2>3, <1>o, <1>0 DEF Named
<1>7. Chain(n, o) BY <1>w, ShiftKeeps, Zenon
<1>8. Opened(n, o)
  <2>1. Opened(m, o) BY DEF Safe
  <2> QED BY <2>1, <1>0, <1>s DEF Opened, AtSlot
<1>9. Heard(n, st, o) BY <1>w, ShiftKeeps, Zenon
<1>10. Apart(n)
  <2>2. "buy" \in Sides /\ "sell" \in Sides BY DEF Sides
  <2> QED BY <2>2, <1>0 DEF Safe, Apart
<1> QED BY <1>1, <1>2, <1>3, <1>4, <1>5, <1>6, <1>7, <1>8, <1>9, <1>10 DEF Safe

(* The update u says that an order was replaced. *)
LEMMA MoveKeeps ==
  ASSUME NEW m \in Makers, NEW u \in Events, NEW n \in Makers,
         NEW K \in SUBSET Requests, NEW fo \in SUBSET IDs, NEW fr \in SUBSET IDs,
         NEW st \in Seq(Events), NEW o \in Orders,
         Safe(m, K, fo, fr, st, o), HeardOf(m, u, o), u.event = "replaced",
         \A i \in 1..Len(st) : st[i].id # u.id,
         SameOtherwise(m, n, u.side), n.orders = m.orders \ {m.side[u.side].client},
         n.next = m.next,
         SideIs(n.side[u.side], u.by, m.side[u.side].client2, Nil,
                m.side[u.side].price2, m.side[u.side].price2)
  PROVE  Safe(n, K, fo, fr, st, o)
<1> DEFINE c == u.id
           x == u.by
           s == u.side
<1> USE IDFacts
<1>t. s \in Sides /\ c \in IDs /\ x \in IDs BY Zenon DEF Events, HeardOf
<1>u. /\ m.side[s].client = c /\ m.side[s].client2 = x /\ m.side[s].price2 = o[x].price
      /\ o[c].status = "over" /\ o[c].by = x /\ o[x].status \in {"open", "over"}
      /\ o[c].side = s
  BY Zenon DEF HeardOf
<1>v. \A i \in 1..Len(st) : st[i].id # c OBVIOUS
<1>0. /\ n.orders = m.orders \ {c} /\ n.next = m.next
      /\ \A t \in Sides \ {s} : n.side[t] = m.side[t]
      /\ n.side[s].orderID = x /\ n.side[s].client = x /\ n.side[s].client2 = Nil
      /\ n.side[s].price = m.side[s].price2 /\ n.side[s].price2 = m.side[s].price2
  BY <1>u DEF SameOtherwise, SideIs
<1> HIDE DEF c, x, s
<1>s. \A i \in IDs : o[i].side \in Sides BY OrderFacts
<1>o. \A t \in Sides : NamedOf(m.side[t], t, o) BY DEF Safe, Named
<1>c. c # x /\ o[x].side = s
  BY <1>t, <1>u DEF Safe, Chain
<1>a. Asked(m, K, fo, fr, o) BY DEF Safe
<1>g. \A i \in IDs : o[i].status = "open" => i # c BY <1>u
<1>w. Shifts(m, n, c, Nil, K, st, o)
  <2>1. \A t \in Sides : m.side[t].client2 # Nil /\ m.side[t].client # c /\ m.side[t].client2 # Nil =>
          SameSlot(m, n, t)
    BY <1>0, <1>u, Zenon DEF SameSlot
  <2>2. \A t \in Sides : \/ n.side[t].client \in {Nil, m.side[t].client}
                         \/ n.side[t].client \notin m.orders
                         \/ o[n.side[t].client].status # "none"
    BY <1>0, <1>u
  <2> QED BY <2>1, <2>2, <1>g, <1>v, NilFacts, Zenon DEF Shifts
<1>1. Fresh(n, o)
  <2>1. 0 < m.next BY MakerFacts
  <2>2. Fresh(m, o) BY DEF Safe
  <2>3. \A t \in Sides : /\ n.side[t].client \in {m.side[t].client, m.side[t].client2}
                         /\ n.side[t].client2 \in {0, m.side[t].client2}
    BY <1>0, <1>u
  <2> QED BY <2>1, <2>2, <2>3, <1>0 DEF Fresh
<1>2. Distinct(n) BY <1>0, <1>u, <1>t DEF Safe, Distinct
<1>3. Asked(n, K, fo, fr, o)
  <2>1. /\ \A r \in Asks(K) : r.id # c
        /\ \A i \in fo : i # c
        /\ \A i \in fr : i # c
    BY <1>a, <1>u DEF Asked
  <2> QED BY <2>1, <1>a, <1>0, Zenon DEF Asked
<1>4. Created(n, K)
  <2>1. \A q \in K : q.op = "create" => q.side \in Sides /\ q.id \in IDs /\ q \in Asks(K)
    BY RequestFacts DEF Asks
  <2>2. Created(m, K) BY DEF Safe
  <2>3. ASSUME NEW q \in K, q.op = "create" PROVE q.side # s
    BY <2>1, <2>2, <2>3, <1>a, <1>u DEF Created, Asked
  <2> QED BY <2>1, <2>2, <2>3, <1>0 DEF Created
<1>5. Replacing(n, K, fr, o) BY <1>w, ShiftKeeps, Zenon
<1>6. Named(n, o)
  <2>1. NamedOf(n.side[s], s, o) BY <1>0, <1>u, <1>c, <1>t DEF NamedOf
  <2> QED BY <2>1, <1>o, <1>0 DEF Named
<1>7. Chain(n, o) BY <1>w, ShiftKeeps, Zenon
<1>8. Opened(n, o)
  <2>1. ASSUME NEW i \in IDs, o[i].status = "open"
        PROVE  o[i].price > 0 /\ AtSlot(n, i, o[i].side, o[i].price)
    <3>1. o[i].price > 0 /\ AtSlot(m, i, o[i].side, o[i].price) BY <2>1 DEF Safe, Opened
    <3>2. CASE o[i].side = s
      <4>1. i = x /\ o[i].price = m.side[s].price2 BY <2>1, <3>1, <3>2, <1>u DEF AtSlot
      <4> QED BY <4>1, <3>1, <3>2, <1>0 DEF AtSlot
    <3>3. CASE o[i].side # s BY <3>1, <3>3, <1>s, <1>0 DEF AtSlot
    <3> QED BY <3>2, <3>3
  <2> QED BY <2>1 DEF Opened
<1>9. Heard(n, st, o) BY <1>w, ShiftKeeps, Zenon
<1>10. Apart(n)
  <2>1. \A t \in Sides : /\ n.side[t].price \in {m.side[t].price, m.side[t].price2}
                         /\ n.side[t].price2 = m.side[t].price2
    BY <1>0
  <2>2. "buy" \in Sides /\ "sell" \in Sides BY DEF Sides
  <2> QED BY <2>1, <2>2 DEF Safe, Apart
<1> QED BY <1>1, <1>2, <1>3, <1>4, <1>5, <1>6, <1>7, <1>8, <1>9, <1>10 DEF Safe

(* What Alpaca may do to its orders under an event that told of them.      *)
Grows(o, q) ==
  \A i \in IDs :
    /\ o[i].status \in {"open", "over"} =>
         q[i].status \in {"open", "over"} /\ SameTerms(o, q, i)
    /\ o[i].status = "over" => q[i].status = "over" /\ q[i].by = o[i].by

(* Events stay true, and one more is appended. *)
LEMMA HeardGrows ==
  ASSUME NEW m \in Makers, NEW u \in Events, NEW o \in Orders, NEW q \in Orders,
         HeardOf(m, u, o), Grows(o, q)
  PROVE  HeardOf(m, u, q)
<1>1. u.id \in IDs /\ u.by \in IDs \cup {Nil} BY DEF Events
<1>2. o[u.id].by \in IDs \cup {Nil} BY <1>1, OrderFacts
<1>3. q[u.id].status \in {"open", "over"} /\ q[u.id].side = o[u.id].side
      /\ (u.final => q[u.id].status = "over" /\ q[u.id].by = o[u.id].by)
  BY <1>1 DEF HeardOf, Grows, SameTerms
<1>4. ASSUME u.final, u.event # "replaced"
      PROVE  q[u.id].by = Nil \/ q[q[u.id].by].status = "over"
  BY <1>2, <1>3, <1>4 DEF HeardOf, Grows
<1>5. ASSUME u.event = "replaced"
      PROVE  q[u.by].status \in {"open", "over"} /\ q[u.by].price = o[u.by].price
             /\ u.by = q[u.id].by
  <2>1. u.final /\ u.by \in IDs /\ o[u.by].status \in {"open", "over"} /\ u.by = o[u.id].by
    BY <1>1, <1>5 DEF HeardOf
  <2> QED BY <2>1, <1>3 DEF Grows, SameTerms
<1> QED BY <1>3, <1>4, <1>5 DEF HeardOf

(* An event of an order that is not over may be the last word on it. *)
LEMMA AppendWord ==
  ASSUME NEW st \in Seq(Events), NEW v \in Events, LastWord(st),
         \A i \in 1..Len(st) : st[i].id = v.id => ~ st[i].final
  PROVE  LastWord(Append(st, v))
<1> DEFINE tt == Append(st, v)
<1>1. Len(st) \in Nat /\ Len(tt) = Len(st) + 1 /\ tt[Len(st) + 1] = v
      /\ \A i \in 1..Len(st) : tt[i] = st[i]
  BY AppendFacts
<1> HIDE DEF tt
<1>2. ASSUME NEW i \in 1..Len(tt), NEW j \in 1..Len(tt), i < j, tt[i].id = tt[j].id
      PROVE  ~ tt[i].final
  <2>1. i \in 1..Len(st) BY <1>1, <1>2
  <2>2. CASE j \in 1..Len(st) BY <1>1, <1>2, <2>1, <2>2 DEF LastWord
  <2>3. CASE j = Len(st) + 1 BY <1>1, <1>2, <2>1, <2>3
  <2> QED BY <1>1, <2>2, <2>3
<1> QED BY <1>2 DEF LastWord, tt

(* An event that is true of the orders joins the ones on their way. *)
LEMMA HeardAppend ==
  ASSUME NEW m \in Makers, NEW st \in Seq(Events), NEW v \in Events, NEW o \in Orders,
         Heard(m, st, o), HeardOf(m, v, o),
         \A i \in 1..Len(st) : st[i].id = v.id => ~ st[i].final
  PROVE  Heard(m, Append(st, v), o)
<1>1. LastWord(Append(st, v)) BY AppendWord DEF Heard
<1>2. \A i \in 1..Len(Append(st, v)) : HeardOf(m, Append(st, v)[i], o)
  <2>1. Len(st) \in Nat /\ \A i \in 1..Len(Append(st, v)) : i \in 1..Len(st) \/ i = Len(st) + 1
    BY AppendFacts
  <2> QED BY <2>1, AppendFacts DEF Heard
<1> QED BY <1>1, <1>2 DEF Heard

(* What was heard stays true as the orders go on. *)
LEMMA HeardStill ==
  ASSUME NEW m \in Makers, NEW st \in Seq(Events), NEW o \in Orders, NEW q \in Orders,
         Heard(m, st, o), Grows(o, q)
  PROVE  Heard(m, st, q)
BY HeardGrows, EventFacts DEF Heard

(* A request that comes to nothing. *)
LEMMA RefuseKeeps ==
  ASSUME NEW m \in Makers, NEW K \in SUBSET Requests, NEW fo \in SUBSET IDs,
         NEW fr \in SUBSET IDs, NEW st \in Seq(Events), NEW o \in Orders,
         NEW r \in K, NEW go, NEW gr, Safe(m, K, fo, fr, st, o),
         go = IF r.op = "create" THEN fo \cup {r.id} ELSE fo,
         gr = IF r.op = "replace" THEN fr \cup {r.id} ELSE fr
  PROVE  Safe(m, K \ {r}, go, gr, st, o)
<1>a. Asked(m, K, fo, fr, o) BY DEF Safe
<1>1. Asks(K \ {r}) = Asks(K) \ {r} BY DEF Asks
<1>2. r \in Asks(K) => /\ \A q \in Asks(K) \ {r} : q.id # r.id
                       /\ r.id \in m.orders /\ o[r.id].status = "none"
                       /\ r.id \notin fo /\ r.id \notin fr
  BY <1>a DEF Asked
<1>3. r.op \in {"create", "replace"} => r \in Asks(K) BY DEF Asks
<1>4. Asked(m, K \ {r}, go, gr, o)
  <2>1. \A q \in Asks(K \ {r}) : q.id \in m.orders /\ o[q.id].status = "none"
                                 /\ q.id \notin go /\ q.id \notin gr
    BY <1>a, <1>1, <1>2, <1>3 DEF Asked
  <2>2. \A q, p \in Asks(K \ {r}) : q.id = p.id => q = p BY <1>a, <1>1 DEF Asked
  <2>3. \A c \in go : c \in m.orders /\ o[c].status = "none" /\ c \notin gr
    BY <1>a, <1>2, <1>3 DEF Asked
  <2>4. \A c \in gr : c \in m.orders /\ o[c].status = "none"
    BY <1>a, <1>2, <1>3 DEF Asked
  <2> QED BY <2>1, <2>2, <2>3, <2>4, Zenon DEF Asked
<1>5. Created(m, K \ {r}) BY DEF Safe, Created
<1>6. Replacing(m, K \ {r}, gr, o) BY DEF Safe, Replacing
<1> QED BY <1>4, <1>5, <1>6 DEF Safe

(* A new order. *)
LEMMA CreateKeeps ==
  ASSUME NEW m \in Makers, NEW K \in SUBSET Requests, NEW fo \in SUBSET IDs,
         NEW fr \in SUBSET IDs, NEW st \in Seq(Events), NEW o \in Orders,
         NEW r \in K, r.op = "create", Safe(m, K, fo, fr, st, o), NEW q \in Orders,
         q[r.id].status \in {"open", "over"}, q[r.id].side = r.side,
         q[r.id].price = r.price, q[r.id].by = Nil,
         \A i \in IDs \ {r.id} : q[i] = o[i],
         NEW v \in Events, v.id = r.id, v.side = r.side, v.event # "replaced",
         v.final => q[r.id].status = "over"
  PROVE  Safe(m, K \ {r}, fo, fr, Append(st, v), q)
<1> USE IDFacts
<1> DEFINE x == r.id
<1>a. Asked(m, K, fo, fr, o) BY DEF Safe
<1>r. r \in Asks(K) /\ r.op \notin {"replace", "cancel"} BY DEF Asks
<1>x. /\ x \in IDs /\ r.side \in Sides /\ o[x].status = "none" /\ x \in m.orders
      /\ x \notin fo /\ x \notin fr
      /\ \A p \in Asks(K) \ {r} : p.id # x
  BY <1>a, <1>r, RequestFacts DEF Asked
<1>c. /\ m.side[r.side].client = x /\ m.side[r.side].price = r.price /\ r.price > 0
  BY DEF Safe, Created
<1>q. /\ q[x].status \in {"open", "over"} /\ q[x].side = r.side /\ q[x].price = r.price
      /\ q[x].by = Nil /\ \A i \in IDs \ {x} : q[i] = o[i]
  OBVIOUS
<1>v. v.id = x OBVIOUS
<1>h. Chain(m, o) BY DEF Safe
<1>b. o[x].by = Nil /\ \A i \in IDs : o[i].by # x
  <2>1. o[x].by = Nil BY <1>x, <1>h, Zenon DEF Chain
  <2>2. x # Nil BY <1>x
  <2>3. ASSUME NEW i \in IDs, o[i].by = x PROVE FALSE
    <3>1. o[o[i].by].status # "none" BY <2>2, <2>3, <1>h DEF Chain
    <3> QED BY <3>1, <2>3, <1>x
  <2> QED BY <2>1, <2>3
<1>d. \A t \in Sides : m.side[t].client2 # x /\ (m.side[t].client = x => t = r.side)
  BY <1>c, <1>x DEF Safe, Distinct
<1> HIDE DEF x
<1>1. Fresh(m, q) BY <1>x, <1>q DEF Safe, Fresh
<1>3. Asked(m, K \ {r}, fo, fr, q)
  <2>1. Asks(K \ {r}) = Asks(K) \ {r} BY DEF Asks
  <2>2. \A p \in Asks(K) : p.id \in IDs BY RequestFacts DEF Asks
  <2>3. \A i \in IDs \ {x} : q[i].status = o[i].status BY <1>q
  <2>4. \A i \in fo \cup fr : q[i].status = "none" BY <2>3, <1>a, <1>x DEF Asked
  <2>5. \A p \in Asks(K) \ {r} : q[p.id].status = "none" BY <2>2, <2>3, <1>a, <1>x, Zenon DEF Asked
  <2> QED BY <2>1, <2>4, <2>5, <1>a, Zenon DEF Asked
<1>4. Created(m, K \ {r}) BY Zenon DEF Safe, Created
<1>5. Replacing(m, K \ {r}, fr, q)
  <2>1. Replacing(m, K, fr, o) BY DEF Safe
  <2>2. ASSUME NEW p \in K, p.op = "replace" PROVE q[p.of] = o[p.of]
    BY <2>1, <2>2, <1>x, <1>q, RequestFacts, Zenon DEF Replacing
  <2> QED BY <2>1, <2>2 DEF Replacing
<1>6. Named(m, q)
  <2>1. ASSUME NEW s \in Sides PROVE NamedOf(m.side[s], s, q)
    <3>1. NamedOf(m.side[s], s, o) BY DEF Safe, Named
    <3>2. /\ m.side[s].orderID \in IDs \cup {Nil} /\ m.side[s].client \in IDs \cup {Nil}
          /\ m.side[s].client2 \in IDs \cup {Nil}
      BY SideFacts
    <3>3. m.side[s].orderID # Nil => q[m.side[s].orderID] = o[m.side[s].orderID]
      BY <3>1, <3>2, <1>x, <1>q, Zenon DEF NamedOf
    <3>4. m.side[s].client2 # Nil => q[m.side[s].client2] = o[m.side[s].client2]
      BY <3>2, <1>d, <1>q
    <3>5. CASE m.side[s].client = x
      BY <3>1, <3>2, <3>3, <3>4, <3>5, <1>d, <1>q, <1>b, Zenon DEF NamedOf
    <3>6. CASE m.side[s].client # x
      <4>1. m.side[s].client # Nil => q[m.side[s].client] = o[m.side[s].client]
        BY <3>2, <3>6, <1>q
      <4> QED BY <4>1, <3>1, <3>3, <3>4, Zenon DEF NamedOf
    <3> QED BY <3>5, <3>6
  <2> QED BY <2>1 DEF Named
<1>7. Chain(m, q)
  <2>1. \A i \in IDs : o[i].by \in IDs \cup {Nil} BY OrderFacts
  <2>2. \A i \in IDs : q[i].by # Nil => q[i] = o[i] /\ q[q[i].by] = o[o[i].by]
    BY <2>1, <1>q, <1>b, Zenon
  <2>3. \A i \in IDs : q[i].status = "pending" => q[i] = o[i] BY <1>q, Zenon
  <2>4. ASSUME NEW i \in IDs, q[i].by # Nil
        PROVE  /\ q[i].by # i
               /\ q[i].status \in {"open", "over"}
               /\ q[q[i].by].status # "none"
               /\ q[q[i].by].side = q[i].side
               /\ q[i].status = "open" =>
                    /\ q[q[i].by].status = "pending"
                    /\ m.side[q[i].side].client = i
                    /\ m.side[q[i].side].client2 = q[i].by
                    /\ m.side[q[i].side].price2 = q[q[i].by].price
    <3>1. q[i] = o[i] /\ q[q[i].by] = o[o[i].by] BY <2>2, <2>4
    <3> QED BY <3>1, <2>4, <1>h DEF Chain
  <2>5. \A i \in IDs : q[i].status = "pending" => q[i].price > 0 BY <2>3, <1>h DEF Chain
  <2> QED BY <2>4, <2>5, Zenon DEF Chain
<1>8. Opened(m, q)
  <2>1. Opened(m, o) BY DEF Safe
  <2> QED BY <2>1, <1>c, <1>q DEF Opened, AtSlot
<1>9. Heard(m, Append(st, v), q)
  <2>1. Heard(m, st, o) BY DEF Safe
  <2>2. Grows(o, q) BY <1>x, <1>q DEF Grows, SameTerms
  <2>3. HeardOf(m, v, q) BY <1>q, <1>v DEF HeardOf
  <2>4. \A i \in 1..Len(st) : st[i].id # v.id BY <2>1, <1>x, <1>v DEF Heard, HeardOf
  <2> QED BY <2>1, <2>2, <2>3, <2>4, HeardStill, HeardAppend
<1> QED BY <1>1, <1>3, <1>4, <1>5, <1>6, <1>7, <1>8, <1>9 DEF Safe

(* A replacement that is accepted. *)
LEMMA PendKeeps ==
  ASSUME NEW m \in Makers, NEW K \in SUBSET Requests, NEW fo \in SUBSET IDs,
         NEW fr \in SUBSET IDs, NEW st \in Seq(Events), NEW o \in Orders,
         NEW r \in K, r.op = "replace", Safe(m, K, fo, fr, st, o), NEW q \in Orders,
         o[r.of].status = "open", o[r.of].by = Nil, r.price > 0,
         ReplaceTo(o, q, r.of, r.id, r.price)
  PROVE  Safe(m, K \ {r}, fo, fr, st, q)
<1> USE IDFacts
<1> DEFINE x == r.id
           c == r.of
           s == o[c].side
<1>a. Asked(m, K, fo, fr, o) BY DEF Safe
<1>r. r \in Asks(K) BY DEF Asks
<1>x. /\ x \in IDs /\ c \in IDs /\ o[x].status = "none" /\ x \in m.orders
      /\ x \notin fo /\ x \notin fr
      /\ \A p \in Asks(K) \ {r} : p.id # x
  BY <1>a, <1>r, RequestFacts DEF Asked
<1>c. /\ m.side[s].client = c /\ m.side[s].client2 = x /\ m.side[s].price2 = r.price
      /\ \A t \in Sides : m.side[t].client # x
  BY Zenon DEF Safe, Replacing
<1>q. /\ q[c].status = "open" /\ q[c].side = s /\ q[c].price = o[c].price /\ q[c].by = x
      /\ q[x].status = "pending" /\ q[x].side = s /\ q[x].price = r.price /\ q[x].by = Nil
      /\ \A i \in IDs \ {c, x} : q[i] = o[i]
      /\ o[c].status = "open" /\ o[c].by = Nil /\ r.price > 0
  BY DEF ReplaceTo, SameTerms
<1>s. s \in Sides BY <1>x, OrderFacts, Zenon
<1>h. Chain(m, o) BY DEF Safe
<1>b. o[x].by = Nil /\ \A i \in IDs : o[i].by # x
  <2>1. o[x].by = Nil BY <1>x, <1>h, Zenon DEF Chain
  <2>2. x # Nil BY <1>x
  <2>3. ASSUME NEW i \in IDs, o[i].by = x PROVE FALSE
    <3>1. o[o[i].by].status # "none" BY <2>2, <2>3, <1>h DEF Chain
    <3> QED BY <3>1, <2>3, <1>x
  <2> QED BY <2>1, <2>3
<1>d. \A t \in Sides : m.side[t].client2 = x \/ m.side[t].client = c => t = s
  BY <1>c, <1>x, <1>s DEF Safe, Distinct
<1> HIDE DEF x, c, s
<1>n. c # x BY <1>x, <1>q
<1>1. Fresh(m, q) BY <1>x, <1>q DEF Safe, Fresh
<1>3. Asked(m, K \ {r}, fo, fr, q)
  <2>1. Asks(K \ {r}) = Asks(K) \ {r} BY DEF Asks
  <2>2. \A p \in Asks(K) : p.id \in IDs BY RequestFacts DEF Asks
  <2>3. \A i \in IDs \ {x} : o[i].status = "none" => q[i].status = "none" BY <1>q
  <2> QED BY <2>1, <2>2, <2>3, <1>a, <1>x, Zenon DEF Asked
<1>4. Created(m, K \ {r}) BY DEF Safe, Created
<1>5. Replacing(m, K \ {r}, fr, q)
  <2>1. Replacing(m, K, fr, o) BY DEF Safe
  <2>2. ASSUME NEW p \in K, p.op = "replace"
        PROVE  q[p.of].status = o[p.of].status /\ q[p.of].side = o[p.of].side
    BY <2>1, <2>2, <1>x, <1>q, RequestFacts DEF Replacing, s
  <2> QED BY <2>1, <2>2 DEF Replacing
<1>6. Named(m, q)
  <2>1. ASSUME NEW t \in Sides PROVE NamedOf(m.side[t], t, q)
    <3>1. NamedOf(m.side[t], t, o) BY DEF Safe, Named
    <3>2. /\ m.side[t].orderID \in IDs \cup {Nil} /\ m.side[t].client \in IDs \cup {Nil}
          /\ m.side[t].client2 \in IDs \cup {Nil}
      BY SideFacts
    <3>3. \A i \in IDs \ {x} : q[i].status = o[i].status /\ q[i].side = o[i].side
      BY <1>q DEF s
    <3>4. m.side[t].orderID # x BY <3>1, <1>x DEF NamedOf
    <3>5. m.side[t].client # x BY <1>c
    <3>6. ASSUME m.side[t].client2 # Nil, q[m.side[t].client2].status # "none"
          PROVE  q[m.side[t].client].by = m.side[t].client2
      <4>1. CASE m.side[t].client2 = x BY <4>1, <1>d, <1>c, <1>q
      <4>2. CASE m.side[t].client2 # x
        <5>1. m.side[t].client # Nil /\ o[m.side[t].client].by = m.side[t].client2
          BY <3>1, <3>2, <3>3, <3>6, <4>2, Zenon DEF NamedOf
        <5>2. m.side[t].client # c BY <5>1, <3>6, <1>q
        <5> QED BY <5>1, <5>2, <3>2, <3>5, <1>q, Zenon
      <4> QED BY <4>1, <4>2
    <3> QED BY <3>1, <3>2, <3>3, <3>4, <3>5, <3>6, Zenon DEF NamedOf
  <2> QED BY <2>1 DEF Named
<1>7. Chain(m, q)
  <2>1. \A i \in IDs : o[i].by \in IDs \cup {Nil} BY OrderFacts
  <2>2. ASSUME NEW i \in IDs, q[i].by # Nil
        PROVE  /\ q[i].by # i
               /\ q[i].status \in {"open", "over"}
               /\ q[q[i].by].status # "none"
               /\ q[q[i].by].side = q[i].side
               /\ q[i].status = "open" =>
                    /\ q[q[i].by].status = "pending"
                    /\ m.side[q[i].side].client = i
                    /\ m.side[q[i].side].client2 = q[i].by
                    /\ m.side[q[i].side].price2 = q[q[i].by].price
    <3>1. CASE i = c BY <3>1, <1>q, <1>c, <1>n
    <3>2. CASE i # c
      <4>1. i # x BY <2>2, <1>q
      <4>2. q[i] = o[i] /\ o[i].by \in IDs /\ o[i].by # x BY <2>1, <2>2, <3>2, <4>1, <1>q, <1>b
      <4>3. /\ q[o[i].by].status = o[o[i].by].status /\ q[o[i].by].side = o[o[i].by].side
            /\ q[o[i].by].price = o[o[i].by].price
        BY <4>2, <1>q, Zenon DEF s
      <4> QED BY <4>2, <4>3, <2>2, <1>h DEF Chain
    <3> QED BY <3>1, <3>2, Zenon
  <2>3. \A i \in IDs : q[i].status = "pending" => q[i].price > 0 BY <1>q, <1>h DEF Chain
  <2> QED BY <2>2, <2>3 DEF Chain
<1>8. Opened(m, q)
  <2>1. Opened(m, o) BY DEF Safe
  <2>2. \A i \in IDs \ {x} : q[i].status = o[i].status /\ q[i].side = o[i].side
                             /\ q[i].price = o[i].price
    BY <1>q DEF s
  <2> QED BY <2>1, <2>2, <1>q DEF Opened
<1>9. Heard(m, st, q)
  <2>1. Heard(m, st, o) BY DEF Safe
  <2>2. Grows(o, q) BY <1>x, <1>q DEF Grows, SameTerms, s
  <2> QED BY <2>1, <2>2, HeardStill
<1> QED BY <1>1, <1>3, <1>4, <1>5, <1>6, <1>7, <1>8, <1>9 DEF Safe

(* An order that is over without a successor, told of by v and, if another *)
(* was to replace it, by w.                                                *)
LEMMA OverKeeps ==
  ASSUME NEW m \in Makers, NEW K \in SUBSET Requests, NEW fo \in SUBSET IDs,
         NEW fr \in SUBSET IDs, NEW st \in Seq(Events), NEW o \in Orders,
         NEW c \in IDs, Safe(m, K, fo, fr, st, o), NEW q \in Orders,
         o[c].status = "open", OverTo(o, q, c),
         NEW v \in Events, v.id = c, v.side = o[c].side, v.event # "replaced"
  PROVE  /\ Safe(m, K, fo, fr, Append(st, v), q)
         /\ \A w \in Events : o[c].by # Nil /\ w.id = o[c].by /\ w.side = o[w.id].side
                                /\ w.event # "replaced" =>
              Safe(m, K, fo, fr, Append(Append(st, v), w), q)
<1> USE IDFacts
<1> DEFINE x == o[c].by
           s == o[c].side
<1>a. Asked(m, K, fo, fr, o) BY DEF Safe
<1>h. Chain(m, o) BY DEF Safe
<1>x. x # Nil => /\ x \in IDs /\ x # c /\ o[x].status = "pending" /\ o[x].side = s
                 /\ o[x].by = Nil
                 /\ m.side[s].client = c /\ m.side[s].client2 = x
  BY <1>h, OrderFacts DEF Chain
<1>c. o[c].status = "open" /\ s \in Sides BY OrderFacts
<1>q. /\ \A i \in IDs : q[i].side = o[i].side /\ q[i].price = o[i].price /\ q[i].by = o[i].by
      /\ \A i \in IDs : q[i].status = IF i = c \/ i = x THEN "over" ELSE o[i].status
  BY DEF OverTo, SameTerms
<1> HIDE DEF x, s
<1>n. \A i \in IDs : (q[i].status = "none") = (o[i].status = "none") BY <1>q, <1>x, <1>c
<1>p. \A i \in IDs : q[i].status = "pending" => o[i].status = "pending" BY <1>q
<1>o. \A i \in IDs : q[i].status = "open" => o[i].status = "open" /\ i # c /\ i # x BY <1>q
<1>1. Fresh(m, q) BY <1>n DEF Safe, Fresh
<1>3. Asked(m, K, fo, fr, q)
  <2>1. \A p \in Asks(K) : p.id \in IDs BY RequestFacts DEF Asks
  <2> QED BY <2>1, <1>a, <1>n, Zenon DEF Asked
<1>5. Replacing(m, K, fr, q)
  <2>1. Replacing(m, K, fr, o) BY DEF Safe
  <2>2. ASSUME NEW p \in K, p.op = "replace"
        PROVE  /\ q[p.of].status \in {"open", "over"} /\ q[p.of].side = o[p.of].side
               /\ q[p.of].status = "open" => o[p.of].status = "open"
    <3>1. p.of \in IDs /\ o[p.of].status \in {"open", "over"}
      BY <2>1, <2>2, RequestFacts DEF Replacing
    <3> QED BY <3>1, <1>q
  <2> QED BY <2>1, <2>2 DEF Replacing
<1>6. Named(m, q)
  <2>1. ASSUME NEW t \in Sides PROVE NamedOf(m.side[t], t, q)
    <3>1. NamedOf(m.side[t], t, o) BY DEF Safe, Named
    <3>2. /\ m.side[t].orderID \in IDs \cup {Nil} /\ m.side[t].client \in IDs \cup {Nil}
          /\ m.side[t].client2 \in IDs \cup {Nil}
      BY SideFacts
    <3>3. m.side[t].orderID # Nil =>
            /\ q[m.side[t].orderID].status \in {"open", "over"}
            /\ q[m.side[t].orderID].side = t
            /\ q[m.side[t].orderID].status = "open" => m.side[t].client = m.side[t].orderID
      BY <3>1, <3>2, <1>q, <1>o, Zenon DEF NamedOf
    <3>4. m.side[t].client # Nil =>
            /\ q[m.side[t].client].status # "pending"
            /\ q[m.side[t].client].status # "none" => q[m.side[t].client].side = t
      BY <3>1, <3>2, <1>q, <1>n, <1>p, Zenon DEF NamedOf
    <3>5. m.side[t].client2 # Nil =>
            /\ m.side[t].client # Nil /\ m.side[t].orderID # Nil
            /\ q[m.side[t].client2].status # "none" =>
                 q[m.side[t].client].by = m.side[t].client2
      BY <3>1, <3>2, <1>q, <1>n, Zenon DEF NamedOf
    <3> QED BY <3>3, <3>4, <3>5, Zenon DEF NamedOf
  <2> QED BY <2>1 DEF Named
<1>7. Chain(m, q)
  <2>2. ASSUME NEW i \in IDs, q[i].by # Nil
        PROVE  /\ q[i].by # i
               /\ q[i].status \in {"open", "over"}
               /\ q[q[i].by].status # "none"
               /\ q[q[i].by].side = q[i].side
               /\ q[i].status = "open" =>
                    /\ q[q[i].by].status = "pending"
                    /\ m.side[q[i].side].client = i
                    /\ m.side[q[i].side].client2 = q[i].by
                    /\ m.side[q[i].side].price2 = q[q[i].by].price
    <3> DEFINE y == o[i].by
    <3>1. y \in IDs /\ q[i].by = y /\ q[y].side = o[y].side /\ q[y].price = o[y].price
          /\ q[i].side = o[i].side
      BY <2>2, <1>q, OrderFacts, Zenon
    <3>2. y # i /\ o[i].status \in {"open", "over"} /\ o[y].status # "none"
          /\ o[y].side = o[i].side
      BY <3>1, <1>h DEF Chain
    <3>3. q[i].status \in {"open", "over"} BY <3>2, <1>q
    <3>4. ASSUME q[i].status = "open"
          PROVE  q[y].status = "pending" /\ m.side[o[i].side].client = i
                 /\ m.side[o[i].side].client2 = y /\ m.side[o[i].side].price2 = o[y].price
      <4>1. o[i].status = "open" /\ i # c BY <3>4, <1>o, Zenon
      <4>2. o[y].status = "pending" /\ m.side[o[i].side].client = i
            /\ m.side[o[i].side].client2 = y /\ m.side[o[i].side].price2 = o[y].price
        BY <3>1, <4>1, <1>h DEF Chain
      <4>3. y # c BY <4>2, <1>c
      <4>4. y # x
        BY <4>1, <4>2, <3>1, <3>2, <1>x
      <4> QED BY <4>2, <4>3, <4>4, <3>1, <1>q, Zenon
    <3> QED BY <3>1, <3>2, <3>3, <3>4, <1>n, Zenon
  <2>3. \A i \in IDs : q[i].status = "pending" => q[i].price > 0 BY <1>p, <1>q, <1>h DEF Chain
  <2> QED BY <2>2, <2>3, Zenon DEF Chain
<1>8. Opened(m, q)
  <2>1. Opened(m, o) BY DEF Safe
  <2> QED BY <2>1, <1>o, <1>q DEF Opened
<1>9. Heard(m, st, o) BY DEF Safe
<1>10. Heard(m, st, q)
  <2>2. Grows(o, q) BY <1>q DEF Grows, SameTerms
  <2> QED BY <2>2, <1>9, HeardStill
<1>11. Heard(m, Append(st, v), q)
  <2>1. HeardOf(m, v, q)
    <3>1. q[c].status = "over" /\ q[c].side = o[c].side /\ q[c].by = x BY <1>q DEF x
    <3>2. x = Nil \/ q[x].status = "over" BY <1>x, <1>q, Zenon
    <3> QED BY <3>1, <3>2 DEF HeardOf
  <2>2. \A i \in 1..Len(st) : st[i].id = v.id => ~ st[i].final
    BY <1>9, <1>c, Zenon DEF Heard, HeardOf
  <2> QED BY <2>1, <2>2, <1>10, HeardAppend
<1>12. ASSUME NEW w \in Events, x # Nil, w.id = x, w.side = o[w.id].side, w.event # "replaced"
       PROVE  Heard(m, Append(Append(st, v), w), q)
  <2>1. HeardOf(m, w, q)
    <3>1. q[x].status = "over" /\ q[x].side = o[x].side /\ q[x].by = Nil BY <1>12, <1>q, <1>x
    <3> QED BY <3>1, <1>12 DEF HeardOf
  <2>2. \A i \in 1..Len(st) : st[i].id # x BY <1>9, <1>x, <1>12, Zenon DEF Heard, HeardOf
  <2>3. \A i \in 1..Len(Append(st, v)) : Append(st, v)[i].id # w.id
    <3>1. Len(st) \in Nat /\ \A i \in 1..Len(Append(st, v)) : i \in 1..Len(st) \/ i = Len(st) + 1
      BY AppendFacts
    <3> QED BY <3>1, <2>2, <1>12, <1>x, AppendFacts
  <2>4. Append(st, v) \in Seq(Events) BY AppendFacts
  <2> QED BY <2>1, <2>3, <2>4, <1>11, HeardAppend, Zenon
<1> QED BY <1>1, <1>3, <1>5, <1>6, <1>7, <1>8, <1>11, <1>12 DEF Safe, x

(* An order of which a part is traded. *)
LEMMA FillKeeps ==
  ASSUME NEW m \in Makers, NEW K \in SUBSET Requests, NEW fo \in SUBSET IDs,
         NEW fr \in SUBSET IDs, NEW st \in Seq(Events), NEW o \in Orders,
         NEW c \in IDs, Safe(m, K, fo, fr, st, o), NEW q \in Orders,
         o[c].status = "open",
         \A i \in IDs : SameTerms(o, q, i) /\ q[i].by = o[i].by /\ q[i].status = o[i].status,
         NEW v \in Events, v.id = c, v.side = o[c].side, v.event # "replaced", ~ v.final
  PROVE  Safe(m, K, fo, fr, Append(st, v), q)
<1> USE IDFacts
<1>h. Chain(m, o) BY DEF Safe
<1>q. \A i \in IDs : /\ q[i].side = o[i].side /\ q[i].price = o[i].price /\ q[i].by = o[i].by
                     /\ q[i].status = o[i].status
  BY DEF SameTerms
<1>1. Fresh(m, q) BY <1>q DEF Safe, Fresh
<1>3. Asked(m, K, fo, fr, q)
  <2>1. \A p \in Asks(K) : p.id \in IDs BY RequestFacts DEF Asks
  <2> QED BY <2>1, <1>q DEF Safe, Asked
<1>5. Replacing(m, K, fr, q)
  <2>1. Replacing(m, K, fr, o) BY Zenon DEF Safe
  <2>2. \A p \in K : p.op = "replace" => p.of \in IDs BY RequestFacts
  <2> QED BY <2>1, <2>2, <1>q, Zenon DEF Replacing
<1>6. Named(m, q)
  <2>1. ASSUME NEW t \in Sides PROVE NamedOf(m.side[t], t, q)
    <3>1. NamedOf(m.side[t], t, o) BY Zenon DEF Safe, Named
    <3>2. /\ m.side[t].orderID \in IDs \cup {Nil} /\ m.side[t].client \in IDs \cup {Nil}
          /\ m.side[t].client2 \in IDs \cup {Nil}
      BY SideFacts
    <3> QED BY <3>1, <3>2, <1>q, Zenon DEF NamedOf
  <2> QED BY <2>1 DEF Named
<1>7. Chain(m, q)
  <2>1. \A i \in IDs : o[i].by \in IDs \cup {Nil} BY OrderFacts
  <2>2. ASSUME NEW i \in IDs, q[i].by # Nil
        PROVE  /\ q[i].by # i
               /\ q[i].status \in {"open", "over"}
               /\ q[q[i].by].status # "none"
               /\ q[q[i].by].side = q[i].side
               /\ q[i].status = "open" =>
                    /\ q[q[i].by].status = "pending"
                    /\ m.side[q[i].side].client = i
                    /\ m.side[q[i].side].client2 = q[i].by
                    /\ m.side[q[i].side].price2 = q[q[i].by].price
    <3> DEFINE y == o[i].by
    <3>1. y \in IDs /\ q[i].by = y BY <2>1, <2>2, <1>q, Zenon
    <3>2. /\ q[y].side = o[y].side /\ q[y].price = o[y].price /\ q[y].status = o[y].status
          /\ q[i].side = o[i].side /\ q[i].status = o[i].status
      BY <3>1, <1>q, Zenon
    <3> QED BY <3>1, <3>2, <1>h DEF Chain
  <2>3. \A i \in IDs : q[i].status = "pending" => q[i].price > 0 BY <1>q, <1>h DEF Chain
  <2> QED BY <2>2, <2>3 DEF Chain
<1>8. Opened(m, q) BY <1>q, Zenon DEF Safe, Opened
<1>9. Heard(m, st, o) BY DEF Safe
<1>10. Heard(m, st, q)
  <2>2. Grows(o, q) BY <1>q DEF Grows, SameTerms
  <2> QED BY <2>2, <1>9, HeardStill
<1>11. Heard(m, Append(st, v), q)
  <2>1. HeardOf(m, v, q) BY <1>q DEF HeardOf
  <2>2. \A i \in 1..Len(st) : st[i].id = v.id => ~ st[i].final
    BY <1>9 DEF Heard, HeardOf
  <2> QED BY <2>1, <2>2, <1>10, HeardAppend
<1> QED BY <1>1, <1>3, <1>5, <1>6, <1>7, <1>8, <1>11 DEF Safe

(* A replacement that is carried out: u tells of c, v of its successor. *)
LEMMA SwapKeeps ==
  ASSUME NEW m \in Makers, NEW K \in SUBSET Requests, NEW fo \in SUBSET IDs,
         NEW fr \in SUBSET IDs, NEW st \in Seq(Events), NEW o \in Orders,
         NEW c \in IDs, Safe(m, K, fo, fr, st, o), NEW q \in Orders,
         o[c].status = "open", o[c].by # Nil, ReplacedTo(o, q, c, o[c].by),
         NEW u \in Events, u.id = c, u.side = o[c].side, u.by = o[c].by, u.event = "replaced",
         u.final,
         NEW v \in Events, v.id = o[c].by, v.side = o[v.id].side, v.event # "replaced", ~ v.final
  PROVE  Safe(m, K, fo, fr, Append(Append(st, u), v), q)
<1> USE IDFacts
<1> DEFINE x == o[c].by
           s == o[c].side
<1>a. Asked(m, K, fo, fr, o) BY DEF Safe
<1>h. Chain(m, o) BY DEF Safe
<1>x. /\ x \in IDs /\ x # c /\ o[x].status = "pending" /\ o[x].side = s
      /\ o[x].by = Nil /\ o[x].price > 0
      /\ m.side[s].client = c /\ m.side[s].client2 = x /\ m.side[s].price2 = o[x].price
  BY <1>h, OrderFacts, Zenon DEF Chain
<1>c. o[c].status = "open" /\ s \in Sides BY OrderFacts
<1>q. /\ \A i \in IDs : q[i].side = o[i].side /\ q[i].price = o[i].price /\ q[i].by = o[i].by
      /\ \A i \in IDs : q[i].status = IF i = c THEN "over" ELSE
                                      IF i = x THEN "open" ELSE o[i].status
  BY <1>x DEF ReplacedTo, SameTerms
<1>u. /\ u.id = c /\ u.side = s /\ u.by = x /\ u.event = "replaced" /\ u.final
      /\ v.id = x /\ v.side = s /\ v.event # "replaced" /\ ~ v.final
  BY <1>x
<1>z. q[c].by = x BY <1>q
<1> HIDE DEF x, s
<1>n. \A i \in IDs : (q[i].status = "none") = (o[i].status = "none") BY <1>q, <1>x, <1>c
<1>p. \A i \in IDs : q[i].status = "pending" => o[i].status = "pending" BY <1>q
<1>o. \A i \in IDs : q[i].status = "open" => i = x \/ (o[i].status = "open" /\ i # c) BY <1>q
<1>1. Fresh(m, q) BY <1>n DEF Safe, Fresh
<1>3. Asked(m, K, fo, fr, q)
  <2>1. \A p \in Asks(K) : p.id \in IDs BY RequestFacts, Zenon DEF Asks
  <2> QED BY <2>1, <1>a, <1>n, Zenon DEF Asked
<1>5. Replacing(m, K, fr, q)
  <2>1. Replacing(m, K, fr, o) BY DEF Safe
  <2>2. ASSUME NEW p \in K, p.op = "replace"
        PROVE  /\ q[p.of].status \in {"open", "over"} /\ q[p.of].side = o[p.of].side
               /\ q[p.of].status = "open" => o[p.of].status = "open"
    <3>1. p.of \in IDs /\ o[p.of].status \in {"open", "over"}
      BY <2>1, <2>2, RequestFacts, Zenon DEF Replacing
    <3>2. p.of # x BY <3>1, <1>x
    <3> QED BY <3>1, <3>2, <1>q
  <2> QED BY <2>1, <2>2 DEF Replacing
<1>6. Named(m, q)
  <2>1. ASSUME NEW t \in Sides PROVE NamedOf(m.side[t], t, q)
    <3>1. NamedOf(m.side[t], t, o) BY DEF Safe, Named
    <3>2. /\ m.side[t].orderID \in IDs \cup {Nil} /\ m.side[t].client \in IDs \cup {Nil}
          /\ m.side[t].client2 \in IDs \cup {Nil}
      BY SideFacts
    <3>3. m.side[t].orderID # Nil =>
            /\ q[m.side[t].orderID].status \in {"open", "over"}
            /\ q[m.side[t].orderID].side = t
            /\ q[m.side[t].orderID].status = "open" => m.side[t].client = m.side[t].orderID
      <4>1. m.side[t].orderID # x BY <3>1, <1>x, Zenon DEF NamedOf
      <4>2. m.side[t].orderID # Nil =>
              /\ m.side[t].orderID \in IDs
              /\ o[m.side[t].orderID].status \in {"open", "over"}
              /\ o[m.side[t].orderID].side = t
              /\ o[m.side[t].orderID].status = "open" => m.side[t].client = m.side[t].orderID
        BY <3>1, <3>2, Zenon DEF NamedOf
      <4>3. ASSUME NEW y \in IDs, y # x, o[y].status \in {"open", "over"}
            PROVE  /\ q[y].status \in {"open", "over"} /\ q[y].side = o[y].side
                   /\ q[y].status = "open" => o[y].status = "open"
        BY <4>3, <1>q
      <4> QED BY <4>1, <4>2, <4>3, Zenon
    <3>4. m.side[t].client # Nil =>
            /\ q[m.side[t].client].status # "pending"
            /\ q[m.side[t].client].status # "none" => q[m.side[t].client].side = t
      BY <3>1, <3>2, <1>q, <1>n, <1>p, Zenon DEF NamedOf
    <3>5. m.side[t].client2 # Nil =>
            /\ m.side[t].client # Nil /\ m.side[t].orderID # Nil
            /\ q[m.side[t].client2].status # "none" =>
                 q[m.side[t].client].by = m.side[t].client2
      BY <3>1, <3>2, <1>q, <1>n, Zenon DEF NamedOf
    <3> QED BY <3>3, <3>4, <3>5, Zenon DEF NamedOf
  <2> QED BY <2>1 DEF Named
<1>7. Chain(m, q)
  <2>2. ASSUME NEW i \in IDs, q[i].by # Nil
        PROVE  /\ q[i].by # i
               /\ q[i].status \in {"open", "over"}
               /\ q[q[i].by].status # "none"
               /\ q[q[i].by].side = q[i].side
               /\ q[i].status = "open" =>
                    /\ q[q[i].by].status = "pending"
                    /\ m.side[q[i].side].client = i
                    /\ m.side[q[i].side].client2 = q[i].by
                    /\ m.side[q[i].side].price2 = q[q[i].by].price
    <3> DEFINE y == o[i].by
    <3>1. y \in IDs /\ q[i].by = y /\ q[y].side = o[y].side /\ q[y].price = o[y].price
          /\ q[i].side = o[i].side
      BY <2>2, <1>q, OrderFacts, Zenon
    <3>2. y # i /\ o[i].status \in {"open", "over"} /\ o[y].status # "none"
          /\ o[y].side = o[i].side
      BY <3>1, <1>h DEF Chain
    <3>3. q[i].status \in {"open", "over"} BY <3>2, <1>q
    <3>4. ASSUME q[i].status = "open"
          PROVE  q[y].status = "pending" /\ m.side[o[i].side].client = i
                 /\ m.side[o[i].side].client2 = y /\ m.side[o[i].side].price2 = o[y].price
      <4>0. i # x BY <3>1, <1>x
      <4>1. o[i].status = "open" /\ i # c BY <3>4, <4>0, <1>o
      <4>2. o[y].status = "pending" /\ m.side[o[i].side].client = i
            /\ m.side[o[i].side].client2 = y /\ m.side[o[i].side].price2 = o[y].price
        BY <3>1, <4>1, <1>h, Zenon DEF Chain
      <4>3. y # c BY <4>2, <1>c
      <4>4. y # x
        BY <4>1, <4>2, <3>1, <3>2, <1>x
      <4> QED BY <4>2, <4>3, <4>4, <3>1, <1>q, Zenon
    <3> QED BY <3>1, <3>2, <3>3, <3>4, <1>n, Zenon
  <2>3. \A i \in IDs : q[i].status = "pending" => q[i].price > 0 BY <1>p, <1>q, <1>h DEF Chain
  <2> QED BY <2>2, <2>3, Zenon DEF Chain
<1>8. Opened(m, q)
  <2>1. Opened(m, o) BY DEF Safe
  <2>2. q[x].price > 0 /\ AtSlot(m, x, q[x].side, q[x].price) BY <1>x, <1>q DEF AtSlot
  <2> QED BY <2>1, <2>2, <1>o, <1>q DEF Opened
<1>9. Heard(m, st, o) BY DEF Safe
<1>10. Heard(m, st, q)
  <2>2. Grows(o, q) BY <1>q, <1>x DEF Grows, SameTerms
  <2> QED BY <2>2, <1>9, HeardStill
<1>11. Heard(m, Append(st, u), q)
  <2>1. HeardOf(m, u, q)
    <3>1. q[c].status = "over" /\ q[c].side = s /\ q[x].status = "open" /\ q[x].price = o[x].price
      BY <1>q, <1>x DEF s
    <3> QED BY <3>1, <1>x, <1>z, <1>u DEF HeardOf
  <2>2. \A i \in 1..Len(st) : st[i].id = u.id => ~ st[i].final
    BY <1>9, <1>c, <1>u DEF Heard, HeardOf
  <2> QED BY <2>1, <2>2, <1>10, HeardAppend
<1>12. Heard(m, Append(Append(st, u), v), q)
  <2>1. HeardOf(m, v, q)
    <3>1. q[x].status = "open" /\ q[x].side = s BY <1>q, <1>x
    <3> QED BY <3>1, <1>u, Zenon DEF HeardOf
  <2>2. \A i \in 1..Len(st) : st[i].id # x BY <1>9, <1>x, Zenon DEF Heard, HeardOf
  <2>3. \A i \in 1..Len(Append(st, u)) : Append(st, u)[i].id # v.id
    <3>1. Len(st) \in Nat /\ \A i \in 1..Len(Append(st, u)) : i \in 1..Len(st) \/ i = Len(st) + 1
      BY AppendFacts
    <3> QED BY <3>1, <2>2, <1>u, <1>x, AppendFacts
  <2>4. Append(st, u) \in Seq(Events) BY AppendFacts
  <2> QED BY <2>1, <2>3, <2>4, <1>11, HeardAppend, Zenon
<1> QED BY <1>1, <1>3, <1>5, <1>6, <1>7, <1>8, <1>12 DEF Safe

-----------------------------------------------------------------------------
(* The main loop keeps it. *)

(* A clamped price crosses no price of the other side (the clamp of         *)
(* Evaluate).                                                               *)
LEMMA ClampClear ==
  ASSUME NEW m \in Makers, NEW p \in Int, Apart(m)
  PROVE  /\ ClampBuy(m, p) <= p /\ Clear(m, "buy", ClampBuy(m, p))
         /\ p > 0 => ClampSell(m, p) >= p /\ Clear(m, "sell", ClampSell(m, p))
<1> DEFINE b == m.side["buy"]
           d == m.side["sell"]
<1>1. /\ b.price \in Int /\ b.price2 \in Int /\ d.price \in Int /\ d.price2 \in Int
  BY SideFacts DEF Sides
<1>2. d.price >= 0 /\ d.price2 >= 0 BY DEF Apart
<1>3. /\ SellFloor(d) \in Int
      /\ \A q \in {d.price, d.price2} : q > 0 => SellFloor(d) > 0 /\ SellFloor(d) <= q
  BY <1>1, <1>2 DEF SellFloor
<1>4. /\ BuyCeil(b) \in Int
      /\ \A q \in {b.price, b.price2} : q > 0 => BuyCeil(b) > 0 /\ BuyCeil(b) >= q
  BY <1>1 DEF BuyCeil
<1>5. ClampBuy(m, p) = IF SellFloor(d) > 0 /\ p >= SellFloor(d) THEN SellFloor(d) - 1 ELSE p
  BY DEF ClampBuy
<1>6. ClampSell(m, p) = IF BuyCeil(b) > 0 /\ p <= BuyCeil(b) THEN BuyCeil(b) + 1 ELSE p
  BY DEF ClampSell
<1>7. ClampBuy(m, p) <= p BY <1>3, <1>5
<1>8. Clear(m, "buy", ClampBuy(m, p))
  <2>1. \A q \in {d.price, d.price2} : q > 0 => ClampBuy(m, p) < q BY <1>1, <1>3, <1>5
  <2> QED BY <2>1 DEF Clear
<1>9. ASSUME p > 0 PROVE ClampSell(m, p) >= p /\ Clear(m, "sell", ClampSell(m, p))
  <2>1. ClampSell(m, p) \in Int /\ ClampSell(m, p) >= p BY <1>4, <1>6
  <2>2. \A q \in {b.price, b.price2} : q > 0 => q < ClampSell(m, p) BY <1>1, <1>4, <1>6
  <2> QED BY <1>9, <2>1, <2>2 DEF Clear
<1> QED BY <1>7, <1>8, <1>9

(* What a requote leaves of a side's prices. *)
LEMMA RequotePrices ==
  ASSUME NEW m \in Makers, NEW s \in Sides, NEW room, NEW p \in Int
  PROVE  LET n == Requote(m, s, room, p) IN
         /\ n \in Makers /\ n.position = m.position
         /\ \A t \in Sides \ {s} : n.side[t] = m.side[t]
         /\ n.side[s].price \in {m.side[s].price, p}
         /\ n.side[s].price2 \in {m.side[s].price2, p}
<1>1. p > 0 \/ p <= 0 OBVIOUS
<1> DEFINE n == Requote(m, s, room, p)
<1>0. n \in Makers BY RequoteTypes
<1>2. CASE n = m BY <1>2, <1>0
<1>3. CASE m.next <= MaxOrders /\ n = LimitOrder(m, s, p)
  <2>1. CASE p > 0 BY <1>0, <1>3, <2>1, LimitSent DEF SameOtherwise, SideIs
  <2>2. CASE p <= 0 BY <1>0, <1>3, <2>2, LimitUnsent DEF SameOtherwise, SideIs
  <2> QED BY <1>1, <2>1, <2>2
<1>4. CASE m.next <= MaxOrders /\ n = ReplaceOrder(m, s, p)
  <2>1. CASE m.side[s].orderID # Nil BY <1>0, <1>4, <2>1, ReplaceSent DEF SameOtherwise, SideIs
  <2>2. CASE m.side[s].orderID = Nil BY <1>0, <1>4, <2>2, ReplaceUnsent DEF SameOtherwise, SideIs
  <2> QED BY <2>1, <2>2
<1> QED BY <1>2, <1>3, <1>4, RequoteCases

(* A requote at a clear price keeps Safe. *)
LEMMA RequoteKeeps ==
  ASSUME NEW m \in Makers, NEW s \in Sides, NEW room, NEW p \in Int,
         NEW K \in SUBSET Requests, NEW fo \in SUBSET IDs, NEW fr \in SUBSET IDs,
         NEW st \in Seq(Events), NEW o \in Orders,
         Safe(m, K \cup m.spawned, fo, fr, st, o), Clear(m, s, p)
  PROVE  LET n == Requote(m, s, room, p) IN Safe(n, K \cup n.spawned, fo, fr, st, o)
<1> DEFINE n == Requote(m, s, room, p)
           L == K \cup m.spawned
<1>0. n \in Makers /\ L \in SUBSET Requests BY RequoteTypes, MakerFacts
<1>p. /\ \A t \in Sides \ {s} : n.side[t] = m.side[t]
      /\ n.side[s].price \in {m.side[s].price, p}
      /\ n.side[s].price2 \in {m.side[s].price2, p}
  BY RequotePrices
<1>s. Safe(m, L, fo, fr, st, o) OBVIOUS
<1>1. p > 0 \/ p <= 0 OBVIOUS
<1>a. Apart(n)
  <2>1. Apart(m) BY DEF Safe
  <2>2. CASE s = "buy"
    <3>1. n.side["sell"] = m.side["sell"] BY <1>p, <2>2 DEF Sides
    <3> QED BY <2>1, <2>2, <3>1, <1>p DEF Apart, Clear
  <2>3. CASE s = "sell"
    <3>1. n.side["buy"] = m.side["buy"] BY <1>p, <2>3 DEF Sides
    <3> QED BY <2>1, <2>3, <3>1, <1>p DEF Apart, Clear
  <2> QED BY <2>2, <2>3 DEF Sides
<1> HIDE DEF n, L
<1>2. CASE n = m BY <1>2, <1>s DEF L, n
<1>3. CASE m.next <= MaxOrders /\ m.side[s].client = Nil /\ n = LimitOrder(m, s, p)
  <2>1. CASE p > 0
    <3>1. SameOtherwise(m, n, s) /\ AsksFor(m, n, CreateOf(m, s, p))
          /\ SideIs(n.side[s], m.side[s].orderID, m.next, m.side[s].client2,
                    p, m.side[s].price2)
      BY <1>3, <2>1, LimitSent
    <3>2. Safe(n, L \cup {CreateOf(m, s, p)}, fo, fr, st, o)
      BY <1>0, <1>s, <1>3, <2>1, <3>1, LimitKeeps
    <3>3. K \cup n.spawned = L \cup {CreateOf(m, s, p)} BY <3>1 DEF AsksFor, L
    <3> QED BY <3>2, <3>3, Zenon DEF n
  <2>2. CASE p <= 0
    <3>1. SameOtherwise(m, n, s) /\ NothingNew(m, n)
          /\ SideIs(n.side[s], m.side[s].orderID, m.side[s].client, m.side[s].client2,
                    p, m.side[s].price2)
      BY <1>3, <2>2, LimitUnsent
    <3>2. Safe(n, L, fo, fr, st, o)
      BY <1>0, <1>s, <1>a, <1>3, <3>1, PriceKeeps, Zenon DEF SideIs, NothingNew
    <3>3. K \cup n.spawned = L BY <3>1 DEF NothingNew, L
    <3> QED BY <3>2, <3>3, Zenon DEF n
  <2> QED BY <1>1, <2>1, <2>2
<1>4. CASE m.next <= MaxOrders /\ m.side[s].client # Nil /\ m.side[s].client2 = Nil
           /\ n = ReplaceOrder(m, s, p)
  <2>1. CASE m.side[s].orderID # Nil
    <3>1. SameOtherwise(m, n, s) /\ AsksFor(m, n, ReplaceOf(m, s, p))
          /\ SideIs(n.side[s], m.side[s].orderID, m.side[s].client, m.next,
                    m.side[s].price, p)
      BY <1>4, <2>1, ReplaceSent
    <3>2. Safe(n, L \cup {ReplaceOf(m, s, p)}, fo, fr, st, o)
      BY <1>0, <1>s, <1>4, <2>1, <3>1, ReplaceKeeps
    <3>3. K \cup n.spawned = L \cup {ReplaceOf(m, s, p)} BY <3>1 DEF AsksFor, L
    <3> QED BY <3>2, <3>3, Zenon DEF n
  <2>2. CASE m.side[s].orderID = Nil
    <3>1. SameOtherwise(m, n, s) /\ NothingNew(m, n)
          /\ SideIs(n.side[s], m.side[s].orderID, m.side[s].client, m.side[s].client2,
                    m.side[s].price, p)
      BY <1>4, <2>2, ReplaceUnsent
    <3>2. Safe(n, L, fo, fr, st, o)
      BY <1>0, <1>s, <1>a, <1>4, <3>1, PriceKeeps DEF SideIs, NothingNew
    <3>3. K \cup n.spawned = L BY <3>1 DEF NothingNew, L
    <3> QED BY <3>2, <3>3, Zenon DEF n
  <2> QED BY <2>1, <2>2
<1>5. \/ n = m
      \/ m.next <= MaxOrders /\ m.side[s].client = Nil /\ n = LimitOrder(m, s, p)
      \/ m.next <= MaxOrders /\ m.side[s].client # Nil /\ m.side[s].client2 = Nil
         /\ n = ReplaceOrder(m, s, p)
  BY RequoteCases DEF n
<1> QED BY <1>2, <1>3, <1>4, <1>5

(* The two requotes of an evaluation, with the prices they are made at. *)
TradesAt(m, n, a, p, q) ==
  /\ p \in Int /\ q \in Int /\ Clear(m, "buy", p) /\ Clear(a, "sell", q)
  /\ a = Requote(m, "buy", m.position + Qty <= MaximumPosition, p)
  /\ n = Requote(a, "sell", m.position - Qty >= MinimumPosition, q)
  /\ a \in Makers /\ a.position = m.position

(* An evaluation is two requotes, each at a price that crosses nothing. *)
LEMMA EvaluateCases ==
  ASSUME NEW m \in Makers, Apart(m), NEW n \in Evaluate(m)
  PROVE  n = m \/ \E a, p, q : TradesAt(m, n, a, p, q)
<1>1. CASE n = m BY <1>1
<1>2. ASSUME NEW k \in Markets, n = Trade(m, Quote(k)) PROVE \E a, p, q : TradesAt(m, n, a, p, q)
  <2> DEFINE p == ClampBuy(m, Quote(k).buy)
             q == ClampSell(m, Quote(k).sell)
             a == Requote(m, "buy", m.position + Qty <= MaximumPosition, p)
  <2>0. "buy" \in Sides /\ "sell" \in Sides /\ "buy" # "sell" BY DEF Sides
  <2>1. Quote(k).buy \in Int /\ Quote(k).sell \in Int /\ Quote(k).buy < Quote(k).sell
        /\ Quote(k).sell > 0
    BY QuoteFacts
  <2>2. p \in Int /\ q \in Int BY <2>1, ClampTypes
  <2>3. p <= Quote(k).buy /\ Clear(m, "buy", p) BY <2>1, ClampClear
  <2>4. q >= Quote(k).sell /\ Clear(m, "sell", q) BY <2>1, ClampClear
  <2>5. p < q BY <2>1, <2>2, <2>3, <2>4
  <2>6. n = Requote(a, "sell", m.position - Qty >= MinimumPosition, q) BY <1>2 DEF Trade
  <2> HIDE DEF p, q
  <2>7. a \in Makers /\ a.position = m.position /\ a.side["sell"] = m.side["sell"]
        /\ a.side["buy"].price \in {m.side["buy"].price, p}
        /\ a.side["buy"].price2 \in {m.side["buy"].price2, p}
    BY <2>0, <2>2, RequotePrices
  <2> HIDE DEF a
  <2>8. Clear(a, "sell", q) BY <2>4, <2>5, <2>7 DEF Clear
  <2> QED BY <2>2, <2>3, <2>6, <2>7, <2>8 DEF TradesAt, a
<1> QED BY <1>1, <1>2 DEF Evaluate

(* So an evaluation keeps Safe. *)
LEMMA EvaluateKeeps ==
  ASSUME NEW m \in Makers, NEW n \in Evaluate(m),
         NEW K \in SUBSET Requests, NEW fo \in SUBSET IDs, NEW fr \in SUBSET IDs,
         NEW st \in Seq(Events), NEW o \in Orders,
         Safe(m, K \cup m.spawned, fo, fr, st, o)
  PROVE  Safe(n, K \cup n.spawned, fo, fr, st, o)
<1>1. CASE n = m BY <1>1
<1>2. ASSUME NEW a, NEW p, NEW q, TradesAt(m, n, a, p, q)
      PROVE  Safe(n, K \cup n.spawned, fo, fr, st, o)
  <2>0. "buy" \in Sides /\ "sell" \in Sides BY DEF Sides
  <2>1. Safe(a, K \cup a.spawned, fo, fr, st, o)
    BY <1>2, <2>0, RequoteKeeps, Zenon DEF TradesAt
  <2> QED BY <1>2, <2>0, <2>1, RequoteKeeps, Zenon DEF TradesAt
<1> QED BY <1>1, <1>2, EvaluateCases, Zenon DEF Safe

(* Taking an event off the stream keeps Safe. *)
LEMMA TailKeeps ==
  ASSUME NEW m \in Makers, NEW K \in SUBSET Requests, NEW fo \in SUBSET IDs,
         NEW fr \in SUBSET IDs, NEW st \in Seq(Events), NEW o \in Orders,
         Safe(m, K, fo, fr, st, o), st # << >>
  PROVE  /\ Safe(m, K, fo, fr, Tail(st), o)
         /\ Head(st) \in Events /\ HeardOf(m, Head(st), o)
         /\ Head(st).final => \A i \in 1..Len(Tail(st)) : Tail(st)[i].id # Head(st).id
<1>1. /\ Head(st) \in Events /\ Head(st) = st[1] /\ Len(st) >= 1
      /\ Tail(st) \in Seq(Events) /\ Len(Tail(st)) = Len(st) - 1
      /\ \A i \in 1..Len(Tail(st)) : Tail(st)[i] = st[i + 1]
  BY TailFacts
<1>2. Len(st) \in Nat BY EventFacts
<1>3. Safe(m, K, fo, fr, Tail(st), o)
  <2>1. Len(Tail(st)) + 1 <= Len(st) /\ 1 \in Nat BY <1>1, <1>2
  <2> QED BY <1>1, <2>1, PartKeeps, Zenon
<1>4. 1 \in 1..Len(st) BY <1>1, <1>2
<1>5. HeardOf(m, Head(st), o) BY <1>1, <1>4 DEF Safe, Heard
<1>6. ASSUME Head(st).final, NEW i \in 1..Len(Tail(st)) PROVE Tail(st)[i].id # Head(st).id
  <2>1. i + 1 \in 1..Len(st) /\ 1 < i + 1 /\ Tail(st)[i] = st[i + 1] BY <1>1, <1>2
  <2> QED BY <1>1, <1>4, <1>6, <2>1 DEF Safe, Heard, LastWord
<1> QED BY <1>1, <1>3, <1>5, <1>6

(* An event stays true while its side's slots do not change. *)
LEMMA HeardSlots ==
  ASSUME NEW m \in Makers, NEW n \in Makers, NEW u \in Events, NEW o \in Orders,
         HeardOf(m, u, o),
         n.side[u.side].client = m.side[u.side].client,
         n.side[u.side].client2 = m.side[u.side].client2,
         n.side[u.side].price2 = m.side[u.side].price2
  PROVE  HeardOf(n, u, o)
BY Zenon DEF HeardOf

(* The main loop's state after an update of an order it knows, before the  *)
(* order is removed.                                                       *)
Handled(m, u) == MovedBy(FilledBy(NamedBy(m, u), u), u)

(* The steps of the handler, field by field. *)
LEMMA NamedFacts ==
  ASSUME NEW m \in Makers, NEW u \in Events
  PROVE  LET n == NamedBy(m, u) IN
         /\ n \in Makers /\ n.spawned = m.spawned /\ n.position = m.position
         /\ n.orders = m.orders /\ n.next = m.next
         /\ \A t \in Sides : /\ n.side[t].client = m.side[t].client
                             /\ n.side[t].client2 = m.side[t].client2
                             /\ n.side[t].price = m.side[t].price
                             /\ n.side[t].price2 = m.side[t].price2
<1>1. u.side \in Sides /\ u.id \in IDs BY DEF Events
<1>2. CASE m.side[u.side].orderID = Nil
  BY <1>1, <1>2, NameFacts DEF NamedBy, SameOtherwise, NothingNew, SideIs
<1>3. CASE m.side[u.side].orderID # Nil BY <1>3 DEF NamedBy
<1> QED BY <1>2, <1>3

(* What the fill of an update changes. *)
LEMMA FillFacts ==
  ASSUME NEW m \in Makers, NEW u \in Events
  PROVE  LET n == FilledBy(m, u) IN
         /\ n \in Makers /\ SameBooks(m, n) /\ n.spawned = m.spawned
         /\ n.position = IF u.qty > 0 THEN u.position ELSE m.position
<1>1. u.position \in Int BY DEF Events
<1>2. [m EXCEPT !.position = u.position] \in Makers BY <1>1 DEF Makers
<1> QED BY <1>2 DEF FilledBy, SameBooks, Makers

(* What the event of an update changes. *)
LEMMA MoveFacts ==
  ASSUME NEW m \in Makers, NEW u \in Events, u.event # "replaced"
  PROVE  LET n == MovedBy(m, u) IN
         n \in Makers /\ SameBooks(m, n) /\ n.spawned = m.spawned /\ n.position = m.position
<1>2. [m EXCEPT !.cooldown = TRUE] \in Makers BY Zenon DEF Makers
<1> QED BY <1>2 DEF MovedBy, SameBooks, Makers

(* What an update changes before the order is removed. *)
LEMMA HandledFacts ==
  ASSUME NEW m \in Makers, NEW u \in Events
  PROVE  LET n == Handled(m, u) IN
         /\ n \in Makers /\ n.spawned = m.spawned
         /\ n.position = IF u.qty > 0 THEN u.position ELSE m.position
<1> DEFINE a == NamedBy(m, u)
           b == FilledBy(a, u)
           n == MovedBy(b, u)
<1>1. a \in Makers /\ a.spawned = m.spawned /\ a.position = m.position BY NamedFacts
<1> HIDE DEF a
<1>2. b \in Makers /\ b.spawned = a.spawned
      /\ b.position = IF u.qty > 0 THEN u.position ELSE a.position
  BY <1>1, FillFacts
<1> HIDE DEF b
<1>u. u.side \in Sides BY DEF Events
<1>3. n \in Makers /\ n.spawned = b.spawned /\ n.position = b.position
  <2>1. CASE u.event = "replaced"
    <3>1. n = OnReplaced(b, u) BY <2>1 DEF MovedBy
    <3> QED BY <1>2, <3>1, ReplacedFacts DEF SameOtherwise
  <2>2. CASE u.event # "replaced" BY <1>2, <2>2, MoveFacts
  <2> QED BY <2>1, <2>2
<1> QED BY <1>1, <1>2, <1>3 DEF Handled, n, b, a

(* The handler keeps Safe, and an order it is to remove is gone. *)
LEMMA HandledKeeps ==
  ASSUME NEW m \in Makers, NEW K \in SUBSET Requests, NEW fo \in SUBSET IDs,
         NEW fr \in SUBSET IDs, NEW st \in Seq(Events), NEW o \in Orders, NEW u \in Events,
         Safe(m, K, fo, fr, st, o), HeardOf(m, u, o),
         u.final => \A i \in 1..Len(st) : st[i].id # u.id
  PROVE  LET n == Handled(m, u) IN
         /\ n \in Makers /\ n.spawned = m.spawned
         /\ Safe(n, K, fo, fr, st, o)
         /\ u.final => Gone(n, u.id, K, fo, fr, st, o)
<1> USE IDFacts
<1> DEFINE a == NamedBy(m, u)
           b == FilledBy(a, u)
           n == MovedBy(b, u)
<1>u. u.side \in Sides /\ u.id \in IDs BY DEF Events
<1>1. a \in Makers /\ a.spawned = m.spawned
      /\ \A t \in Sides : /\ a.side[t].client = m.side[t].client
                          /\ a.side[t].client2 = m.side[t].client2
                          /\ a.side[t].price = m.side[t].price
                          /\ a.side[t].price2 = m.side[t].price2
  BY NamedFacts
<1>2. Safe(a, K, fo, fr, st, o)
  <2>1. CASE m.side[u.side].orderID = Nil
    <3>1. o[u.id].status \in {"open", "over"} /\ o[u.id].side = u.side BY Zenon DEF HeardOf
    <3>2. a = NameOrder(m, u.side, u.id) BY <2>1 DEF NamedBy
    <3> HIDE DEF a
    <3>3. SameOtherwise(m, a, u.side) /\ NothingNew(m, a)
          /\ SideIs(a.side[u.side], u.id, m.side[u.side].client, m.side[u.side].client2,
                    m.side[u.side].price, m.side[u.side].price2)
      BY <1>u, <3>2, NameFacts
    <3> QED BY <2>1, <1>1, <1>u, <3>1, <3>3, NameKeeps, Zenon
  <2>2. CASE m.side[u.side].orderID # Nil BY <2>2, Zenon DEF NamedBy
  <2> QED BY <2>1, <2>2
<1> HIDE DEF a
<1>3. b \in Makers /\ SameBooks(a, b) /\ b.spawned = a.spawned BY <1>1, FillFacts
<1> HIDE DEF b
<1>4. Safe(b, K, fo, fr, st, o) BY <1>1, <1>2, <1>3, BooksKeep
<1>5. HeardOf(b, u, o) BY <1>1, <1>3, <1>u, HeardSlots, Zenon DEF SameBooks
<1>6. CASE u.event = "replaced"
  <2>1. n = OnReplaced(b, u) BY <1>6 DEF MovedBy
  <2> HIDE DEF n
  <2>2. /\ n \in Makers /\ SameOtherwise(b, n, u.side)
        /\ n.orders = b.orders \ {b.side[u.side].client}
        /\ n.next = b.next /\ n.spawned = b.spawned
        /\ SideIs(n.side[u.side], u.by, b.side[u.side].client2, Nil,
                  b.side[u.side].price2, b.side[u.side].price2)
    BY <1>3, <2>1, ReplacedFacts
  <2>3. u.final /\ u.by # Nil /\ b.side[u.side].client = u.id /\ b.side[u.side].client2 = u.by
        /\ o[u.id].by = u.by
    BY <1>5, <1>6, Zenon DEF HeardOf
  <2>4. \A i \in 1..Len(st) : st[i].id # u.id BY <2>3
  <2>5. Safe(n, K, fo, fr, st, o) BY <1>3, <1>4, <1>5, <1>6, <2>2, <2>4, MoveKeeps, Zenon
  <2>6. \A t \in Sides : n.side[t].client # u.id
    <3>1. o[u.id].by # u.id BY <1>4, <1>u, <2>3, Zenon DEF Safe, Chain
    <3>2. n.side[u.side].client # u.id BY <2>2, <2>3, <3>1, Zenon DEF SideIs
    <3>3. \A t \in Sides \ {u.side} : n.side[t].client # u.id
      BY <1>4, <1>u, <2>2, <2>3 DEF SameOtherwise, Safe, Distinct
    <3> QED BY <3>2, <3>3
  <2>7. o[u.id].status = "over" BY <1>5, <2>3, Zenon DEF HeardOf
  <2>8. Gone(n, u.id, K, fo, fr, st, o)
    BY <1>4, <2>4, <2>6, <2>7, Zenon DEF Gone, Safe, Asked
  <2> QED BY <1>1, <1>3, <2>2, <2>5, <2>8, Zenon DEF Handled, n, b, a
<1>7. CASE u.event # "replaced"
  <2>1. n \in Makers /\ SameBooks(b, n) /\ n.spawned = b.spawned BY <1>3, <1>7, MoveFacts
  <2> HIDE DEF n
  <2>2. Safe(n, K, fo, fr, st, o) BY <1>3, <1>4, <2>1, BooksKeep
  <2>3. ASSUME u.final PROVE Gone(n, u.id, K, fo, fr, st, o)
    <3>1. o[u.id].status = "over" /\ (o[u.id].by = Nil \/ o[o[u.id].by].status = "over")
      BY <1>5, <1>7, <2>3, Zenon DEF HeardOf
    <3> QED BY <1>4, <2>3, <3>1, Zenon DEF Gone, Safe, Asked
  <2> QED BY <1>1, <1>3, <2>1, <2>2, <2>3 DEF Handled, n, b, a
<1> QED BY <1>6, <1>7

(* An update keeps Safe. *)
LEMMA UpdateKeeps ==
  ASSUME NEW m \in Makers, NEW K \in SUBSET Requests, NEW fo \in SUBSET IDs,
         NEW fr \in SUBSET IDs, NEW st \in Seq(Events), NEW o \in Orders,
         Safe(m, K, fo, fr, st, o), st # << >>, m.spawned = {},
         NEW n \in OnOrderUpdate(m, Head(st))
  PROVE  Safe(n, K \cup n.spawned, fo, fr, Tail(st), o)
<1> DEFINE u == Head(st)
           tt == Tail(st)
<1>a. Safe(m, K, fo, fr, Tail(st), o) /\ HeardOf(m, Head(st), o) BY TailKeeps
<1>b. ASSUME Head(st).final
      PROVE  \A i \in 1..Len(Tail(st)) : Tail(st)[i].id # Head(st).id
  BY <1>b, TailKeeps, Zenon
<1>c. Head(st) \in Events /\ Tail(st) \in Seq(Events) BY TailFacts
<1>1. /\ Safe(m, K, fo, fr, tt, o) /\ HeardOf(m, u, o) /\ u \in Events /\ tt \in Seq(Events)
      /\ (u.final => \A i \in 1..Len(tt) : tt[i].id # u.id)
  BY <1>a, <1>b, <1>c
<1>0. n \in OnOrderUpdate(m, u) OBVIOUS
<1> HIDE DEF u, tt
<1>2. CASE u.id \notin m.orders
  <2>1. n = m BY <1>0, <1>2 DEF OnOrderUpdate
  <2>2. K \cup n.spawned = K BY <2>1, Zenon
  <2> QED BY <1>1, <2>1, <2>2, Zenon DEF tt
<1>3. CASE u.id \in m.orders
  <2> DEFINE a == Handled(m, u)
             b == RemoveOrder(a, u.id)
  <2>1. n \in IF u.final THEN Evaluate(b) ELSE {a}
    BY <1>0, <1>3, UpdateSteps DEF Handled
  <2>a. a \in Makers /\ a.spawned = m.spawned BY <1>1, HandledFacts, Zenon
  <2>b. Safe(a, K, fo, fr, tt, o) BY <1>1, HandledKeeps
  <2>c. u.final => Gone(a, u.id, K, fo, fr, tt, o) BY <1>1, HandledKeeps, Zenon
  <2>2. a \in Makers /\ a.spawned = {} /\ Safe(a, K, fo, fr, tt, o)
        /\ (u.final => Gone(a, u.id, K, fo, fr, tt, o))
    BY <2>a, <2>b, <2>c
  <2> HIDE DEF a
  <2>3. CASE ~ u.final
    <3>1. n = a BY <2>1, <2>3
    <3>2. K \cup n.spawned = K BY <2>2, <3>1
    <3> QED BY <2>2, <3>1, <3>2, Zenon DEF tt
  <2>4. CASE u.final
    <3>1. b \in Makers /\ Removed(a, b, u.id) BY <2>2, RemoveFacts
    <3> HIDE DEF b
    <3>2. u.id \in IDs BY <1>1 DEF Events
    <3>3. Safe(b, K, fo, fr, tt, o) BY <1>1, <2>2, <2>4, <3>1, <3>2, RemoveKeeps
    <3>4. b.spawned = {} BY <2>2, <3>1 DEF Removed
    <3>5. K \cup b.spawned = K BY <3>4
    <3>6. n \in Evaluate(b) BY <2>1, <2>4
    <3>7. Safe(n, K \cup n.spawned, fo, fr, tt, o) BY <1>1, <3>1, <3>3, <3>5, <3>6, EvaluateKeeps, Zenon
    <3> QED BY <3>7 DEF tt
  <2> QED BY <2>3, <2>4
<1> QED BY <1>2, <1>3

(* The parts of the inductive invariant that need no event. *)
SafeInv == lost = 0 => Safe(maker, calls, failedOrders, failedReplaces, stream, order)

RunInv == lost = 0 => running

(* What the main loop becomes. *)
LEMMA BecomeKeeps ==
  ASSUME TypeInv, NEW m \in Makers, Become(m),
         NEW fo \in SUBSET IDs, NEW fr \in SUBSET IDs, NEW st \in Seq(Events), NEW o \in Orders,
         Safe(m, calls \cup m.spawned, fo, fr, st, o)
  PROVE  Safe(maker', calls', fo, fr, st, o)
<1>1. maker' = [m EXCEPT !.spawned = {}] /\ calls' = calls \cup m.spawned BY DEF Become
<1>2. maker' \in Makers /\ calls' \subseteq Requests BY BecomeTypes
<1>3. SameBooks(m, maker') BY <1>1 DEF SameBooks, Makers
<1>4. calls' \in SUBSET Requests /\ Safe(m, calls', fo, fr, st, o) BY <1>1, <1>2
<1> QED BY <1>2, <1>3, <1>4, BooksKeep, Zenon

-----------------------------------------------------------------------------
(* The maker finds what failed and never crosses itself. *)

(* Safe at the start. *)
LEMMA InitSafe == Init => SafeInv
<1> SUFFICES ASSUME Init PROVE Safe(maker, calls, failedOrders, failedReplaces, stream, order)
  BY DEF SafeInv
<1> USE IDFacts
<1>1. /\ maker.side = [s \in Sides |-> NoOrder] /\ maker.orders = {} /\ maker.next = 1
  BY DEF Init
<1>2. \A s \in Sides : maker.side[s] = NoOrder BY <1>1
<1>3. /\ NoOrder.orderID = Nil /\ NoOrder.client = Nil /\ NoOrder.client2 = Nil
      /\ NoOrder.price = 0 /\ NoOrder.price2 = 0
  BY DEF NoOrder
<1>4. \A c \in IDs : order[c].status = "none" /\ order[c].by = Nil BY DEF Init
<1>5. calls = {} /\ failedOrders = {} /\ failedReplaces = {} /\ stream = << >> /\ Asks(calls) = {}
  BY DEF Init, Asks
<1>6. Fresh(maker, order) BY <1>1, <1>2, <1>3, <1>4 DEF Fresh
<1>7. Distinct(maker) BY <1>2, <1>3 DEF Distinct
<1>8. Asked(maker, calls, failedOrders, failedReplaces, order) BY <1>5 DEF Asked
<1>9. Created(maker, calls) /\ Replacing(maker, calls, failedReplaces, order)
  BY <1>5 DEF Created, Replacing
<1>10. Named(maker, order) BY <1>2, <1>3, Zenon DEF Named, NamedOf
<1>11. Chain(maker, order) /\ Opened(maker, order) BY <1>4, Zenon DEF Chain, Opened
<1>12. Heard(maker, stream, order)
  <2>1. 1..Len(stream) = {} BY <1>5
  <2> QED BY <2>1 DEF Heard, LastWord
<1>13. Apart(maker) BY <1>2, <1>3 DEF Apart, Sides
<1> QED BY <1>6, <1>7, <1>8, <1>9, <1>10, <1>11, <1>12, <1>13 DEF Safe

(* An order whose request failed is known, and Alpaca has never had it. *)
LEMMA FailedFacts ==
  ASSUME TypeInv, Safe(maker, calls, failedOrders, failedReplaces, stream, order),
         NEW c \in failedOrders \cup failedReplaces
  PROVE  /\ c \in IDs /\ c \in maker.orders /\ order[c].status = "none" /\ order[c].by = Nil
         /\ \A r \in Asks(calls) : r.id # c
         /\ \A i \in 1..Len(stream) : stream[i].id # c
         /\ ~ (c \in failedOrders /\ c \in failedReplaces)
<1>1. c \in IDs BY DEF TypeInv
<1>2. c \in maker.orders /\ order[c].status = "none" /\ ~ (c \in failedOrders /\ c \in failedReplaces)
      /\ \A r \in Asks(calls) : r.id # c
  BY DEF Safe, Asked
<1>3. order[c].by = Nil BY <1>1, <1>2 DEF Safe, Chain
<1>4. \A i \in 1..Len(stream) : stream[i].id # c BY <1>2, Zenon DEF Safe, Heard, HeardOf
<1> QED BY <1>1, <1>2, <1>3, <1>4

(* Cancellations ask for no order. *)
LEMMA CancelsKeep ==
  ASSUME NEW m \in Makers, NEW K \in SUBSET Requests, NEW fo \in SUBSET IDs,
         NEW fr \in SUBSET IDs, NEW st \in Seq(Events), NEW o \in Orders,
         Safe(m, K, fo, fr, st, o), \A r \in m.spawned : r.op = "cancel"
  PROVE  Safe(m, K \cup m.spawned, fo, fr, st, o)
<1> DEFINE L == K \cup m.spawned
<1>1. L \in SUBSET Requests BY MakerFacts
<1>2. Asks(L) \subseteq Asks(K) BY DEF Asks
<1>3. fo \in SUBSET fo /\ fr \in SUBSET fr OBVIOUS
<1> HIDE DEF L
<1>4. Safe(m, L, fo, fr, st, o) BY <1>1, <1>2, <1>3, FewerKeep
<1> QED BY <1>4 DEF L

(* The main loop does not touch what is Alpaca's. *)
LEMMA LoopLeaves == MainLoop => UNCHANGED brokerVars
<1>1. OnQuote => UNCHANGED brokerVars BY DEF OnQuote
<1>2. OnUpdate => UNCHANGED brokerVars BY DEF OnUpdate
<1>3. OnFailedOrder => UNCHANGED brokerVars BY DEF OnFailedOrder
<1>4. OnFailedReplace => UNCHANGED brokerVars BY DEF OnFailedReplace
<1>5. Toggle => UNCHANGED brokerVars BY DEF Toggle
<1>6. CancelOrders => UNCHANGED brokerVars BY DEF CancelOrders
<1>7. CooldownEnds => UNCHANGED brokerVars BY DEF CooldownEnds
<1> QED BY <1>1, <1>2, <1>3, <1>4, <1>5, <1>6, <1>7 DEF MainLoop

(* The main loop keeps Safe, and does not panic. *)
LEMMA LoopSafe == TypeInv /\ SafeInv /\ MainLoop => SafeInv' /\ (RunInv => RunInv')
<1> SUFFICES ASSUME TypeInv, SafeInv, MainLoop, lost = 0
             PROVE  /\ Safe(maker, calls, failedOrders, failedReplaces, stream, order)'
                    /\ running => running'
  <2>1. MainLoop => lost' = lost BY LoopLeaves DEF brokerVars
  <2> QED BY <2>1 DEF SafeInv, RunInv
<1> USE DEF callVars, brokerVars
<1>t. /\ maker \in Makers /\ maker.spawned = {} /\ calls \in SUBSET Requests
      /\ failedOrders \in SUBSET IDs /\ failedReplaces \in SUBSET IDs
      /\ stream \in Seq(Events) /\ order \in Orders
  BY DEF TypeInv
<1>s. Safe(maker, calls, failedOrders, failedReplaces, stream, order) BY DEF SafeInv
<1>e. calls \cup maker.spawned = calls BY <1>t
<1>1. CASE OnQuote
  <2>1. PICK m \in Evaluate(maker) : Become(m) BY <1>1 DEF OnQuote
  <2>2. m \in Makers BY <1>t, EvaluateTypes
  <2>3. Safe(m, calls \cup m.spawned, failedOrders, failedReplaces, stream, order)
    BY <1>t, <1>s, <1>e, EvaluateKeeps, Zenon
  <2>4. Safe(maker', calls', failedOrders, failedReplaces, stream, order)
    BY <1>t, <2>1, <2>2, <2>3, BecomeKeeps, Zenon
  <2> QED BY <1>1, <2>4 DEF OnQuote
<1>2. CASE OnUpdate
  <2>1. PICK m \in OnOrderUpdate(maker, Head(stream)) : Become(m) BY <1>2 DEF OnUpdate
  <2>2. stream # << >> /\ stream' = Tail(stream) BY <1>2 DEF OnUpdate
  <2>3. m \in Makers /\ Tail(stream) \in Seq(Events) BY <1>t, <2>2, TailFacts, UpdateTypes
  <2>4. Safe(m, calls \cup m.spawned, failedOrders, failedReplaces, Tail(stream), order)
    BY <1>t, <1>s, <2>2, UpdateKeeps
  <2>5. Safe(maker', calls', failedOrders, failedReplaces, Tail(stream), order)
    BY <1>t, <2>1, <2>3, <2>4, BecomeKeeps, Zenon
  <2> QED BY <1>2, <2>2, <2>5 DEF OnUpdate
<1>3. CASE OnFailedOrder
  <2>0. PICK c \in failedOrders :
          /\ failedOrders' = failedOrders \ {c}
          /\ IF c \in maker.orders THEN Become(RemoveOrder(maker, c)) /\ UNCHANGED running
                                   ELSE running' = FALSE /\ UNCHANGED <<maker, calls>>
    BY <1>3, Zenon DEF OnFailedOrder
  <2> DEFINE m == RemoveOrder(maker, c)
             fo == failedOrders \ {c}
  <2>1. /\ c \in IDs /\ c \in maker.orders /\ order[c].status = "none" /\ order[c].by = Nil
        /\ \A r \in Asks(calls) : r.id # c
        /\ \A i \in 1..Len(stream) : stream[i].id # c
        /\ c \notin failedReplaces
    BY <1>s, FailedFacts
  <2>2. Become(m) /\ running' = running BY <2>0, <2>1
  <2>3. Safe(maker, calls, fo, failedReplaces, stream, order)
    <3>1. fo \in SUBSET failedOrders /\ failedReplaces \in SUBSET failedReplaces OBVIOUS
    <3> QED BY <1>t, <1>s, <3>1, FewerKeep
  <2>4. Gone(maker, c, calls, fo, failedReplaces, stream, order) BY <2>1 DEF Gone
  <2>5. m \in Makers /\ Removed(maker, m, c) BY <1>t, RemoveFacts
  <2>6. calls \cup m.spawned = calls BY <1>t, <2>5 DEF Removed
  <2>7. fo \in SUBSET IDs BY <1>t
  <2> HIDE DEF m, fo
  <2>8. Safe(m, calls, fo, failedReplaces, stream, order)
    BY <1>t, <2>1, <2>3, <2>4, <2>5, <2>7, RemoveKeeps
  <2>9. Safe(maker', calls', fo, failedReplaces, stream, order)
    BY <1>t, <2>2, <2>5, <2>6, <2>7, <2>8, BecomeKeeps
  <2> QED BY <1>3, <2>0, <2>2, <2>9 DEF OnFailedOrder, fo
<1>4. CASE OnFailedReplace
  <2>0. PICK c \in failedReplaces :
          /\ failedReplaces' = failedReplaces \ {c}
          /\ IF c \in maker.orders THEN Become(UndoReplaceOrder(maker, c)) /\ UNCHANGED running
                                   ELSE running' = FALSE /\ UNCHANGED <<maker, calls>>
    BY <1>4, Zenon DEF OnFailedReplace
  <2> DEFINE m == UndoReplaceOrder(maker, c)
             fr == failedReplaces \ {c}
  <2>1. /\ c \in IDs /\ c \in maker.orders /\ order[c].status = "none"
        /\ \A r \in Asks(calls) : r.id # c
        /\ c \notin failedOrders
    BY <1>s, FailedFacts
  <2>2. Become(m) /\ running' = running BY <2>0, <2>1
  <2>3. Safe(maker, calls, failedOrders, fr, stream, order)
    <3>1. fr \in SUBSET failedReplaces /\ failedOrders \in SUBSET failedOrders OBVIOUS
    <3> QED BY <1>t, <1>s, <3>1, FewerKeep
  <2>5. m \in Makers /\ Undone(maker, m, c) BY <1>t, UndoFacts
  <2>6. calls \cup m.spawned = calls BY <1>t, <2>5 DEF Undone
  <2>7. fr \in SUBSET IDs /\ c \notin fr BY <1>t
  <2> HIDE DEF m, fr
  <2>8. Safe(m, calls, failedOrders, fr, stream, order)
    BY <1>t, <2>1, <2>3, <2>5, <2>7, UndoKeeps
  <2>9. Safe(maker', calls', failedOrders, fr, stream, order)
    BY <1>t, <2>2, <2>5, <2>6, <2>7, <2>8, BecomeKeeps
  <2> QED BY <1>4, <2>0, <2>2, <2>9 DEF OnFailedReplace, fr
<1>5. CASE Toggle
  <2>1. PICK m \in OnToggle(maker) : Become(m) BY <1>5 DEF Toggle
  <2>2. m \in Makers BY <1>t, ToggleTypes
  <2>3. Safe(m, calls \cup m.spawned, failedOrders, failedReplaces, stream, order)
    <3>1. CASE maker.disabled
      <4> DEFINE a == [maker EXCEPT !.disabled = FALSE]
      <4>1. m \in Evaluate(a) BY <2>1, <3>1, Zenon DEF OnToggle
      <4>2. a \in Makers /\ SameBooks(maker, a) /\ a.spawned = maker.spawned
        BY <1>t, FlagFacts, Zenon DEF TypeInv
      <4> HIDE DEF a
      <4>3. Safe(a, calls, failedOrders, failedReplaces, stream, order)
        BY <1>t, <1>s, <4>2, BooksKeep
      <4>4. calls \cup a.spawned = calls BY <1>t, <4>2
      <4> QED BY <1>t, <4>1, <4>2, <4>3, <4>4, EvaluateKeeps, Zenon
    <3>2. CASE ~ maker.disabled
      <4> DEFINE a == [maker EXCEPT !.disabled = TRUE]
      <4>1. m = CancelBoth(a) BY <2>1, <3>2 DEF OnToggle
      <4>2. a \in Makers /\ SameBooks(maker, a) /\ a.spawned = maker.spawned
        BY <1>t, FlagFacts, Zenon DEF TypeInv
      <4> HIDE DEF a
      <4>3. /\ SameBooks(a, m) /\ \A r \in m.spawned : r.op = "cancel"
        BY <4>1, <4>2, CancelFacts
      <4>4. SameBooks(maker, m) BY <4>2, <4>3 DEF SameBooks
      <4>5. Safe(m, calls, failedOrders, failedReplaces, stream, order)
        BY <1>t, <1>s, <2>2, <4>4, BooksKeep
      <4> QED BY <1>t, <2>2, <4>3, <4>5, CancelsKeep
    <3> QED BY <3>1, <3>2
  <2>4. Safe(maker', calls', failedOrders, failedReplaces, stream, order)
    BY <1>t, <2>1, <2>2, <2>3, BecomeKeeps
  <2> QED BY <1>5, <2>4 DEF Toggle
<1>6. CASE CancelOrders
  <2> DEFINE m == CancelBoth(maker)
  <2>1. Become(m) BY <1>6 DEF CancelOrders
  <2>2. m \in Makers /\ SameBooks(maker, m) /\ \A r \in m.spawned : r.op = "cancel"
    BY <1>t, CancelFacts
  <2> HIDE DEF m
  <2>3. Safe(m, calls, failedOrders, failedReplaces, stream, order)
    BY <1>t, <1>s, <2>2, BooksKeep
  <2>4. Safe(m, calls \cup m.spawned, failedOrders, failedReplaces, stream, order)
    BY <1>t, <2>2, <2>3, CancelsKeep
  <2>5. Safe(maker', calls', failedOrders, failedReplaces, stream, order)
    BY <1>t, <2>1, <2>2, <2>4, BecomeKeeps
  <2> QED BY <1>6, <2>5 DEF CancelOrders
<1>7. CASE CooldownEnds
  <2>1. maker' \in Makers /\ SameBooks(maker, maker') BY <1>7, <1>t, FlagFacts, Zenon DEF CooldownEnds, TypeInv
  <2>2. Safe(maker', calls, failedOrders, failedReplaces, stream, order)
    BY <1>t, <1>s, <2>1, BooksKeep
  <2> QED BY <1>7, <2>2 DEF CooldownEnds
<1> QED BY <1>1, <1>2, <1>3, <1>4, <1>5, <1>6, <1>7 DEF MainLoop

(* An order that leaves, and the replacement rejected with it, keep Safe. *)
LEMMA LeaveKeeps ==
  ASSUME NEW m \in Makers, NEW K \in SUBSET Requests, NEW fo \in SUBSET IDs,
         NEW fr \in SUBSET IDs, stream \in Seq(Events), order \in Orders,
         NEW c \in IDs, Safe(m, K, fo, fr, stream, order), NEW q \in Orders,
         order[c].status = "open", OverTo(order, q, c), NEW n \in Int,
         NEW v \in Events, v.id = c, v.side = order[c].side, v.event # "replaced"
  PROVE  Safe(m, K, fo, fr, Append(stream, v) \o Rejection(c, n), q)
<1> DEFINE st == Append(stream, v) \o Rejection(c, n)
           x == order[c].by
           w == EventIs("rejected", x, order[x].side, order[x].by, 0, n, TRUE)
<1>1. x = Nil => st = Append(stream, v) BY LeaveStream, Zenon
<1>2. x # Nil => w \in Events /\ st = Append(Append(stream, v), w) BY LeaveStream, Zenon
<1>3. w.id = x /\ w.side = order[x].side /\ w.event = "rejected" BY Zenon DEF EventIs
<1> HIDE DEF w, x, st
<1>4. Safe(m, K, fo, fr, Append(stream, v), q) BY OverKeeps, Zenon
<1>5. CASE x = Nil BY <1>1, <1>4, <1>5, Zenon DEF st
<1>6. CASE x # Nil
  <2>1. order[c].by # Nil /\ w.id = order[c].by /\ w.side = order[w.id].side
        /\ w.event # "replaced" /\ w \in Events
    BY <1>2, <1>3, <1>6 DEF x
  <2>2. Safe(m, K, fo, fr, Append(Append(stream, v), w), q) BY <2>1, OverKeeps
  <2> QED BY <1>2, <1>6, <2>2, Zenon DEF st
<1> QED BY <1>5, <1>6

(* A cancellation or an expiry keeps Safe. *)
LEMMA LeavesKeep ==
  ASSUME TypeInv, NEW m \in Makers, NEW K \in SUBSET Requests, NEW fo \in SUBSET IDs,
         NEW fr \in SUBSET IDs, NEW c \in IDs, Leave(c),
         Safe(m, K, fo, fr, stream, order)
  PROVE  Safe(m, K, fo, fr, stream', order')
<1> DEFINE v == Report(c, "canceled", 0, net, TRUE)
<1>1. v \in Events /\ v = EventIs("canceled", c, order[c].side, order[c].by, 0, net, TRUE)
  BY ReportTypes, Zenon DEF TypeInv
<1>3. order' = Over(c, order) /\ stream' = Append(stream, v) \o Rejection(c, net)
      /\ order[c].status = "open"
  BY Zenon DEF Leave
<1> HIDE DEF v
<1>2. v.id = c /\ v.side = order[c].side /\ v.event # "replaced" BY <1>1 DEF EventIs
<1>4. order \in Orders /\ stream \in Seq(Events) /\ net \in Int BY DEF TypeInv
<1>5. order' \in Orders /\ OverTo(order, order', c) BY <1>3, <1>4, OverFacts
<1> QED BY <1>1, <1>2, <1>3, <1>4, <1>5, LeaveKeeps, Zenon

(* The order c makes way for the one that is to replace it. *)
Replaces(c) ==
  /\ order[c].status = "open" /\ order[c].by # Nil
  /\ order' = [order EXCEPT ![c] = [@ EXCEPT !.status = "over"],
        ![order[c].by] = [@ EXCEPT !.status = "open", !.left = order[c].left]]
  /\ stream' = stream \o <<Report(c, "replaced", 0, net, TRUE),
                            Report(order[c].by, "new", 0, net, FALSE)>>

(* Alpaca keeps Safe. *)
LEMMA AlpacaSafe == TypeInv /\ SafeInv /\ Alpaca => SafeInv' /\ (RunInv => RunInv')
<1> SUFFICES ASSUME TypeInv, SafeInv, Alpaca, lost' = 0
             PROVE  /\ Safe(maker, calls, failedOrders, failedReplaces, stream, order)'
                    /\ lost = 0 /\ running' = running
  BY DEF SafeInv, RunInv
<1> USE DEF callVars, brokerVars
<1>t. /\ maker \in Makers /\ calls \in SUBSET Requests
      /\ failedOrders \in SUBSET IDs /\ failedReplaces \in SUBSET IDs
      /\ stream \in Seq(Events) /\ order \in Orders /\ net \in Int
  BY DEF TypeInv
<1>s. lost = 0 => Safe(maker, calls, failedOrders, failedReplaces, stream, order)
  BY DEF SafeInv
<1>1. CASE Request
  <2>1. PICK r \in calls : /\ calls' = calls \ {r}
                           /\ \/ Refuse(r) \/ Create(r) \/ Replace(r) \/ Cancel(r)
    BY <1>1 DEF Request
  <2>2. r \in Requests BY <1>t
  <2>3. maker' = maker /\ running' = running BY <1>1 DEF Request
  <2>4. CASE Refuse(r)
    <3>1. /\ failedOrders' = (IF r.op = "create" THEN failedOrders \cup {r.id} ELSE failedOrders)
          /\ failedReplaces' = (IF r.op = "replace" THEN failedReplaces \cup {r.id}
                                                    ELSE failedReplaces)
          /\ stream' = stream /\ order' = order /\ lost' = lost
      BY <2>4 DEF Refuse, Fail
    <3>2. Safe(maker, calls \ {r}, failedOrders', failedReplaces', stream, order)
      BY <1>t, <1>s, <3>1, RefuseKeeps
    <3> QED BY <2>1, <2>3, <3>1, <3>2
  <2>5. CASE Create(r)
    <3>1. r.op = "create" /\ lost = 0 /\ failedOrders' = failedOrders
          /\ failedReplaces' = failedReplaces
      BY <2>2, <2>5, AnswerFacts DEF Create
    <3>2. r.id \in IDs /\ r.side \in Sides /\ r.price \in Int BY <2>2, <3>1, RequestFacts
    <3>3. PICK rejected \in BOOLEAN : Creates(r, rejected) BY <2>5, Zenon DEF Create, Creates
    <3> DEFINE x == IF rejected THEN "over" ELSE "open"
               h == [status |-> x, side |-> r.side, price |-> r.price, left |-> Qty,
                     by |-> Nil]
               v == EventIs(IF rejected THEN "rejected" ELSE "new", r.id, r.side, Nil, 0, net,
                            rejected)
    <3>4. order' = [order EXCEPT ![r.id] = h] BY <3>3 DEF Creates
    <3>5. x \in {"open", "over"} /\ (rejected => x = "over") OBVIOUS
    <3>6. v \in Events BY <1>t, <3>2, EventTypes, Zenon
    <3>7. v.id = r.id /\ v.side = r.side /\ v.event # "replaced" /\ v.final = rejected
      BY DEF EventIs
    <3>8. stream' = Append(stream, v) BY <3>3 DEF Creates, EventIs
    <3> HIDE DEF x, v
    <3>9. /\ order' \in Orders
          /\ order'[r.id].status = x /\ order'[r.id].side = r.side
          /\ order'[r.id].price = r.price /\ order'[r.id].by = Nil
          /\ \A i \in IDs \ {r.id} : order'[i] = order[i]
      <4> DEFINE q == [order EXCEPT ![r.id] = h]
      <4>1. h = [status |-> x, side |-> r.side, price |-> r.price, left |-> Qty, by |-> Nil]
        OBVIOUS
      <4> HIDE DEF h
      <4>2. /\ q \in Orders
            /\ q[r.id].status = x /\ q[r.id].side = r.side
            /\ q[r.id].price = r.price /\ q[r.id].by = Nil
            /\ \A i \in IDs \ {r.id} : q[i] = order[i]
        BY <1>t, <3>2, <3>5, <4>1, CreateFacts
      <4> HIDE DEF q
      <4>3. order' = q BY <3>4 DEF q
      <4> QED BY <4>2, <4>3
    <3>10. Safe(maker, calls \ {r}, failedOrders, failedReplaces, Append(stream, v), order')
      BY <1>t, <1>s, <3>1, <3>5, <3>6, <3>7, <3>9, CreateKeeps
    <3> QED BY <2>1, <2>3, <3>1, <3>8, <3>10
  <2>6. CASE Replace(r)
    <3>1. /\ r.op = "replace" /\ lost = 0 /\ failedOrders' = failedOrders
          /\ failedReplaces' = failedReplaces
      BY <2>2, <2>6, AnswerFacts DEF Replace
    <3>2. /\ stream' = stream /\ r.price > 0 /\ order[r.of].status = "open"
          /\ order[r.of].by = Nil
      BY <2>6 DEF Replace
    <3>3. r.id \in IDs /\ r.of \in IDs /\ r.price \in Int BY <2>2, <3>1, RequestFacts
    <3>4. order[r.id].status = "none" BY <1>s, <3>1 DEF Safe, Asked, Asks
    <3>5. order' \in Orders /\ ReplaceTo(order, order', r.of, r.id, r.price)
      <4>1. order' = [order EXCEPT ![r.of] = [@ EXCEPT !.by = r.id],
             ![r.id] = [status |-> "pending", side |-> order[r.of].side,
                        price |-> r.price, left |-> order[r.of].left, by |-> Nil]]
        BY <2>6, Zenon DEF Replace
      <4> QED BY <1>t, <3>2, <3>3, <3>4, <4>1, ReplaceFacts, Zenon
    <3>6. Safe(maker, calls \ {r}, failedOrders, failedReplaces, stream, order')
      BY <1>t, <1>s, <3>1, <3>2, <3>5, PendKeeps
    <3> QED BY <2>1, <2>3, <3>1, <3>2, <3>6
  <2>7. CASE Cancel(r)
    <3>1. /\ r.op = "cancel" /\ Leave(r.of) /\ lost = 0
          /\ failedOrders' = failedOrders /\ failedReplaces' = failedReplaces
      BY <2>7 DEF Cancel
    <3>2. r.of \in IDs BY <2>2, <3>1, RequestFacts
    <3> DEFINE L == calls \ {r}
    <3>3. L \in SUBSET Requests /\ Asks(L) \subseteq Asks(calls) BY <1>t DEF Asks
    <3>4. failedOrders \in SUBSET failedOrders /\ failedReplaces \in SUBSET failedReplaces
      OBVIOUS
    <3> HIDE DEF L
    <3>5. Safe(maker, L, failedOrders, failedReplaces, stream, order)
      BY <1>t, <1>s, <3>1, <3>3, <3>4, FewerKeep
    <3>6. Safe(maker, L, failedOrders, failedReplaces, stream', order')
      BY <1>t, <3>1, <3>2, <3>3, <3>5, LeavesKeep, Zenon
    <3> QED BY <2>1, <2>3, <3>1, <3>6 DEF L
  <2> QED BY <2>1, <2>4, <2>5, <2>6, <2>7
<1>2. CASE Execute
  <2>0. PICK c \in IDs : \E n \in 1..order[c].left : Executes(c, n)
    BY <1>2, Zenon DEF Execute, Executes
  <2>1. PICK n \in 1..order[c].left : Executes(c, n) BY <2>0
  <2> DEFINE done == [order EXCEPT ![c] = [@ EXCEPT !.left = order[c].left - n]]
             over == n = order[c].left
             pos  == net + Signed(order[c].side, n)
             v    == Report(c, "fill", n, pos, over)
  <2>2. n \in Nat BY <1>t, OrderFacts
  <2>3. pos \in Int BY <1>t, <2>2 DEF Signed
  <2>4. over \in BOOLEAN OBVIOUS
  <2>5. /\ order[c].status = "open"
        /\ order' = IF over THEN Over(c, done) ELSE done
        /\ stream' = Append(stream, v) \o IF over THEN Rejection(c, pos) ELSE <<>>
    BY <2>1 DEF Executes
  <2>6a. done \in Orders BY <1>t, FilledFacts, Zenon
  <2>6b. \A i \in IDs : /\ SameTerms(order, done, i) /\ done[i].by = order[i].by
                        /\ done[i].status = order[i].status
                        /\ (i # c => done[i].left = order[i].left)
    <3>1. order \in Orders BY <1>t, Zenon
    <3> QED BY <3>1, FilledFacts, ZenonT(60)
  <2> HIDE DEF done, pos, over
  <2>7. v \in Events /\ v = EventIs("fill", c, order[c].side, order[c].by, n, pos, over)
    BY <1>t, <2>2, <2>3, <2>4, ReportTypes
  <2>8. v.id = c /\ v.side = order[c].side /\ v.event # "replaced" /\ v.final = over
    BY <2>7 DEF EventIs
  <2> HIDE DEF v
  <2>9. /\ lost = 0 /\ maker' = maker /\ calls' = calls /\ running' = running
        /\ failedOrders' = failedOrders /\ failedReplaces' = failedReplaces
    BY <1>2 DEF Execute
  <2>10. CASE over
    <3>1. Over(c, done) \in Orders /\ OverTo(done, Over(c, done), c) BY <2>6a, OverFacts
    <3>2. OverTo(order, Over(c, done), c) BY <2>6b, <3>1 DEF OverTo, SameTerms
    <3>3. order' = Over(c, done) /\ stream' = Append(stream, v) \o Rejection(c, pos)
      BY <2>5, <2>10
    <3>4. Safe(maker, calls, failedOrders, failedReplaces, stream', order')
      BY <1>t, <1>s, <2>3, <2>5, <2>7, <2>8, <2>9, <3>1, <3>2, <3>3, LeaveKeeps, Zenon
    <3> QED BY <2>9, <3>4
  <2>11. CASE ~ over
    <3>1. order' = done /\ stream' = Append(stream, v)
      BY <1>t, <2>5, <2>7, <2>11, AppendTwo, Zenon
    <3>2. Safe(maker, calls, failedOrders, failedReplaces, stream', order')
      <4>1. \A i \in IDs : SameTerms(order, done, i) /\ done[i].by = order[i].by
                           /\ done[i].status = order[i].status
        BY <2>6b
      <4>2. Safe(maker, calls, failedOrders, failedReplaces, Append(stream, v), done)
        BY <1>t, <1>s, <2>5, <2>6a, <2>7, <2>8, <2>9, <2>11, <4>1, FillKeeps, Zenon
      <4> QED BY <3>1, <4>2
    <3> QED BY <2>9, <3>2
  <2> QED BY <2>10, <2>11
<1>3. CASE Replaced
  <2>1. PICK c \in IDs : Replaces(c) BY <1>3, Zenon DEF Replaced, Replaces
  <2>9. /\ lost = 0 /\ maker' = maker /\ calls' = calls /\ running' = running
        /\ failedOrders' = failedOrders /\ failedReplaces' = failedReplaces
    BY <1>3 DEF Replaced
  <2> DEFINE x == order[c].by
             u == Report(c, "replaced", 0, net, TRUE)
             v == Report(x, "new", 0, net, FALSE)
  <2>2. order[c].status = "open" /\ x # Nil /\ stream' = stream \o <<u, v>>
    BY <2>1 DEF Replaces
  <2>3. x \in IDs BY <1>t, <2>2, OrderFacts
  <2>4. c # x BY <1>s, <2>2, <2>9 DEF Safe, Chain
  <2>5. order' \in Orders /\ ReplacedTo(order, order', c, x)
    <3>1. order' = [order EXCEPT ![c] = [@ EXCEPT !.status = "over"],
            ![x] = [@ EXCEPT !.status = "open", !.left = order[c].left]]
      BY <2>1 DEF Replaces
    <3> QED BY <1>t, <2>3, <2>4, <3>1, ReplacedOrders, Zenon
  <2>6. u \in Events /\ u = EventIs("replaced", c, order[c].side, order[c].by, 0, net, TRUE)
    BY <1>t, ReportTypes, Zenon
  <2>7. v \in Events /\ v = EventIs("new", x, order[x].side, order[x].by, 0, net, FALSE)
    BY <1>t, <2>3, ReportTypes, Zenon
  <2> HIDE DEF u, v
  <2>8. /\ u.id = c /\ u.side = order[c].side /\ u.by = order[c].by /\ u.event = "replaced"
        /\ u.final
    BY <2>6, Zenon DEF EventIs
  <2>12. v.id = order[c].by /\ v.side = order[v.id].side /\ v.event # "replaced" /\ ~ v.final
    BY <2>7 DEF EventIs
  <2>10. stream' = Append(Append(stream, u), v) BY <1>t, <2>2, <2>6, <2>7, AppendTwo, Zenon
  <2>11. Safe(maker, calls, failedOrders, failedReplaces, Append(Append(stream, u), v), order')
    BY <1>t, <1>s, <2>2, <2>5, <2>6, <2>7, <2>8, <2>9, <2>12, SwapKeeps, Zenon
  <2> QED BY <2>9, <2>10, <2>11, Zenon
<1>4. CASE Expire
  <2>1. PICK c \in IDs : Leave(c) BY <1>4 DEF Expire
  <2>2. /\ lost = 0 /\ maker' = maker /\ calls' = calls /\ running' = running
        /\ failedOrders' = failedOrders /\ failedReplaces' = failedReplaces
    BY <1>4 DEF Expire
  <2>3. Safe(maker, calls, failedOrders, failedReplaces, stream', order')
    BY <1>t, <1>s, <2>1, <2>2, LeavesKeep
  <2> QED BY <2>2, <2>3, Zenon
<1>5. CASE Disconnect
  <2>1. PICK n \in 0..Len(stream) - 1 : stream' = SubSeq(stream, 1, n)
    BY <1>5 DEF Disconnect
  <2>2. /\ lost = 0 /\ maker' = maker /\ calls' = calls /\ running' = running
        /\ failedOrders' = failedOrders /\ failedReplaces' = failedReplaces /\ order' = order
    BY <1>5 DEF Disconnect
  <2>3. stream' \in Seq(Events) /\ Len(stream') = n /\ \A i \in 1..n : stream'[i] = stream[i]
    BY <1>t, <2>1, PrefixFacts
  <2>4. Len(stream') + 0 <= Len(stream) /\ \A i \in 1..Len(stream') : stream'[i] = stream[i + 0]
    BY <1>t, <2>3, EventFacts
  <2>5. Safe(maker, calls, failedOrders, failedReplaces, stream', order)
    BY <1>t, <1>s, <2>2, <2>3, <2>4, PartKeeps, Zenon
  <2> QED BY <2>2, <2>5
<1> QED BY <1>1, <1>2, <1>3, <1>4, <1>5 DEF Alpaca

(* Safe holds. *)
LEMMA SafeHolds == Spec => [](TypeInv /\ SafeInv /\ RunInv)
<1>1. Init => TypeInv /\ SafeInv /\ RunInv BY InitTypes, InitSafe, Zenon DEF Init, RunInv
<1>2. TypeInv /\ SafeInv /\ RunInv /\ [Next]_vars => (TypeInv /\ SafeInv /\ RunInv)'
  <2> SUFFICES ASSUME TypeInv, SafeInv, RunInv, [Next]_vars
               PROVE  (TypeInv /\ SafeInv /\ RunInv)'
    OBVIOUS
  <2>1. TypeInv' BY NextTypes
  <2>2. CASE MainLoop BY <2>1, <2>2, LoopSafe
  <2>3. CASE Alpaca BY <2>1, <2>3, AlpacaSafe
  <2>4. CASE UNCHANGED vars
    BY <2>1, <2>4 DEF SafeInv, RunInv, vars, callVars, brokerVars
  <2> QED BY <2>2, <2>3, <2>4 DEF Next
<1> QED BY <1>1, <1>2, PTL DEF Spec

(* As long as no request is carried out and yet said to have failed, the    *)
(* main loop never panics: the order of every failure it takes from         *)
(* gFailedOrders or gFailedReplaces is known to gOrders, so removeOrder and *)
(* undoReplaceOrder use no nil pointer.                                     *)
THEOREM MakerFindsWhatFailed == Spec => []FailuresAreKnown
<1>1. RunInv => FailuresAreKnown BY DEF RunInv, FailuresAreKnown
<1> QED BY <1>1, SafeHolds, PTL

(* Orders at work are in the slots, and the slots are apart. *)
LEMMA ApartAtWork ==
  ASSUME TypeInv, Safe(maker, calls, failedOrders, failedReplaces, stream, order),
         NEW b \in AtWork("buy"), NEW s \in AtWork("sell")
  PROVE  order[b].price < order[s].price
<1>1. /\ b \in IDs /\ order[b].status = "open" /\ order[b].side = "buy"
      /\ s \in IDs /\ order[s].status = "open" /\ order[s].side = "sell"
  BY DEF AtWork
<1>2. /\ order[b].price > 0 /\ AtSlot(maker, b, "buy", order[b].price)
      /\ order[s].price > 0 /\ AtSlot(maker, s, "sell", order[s].price)
  BY <1>1 DEF Safe, Opened
<1>3. order[b].price \in {maker.side["buy"].price, maker.side["buy"].price2}
      /\ order[s].price \in {maker.side["sell"].price, maker.side["sell"].price2}
  BY <1>2 DEF AtSlot
<1> QED BY <1>2, <1>3 DEF Safe, Apart

(* The maker never has a buy at work at or above a sell at work, while both *)
(* are being moved and whatever order Alpaca carries the moves out in, even *)
(* when events are lost (the clamp of Evaluate looks at the order at work   *)
(* and at the one to replace it).                                           *)
THEOREM MakerNeverCrossesItself == Spec => []NoSelfTrade
<1>1. TypeInv /\ SafeInv => NoSelfTrade BY ApartAtWork DEF SafeInv, NoSelfTrade
<1> QED BY <1>1, SafeHolds, PTL

-----------------------------------------------------------------------------
(* The invariant while nothing is lost. *)

(* What holds as long as no event was lost as well. *)
Ends(st, c) == \E i \in 1..Len(st) : st[i].id = c /\ st[i].final

(* gOrders has the orders the sides know of. *)
Kept(m) ==
  \A s \in Sides : /\ m.side[s].client # Nil => m.side[s].client \in m.orders
                   /\ m.side[s].client2 # Nil => m.side[s].client2 \in m.orders

(* c is asked for, or the main loop is about to hear that it failed. *)
Waits(K, fo, fr, c) == c \in fo \/ c \in fr \/ \E r \in Asks(K) : r.id = c

(* An order of gOrders that is over (but for e, whose end is being handled) *)
(* is going to be reported; one Alpaca never took is waited for; events are *)
(* of orders of gOrders.                                                    *)
Known(m, K, fo, fr, st, o, e) ==
  /\ \A c \in m.orders : c # e /\ o[c].status = "over" => Ends(st, c)
  /\ \A c \in m.orders : c # e /\ o[c].status = "none" => Waits(K, fo, fr, c)
  /\ \A i \in 1..Len(st) : st[i].id \in m.orders

(* No event of a replacement comes before the end of the order it replaces, *)
(* e included.                                                              *)
TurnOf(d, st, i, e) ==
  d.client2 = st[i].id => \/ d.client = e
                          \/ \E j \in 1..i - 1 : st[j].id = d.client /\ st[j].final

InTurn(m, st, e) == \A s \in Sides : \A i \in 1..Len(st) : TurnOf(m.side[s], st, i, e)

(* An order ended without being replaced. *)
Left(u) == u.final /\ u.event # "replaced"

(* A fill on the stream is of one of its side's two orders, never of an     *)
(* order whose predecessor left.                                            *)
Filled(m, st, o) ==
  /\ \A i \in 1..Len(st) : st[i].qty > 0 =>
       \/ st[i].id = m.side[st[i].side].client
       \/ st[i].id = m.side[st[i].side].client2
  /\ \A i, j \in 1..Len(st) : Left(st[i]) /\ st[j].qty > 0 => o[st[i].id].by # st[j].id

(* An order whose request failed is some side's. *)
Posted(m, fo) == \A c \in fo : \E s \in Sides : m.side[s].client = c

(* What else holds while no event was lost, with the end of e (or Nil) being*)
(* handled.                                                                 *)
Told(m, K, fo, fr, st, o, e) ==
  /\ Kept(m) /\ Known(m, K, fo, fr, st, o, e) /\ InTurn(m, st, e) /\ Filled(m, st, o)
  /\ Posted(m, fo)

(* The position the main loop has after i more events, as far as it was     *)
(* told.                                                                    *)
At(m, st, i) == IF i = 0 THEN m.position ELSE st[i].position
None(st, s, i) == \A j \in i + 1..Len(st) : ~ (st[j].qty > 0 /\ st[j].side = s)

(* The account holds no more than the maker thinks if no buy is yet to be   *)
(* reported, and no less if no sell is.                                     *)
Counted(m, st, n) ==
  \A i \in 0..Len(st) : /\ None(st, "buy", i) => n <= At(m, st, i)
                        /\ None(st, "sell", i) => n >= At(m, st, i)

(* left more shares of the side s fit beside a position n. *)
RoomFor(s, n, left) == IF s = "buy" THEN n + left <= MaximumPosition
                                    ELSE n - left >= MinimumPosition

(* The account has room for every order at work and every order asked for. *)
Room(K, o, n) ==
  /\ n \in MinimumPosition..MaximumPosition
  /\ \A c \in IDs : o[c].status = "open" => RoomFor(o[c].side, n, o[c].left)
  /\ \A r \in K : r.op = "create" => RoomFor(r.side, n, Qty)

(* The slots are as they were. *)
SameSlots(m, n) ==
  /\ n.orders = m.orders
  /\ \A s \in Sides : n.side[s].client = m.side[s].client /\ n.side[s].client2 = m.side[s].client2

(* Only the slots and gOrders matter to Told. *)
LEMMA SlotsTold ==
  ASSUME NEW m \in Makers, NEW n \in Makers, NEW K \in SUBSET Requests, NEW fo \in SUBSET IDs,
         NEW fr \in SUBSET IDs, NEW st \in Seq(Events), NEW o \in Orders, NEW e \in IDs \cup {Nil},
         Told(m, K, fo, fr, st, o, e), SameSlots(m, n)
  PROVE  Told(n, K, fo, fr, st, o, e)
<1>0. \A i \in 1..Len(st) : st[i].side \in Sides BY EventFacts
<1>1. Kept(n) BY DEF Told, Kept, SameSlots
<1>2. Known(n, K, fo, fr, st, o, e) BY DEF Told, Known, SameSlots
<1>3. InTurn(n, st, e) BY DEF Told, InTurn, TurnOf, SameSlots
<1>4. Filled(n, st, o) BY <1>0 DEF Told, Filled, SameSlots
<1>5. Posted(n, fo) BY DEF Told, Posted, SameSlots
<1> QED BY <1>1, <1>2, <1>3, <1>4, <1>5 DEF Told

(* The stream says nothing of an order that Alpaca has not taken. *)
LEMMA HeardIDs ==
  ASSUME NEW m \in Makers, NEW st \in Seq(Events), NEW o \in Orders, Heard(m, st, o)
  PROVE  \A i \in 1..Len(st) : /\ st[i].id \in IDs /\ st[i].side \in Sides
                               /\ o[st[i].id].status \in {"open", "over"}
                               /\ st[i].side = o[st[i].id].side
BY EventFacts, Zenon DEF Heard, HeardOf

(* A new order asked for keeps Told. *)
LEMMA LimitTold ==
  ASSUME NEW m \in Makers, NEW s \in Sides, NEW p \in Int, NEW n \in Makers,
         NEW K \in SUBSET Requests, NEW fo \in SUBSET IDs, NEW fr \in SUBSET IDs,
         NEW st \in Seq(Events), NEW o \in Orders,
         Safe(m, K, fo, fr, st, o), Told(m, K, fo, fr, st, o, Nil), m.side[s].client = Nil,
         SameOtherwise(m, n, s), AsksFor(m, n, CreateOf(m, s, p)),
         SideIs(n.side[s], m.side[s].orderID, m.next, m.side[s].client2, p, m.side[s].price2)
  PROVE  Told(n, K \cup {CreateOf(m, s, p)}, fo, fr, st, o, Nil)
<1> USE IDFacts
<1> DEFINE r == CreateOf(m, s, p)
           L == K \cup {r}
<1>r. r.op = "create" /\ r.id = m.next /\ m.next \in IDs BY DEF CreateOf, AsksFor
<1> HIDE DEF r
<1>a. Asks(L) = Asks(K) \cup {r} BY <1>r DEF Asks
<1> HIDE DEF L
<1>o. n.orders = m.orders \cup {m.next} BY DEF AsksFor
<1>t. \A t \in Sides : t # s => n.side[t] = m.side[t] BY DEF SameOtherwise
<1>d. n.side[s].client = m.next /\ n.side[s].client2 = m.side[s].client2 BY DEF SideIs
<1>n. m.side[s].client2 = Nil BY Zenon DEF Safe, Named, NamedOf
<1>h. \A i \in 1..Len(st) : st[i].id \in IDs /\ st[i].side \in Sides /\ st[i].id # Nil
  BY HeardIDs DEF Safe
<1>1. Kept(n) BY <1>o, <1>t, <1>d DEF Told, Kept
<1>2. Known(n, L, fo, fr, st, o, Nil)
  <2>1. o[m.next].status = "none" BY <1>r, MakerFacts DEF Safe, Fresh
  <2>2. \A c : Waits(K, fo, fr, c) => Waits(L, fo, fr, c) BY <1>a DEF Waits
  <2>3. Waits(L, fo, fr, m.next) BY <1>a, <1>r DEF Waits
  <2> QED BY <1>o, <2>1, <2>2, <2>3 DEF Told, Known
<1>3. InTurn(n, st, Nil)
  <2> SUFFICES ASSUME NEW t \in Sides, NEW i \in 1..Len(st) PROVE TurnOf(n.side[t], st, i, Nil)
    BY DEF InTurn
  <2>1. CASE t = s BY <1>d, <1>n, <1>h, <2>1 DEF TurnOf
  <2>2. CASE t # s BY <1>t, <2>2 DEF Told, InTurn
  <2> QED BY <2>1, <2>2
<1>4. Filled(n, st, o)
  <2>1. ASSUME NEW i \in 1..Len(st), st[i].qty > 0
        PROVE  \/ st[i].id = n.side[st[i].side].client
               \/ st[i].id = n.side[st[i].side].client2
    <3>1. \/ st[i].id = m.side[st[i].side].client
          \/ st[i].id = m.side[st[i].side].client2
      BY <2>1 DEF Told, Filled
    <3>2. st[i].side # s BY <1>n, <1>h, <3>1
    <3> QED BY <1>h, <1>t, <3>1, <3>2
  <2> QED BY <2>1, Zenon DEF Told, Filled
<1>5. Posted(n, fo)
  <2> SUFFICES ASSUME NEW c \in fo PROVE \E t \in Sides : n.side[t].client = c BY DEF Posted
  <2>1. PICK t \in Sides : m.side[t].client = c BY DEF Told, Posted
  <2>2. t # s BY <2>1
  <2> QED BY <1>t, <2>1, <2>2
<1> QED BY <1>1, <1>2, <1>3, <1>4, <1>5 DEF Told, L, r

(* A replacement asked for keeps Told. *)
LEMMA ReplaceTold ==
  ASSUME NEW m \in Makers, NEW s \in Sides, NEW p \in Int, NEW n \in Makers,
         NEW K \in SUBSET Requests, NEW fo \in SUBSET IDs, NEW fr \in SUBSET IDs,
         NEW st \in Seq(Events), NEW o \in Orders,
         Safe(m, K, fo, fr, st, o), Told(m, K, fo, fr, st, o, Nil), m.side[s].client2 = Nil,
         SameOtherwise(m, n, s), AsksFor(m, n, ReplaceOf(m, s, p)),
         SideIs(n.side[s], m.side[s].orderID, m.side[s].client, m.next, m.side[s].price, p)
  PROVE  Told(n, K \cup {ReplaceOf(m, s, p)}, fo, fr, st, o, Nil)
<1> USE IDFacts
<1> DEFINE r == ReplaceOf(m, s, p)
           L == K \cup {r}
<1>r. r.op = "replace" /\ r.id = m.next /\ m.next \in IDs BY DEF ReplaceOf, AsksFor
<1> HIDE DEF r
<1>a. Asks(L) = Asks(K) \cup {r} BY <1>r DEF Asks
<1> HIDE DEF L
<1>o. n.orders = m.orders \cup {m.next} BY DEF AsksFor
<1>t. \A t \in Sides : t # s => n.side[t] = m.side[t] BY DEF SameOtherwise
<1>d. n.side[s].client = m.side[s].client /\ n.side[s].client2 = m.next BY DEF SideIs
<1>b. o[m.next].status = "none" BY <1>r, MakerFacts DEF Safe, Fresh
<1>h. \A i \in 1..Len(st) : /\ st[i].id \in IDs /\ st[i].side \in Sides /\ st[i].id # Nil
                            /\ st[i].id # m.next
  BY <1>b, HeardIDs DEF Safe
<1>1. Kept(n) BY <1>o, <1>t, <1>d DEF Told, Kept
<1>2. Known(n, L, fo, fr, st, o, Nil)
  <2>2. \A c : Waits(K, fo, fr, c) => Waits(L, fo, fr, c) BY <1>a DEF Waits
  <2>3. Waits(L, fo, fr, m.next) BY <1>a, <1>r DEF Waits
  <2> QED BY <1>o, <1>b, <2>2, <2>3 DEF Told, Known
<1>3. InTurn(n, st, Nil)
  <2> SUFFICES ASSUME NEW t \in Sides, NEW i \in 1..Len(st) PROVE TurnOf(n.side[t], st, i, Nil)
    BY DEF InTurn
  <2>1. CASE t = s BY <1>d, <1>h, <2>1 DEF TurnOf
  <2>2. CASE t # s BY <1>t, <2>2 DEF Told, InTurn
  <2> QED BY <2>1, <2>2
<1>4. Filled(n, st, o)
  <2>1. ASSUME NEW i \in 1..Len(st), st[i].qty > 0
        PROVE  \/ st[i].id = n.side[st[i].side].client
               \/ st[i].id = n.side[st[i].side].client2
    <3>1. \/ st[i].id = m.side[st[i].side].client
          \/ st[i].id = m.side[st[i].side].client2
      BY <2>1 DEF Told, Filled
    <3>2. CASE st[i].side = s BY <1>d, <1>h, <3>1, <3>2
    <3>3. CASE st[i].side # s BY <1>h, <1>t, <3>1, <3>3
    <3> QED BY <3>2, <3>3
  <2> QED BY <2>1, Zenon DEF Told, Filled
<1>5. Posted(n, fo) BY <1>t, <1>d DEF Told, Posted
<1> QED BY <1>1, <1>2, <1>3, <1>4, <1>5 DEF Told, L, r

(* Only the position matters to Counted. *)
LEMMA CountedSame ==
  ASSUME NEW m \in Makers, NEW n \in Makers, NEW st \in Seq(Events), NEW p \in Int,
         Counted(m, st, p), n.position = m.position
  PROVE  Counted(n, st, p)
BY DEF Counted, At

(* A side without an order has room for one if it seems to. *)
LEMMA RoomIsThere ==
  ASSUME NEW m \in Makers, NEW s \in Sides, NEW K \in SUBSET Requests, NEW fo \in SUBSET IDs,
         NEW fr \in SUBSET IDs, NEW st \in Seq(Events), NEW o \in Orders, NEW p \in Int,
         Safe(m, K, fo, fr, st, o), Told(m, K, fo, fr, st, o, Nil), Counted(m, st, p),
         m.side[s].client = Nil, RoomFor(s, m.position, Qty)
  PROVE  RoomFor(s, p, Qty)
<1> USE IDFacts
<1>n. m.side[s].client2 = Nil BY Zenon DEF Safe, Named, NamedOf
<1>h. \A i \in 1..Len(st) : st[i].id \in IDs /\ st[i].id # Nil BY HeardIDs DEF Safe
<1>1. None(st, s, 0)
  <2> SUFFICES ASSUME NEW j \in 1..Len(st), st[j].qty > 0, st[j].side = s PROVE FALSE
    BY DEF None
  <2> QED BY <1>n, <1>h DEF Told, Filled
<1>2. 0 \in 0..Len(st) /\ At(m, st, 0) = m.position BY EventFacts DEF At
<1>3. m.position \in Int /\ Qty \in Int /\ MaximumPosition \in Int /\ MinimumPosition \in Int
  BY MakerFacts, MakerAssumption DEF MaximumPosition, MinimumPosition
<1>4. CASE s = "buy"
  <2>1. p <= m.position BY <1>1, <1>2, <1>4 DEF Counted
  <2> QED BY <1>3, <1>4, <2>1 DEF RoomFor
<1>5. CASE s = "sell"
  <2>1. p >= m.position BY <1>1, <1>2, <1>5 DEF Counted
  <2> QED BY <1>3, <1>5, <2>1 DEF RoomFor
<1> QED BY <1>4, <1>5 DEF Sides

(* A requote keeps Told, and asks only for what there is room for. *)
LEMMA RequoteTold ==
  ASSUME NEW m \in Makers, NEW s \in Sides, NEW room, NEW p \in Int,
         NEW K \in SUBSET Requests, NEW fo \in SUBSET IDs, NEW fr \in SUBSET IDs,
         NEW st \in Seq(Events), NEW o \in Orders, NEW b \in Int,
         Safe(m, K \cup m.spawned, fo, fr, st, o),
         Told(m, K \cup m.spawned, fo, fr, st, o, Nil),
         Counted(m, st, b), Room(K \cup m.spawned, o, b), room => RoomFor(s, m.position, Qty)
  PROVE  LET n == Requote(m, s, room, p) IN
         Told(n, K \cup n.spawned, fo, fr, st, o, Nil) /\ Room(K \cup n.spawned, o, b)
<1> DEFINE n == Requote(m, s, room, p)
           L == K \cup m.spawned
<1>0. n \in Makers /\ L \in SUBSET Requests BY RequoteTypes, MakerFacts
<1>s. Safe(m, L, fo, fr, st, o) /\ Told(m, L, fo, fr, st, o, Nil) /\ Room(L, o, b) OBVIOUS
<1>1. p > 0 \/ p <= 0 OBVIOUS
<1> HIDE DEF n, L
<1>2. CASE n = m BY <1>2, <1>s DEF L, n
<1>3. CASE m.next <= MaxOrders /\ m.side[s].client = Nil /\ room /\ n = LimitOrder(m, s, p)
  <2>1. CASE p > 0
    <3> DEFINE r == CreateOf(m, s, p)
    <3>1. SameOtherwise(m, n, s) /\ AsksFor(m, n, r)
          /\ SideIs(n.side[s], m.side[s].orderID, m.next, m.side[s].client2,
                    p, m.side[s].price2)
      BY <1>3, <2>1, LimitSent
    <3>2. Told(n, L \cup {r}, fo, fr, st, o, Nil)
      BY <1>0, <1>s, <1>3, <3>1, LimitTold
    <3>3. K \cup n.spawned = L \cup {r} BY <3>1 DEF AsksFor, L
    <3>4. RoomFor(s, b, Qty) BY <1>0, <1>s, <1>3, RoomIsThere
    <3>5. r.side = s BY DEF CreateOf
    <3> HIDE DEF r
    <3>6. Room(L \cup {r}, o, b) BY <1>s, <3>4, <3>5 DEF Room
    <3> QED BY <3>2, <3>3, <3>6, Zenon DEF n
  <2>2. CASE p <= 0
    <3>1. SameOtherwise(m, n, s) /\ NothingNew(m, n)
          /\ SideIs(n.side[s], m.side[s].orderID, m.side[s].client, m.side[s].client2,
                    p, m.side[s].price2)
      BY <1>3, <2>2, LimitUnsent
    <3>2. SameSlots(m, n) BY <3>1 DEF SameOtherwise, NothingNew, SideIs, SameSlots
    <3>3. K \cup n.spawned = L BY <3>1 DEF NothingNew, L
    <3>4. Told(n, L, fo, fr, st, o, Nil) BY <1>0, <1>s, <3>2, SlotsTold
    <3> QED BY <1>s, <3>3, <3>4, Zenon DEF n
  <2> QED BY <1>1, <2>1, <2>2
<1>4. CASE m.next <= MaxOrders /\ m.side[s].client # Nil /\ m.side[s].client2 = Nil
           /\ n = ReplaceOrder(m, s, p)
  <2>1. CASE m.side[s].orderID # Nil
    <3> DEFINE r == ReplaceOf(m, s, p)
    <3>1. SameOtherwise(m, n, s) /\ AsksFor(m, n, r)
          /\ SideIs(n.side[s], m.side[s].orderID, m.side[s].client, m.next,
                    m.side[s].price, p)
      BY <1>4, <2>1, ReplaceSent
    <3>2. Told(n, L \cup {r}, fo, fr, st, o, Nil)
      BY <1>0, <1>s, <1>4, <3>1, ReplaceTold
    <3>3. K \cup n.spawned = L \cup {r} BY <3>1 DEF AsksFor, L
    <3>5. r.op = "replace" BY DEF ReplaceOf
    <3> HIDE DEF r
    <3>6. Room(L \cup {r}, o, b) BY <1>s, <3>5 DEF Room
    <3> QED BY <3>2, <3>3, <3>6, Zenon DEF n
  <2>2. CASE m.side[s].orderID = Nil
    <3>1. SameOtherwise(m, n, s) /\ NothingNew(m, n)
          /\ SideIs(n.side[s], m.side[s].orderID, m.side[s].client, m.side[s].client2,
                    m.side[s].price, p)
      BY <1>4, <2>2, ReplaceUnsent
    <3>2. SameSlots(m, n) BY <3>1 DEF SameOtherwise, NothingNew, SideIs, SameSlots
    <3>3. K \cup n.spawned = L BY <3>1 DEF NothingNew, L
    <3>4. Told(n, L, fo, fr, st, o, Nil) BY <1>0, <1>s, <3>2, SlotsTold
    <3> QED BY <1>s, <3>3, <3>4, Zenon DEF n
  <2> QED BY <2>1, <2>2
<1>5. \/ n = m
      \/ m.next <= MaxOrders /\ m.side[s].client = Nil /\ room /\ n = LimitOrder(m, s, p)
      \/ m.next <= MaxOrders /\ m.side[s].client # Nil /\ m.side[s].client2 = Nil
         /\ n = ReplaceOrder(m, s, p)
  BY RequoteCases DEF n
<1> QED BY <1>2, <1>3, <1>4, <1>5

(* All that holds of the main loop's state m when nothing was lost. *)
Sound(m, K, fo, fr, st, o, b) ==
  /\ Safe(m, K, fo, fr, st, o) /\ Told(m, K, fo, fr, st, o, Nil)
  /\ Counted(m, st, b) /\ Room(K, o, b)

(* An evaluation keeps the invariant. *)
LEMMA EvaluateSound ==
  ASSUME NEW m \in Makers, NEW n \in Evaluate(m),
         NEW K \in SUBSET Requests, NEW fo \in SUBSET IDs, NEW fr \in SUBSET IDs,
         NEW st \in Seq(Events), NEW o \in Orders, NEW b \in Int,
         Sound(m, K \cup m.spawned, fo, fr, st, o, b)
  PROVE  Sound(n, K \cup n.spawned, fo, fr, st, o, b)
<1>0. Safe(m, K \cup m.spawned, fo, fr, st, o) BY DEF Sound
<1>1. CASE n = m BY <1>1
<1>2. ASSUME NEW a, NEW p, NEW q, TradesAt(m, n, a, p, q)
      PROVE  Sound(n, K \cup n.spawned, fo, fr, st, o, b)
  <2>0. "buy" \in Sides /\ "sell" \in Sides BY DEF Sides
  <2>a. a \in Makers /\ a.position = m.position /\ p \in Int /\ q \in Int
        /\ a = Requote(m, "buy", m.position + Qty <= MaximumPosition, p)
        /\ n = Requote(a, "sell", m.position - Qty >= MinimumPosition, q)
    BY <1>2 DEF TradesAt
  <2>1. Safe(a, K \cup a.spawned, fo, fr, st, o)
    BY <1>0, <1>2, <2>0, RequoteKeeps, Zenon DEF TradesAt
  <2>2. Safe(n, K \cup n.spawned, fo, fr, st, o) BY <1>0, EvaluateKeeps, Zenon
  <2>3. Told(a, K \cup a.spawned, fo, fr, st, o, Nil) /\ Room(K \cup a.spawned, o, b)
    <3>1. m.position + Qty <= MaximumPosition => RoomFor("buy", m.position, Qty) BY DEF RoomFor
    <3> QED BY <2>0, <2>a, <3>1, RequoteTold, Zenon DEF Sound
  <2>4. Counted(a, st, b) BY <2>a, CountedSame DEF Sound
  <2>5. Told(n, K \cup n.spawned, fo, fr, st, o, Nil) /\ Room(K \cup n.spawned, o, b)
    <3>1. m.position - Qty >= MinimumPosition => RoomFor("sell", a.position, Qty)
      BY <2>a, Zenon DEF RoomFor
    <3> QED BY <2>0, <2>a, <2>1, <2>3, <2>4, <3>1, RequoteTold, Zenon
  <2>6. n \in Makers /\ n.position = a.position BY <2>0, <2>a, RequotePrices
  <2>7. Counted(n, st, b) BY <2>a, <2>4, <2>6, CountedSame
  <2> QED BY <2>2, <2>5, <2>7 DEF Sound
<1> QED BY <1>0, <1>1, <1>2, EvaluateCases, Zenon DEF Safe

-----------------------------------------------------------------------------
(* An update. *)

(* The order whose end the main loop is being told of. *)
EndOf(u) == IF u.final THEN u.id ELSE Nil

(* What an update that was just taken off the stream leaves behind. *)
Taken(m, u, st, o) ==
  /\ u.id \in m.orders
  /\ \A s \in Sides : m.side[s].client2 # u.id
  /\ u.final => \A i \in 1..Len(st) : st[i].id # u.id
  /\ Left(u) => \A i \in 1..Len(st) : st[i].qty > 0 => o[u.id].by # st[i].id

(* An event is taken off the stream. *)
LEMMA TailTold ==
  ASSUME NEW m \in Makers, NEW K \in SUBSET Requests, NEW fo \in SUBSET IDs,
         NEW fr \in SUBSET IDs, NEW st \in Seq(Events), NEW o \in Orders,
         Safe(m, K, fo, fr, st, o), Told(m, K, fo, fr, st, o, Nil), st # << >>
  PROVE  /\ Told(m, K, fo, fr, Tail(st), o, EndOf(Head(st)))
         /\ Taken(m, Head(st), Tail(st), o)
<1> USE IDFacts
<1> DEFINE u == Head(st)
           tt == Tail(st)
           e == EndOf(u)
<1>1. /\ u \in Events /\ u = st[1] /\ Len(st) >= 1
      /\ tt \in Seq(Events) /\ Len(tt) = Len(st) - 1
      /\ \A i \in 1..Len(tt) : tt[i] = st[i + 1]
  BY TailFacts
<1>2. Len(st) \in Nat BY EventFacts
<1>u. u.id \in IDs /\ u.final \in BOOLEAN BY <1>1 DEF Events
<1>l. u.final => \A i \in 1..Len(tt) : tt[i].id # u.id BY TailKeeps, Zenon
<1> HIDE DEF u, tt
<1>e. u.final => e = u.id BY DEF EndOf
<1>f. ~ u.final => e = Nil BY DEF EndOf
<1> HIDE DEF e
<1>i. \A i \in 1..Len(tt) : i + 1 \in 1..Len(st) /\ i + 1 # 1 /\ tt[i] = st[i + 1]
  BY <1>1, <1>2
<1>j. \A i \in 1..Len(st) : i # 1 => i - 1 \in 1..Len(tt) /\ st[i] = tt[i - 1]
  <2> SUFFICES ASSUME NEW i \in 1..Len(st), i # 1 PROVE i - 1 \in 1..Len(tt) /\ st[i] = tt[i - 1]
    OBVIOUS
  <2>1. i - 1 \in 1..Len(tt) BY <1>1, <1>2
  <2>2. (i - 1) + 1 = i BY <1>2
  <2> QED BY <1>1, <2>1, <2>2
<1>o. 1 \in 1..Len(st) BY <1>1, <1>2
<1>3. Known(m, K, fo, fr, tt, o, e)
  <2>1. \A i \in 1..Len(tt) : tt[i].id \in m.orders BY <1>i DEF Told, Known
  <2>2. ASSUME NEW c \in m.orders, c # e, o[c].status = "over" PROVE Ends(tt, c)
    <3>0. c # Nil BY MakerFacts
    <3>1. PICK i \in 1..Len(st) : st[i].id = c /\ st[i].final
      BY <2>2, <3>0 DEF Told, Known, Ends
    <3>2. i # 1 BY <1>1, <1>e, <2>2, <3>1
    <3> QED BY <1>j, <3>1, <3>2 DEF Ends
  <2>3. ASSUME NEW c \in m.orders, c # e, o[c].status = "none" PROVE Waits(K, fo, fr, c)
    <3>0. c # Nil BY MakerFacts
    <3> QED BY <2>3, <3>0 DEF Told, Known
  <2> QED BY <2>1, <2>2, <2>3 DEF Known
<1>n. \A s \in Sides : m.side[s].client2 # Nil => m.side[s].client # Nil
  BY Zenon DEF Safe, Named, NamedOf
<1>4. InTurn(m, tt, e)
  <2> SUFFICES ASSUME NEW s \in Sides, NEW i \in 1..Len(tt), m.side[s].client2 = tt[i].id,
                      m.side[s].client # e
               PROVE  \E j \in 1..i - 1 : tt[j].id = m.side[s].client /\ tt[j].final
    BY DEF InTurn, TurnOf
  <2>1. m.side[s].client2 = st[i + 1].id /\ i + 1 \in 1..Len(st) BY <1>i
  <2>2. st[i + 1].id # Nil BY <2>1, EventFacts
  <2>3. TurnOf(m.side[s], st, i + 1, Nil) BY <2>1 DEF Told, InTurn
  <2>4. PICK j \in 1..(i + 1) - 1 : st[j].id = m.side[s].client /\ st[j].final
    BY <1>n, <2>1, <2>2, <2>3 DEF TurnOf
  <2>5. j \in 1..i /\ j \in 1..Len(st) BY <1>1, <1>2, <2>4
  <2>6. j # 1 BY <1>1, <1>e, <2>4
  <2>7. j - 1 \in 1..i - 1 /\ st[j] = tt[j - 1] BY <1>j, <2>5, <2>6
  <2> QED BY <2>4, <2>7
<1>5. Filled(m, tt, o)
  <2>1. Filled(m, st, o) BY DEF Told
  <2>2. ASSUME NEW i \in 1..Len(tt), tt[i].qty > 0
        PROVE  \/ tt[i].id = m.side[tt[i].side].client
               \/ tt[i].id = m.side[tt[i].side].client2
    BY <2>1, <2>2, <1>i, Zenon DEF Filled
  <2>3. ASSUME NEW i \in 1..Len(tt), NEW j \in 1..Len(tt), Left(tt[i]), tt[j].qty > 0
        PROVE  o[tt[i].id].by # tt[j].id
    <3>1. /\ i + 1 \in 1..Len(st) /\ tt[i] = st[i + 1]
          /\ j + 1 \in 1..Len(st) /\ tt[j] = st[j + 1]
      BY <1>i, Zenon
    <3> QED BY <2>1, <2>3, <3>1, Zenon DEF Filled
  <2> QED BY <2>2, <2>3 DEF Filled
<1>6. \A s \in Sides : m.side[s].client2 # u.id
  <2> SUFFICES ASSUME NEW s \in Sides, m.side[s].client2 = u.id PROVE FALSE OBVIOUS
  <2>1. TurnOf(m.side[s], st, 1, Nil) BY <1>o DEF Told, InTurn
  <2>2. m.side[s].client # Nil BY <1>n, <1>u
  <2>3. \E j \in 1..1 - 1 : st[j].id = m.side[s].client /\ st[j].final
    BY <1>1, <2>1, <2>2 DEF TurnOf
  <2> QED BY <2>3
<1>7. u.id \in m.orders BY <1>1, <1>o DEF Told, Known
<1>8. Left(u) => \A i \in 1..Len(tt) : tt[i].qty > 0 => o[u.id].by # tt[i].id
  <2>1. Filled(m, st, o) BY DEF Told
  <2> QED BY <2>1, <1>1, <1>i, <1>o DEF Filled
<1>9. Taken(m, u, tt, o) BY <1>l, <1>6, <1>7, <1>8 DEF Taken
<1>10. Told(m, K, fo, fr, tt, o, e) BY <1>3, <1>4, <1>5 DEF Told
<1> QED BY <1>9, <1>10 DEF u, tt, e

(* The position follows the fill that was taken off the stream. *)
LEMMA TailCounted ==
  ASSUME NEW m \in Makers, NEW n \in Makers, NEW st \in Seq(Events), NEW b \in Int,
         Counted(m, st, b), st # << >>,
         n.position = IF Head(st).qty > 0 THEN Head(st).position ELSE m.position
  PROVE  Counted(n, Tail(st), b)
<1> DEFINE u == Head(st)
           tt == Tail(st)
<1>1. /\ u = st[1] /\ Len(st) >= 1 /\ Len(tt) = Len(st) - 1
      /\ \A i \in 1..Len(tt) : tt[i] = st[i + 1]
  BY TailFacts
<1>2. Len(st) \in Nat BY EventFacts
<1>u. n.position = IF u.qty > 0 THEN u.position ELSE m.position OBVIOUS
<1> HIDE DEF u, tt
<1>j. \A i \in 1..Len(st) : i # 1 => i - 1 \in 1..Len(tt) /\ st[i] = tt[i - 1]
  <2> SUFFICES ASSUME NEW i \in 1..Len(st), i # 1 PROVE i - 1 \in 1..Len(tt) /\ st[i] = tt[i - 1]
    OBVIOUS
  <2>1. i - 1 \in 1..Len(tt) BY <1>1, <1>2
  <2>2. (i - 1) + 1 = i BY <1>2
  <2> QED BY <1>1, <2>1, <2>2
<1>n. ASSUME NEW s, NEW i \in 0..Len(tt), None(tt, s, i) PROVE None(st, s, i + 1)
  <2> SUFFICES ASSUME NEW j \in i + 1 + 1..Len(st) PROVE ~ (st[j].qty > 0 /\ st[j].side = s)
    BY DEF None
  <2>1. j \in 1..Len(st) /\ j # 1 /\ j - 1 \in i + 1..Len(tt) BY <1>1, <1>2
  <2> QED BY <1>j, <1>n, <2>1, Zenon DEF None
<1> SUFFICES ASSUME NEW i \in 0..Len(tt)
             PROVE  /\ None(tt, "buy", i) => b <= At(n, tt, i)
                    /\ None(tt, "sell", i) => b >= At(n, tt, i)
  BY DEF Counted, tt
<1>3. CASE i # 0
  <2>1. i \in 1..Len(tt) /\ i + 1 \in 0..Len(st) /\ i + 1 # 0 BY <1>1, <1>2, <1>3
  <2>2. At(n, tt, i) = At(m, st, i + 1) BY <1>1, <1>3, <2>1, Zenon DEF At
  <2> QED BY <1>n, <2>1, <2>2 DEF Counted
<1>4. CASE i = 0
  <2>0. 0 \in 0..Len(st) /\ 1 \in 0..Len(st) /\ 1 \in 1..Len(st) BY <1>1, <1>2
  <2>1. At(n, tt, i) = n.position BY <1>4 DEF At
  <2>2. CASE u.qty > 0
    <3>1. At(m, st, 1) = n.position BY <1>1, <1>u, <2>2 DEF At
    <3>2. \A s : None(tt, s, 0) => None(st, s, 1) BY <1>n, <1>4
    <3> QED BY <1>4, <2>0, <2>1, <3>1, <3>2 DEF Counted
  <2>3. CASE ~ (u.qty > 0)
    <3>1. At(m, st, 0) = n.position BY <1>1, <1>u, <2>3 DEF At
    <3>2. ASSUME NEW s, None(tt, s, 0) PROVE None(st, s, 0)
      <4>1. None(st, s, 1) BY <1>n, <1>4, <3>2
      <4>2. \A j \in 0 + 1..Len(st) : j = 1 \/ j \in 1 + 1..Len(st) BY <1>2
      <4> QED BY <1>1, <2>3, <4>1, <4>2 DEF None
    <3> QED BY <1>4, <2>0, <2>1, <3>1, <3>2 DEF Counted
  <2> QED BY <2>2, <2>3
<1> QED BY <1>3, <1>4

(* The order e is gone from the main loop's books. *)
LEMMA RemoveTold ==
  ASSUME NEW m \in Makers, NEW n \in Makers, NEW e \in IDs, NEW K \in SUBSET Requests,
         NEW fo \in SUBSET IDs, NEW fr \in SUBSET IDs, NEW st \in Seq(Events), NEW o \in Orders,
         Safe(m, K, fo, fr, st, o), Told(m, K, fo, fr, st, o, e), Removed(m, n, e),
         \A i \in 1..Len(st) : st[i].id # e, \A s \in Sides : m.side[s].client2 # e, e \notin fo,
         \/ \A s \in Sides : m.side[s].client # e
         \/ \A i \in 1..Len(st) : st[i].qty > 0 => o[e].by # st[i].id
  PROVE  Told(n, K, fo, fr, st, o, Nil)
<1> USE IDFacts
<1>r. n.orders = m.orders \ {e}
      /\ \A s \in Sides : n.side[s] = IF m.side[s].client = e THEN NoOrder ELSE m.side[s]
  BY DEF Removed
<1>d. NoOrder.client = Nil /\ NoOrder.client2 = Nil BY DEF NoOrder
<1>h. \A i \in 1..Len(st) : /\ st[i].id \in IDs /\ st[i].side \in Sides
                            /\ o[st[i].id].status \in {"open", "over"}
  BY HeardIDs DEF Safe
<1>1. Kept(n) BY <1>r, <1>d DEF Told, Kept
<1>2. Known(n, K, fo, fr, st, o, Nil) BY <1>r DEF Told, Known
<1>3. InTurn(n, st, Nil)
  <2> SUFFICES ASSUME NEW s \in Sides, NEW i \in 1..Len(st) PROVE TurnOf(n.side[s], st, i, Nil)
    BY DEF InTurn
  <2>1. CASE m.side[s].client = e
    <3>1. n.side[s].client2 = Nil BY <1>r, <1>d, <2>1
    <3>2. st[i].id # Nil BY <1>h
    <3> QED BY <3>1, <3>2 DEF TurnOf
  <2>2. CASE m.side[s].client # e
    <3>1. n.side[s] = m.side[s] BY <1>r, <2>2
    <3>2. TurnOf(m.side[s], st, i, e) BY DEF Told, InTurn
    <3> QED BY <2>2, <3>1, <3>2 DEF TurnOf
  <2> QED BY <2>1, <2>2
<1>4. Filled(n, st, o)
  <2>1. ASSUME NEW i \in 1..Len(st), st[i].qty > 0
        PROVE  \/ st[i].id = n.side[st[i].side].client
               \/ st[i].id = n.side[st[i].side].client2
    <3> DEFINE s == st[i].side
    <3>0. s \in Sides BY <1>h
    <3>1. st[i].id = m.side[s].client \/ st[i].id = m.side[s].client2
      BY <2>1 DEF Told, Filled
    <3>2. m.side[s].client # e
      <4> SUFFICES ASSUME m.side[s].client = e PROVE FALSE OBVIOUS
      <4>1. st[i].id = m.side[s].client2 BY <3>1
      <4>2. m.side[s].client2 # Nil /\ o[m.side[s].client2].status # "none"
        BY <1>h, <4>1, Zenon
      <4>3. NamedOf(m.side[s], s, o) BY <3>0 DEF Safe, Named
      <4>4. o[e].by = st[i].id BY <4>1, <4>2, <4>3, Zenon DEF NamedOf
      <4> QED BY <2>1, <3>0, <4>4
    <3>3. n.side[s] = m.side[s] BY <1>r, <3>0, <3>2
    <3> QED BY <3>1, <3>3
  <2> QED BY <2>1 DEF Told, Filled
<1>5. Posted(n, fo)
  <2> SUFFICES ASSUME NEW c \in fo PROVE \E t \in Sides : n.side[t].client = c BY DEF Posted
  <2>1. PICK t \in Sides : m.side[t].client = c BY DEF Told, Posted
  <2>2. c # e OBVIOUS
  <2> QED BY <1>r, <2>1, <2>2
<1> QED BY <1>1, <1>2, <1>3, <1>4, <1>5 DEF Told

(* A replacement has taken the place of the order u.id. *)
LEMMA MoveTold ==
  ASSUME NEW m \in Makers, NEW n \in Makers, NEW u \in Events, NEW K \in SUBSET Requests,
         NEW fo \in SUBSET IDs, NEW fr \in SUBSET IDs, NEW st \in Seq(Events), NEW o \in Orders,
         Safe(m, K, fo, fr, st, o), Told(m, K, fo, fr, st, o, u.id), HeardOf(m, u, o),
         u.event = "replaced", \A i \in 1..Len(st) : st[i].id # u.id, u.id \notin fo,
         SameOtherwise(m, n, u.side), n.orders = m.orders \ {m.side[u.side].client},
         SideIs(n.side[u.side], u.by, m.side[u.side].client2, Nil,
                m.side[u.side].price2, m.side[u.side].price2)
  PROVE  /\ Told(n, K, fo, fr, st, o, u.id)
         /\ \A s \in Sides : n.side[s].client # u.id
<1> USE IDFacts
<1> DEFINE s == u.side
           c == u.id
<1>s. s \in Sides /\ c \in IDs BY DEF Events
<1>u. /\ m.side[s].client = c /\ m.side[s].client2 = u.by /\ u.by # Nil /\ o[c].by = u.by
  BY Zenon DEF HeardOf
<1>b. u.by # c
  <2>1. Chain(m, o) BY DEF Safe
  <2>2. c \in IDs /\ o[c].by # Nil /\ o[c].by = u.by BY <1>s, <1>u
  <2> HIDE DEF c
  <2> QED BY <2>1, <2>2 DEF Chain
<1>d. /\ n.side[s].client = m.side[s].client2 /\ n.side[s].client2 = Nil
      /\ \A t \in Sides : t # s => n.side[t] = m.side[t]
      /\ n.orders = m.orders \ {c}
  BY <1>u DEF SideIs, SameOtherwise
<1>t. \A t \in Sides : t # s => m.side[t].client # c /\ m.side[t].client2 # c
  BY <1>s, <1>u DEF Safe, Distinct
<1>n. \A i \in 1..Len(st) : st[i].id # c OBVIOUS
<1>f. c \notin fo OBVIOUS
<1>h. \A i \in 1..Len(st) : st[i].id \in IDs /\ st[i].side \in Sides BY HeardIDs DEF Safe
<1>T. Told(m, K, fo, fr, st, o, c) OBVIOUS
<1> HIDE DEF s, c
<1>1. Kept(n) BY <1>T, <1>s, <1>u, <1>b, <1>d, <1>t DEF Told, Kept
<1>2. Known(n, K, fo, fr, st, o, c) BY <1>T, <1>d, <1>n, Zenon DEF Told, Known
<1>3. InTurn(n, st, c)
  <2> SUFFICES ASSUME NEW t \in Sides, NEW i \in 1..Len(st) PROVE TurnOf(n.side[t], st, i, c)
    BY DEF InTurn
  <2>1. CASE t = s BY <1>d, <1>h, <2>1 DEF TurnOf
  <2>2. CASE t # s BY <1>T, <1>d, <2>2 DEF Told, InTurn
  <2> QED BY <2>1, <2>2
<1>4. Filled(n, st, o)
  <2>1. ASSUME NEW i \in 1..Len(st), st[i].qty > 0
        PROVE  \/ st[i].id = n.side[st[i].side].client
               \/ st[i].id = n.side[st[i].side].client2
    <3>1. \/ st[i].id = m.side[st[i].side].client
          \/ st[i].id = m.side[st[i].side].client2
      BY <1>T, <2>1, Zenon DEF Told, Filled
    <3>2. CASE st[i].side = s BY <1>d, <1>u, <1>n, <3>1, <3>2
    <3>3. CASE st[i].side # s BY <1>h, <1>d, <3>1, <3>3, Zenon
    <3> QED BY <3>2, <3>3, Zenon
  <2> QED BY <1>T, <2>1, Zenon DEF Told, Filled
<1>5. Posted(n, fo)
  <2> SUFFICES ASSUME NEW x \in fo PROVE \E t \in Sides : n.side[t].client = x BY DEF Posted
  <2>1. PICK t \in Sides : m.side[t].client = x BY <1>T DEF Told, Posted
  <2>2. t # s BY <1>u, <1>f, <2>1
  <2> QED BY <1>d, <2>1, <2>2
<1>6. \A t \in Sides : n.side[t].client # c BY <1>b, <1>u, <1>d, <1>t
<1> QED BY <1>1, <1>2, <1>3, <1>4, <1>5, <1>6 DEF Told, c

(* The steps of the handler before the order moves. *)
LEMMA HandledSafe ==
  ASSUME NEW m \in Makers, NEW u \in Events, NEW K \in SUBSET Requests,
         NEW fo \in SUBSET IDs, NEW fr \in SUBSET IDs, NEW st \in Seq(Events), NEW o \in Orders,
         Safe(m, K, fo, fr, st, o), HeardOf(m, u, o)
  PROVE  Safe(FilledBy(NamedBy(m, u), u), K, fo, fr, st, o)
<1> DEFINE a == NamedBy(m, u)
           b == FilledBy(a, u)
<1>u. u.side \in Sides /\ u.id \in IDs BY DEF Events
<1>1. a \in Makers BY NamedFacts
<1>2. Safe(a, K, fo, fr, st, o)
  <2>1. CASE m.side[u.side].orderID = Nil
    <3>1. o[u.id].status \in {"open", "over"} /\ o[u.id].side = u.side BY DEF HeardOf
    <3>2. a = NameOrder(m, u.side, u.id) BY <2>1 DEF NamedBy
    <3> HIDE DEF a
    <3>3. SameOtherwise(m, a, u.side) /\ NothingNew(m, a)
          /\ SideIs(a.side[u.side], u.id, m.side[u.side].client, m.side[u.side].client2,
                    m.side[u.side].price, m.side[u.side].price2)
      BY <1>u, <3>2, NameFacts
    <3> QED BY <2>1, <1>1, <1>u, <3>1, <3>3, NameKeeps
  <2>2. CASE m.side[u.side].orderID # Nil BY <2>2 DEF NamedBy
  <2> QED BY <2>1, <2>2
<1> HIDE DEF a
<1>3. b \in Makers /\ SameBooks(a, b) BY <1>1, FillFacts
<1> HIDE DEF b
<1>4. Safe(b, K, fo, fr, st, o) BY <1>1, <1>2, <1>3, BooksKeep
<1> QED BY <1>4 DEF b, a

(* Before the order is removed. *)
LEMMA HandledTold ==
  ASSUME NEW m \in Makers, NEW u \in Events, NEW K \in SUBSET Requests,
         NEW fo \in SUBSET IDs, NEW fr \in SUBSET IDs, NEW st \in Seq(Events), NEW o \in Orders,
         Safe(m, K, fo, fr, st, o), HeardOf(m, u, o), Told(m, K, fo, fr, st, o, EndOf(u)),
         Taken(m, u, st, o)
  PROVE  LET n == Handled(m, u) IN
         /\ Told(n, K, fo, fr, st, o, EndOf(u))
         /\ \A s \in Sides : n.side[s].client2 # u.id
         /\ u.final => \/ \A s \in Sides : n.side[s].client # u.id
                       \/ \A i \in 1..Len(st) : st[i].qty > 0 => o[u.id].by # st[i].id
<1> USE IDFacts
<1> DEFINE a == NamedBy(m, u)
           b == FilledBy(a, u)
           n == MovedBy(b, u)
           e == EndOf(u)
<1>u. u.side \in Sides /\ u.id \in IDs /\ u.final \in BOOLEAN BY DEF Events
<1>e. e \in IDs \cup {Nil} BY <1>u DEF EndOf
<1>1. /\ a \in Makers /\ SameSlots(m, a)
      /\ a.side[u.side].price2 = m.side[u.side].price2
  BY <1>u, NamedFacts DEF SameSlots
<1> HIDE DEF a
<1>2. b \in Makers /\ SameBooks(a, b) BY <1>1, FillFacts
<1>3. /\ SameSlots(m, b) /\ b.side[u.side].price2 = m.side[u.side].price2
  BY <1>1, <1>2 DEF SameSlots, SameBooks
<1> HIDE DEF b, e
<1>4. Told(b, K, fo, fr, st, o, e) BY <1>2, <1>3, <1>e, SlotsTold, Zenon DEF e
<1>5. HeardOf(b, u, o) BY <1>2, <1>3, <1>u, HeardSlots DEF SameSlots
<1>6. \A s \in Sides : b.side[s].client2 # u.id BY <1>3 DEF SameSlots, Taken
<1>7. CASE u.event = "replaced"
  <2>0. u.final BY <1>5, <1>7 DEF HeardOf
  <2>1. e = u.id BY <2>0 DEF e, EndOf
  <2>2. n = OnReplaced(b, u) BY <1>7 DEF MovedBy
  <2> HIDE DEF n
  <2>3. /\ n \in Makers /\ SameOtherwise(b, n, u.side)
        /\ n.orders = b.orders \ {b.side[u.side].client}
        /\ SideIs(n.side[u.side], u.by, b.side[u.side].client2, Nil,
                  b.side[u.side].price2, b.side[u.side].price2)
    BY <1>2, <2>2, ReplacedFacts
  <2>4. \A i \in 1..Len(st) : st[i].id # u.id BY <2>0 DEF Taken
  <2>5. Safe(b, K, fo, fr, st, o) BY HandledSafe DEF b, a
  <2>6. u.id \notin fo BY <1>5, Zenon DEF HeardOf, Safe, Asked
  <2>7. Told(n, K, fo, fr, st, o, u.id) /\ \A s \in Sides : n.side[s].client # u.id
    BY <1>2, <1>4, <1>5, <1>7, <2>1, <2>3, <2>4, <2>5, <2>6, MoveTold, Zenon
  <2>8. \A s \in Sides : n.side[s].client2 # u.id
    BY <1>6, <1>u, <2>3 DEF SideIs, SameOtherwise
  <2> QED BY <2>1, <2>7, <2>8 DEF Handled, n, b, a, e
<1>8. CASE u.event # "replaced"
  <2>1. n \in Makers /\ SameBooks(b, n) BY <1>2, <1>8, MoveFacts
  <2> HIDE DEF n
  <2>2. SameSlots(b, n) BY <2>1 DEF SameBooks, SameSlots
  <2>3. Told(n, K, fo, fr, st, o, e) BY <1>2, <1>4, <1>e, <2>1, <2>2, SlotsTold
  <2>4. \A s \in Sides : n.side[s].client2 # u.id BY <1>6, <2>2 DEF SameSlots
  <2>5. u.final => \A i \in 1..Len(st) : st[i].qty > 0 => o[u.id].by # st[i].id
    BY <1>8 DEF Taken, Left
  <2> QED BY <2>3, <2>4, <2>5 DEF Handled, n, b, a, e
<1> QED BY <1>7, <1>8

(* An update keeps the invariant. *)
LEMMA UpdateSound ==
  ASSUME NEW m \in Makers, NEW K \in SUBSET Requests, NEW fo \in SUBSET IDs,
         NEW fr \in SUBSET IDs, NEW st \in Seq(Events), NEW o \in Orders, NEW x \in Int,
         Sound(m, K, fo, fr, st, o, x), st # << >>, m.spawned = {},
         NEW n \in OnOrderUpdate(m, Head(st))
  PROVE  Sound(n, K \cup n.spawned, fo, fr, Tail(st), o, x)
<1> DEFINE u == Head(st)
           tt == Tail(st)
           a == Handled(m, u)
           b == RemoveOrder(a, u.id)
<1>0. Safe(m, K, fo, fr, st, o) /\ Told(m, K, fo, fr, st, o, Nil) BY DEF Sound
<1>c. u \in Events /\ tt \in Seq(Events) BY TailFacts
<1>1. Safe(m, K, fo, fr, tt, o) /\ HeardOf(m, u, o) BY <1>0, TailKeeps, Zenon
<1>2. Told(m, K, fo, fr, tt, o, EndOf(u)) /\ Taken(m, u, tt, o) BY <1>0, TailTold
<1>3. n \in IF u.final THEN Evaluate(b) ELSE {a}
  <2>1. u.id \in m.orders BY <1>2 DEF Taken
  <2> QED BY <2>1, UpdateSteps DEF Handled
<1>4. a \in Makers /\ a.spawned = m.spawned
      /\ a.position = IF u.qty > 0 THEN u.position ELSE m.position
  BY <1>c, HandledFacts
<1>p. Counted(a, tt, x)
  <2> HIDE DEF a
  <2> QED BY <1>4, TailCounted DEF Sound
<1> HIDE DEF u, tt
<1>l. u.final => \A i \in 1..Len(tt) : tt[i].id # u.id BY <1>2 DEF Taken
<1>5. Safe(a, K, fo, fr, tt, o) BY <1>1, <1>c, <1>l, HandledKeeps
<1>g. u.final => Gone(a, u.id, K, fo, fr, tt, o) BY <1>1, <1>c, <1>l, HandledKeeps, Zenon
<1>6. Told(a, K, fo, fr, tt, o, EndOf(u)) BY <1>1, <1>2, <1>c, HandledTold
<1>7. \A s \in Sides : a.side[s].client2 # u.id BY <1>1, <1>2, <1>c, HandledTold, Zenon
<1>8. u.final => \/ \A s \in Sides : a.side[s].client # u.id
                 \/ \A i \in 1..Len(tt) : tt[i].qty > 0 => o[u.id].by # tt[i].id
  BY <1>1, <1>2, <1>c, HandledTold
<1> HIDE DEF a
<1>r. Room(K, o, x) BY DEF Sound
<1>9. CASE ~ u.final
  <2>1. n = a /\ K \cup n.spawned = K BY <1>3, <1>4, <1>9
  <2>2. EndOf(u) = Nil BY <1>9 DEF EndOf
  <2> QED BY <1>5, <1>6, <1>p, <1>r, <2>1, <2>2, Zenon DEF Sound, tt
<1>10. CASE u.final
  <2>0. EndOf(u) = u.id /\ u.id \in IDs BY <1>10, <1>c DEF EndOf, Events
  <2>1. b \in Makers /\ Removed(a, b, u.id) BY <1>4, RemoveFacts
  <2> HIDE DEF b
  <2>2. Safe(b, K, fo, fr, tt, o) BY <1>4, <1>5, <1>g, <1>c, <1>10, <2>0, <2>1, RemoveKeeps
  <2>3. u.id \notin fo BY <1>g, <1>10 DEF Gone
  <2>4. Told(b, K, fo, fr, tt, o, Nil)
    BY <1>4, <1>5, <1>6, <1>7, <1>8, <1>c, <1>l, <1>10, <2>0, <2>1, <2>3, RemoveTold
  <2>5. b.spawned = {} /\ b.position = a.position BY <1>4, <2>1 DEF Removed
  <2>6. K \cup b.spawned = K BY <2>5
  <2>7. Counted(b, tt, x) BY <1>4, <1>c, <1>p, <2>1, <2>5, CountedSame
  <2>8. Sound(b, K, fo, fr, tt, o, x) BY <1>r, <2>2, <2>4, <2>7 DEF Sound
  <2>9. n \in Evaluate(b) BY <1>3, <1>10
  <2>10. Sound(n, K \cup n.spawned, fo, fr, tt, o, x)
    BY <1>c, <2>1, <2>6, <2>8, <2>9, EvaluateSound, Zenon
  <2> QED BY <2>10 DEF tt
<1> QED BY <1>9, <1>10

(* An order less to be replaced by. *)
LEMMA UndoTold ==
  ASSUME NEW m \in Makers, NEW n \in Makers, NEW e \in IDs, NEW K \in SUBSET Requests,
         NEW fo \in SUBSET IDs, NEW fr \in SUBSET IDs, NEW st \in Seq(Events), NEW o \in Orders,
         Safe(m, K, fo, fr, st, o), Told(m, K, fo, fr, st, o, Nil), Undone(m, n, e), e \in fr,
         o[e].status = "none"
  PROVE  Told(n, K, fo, fr \ {e}, st, o, Nil)
<1> USE IDFacts
<1>r. n.orders = m.orders \ {e}
      /\ \A s \in Sides : n.side[s].client = m.side[s].client
           /\ n.side[s].client2 = IF m.side[s].client2 = e THEN Nil ELSE m.side[s].client2
  BY DEF Undone, SideIs
<1>c. \A s \in Sides : m.side[s].client # e BY Zenon DEF Safe, Replacing
<1>h. \A i \in 1..Len(st) : st[i].id \in IDs /\ st[i].side \in Sides /\ st[i].id # e
  BY HeardIDs DEF Safe
<1>1. Kept(n) BY <1>r, <1>c DEF Told, Kept
<1>2. Known(n, K, fo, fr \ {e}, st, o, Nil)
  <2>1. \A c : c # e /\ Waits(K, fo, fr, c) => Waits(K, fo, fr \ {e}, c) BY DEF Waits
  <2> QED BY <1>r, <1>h, <2>1, Zenon DEF Told, Known
<1>3. InTurn(n, st, Nil)
  <2> SUFFICES ASSUME NEW s \in Sides, NEW i \in 1..Len(st) PROVE TurnOf(n.side[s], st, i, Nil)
    BY DEF InTurn
  <2>1. TurnOf(m.side[s], st, i, Nil) BY DEF Told, InTurn
  <2> QED BY <1>r, <1>h, <2>1 DEF TurnOf
<1>4. Filled(n, st, o)
  <2>1. ASSUME NEW i \in 1..Len(st), st[i].qty > 0
        PROVE  \/ st[i].id = n.side[st[i].side].client
               \/ st[i].id = n.side[st[i].side].client2
    BY <1>r, <1>h, <2>1 DEF Told, Filled
  <2> QED BY <2>1, Zenon DEF Told, Filled
<1>5. Posted(n, fo) BY <1>r DEF Told, Posted
<1> QED BY <1>1, <1>2, <1>3, <1>4, <1>5, Zenon DEF Told

(* Nothing but cancels to carry out. *)
LEMMA CancelsTold ==
  ASSUME NEW m \in Makers, NEW K \in SUBSET Requests, NEW L \in SUBSET Requests,
         NEW fo \in SUBSET IDs, NEW fr \in SUBSET IDs, NEW st \in Seq(Events), NEW o \in Orders,
         NEW x \in Int, NEW n \in Makers,
         Sound(m, K, fo, fr, st, o, x), Asks(L) = Asks(K), SameBooks(m, n),
         n.position = m.position
  PROVE  Sound(n, L, fo, fr, st, o, x)
<1>1. Safe(n, K, fo, fr, st, o) BY BooksKeep DEF Sound
<1>2. Safe(n, L, fo, fr, st, o)
  <2>1. fo \in SUBSET fo /\ fr \in SUBSET fr OBVIOUS
  <2> QED BY <1>1, <2>1, FewerKeep
<1>3. SameSlots(m, n) BY DEF SameBooks, SameSlots
<1>4. Told(n, K, fo, fr, st, o, Nil) BY <1>3, SlotsTold DEF Sound
<1>5. Told(n, L, fo, fr, st, o, Nil) BY <1>4 DEF Told, Known, Waits
<1>6. Counted(n, st, x) BY CountedSame DEF Sound
<1>7. Room(L, o, x)
  <2>1. \A r \in L : r.op = "create" => r \in K BY DEF Asks
  <2> QED BY <2>1 DEF Sound, Room
<1> QED BY <1>2, <1>5, <1>6, <1>7 DEF Sound

(* The inductive invariant while nothing is lost. *)
SoundInv ==
  drops = 0 /\ lost = 0 => Sound(maker, calls, failedOrders, failedReplaces, stream, order, net)

(* What the main loop becomes. *)
LEMMA BecomeSound ==
  ASSUME TypeInv, NEW m \in Makers, Become(m), NEW fo \in SUBSET IDs, NEW fr \in SUBSET IDs,
         NEW st \in Seq(Events), NEW o \in Orders, NEW x \in Int,
         Sound(m, calls \cup m.spawned, fo, fr, st, o, x)
  PROVE  Sound(maker', calls', fo, fr, st, o, x)
<1>1. maker' = [m EXCEPT !.spawned = {}] /\ calls' = calls \cup m.spawned BY DEF Become
<1>2. maker' \in Makers /\ calls' \subseteq Requests BY BecomeTypes
<1>3. SameBooks(m, maker') /\ maker'.position = m.position BY <1>1 DEF SameBooks, Makers
<1>4. calls' \in SUBSET Requests /\ Sound(m, calls', fo, fr, st, o, x) BY <1>1, <1>2
<1>5. Asks(calls') = Asks(calls') OBVIOUS
<1> QED BY <1>2, <1>3, <1>4, CancelsTold, Zenon

-----------------------------------------------------------------------------
(* Events and orders. *)

(* An event more. *)
LEMMA AppendTold ==
  ASSUME NEW m \in Makers, NEW K \in SUBSET Requests, NEW fo \in SUBSET IDs,
         NEW fr \in SUBSET IDs, NEW st \in Seq(Events), NEW o \in Orders, NEW v \in Events,
         Told(m, K, fo, fr, st, o, Nil), v.id \in m.orders,
         \A s \in Sides : m.side[s].client2 = v.id => Ends(st, m.side[s].client),
         v.qty > 0 => v.id = m.side[v.side].client \/ v.id = m.side[v.side].client2,
         Left(v) => \A j \in 1..Len(st) : st[j].qty > 0 => o[v.id].by # st[j].id,
         Left(v) => o[v.id].by # v.id,
         v.qty > 0 => \A i \in 1..Len(st) : Left(st[i]) => o[st[i].id].by # v.id
  PROVE  /\ Told(m, K, fo, fr, Append(st, v), o, Nil)
         /\ v.final => Ends(Append(st, v), v.id)
         /\ \A c : Ends(st, c) => Ends(Append(st, v), c)
<1> DEFINE tt == Append(st, v)
           l == Len(st) + 1
<1>1. /\ Len(tt) = l /\ Len(st) \in Nat /\ tt[l] = v /\ l \in 1..Len(tt)
      /\ \A i \in 1..Len(st) : tt[i] = st[i] /\ i \in 1..Len(tt)
      /\ \A i \in 1..Len(tt) : i \in 1..Len(st) \/ i = l
  BY AppendFacts
<1>a. \A i \in 1..Len(st) : \A j \in 1..i - 1 : j \in 1..Len(st) BY <1>1
<1>b. \A j \in 1..Len(st) : j \in 1..l - 1 BY <1>1
<1> HIDE DEF tt, l
<1>e. \A c : Ends(st, c) => Ends(tt, c) BY <1>1 DEF Ends
<1>f. v.final => Ends(tt, v.id) BY <1>1 DEF Ends
<1>2. Known(m, K, fo, fr, tt, o, Nil)
  <2>1. \A i \in 1..Len(tt) : tt[i].id \in m.orders BY <1>1 DEF Told, Known
  <2> QED BY <1>e, <2>1 DEF Told, Known
<1>3. InTurn(m, tt, Nil)
  <2> SUFFICES ASSUME NEW s \in Sides, NEW i \in 1..Len(tt) PROVE TurnOf(m.side[s], tt, i, Nil)
    BY DEF InTurn
  <2>1. CASE i \in 1..Len(st)
    <3>1. TurnOf(m.side[s], st, i, Nil) BY <2>1 DEF Told, InTurn
    <3> QED BY <1>1, <1>a, <2>1, <3>1, Zenon DEF TurnOf
  <2>2. CASE i = l
    <3> SUFFICES ASSUME m.side[s].client2 = v.id
                 PROVE  \E j \in 1..l - 1 : tt[j].id = m.side[s].client /\ tt[j].final
      BY <1>1, <2>2 DEF TurnOf
    <3>1. PICK j \in 1..Len(st) : st[j].id = m.side[s].client /\ st[j].final BY DEF Ends
    <3> QED BY <1>1, <1>b, <3>1
  <2> QED BY <1>1, <2>1, <2>2
<1>4. Filled(m, tt, o)
  <2>0. Filled(m, st, o) BY DEF Told
  <2>1. ASSUME NEW i \in 1..Len(tt), tt[i].qty > 0
        PROVE  \/ tt[i].id = m.side[tt[i].side].client
               \/ tt[i].id = m.side[tt[i].side].client2
    <3>1. CASE i \in 1..Len(st) BY <1>1, <2>0, <2>1, <3>1 DEF Filled
    <3>2. CASE i = l BY <1>1, <2>1, <3>2
    <3> QED BY <1>1, <3>1, <3>2
  <2>2. ASSUME NEW i \in 1..Len(tt), NEW j \in 1..Len(tt), Left(tt[i]), tt[j].qty > 0
        PROVE  o[tt[i].id].by # tt[j].id
    <3>1. CASE i \in 1..Len(st) /\ j \in 1..Len(st) BY <1>1, <2>0, <2>2, <3>1 DEF Filled
    <3>2. CASE i = l /\ j \in 1..Len(st) BY <1>1, <2>2, <3>2
    <3>3. CASE i \in 1..Len(st) /\ j = l BY <1>1, <2>2, <3>3
    <3>4. CASE i = l /\ j = l BY <1>1, <2>2, <3>4
    <3> QED BY <1>1, <3>1, <3>2, <3>3, <3>4
  <2> QED BY <2>1, <2>2 DEF Filled
<1>5. Told(m, K, fo, fr, tt, o, Nil) BY <1>2, <1>3, <1>4 DEF Told
<1> QED BY <1>e, <1>f, <1>5 DEF tt

(* A change of the orders and of the requests. *)
LEMMA OrdersTold ==
  ASSUME NEW m \in Makers, NEW K \in SUBSET Requests, NEW fo \in SUBSET IDs,
         NEW fr \in SUBSET IDs, NEW st \in Seq(Events), NEW o \in Orders, NEW q \in Orders,
         NEW L \in SUBSET Requests, NEW go \in SUBSET IDs, NEW gr \in SUBSET IDs,
         Told(m, K, fo, fr, st, o, Nil), Posted(m, go),
         \A i \in 1..Len(st) : Left(st[i]) => q[st[i].id].by = o[st[i].id].by,
         \A c \in m.orders : q[c].status = "over" => o[c].status = "over" \/ Ends(st, c),
         \A c \in m.orders : q[c].status = "none" => o[c].status = "none",
         \A c \in m.orders : q[c].status = "none" /\ Waits(K, fo, fr, c) => Waits(L, go, gr, c)
  PROVE  Told(m, L, go, gr, st, q, Nil)
<1>0. \A c \in m.orders : c # Nil BY IDFacts, MakerFacts
<1>1. Known(m, L, go, gr, st, q, Nil) BY <1>0 DEF Told, Known
<1>2. Filled(m, st, q) BY DEF Told, Filled
<1> QED BY <1>1, <1>2 DEF Told

(* The event of an execution, and of anything else, carries the account's   *)
(* position.                                                                *)
LEMMA CountedAppend ==
  ASSUME NEW m \in Makers, NEW st \in Seq(Events), NEW v \in Events, NEW b \in Int, NEW x \in Int,
         Counted(m, st, b), v.position = x, x = b + Signed(v.side, v.qty)
  PROVE  Counted(m, Append(st, v), x)
<1> DEFINE tt == Append(st, v)
           l == Len(st) + 1
<1>1. /\ Len(tt) = l /\ Len(st) \in Nat /\ tt[l] = v
      /\ \A i \in 1..Len(st) : tt[i] = st[i]
      /\ \A i \in 0..Len(tt) : i \in 0..Len(st) \/ i = l
  BY AppendFacts
<1>q. v.qty \in Nat /\ v.side \in Sides BY DEF Events
<1>n. ASSUME NEW s, NEW i \in 0..Len(st), None(tt, s, i)
      PROVE  None(st, s, i) /\ ~ (v.qty > 0 /\ v.side = s)
  <2>1. \A j \in i + 1..Len(st) : j \in i + 1..Len(tt) /\ j \in 1..Len(st) BY <1>1
  <2>2. l \in i + 1..Len(tt) BY <1>1
  <2> HIDE DEF tt, l
  <2>3. None(st, s, i) BY <1>1, <1>n, <2>1 DEF None
  <2>4. ~ (v.qty > 0 /\ v.side = s) BY <1>1, <1>n, <2>2 DEF None
  <2> QED BY <2>3, <2>4
<1>a. \A i \in 0..Len(st) : At(m, tt, i) = At(m, st, i) /\ At(m, st, i) \in Int
  <2> SUFFICES ASSUME NEW i \in 0..Len(st)
               PROVE  At(m, tt, i) = At(m, st, i) /\ At(m, st, i) \in Int
    OBVIOUS
  <2>1. CASE i = 0 BY <2>1, MakerFacts DEF At
  <2>2. CASE i # 0
    <3>1. i \in 1..Len(st) BY <1>1, <2>2
    <3> QED BY <1>1, <2>2, <3>1, EventFacts DEF At
  <2> QED BY <2>1, <2>2
<1>b. l # 0 /\ At(m, tt, l) = v.position BY <1>1 DEF At
<1> HIDE DEF tt, l
<1>2. ASSUME NEW i \in 0..Len(tt)
      PROVE  /\ None(tt, "buy", i) => x <= At(m, tt, i)
             /\ None(tt, "sell", i) => x >= At(m, tt, i)
  <2>1. CASE i = l BY <1>b, <2>1
  <2>2. CASE i \in 0..Len(st)
    <3>1. ASSUME None(tt, "buy", i) PROVE x <= At(m, tt, i)
      <4>1. None(st, "buy", i) /\ ~ (v.qty > 0 /\ v.side = "buy") BY <1>n, <2>2, <3>1
      <4>2. b <= At(m, st, i) BY <2>2, <4>1 DEF Counted
      <4>3. x <= b BY <1>q, <4>1 DEF Signed, Sides
      <4> QED BY <1>a, <2>2, <4>2, <4>3
    <3>2. ASSUME None(tt, "sell", i) PROVE x >= At(m, tt, i)
      <4>1. None(st, "sell", i) /\ ~ (v.qty > 0 /\ v.side = "sell") BY <1>n, <2>2, <3>2
      <4>2. b >= At(m, st, i) BY <2>2, <4>1 DEF Counted
      <4>3. x >= b BY <1>q, <4>1 DEF Signed, Sides
      <4> QED BY <1>a, <2>2, <4>2, <4>3
    <3> QED BY <3>1, <3>2
  <2> QED BY <1>1, <2>1, <2>2
<1> QED BY <1>2 DEF Counted, tt

(* Where an open order is in the books. *)
OpenIn(m, st, o, c) ==
  /\ c \in m.orders
  /\ c = m.side[o[c].side].client \/ c = m.side[o[c].side].client2
  /\ \A s \in Sides : m.side[s].client2 = c => Ends(st, m.side[s].client)
  /\ \A j \in 1..Len(st) : o[c].by # st[j].id
  /\ o[c].by # c
  /\ \A i \in 1..Len(st) : Left(st[i]) => o[st[i].id].by # c

(* That is where an open order is. *)
LEMMA OpenFacts ==
  ASSUME NEW m \in Makers, NEW K \in SUBSET Requests, NEW fo \in SUBSET IDs,
         NEW fr \in SUBSET IDs, NEW st \in Seq(Events), NEW o \in Orders,
         Safe(m, K, fo, fr, st, o), Told(m, K, fo, fr, st, o, Nil),
         NEW c \in IDs, o[c].status = "open"
  PROVE  OpenIn(m, st, o, c)
<1> USE IDFacts
<1>0. o[c].side \in Sides /\ o[c].by \in IDs \cup {Nil} BY OrderFacts
<1>1. c = m.side[o[c].side].client \/ c = m.side[o[c].side].client2
  BY DEF Safe, Opened, AtSlot
<1>2. c \in m.orders BY <1>0, <1>1 DEF Told, Kept
<1>3. ASSUME NEW s \in Sides, m.side[s].client2 = c PROVE Ends(st, m.side[s].client)
  <2> DEFINE d == m.side[s].client
  <2>1. NamedOf(m.side[s], s, o) BY DEF Safe, Named
  <2>2. d # Nil /\ o[d].by = c BY <1>3, <2>1 DEF NamedOf
  <2>3. d \in IDs BY <2>2, SideFacts
  <2> HIDE DEF d
  <2>4. o[d].status = "over" BY <2>2, <2>3 DEF Safe, Chain
  <2>5. d \in m.orders BY <2>2 DEF Told, Kept, d
  <2>6. Ends(st, d) BY <2>2, <2>4, <2>5 DEF Told, Known
  <2> QED BY <2>6 DEF d
<1>h. \A i \in 1..Len(st) : st[i].id \in IDs /\ o[st[i].id].status \in {"open", "over"}
  BY HeardIDs DEF Safe
<1>4. \A j \in 1..Len(st) : o[c].by # st[j].id
  <2>1. CASE o[c].by = Nil BY <1>h, <2>1
  <2>2. CASE o[c].by # Nil
    <3>1. o[o[c].by].status = "pending" BY <2>2 DEF Safe, Chain
    <3> QED BY <1>h, <3>1
  <2> QED BY <2>1, <2>2
<1>5. o[c].by # c
  <2>1. CASE o[c].by = Nil BY <2>1
  <2>2. CASE o[c].by # Nil BY <2>2 DEF Safe, Chain
  <2> QED BY <2>1, <2>2
<1>6. ASSUME NEW i \in 1..Len(st), Left(st[i]) PROVE o[st[i].id].by # c
  <2>1. HeardOf(m, st[i], o) BY DEF Safe, Heard
  <2> QED BY <1>6, <2>1, Zenon DEF HeardOf, Left
<1> QED BY <1>1, <1>2, <1>3, <1>4, <1>5, <1>6 DEF OpenIn

(* The main loop keeps the invariant. *)
LEMMA LoopSound == TypeInv /\ SoundInv /\ MainLoop => SoundInv'
<1> SUFFICES ASSUME TypeInv, SoundInv, MainLoop, drops = 0, lost = 0
             PROVE  Sound(maker, calls, failedOrders, failedReplaces, stream, order, net)'
  <2>1. MainLoop => drops' = drops /\ lost' = lost BY LoopLeaves DEF brokerVars
  <2> QED BY <2>1 DEF SoundInv
<1> USE DEF callVars, brokerVars
<1>t. /\ maker \in Makers /\ maker.spawned = {} /\ calls \in SUBSET Requests
      /\ failedOrders \in SUBSET IDs /\ failedReplaces \in SUBSET IDs
      /\ stream \in Seq(Events) /\ order \in Orders /\ net \in Int
  BY DEF TypeInv
<1>s. Sound(maker, calls, failedOrders, failedReplaces, stream, order, net) BY DEF SoundInv
<1>f. Safe(maker, calls, failedOrders, failedReplaces, stream, order) BY <1>s DEF Sound
<1>e. calls \cup maker.spawned = calls BY <1>t
<1>o. order' = order /\ net' = net BY LoopLeaves
<1>1. CASE OnQuote
  <2>1. PICK m \in Evaluate(maker) : Become(m) BY <1>1 DEF OnQuote
  <2>2. m \in Makers BY <1>t, EvaluateTypes
  <2>3. Sound(m, calls \cup m.spawned, failedOrders, failedReplaces, stream, order, net)
    BY <1>t, <1>s, <1>e, EvaluateSound, Zenon
  <2>4. Sound(maker', calls', failedOrders, failedReplaces, stream, order, net)
    BY <1>t, <2>1, <2>2, <2>3, BecomeSound, Zenon
  <2> QED BY <1>1, <2>4 DEF OnQuote
<1>2. CASE OnUpdate
  <2>1. PICK m \in OnOrderUpdate(maker, Head(stream)) : Become(m) BY <1>2 DEF OnUpdate
  <2>2. stream # << >> /\ stream' = Tail(stream) BY <1>2 DEF OnUpdate
  <2>3. m \in Makers /\ Tail(stream) \in Seq(Events) BY <1>t, <2>2, TailFacts, UpdateTypes
  <2>4. Sound(m, calls \cup m.spawned, failedOrders, failedReplaces, Tail(stream), order, net)
    BY <1>t, <1>s, <2>2, UpdateSound
  <2>5. Sound(maker', calls', failedOrders, failedReplaces, Tail(stream), order, net)
    BY <1>t, <2>1, <2>3, <2>4, BecomeSound, Zenon
  <2> QED BY <1>2, <1>o, <2>2, <2>5 DEF OnUpdate
<1>3. CASE OnFailedOrder
  <2>0. PICK c \in failedOrders :
          /\ failedOrders' = failedOrders \ {c}
          /\ IF c \in maker.orders THEN Become(RemoveOrder(maker, c)) /\ UNCHANGED running
                                   ELSE running' = FALSE /\ UNCHANGED <<maker, calls>>
    BY <1>3, Zenon DEF OnFailedOrder
  <2> DEFINE m == RemoveOrder(maker, c)
             fo == failedOrders \ {c}
  <2>1. /\ c \in IDs /\ c \in maker.orders /\ order[c].status = "none" /\ order[c].by = Nil
        /\ \A r \in Asks(calls) : r.id # c
        /\ \A i \in 1..Len(stream) : stream[i].id # c
        /\ c \notin failedReplaces
    BY <1>f, FailedFacts
  <2>2. Become(m) BY <2>0, <2>1
  <2>3. Safe(maker, calls, fo, failedReplaces, stream, order)
    <3>1. fo \in SUBSET failedOrders /\ failedReplaces \in SUBSET failedReplaces OBVIOUS
    <3> QED BY <1>t, <1>f, <3>1, FewerKeep
  <2>4. Gone(maker, c, calls, fo, failedReplaces, stream, order) BY <2>1 DEF Gone
  <2>5. m \in Makers /\ Removed(maker, m, c) BY <1>t, RemoveFacts
  <2>6. calls \cup m.spawned = calls /\ m.position = maker.position
    BY <1>t, <2>5 DEF Removed
  <2>7. fo \in SUBSET IDs /\ c \notin fo BY <1>t
  <2>a. Told(maker, calls, fo, failedReplaces, stream, order, c)
    <3>1. Told(maker, calls, failedOrders, failedReplaces, stream, order, Nil) BY <1>s DEF Sound
    <3>2. \A x \in maker.orders : x # Nil BY <1>t, IDFacts, MakerFacts
    <3>3. \A x : x # c /\ Waits(calls, failedOrders, failedReplaces, x)
                 => Waits(calls, fo, failedReplaces, x)
      BY DEF Waits
    <3>4. Known(maker, calls, fo, failedReplaces, stream, order, c)
      BY <3>1, <3>2, <3>3 DEF Told, Known
    <3>5. \A s \in Sides : maker.side[s].client2 # Nil => maker.side[s].client # Nil
      BY <1>f, Zenon DEF Safe, Named, NamedOf
    <3>6. \A i \in 1..Len(stream) : stream[i].id # Nil
      BY <1>t, <1>f, HeardIDs, IDFacts DEF Safe
    <3>7. InTurn(maker, stream, c) BY <3>1, <3>5, <3>6 DEF Told, InTurn, TurnOf
    <3>8. Posted(maker, fo) BY <3>1 DEF Told, Posted
    <3> QED BY <3>1, <3>4, <3>7, <3>8 DEF Told
  <2>b. \A s \in Sides : maker.side[s].client2 # c
    <3>1. PICK t \in Sides : maker.side[t].client = c BY <1>s DEF Sound, Told, Posted
    <3>2. c # Nil BY <2>1, IDFacts
    <3> QED BY <1>f, <3>1, <3>2 DEF Safe, Distinct
  <2>c. \A i \in 1..Len(stream) : order[c].by # stream[i].id
    BY <1>t, <1>f, <2>1, HeardIDs, IDFacts DEF Safe
  <2> HIDE DEF m, fo
  <2>8. Safe(m, calls, fo, failedReplaces, stream, order)
    BY <1>t, <2>1, <2>3, <2>4, <2>5, <2>7, RemoveKeeps
  <2>9. Told(m, calls, fo, failedReplaces, stream, order, Nil)
    BY <1>t, <2>1, <2>3, <2>5, <2>7, <2>a, <2>b, <2>c, RemoveTold
  <2>10. Counted(m, stream, net) BY <1>t, <1>s, <2>5, <2>6, CountedSame DEF Sound
  <2>11. Sound(m, calls, fo, failedReplaces, stream, order, net)
    BY <1>s, <2>8, <2>9, <2>10 DEF Sound
  <2>12. Sound(maker', calls', fo, failedReplaces, stream, order, net)
    BY <1>t, <2>2, <2>5, <2>6, <2>7, <2>11, BecomeSound
  <2> QED BY <1>3, <1>o, <2>0, <2>12 DEF OnFailedOrder, fo
<1>4. CASE OnFailedReplace
  <2>0. PICK c \in failedReplaces :
          /\ failedReplaces' = failedReplaces \ {c}
          /\ IF c \in maker.orders THEN Become(UndoReplaceOrder(maker, c)) /\ UNCHANGED running
                                   ELSE running' = FALSE /\ UNCHANGED <<maker, calls>>
    BY <1>4, Zenon DEF OnFailedReplace
  <2> DEFINE m == UndoReplaceOrder(maker, c)
             fr == failedReplaces \ {c}
  <2>1. /\ c \in IDs /\ c \in maker.orders /\ order[c].status = "none"
        /\ \A r \in Asks(calls) : r.id # c
        /\ c \notin failedOrders
    BY <1>f, FailedFacts
  <2>2. Become(m) BY <2>0, <2>1
  <2>3. Safe(maker, calls, failedOrders, fr, stream, order)
    <3>1. fr \in SUBSET failedReplaces /\ failedOrders \in SUBSET failedOrders OBVIOUS
    <3> QED BY <1>t, <1>f, <3>1, FewerKeep
  <2>5. m \in Makers /\ Undone(maker, m, c) BY <1>t, UndoFacts
  <2>6. calls \cup m.spawned = calls /\ m.position = maker.position BY <1>t, <2>5 DEF Undone
  <2>7. fr \in SUBSET IDs /\ c \notin fr BY <1>t
  <2>9. Told(m, calls, failedOrders, fr, stream, order, Nil)
    <3> HIDE DEF m
    <3>1. Told(maker, calls, failedOrders, failedReplaces, stream, order, Nil) BY <1>s DEF Sound
    <3> QED BY <1>t, <1>f, <2>1, <2>5, <3>1, UndoTold
  <2> HIDE DEF m, fr
  <2>8. Safe(m, calls, failedOrders, fr, stream, order)
    BY <1>t, <2>1, <2>3, <2>5, <2>7, UndoKeeps
  <2>10. Counted(m, stream, net) BY <1>t, <1>s, <2>5, <2>6, CountedSame DEF Sound
  <2>11. Sound(m, calls, failedOrders, fr, stream, order, net)
    BY <1>s, <2>8, <2>9, <2>10 DEF Sound
  <2>12. Sound(maker', calls', failedOrders, fr, stream, order, net)
    BY <1>t, <2>2, <2>5, <2>6, <2>7, <2>11, BecomeSound
  <2> QED BY <1>4, <1>o, <2>0, <2>12 DEF OnFailedReplace, fr
<1>5. CASE Toggle
  <2>1. PICK m \in OnToggle(maker) : Become(m) BY <1>5 DEF Toggle
  <2>2. m \in Makers BY <1>t, ToggleTypes
  <2>3. Sound(m, calls \cup m.spawned, failedOrders, failedReplaces, stream, order, net)
    <3>1. CASE maker.disabled
      <4> DEFINE a == [maker EXCEPT !.disabled = FALSE]
      <4>1. m \in Evaluate(a) BY <2>1, <3>1, Zenon DEF OnToggle
      <4>2. /\ a \in Makers /\ SameBooks(maker, a) /\ a.spawned = maker.spawned
            /\ a.position = maker.position
        BY <1>t, FlagFacts, Zenon DEF TypeInv
      <4> HIDE DEF a
      <4>3. Asks(calls) = Asks(calls) OBVIOUS
      <4>4. Sound(a, calls, failedOrders, failedReplaces, stream, order, net)
        BY <1>t, <1>s, <4>2, CancelsTold, Zenon
      <4>5. calls \cup a.spawned = calls BY <1>t, <4>2
      <4> QED BY <1>t, <4>1, <4>2, <4>4, <4>5, EvaluateSound, Zenon
    <3>2. CASE ~ maker.disabled
      <4> DEFINE a == [maker EXCEPT !.disabled = TRUE]
      <4>1. m = CancelBoth(a) BY <2>1, <3>2 DEF OnToggle
      <4>2. /\ a \in Makers /\ SameBooks(maker, a) /\ a.spawned = maker.spawned
            /\ a.position = maker.position
        BY <1>t, FlagFacts, Zenon DEF TypeInv
      <4> HIDE DEF a
      <4>3. SameBooks(a, m) /\ m.position = a.position /\ \A r \in m.spawned : r.op = "cancel"
        BY <4>1, <4>2, CancelFacts
      <4>4. SameBooks(maker, m) /\ m.position = maker.position BY <4>2, <4>3 DEF SameBooks
      <4>5. calls \cup m.spawned \in SUBSET Requests BY <1>t, <2>2, MakerFacts
      <4>6. Asks(calls \cup m.spawned) = Asks(calls) BY <4>3 DEF Asks
      <4> DEFINE L == calls \cup m.spawned
      <4> HIDE DEF L
      <4>7. L \in SUBSET Requests /\ Asks(L) = Asks(calls) BY <4>5, <4>6 DEF L
      <4>8. Sound(m, L, failedOrders, failedReplaces, stream, order, net)
        BY <1>t, <1>s, <2>2, <4>4, <4>7, CancelsTold
      <4> QED BY <4>8 DEF L
    <3> QED BY <3>1, <3>2
  <2>4. Sound(maker', calls', failedOrders, failedReplaces, stream, order, net)
    BY <1>t, <2>1, <2>2, <2>3, BecomeSound
  <2> QED BY <1>5, <1>o, <2>4 DEF Toggle
<1>6. CASE CancelOrders
  <2> DEFINE m == CancelBoth(maker)
             L == calls \cup m.spawned
  <2>1. Become(m) BY <1>6 DEF CancelOrders
  <2>2. /\ m \in Makers /\ SameBooks(maker, m) /\ m.position = maker.position
        /\ \A r \in m.spawned : r.op = "cancel"
    BY <1>t, CancelFacts
  <2> HIDE DEF m
  <2>3. L \in SUBSET Requests /\ Asks(L) = Asks(calls) BY <1>t, <2>2, MakerFacts DEF Asks
  <2> HIDE DEF L
  <2>4. Sound(m, L, failedOrders, failedReplaces, stream, order, net)
    BY <1>t, <1>s, <2>2, <2>3, CancelsTold
  <2>5. Sound(maker', calls', failedOrders, failedReplaces, stream, order, net)
    BY <1>t, <2>1, <2>2, <2>4, BecomeSound DEF L
  <2> QED BY <1>6, <1>o, <2>5 DEF CancelOrders
<1>7. CASE CooldownEnds
  <2>1. maker' \in Makers /\ SameBooks(maker, maker') /\ maker'.position = maker.position
    BY <1>7, <1>t, FlagFacts, Zenon DEF CooldownEnds, TypeInv
  <2>2. Asks(calls) = Asks(calls) OBVIOUS
  <2>3. Sound(maker', calls, failedOrders, failedReplaces, stream, order, net)
    BY <1>t, <1>s, <2>1, CancelsTold, Zenon
  <2> QED BY <1>7, <1>o, <2>3 DEF CooldownEnds
<1> QED BY <1>1, <1>2, <1>3, <1>4, <1>5, <1>6, <1>7 DEF MainLoop

(* The room is left when no order grows. *)
LEMMA RoomKeeps ==
  ASSUME NEW K \in SUBSET Requests, NEW L \in SUBSET Requests, NEW o \in Orders, NEW q \in Orders,
         NEW b \in Int, Room(K, o, b), L \subseteq K,
         \A i \in IDs : q[i].status = "open" =>
            \/ o[i].status = "open" /\ q[i].side = o[i].side /\ q[i].left = o[i].left
            \/ RoomFor(q[i].side, b, q[i].left)
  PROVE  Room(L, q, b)
BY DEF Room

(* An order at work is the only one of its side, and no other is asked     *)
(* for.                                                                    *)
AloneIn(K, o, c) ==
  /\ \A i \in IDs : i # c /\ o[i].status = "open" => o[i].side # o[c].side
  /\ \A r \in K : r.op = "create" => r.side # o[c].side

(* Safe says so. *)
LEMMA AloneAtWork ==
  ASSUME NEW m \in Makers, NEW K \in SUBSET Requests, NEW fo \in SUBSET IDs,
         NEW fr \in SUBSET IDs, NEW st \in Seq(Events), NEW o \in Orders,
         Safe(m, K, fo, fr, st, o), NEW c \in IDs, o[c].status = "open"
  PROVE  AloneIn(K, o, c)
<1> USE IDFacts
<1>1. ASSUME NEW s \in Sides, NEW i \in IDs, o[i].status = "open", m.side[s].client2 = i
      PROVE  o[m.side[s].client].status = "over"
  <2> DEFINE d == m.side[s].client
  <2>1. NamedOf(m.side[s], s, o) BY DEF Safe, Named
  <2>2. d # Nil /\ o[d].by = i BY <1>1, <2>1 DEF NamedOf
  <2>3. d \in IDs BY <2>2, SideFacts
  <2> HIDE DEF d
  <2>4. o[d].status = "over" BY <1>1, <2>2, <2>3 DEF Safe, Chain
  <2> QED BY <2>4 DEF d
<1>2. \A i \in IDs : o[i].status = "open" =>
        /\ o[i].side \in Sides
        /\ m.side[o[i].side].client = i \/ m.side[o[i].side].client2 = i
  BY OrderFacts, Zenon DEF Safe, Opened, AtSlot
<1>3. ASSUME NEW i \in IDs, i # c, o[i].status = "open", o[i].side = o[c].side PROVE FALSE
  <2>1. \/ m.side[o[c].side].client = c /\ m.side[o[c].side].client2 = i
        \/ m.side[o[c].side].client = i /\ m.side[o[c].side].client2 = c
    BY <1>2, <1>3
  <2> QED BY <1>1, <1>2, <1>3, <2>1, Zenon
<1>4. ASSUME NEW r \in K, r.op = "create", r.side = o[c].side PROVE FALSE
  <2>1. m.side[o[c].side].client = r.id BY <1>4 DEF Safe, Created
  <2>2. o[r.id].status = "none" BY <1>4 DEF Safe, Asked, Asks
  <2> QED BY <1>1, <1>2, <2>1, <2>2
<1> QED BY <1>3, <1>4 DEF AloneIn

(* An execution moves the position into the room kept for its order, and    *)
(* away from the other side's limit.                                        *)
LEMMA RoomFilled ==
  ASSUME NEW K \in SUBSET Requests, NEW o \in Orders, NEW q \in Orders,
         NEW c \in IDs, o[c].status = "open", AloneIn(K, o, c), NEW b \in Int,
         Room(K, o, b), NEW n \in 1..o[c].left,
         \A i \in IDs : q[i].status = "open" => o[i].status = "open",
         \A i \in IDs : q[i].side = o[i].side /\ (i # c => q[i].left = o[i].left),
         q[c].left = o[c].left - n
  PROVE  Room(K, q, b + Signed(o[c].side, n))
<1>0. AloneIn(K, o, c) OBVIOUS
<1>1. \A i \in IDs : i # c /\ o[i].status = "open" => o[i].side # o[c].side BY <1>0 DEF AloneIn
<1>2. \A r \in K : r.op = "create" => r.side # o[c].side BY <1>0 DEF AloneIn
<1>3. /\ Qty \in Int /\ MaximumPosition \in Int /\ MinimumPosition \in Int
      /\ o[c].left \in Int /\ n \in Int /\ n <= o[c].left /\ n >= 1
  BY OrderFacts, MakerAssumption DEF MaximumPosition, MinimumPosition
<1>4. \A i \in IDs : o[i].left \in Int /\ o[i].side \in Sides BY OrderFacts
<1>5. \A r \in K : r.op = "create" => r.side \in Sides BY RequestFacts
<1>6. RoomFor(o[c].side, b, o[c].left) BY DEF Room
<1>b. b >= MinimumPosition /\ b <= MaximumPosition BY <1>3 DEF Room
<1>7. CASE o[c].side = "buy"
  <2> DEFINE x == b + n
  <2>1. x = b + Signed(o[c].side, n) /\ x \in Int /\ x > b BY <1>3, <1>7 DEF Signed
  <2>2. b + o[c].left <= MaximumPosition BY <1>6, <1>7 DEF RoomFor
  <2>3. x \in MinimumPosition..MaximumPosition BY <1>3, <1>b, <2>1, <2>2
  <2>4. ASSUME NEW i \in IDs, q[i].status = "open" PROVE RoomFor(q[i].side, x, q[i].left)
    <3>1. CASE i = c BY <1>3, <1>7, <2>2, <3>1 DEF RoomFor
    <3>2. CASE i # c
      <4>1. o[i].status = "open" /\ o[i].side = "sell" /\ q[i].side = "sell"
            /\ q[i].left = o[i].left
        BY <1>1, <1>4, <1>7, <2>4, <3>2 DEF Sides
      <4>2. RoomFor(o[i].side, b, o[i].left) BY <4>1 DEF Room
      <4>3. b - o[i].left >= MinimumPosition BY <4>1, <4>2 DEF RoomFor
      <4> QED BY <1>3, <1>4, <2>1, <4>1, <4>3 DEF RoomFor
    <3> QED BY <3>1, <3>2
  <2>5. ASSUME NEW r \in K, r.op = "create" PROVE RoomFor(r.side, x, Qty)
    <3>1. r.side = "sell" BY <1>2, <1>5, <1>7, <2>5 DEF Sides
    <3>2. RoomFor(r.side, b, Qty) BY <2>5 DEF Room
    <3>3. b - Qty >= MinimumPosition BY <3>1, <3>2 DEF RoomFor
    <3> QED BY <1>3, <2>1, <3>1, <3>3 DEF RoomFor
  <2> QED BY <2>1, <2>3, <2>4, <2>5 DEF Room
<1>8. CASE o[c].side = "sell"
  <2> DEFINE x == b - n
  <2>1. x = b + Signed(o[c].side, n) /\ x \in Int /\ x < b BY <1>3, <1>8 DEF Signed
  <2>2. b - o[c].left >= MinimumPosition BY <1>6, <1>8 DEF RoomFor
  <2>3. x \in MinimumPosition..MaximumPosition BY <1>3, <1>b, <2>1, <2>2
  <2>4. ASSUME NEW i \in IDs, q[i].status = "open" PROVE RoomFor(q[i].side, x, q[i].left)
    <3>1. CASE i = c BY <1>3, <1>8, <2>2, <3>1 DEF RoomFor
    <3>2. CASE i # c
      <4>1. o[i].status = "open" /\ o[i].side = "buy" /\ q[i].side = "buy"
            /\ q[i].left = o[i].left
        BY <1>1, <1>4, <1>8, <2>4, <3>2 DEF Sides
      <4>2. RoomFor(o[i].side, b, o[i].left) BY <4>1 DEF Room
      <4>3. b + o[i].left <= MaximumPosition BY <4>1, <4>2 DEF RoomFor
      <4> QED BY <1>3, <1>4, <2>1, <4>1, <4>3 DEF RoomFor
    <3> QED BY <3>1, <3>2
  <2>5. ASSUME NEW r \in K, r.op = "create" PROVE RoomFor(r.side, x, Qty)
    <3>1. r.side = "buy" BY <1>2, <1>5, <1>8, <2>5 DEF Sides
    <3>2. RoomFor(r.side, b, Qty) BY <2>5 DEF Room
    <3>3. b + Qty <= MaximumPosition BY <3>1, <3>2 DEF RoomFor
    <3> QED BY <1>3, <2>1, <3>1, <3>3 DEF RoomFor
  <2> QED BY <2>1, <2>3, <2>4, <2>5 DEF Room
<1> QED BY <1>4, <1>7, <1>8 DEF Sides

(* An order leaves with the event v; what was to replace it is rejected.   *)
LEMMA LeaveTold ==
  ASSUME NEW m \in Makers, NEW K \in SUBSET Requests, NEW fo \in SUBSET IDs,
         NEW fr \in SUBSET IDs, stream \in Seq(Events), order \in Orders,
         NEW c \in IDs, Safe(m, K, fo, fr, stream, order),
         Told(m, K, fo, fr, stream, order, Nil), NEW q \in Orders,
         order[c].status = "open", OverTo(order, q, c), NEW x \in Int, NEW v \in Events,
         v.id = c, v.side = order[c].side, v.final
  PROVE  Told(m, K, fo, fr, Append(stream, v) \o Rejection(c, x), q, Nil)
<1> DEFINE s1 == Append(stream, v)
           st == s1 \o Rejection(c, x)
           y == order[c].by
           w == EventIs("rejected", y, order[y].side, order[y].by, 0, x, TRUE)
<1>0. s1 \in Seq(Events) BY AppendFacts
<1>l. /\ st \in Seq(Events)
      /\ y = Nil => st = s1
      /\ y # Nil => w \in Events /\ st = Append(s1, w)
  BY LeaveStream, Zenon
<1>1. y = Nil => st = s1 BY <1>l, Zenon
<1>2. y # Nil => w \in Events /\ st = Append(s1, w) BY <1>l, Zenon
<1>3. /\ w.id = y /\ w.side = order[y].side /\ w.event = "rejected" /\ w.qty = 0 /\ w.final
      /\ w.position = x
  BY DEF EventIs
<1>y. y \in IDs \cup {Nil} BY OrderFacts
<1>c. y # Nil => /\ order[y].status = "pending" /\ m.side[order[c].side].client = c
                 /\ m.side[order[c].side].client2 = y
  BY DEF Safe, Chain
<1>b. y # Nil => order[y].by = Nil
  <2> SUFFICES ASSUME y # Nil, order[y].by # Nil PROVE FALSE OBVIOUS
  <2> HIDE DEF y
  <2>1. order[y].status = "pending" /\ y \in IDs BY <1>c, <1>y
  <2> QED BY <2>1 DEF Safe, Chain
<1>d. order[c].by = y /\ order[c].side \in Sides BY OrderFacts
<1> HIDE DEF w, y, st, s1
<1>4. /\ Told(m, K, fo, fr, s1, order, Nil) /\ Ends(s1, c)
  <2>0. OpenIn(m, stream, order, c) BY OpenFacts, Zenon
  <2>1. c \in m.orders BY <2>0 DEF OpenIn
  <2>2. c = m.side[order[c].side].client \/ c = m.side[order[c].side].client2 BY <2>0 DEF OpenIn
  <2>3. \A s \in Sides : m.side[s].client2 = c => Ends(stream, m.side[s].client) BY <2>0 DEF OpenIn
  <2>4. \A j \in 1..Len(stream) : order[c].by # stream[j].id BY <2>0 DEF OpenIn
  <2>5. order[c].by # c BY <2>0 DEF OpenIn
  <2>6. \A i \in 1..Len(stream) : Left(stream[i]) => order[stream[i].id].by # c BY <2>0 DEF OpenIn
  <2> QED BY <2>1, <2>2, <2>3, <2>4, <2>5, <2>6, AppendTold, Zenon DEF s1
<1>6. /\ Told(m, K, fo, fr, st, order, Nil) /\ Ends(st, c) /\ (y # Nil => Ends(st, y))
      /\ st \in Seq(Events)
  <2>1. CASE y = Nil BY <1>0, <1>1, <1>4, <2>1
  <2>2. CASE y # Nil
    <3>1. y \in m.orders BY <1>c, <1>d, <2>2 DEF Told, Kept
    <3>2. ASSUME NEW s \in Sides, m.side[s].client2 = y PROVE Ends(s1, m.side[s].client)
      <4>1. s = order[c].side BY <1>c, <1>d, <2>2, <3>2 DEF Safe, Distinct
      <4> QED BY <1>c, <1>4, <2>2, <4>1
    <3>3. ~ (w.qty > 0) /\ w.id = y /\ w \in Events /\ w.final BY <1>2, <1>3, <2>2
    <3>4. \A j \in 1..Len(s1) : s1[j].qty > 0 => order[w.id].by # s1[j].id
      <4>1. \A j \in 1..Len(s1) : s1[j].id # Nil BY <1>0, EventFacts, IDFacts
      <4> QED BY <1>b, <2>2, <3>3, <4>1
    <3>5. order[w.id].by # w.id BY <1>b, <2>2, <3>3
    <3>6. /\ Told(m, K, fo, fr, Append(s1, w), order, Nil)
          /\ Ends(Append(s1, w), y)
          /\ \A i : Ends(s1, i) => Ends(Append(s1, w), i)
      BY <1>0, <1>4, <3>1, <3>2, <3>3, <3>4, <3>5, AppendTold, Zenon
    <3>7. Append(s1, w) \in Seq(Events) BY <1>0, <3>3, AppendFacts, Zenon
    <3> QED BY <1>2, <1>4, <2>2, <3>6, <3>7, Zenon
  <2> QED BY <2>1, <2>2
<1>7. \A i \in IDs : /\ q[i].by = order[i].by
                     /\ q[i].status = IF i = c \/ i = y THEN "over" ELSE order[i].status
  BY <1>d DEF OverTo
<1>8. Told(m, K, fo, fr, st, q, Nil)
  <2>0. m.orders \subseteq IDs BY MakerFacts
  <2>1. \A i \in 1..Len(st) : Left(st[i]) => q[st[i].id].by = order[st[i].id].by
    BY <1>6, <1>7, EventFacts
  <2>2. ASSUME NEW i \in m.orders, q[i].status = "over"
        PROVE  order[i].status = "over" \/ Ends(st, i)
    <3>1. i \in IDs /\ i # Nil BY <2>0, IDFacts
    <3>2. i = c \/ i = y \/ order[i].status = "over" BY <1>7, <2>2, <3>1
    <3> QED BY <1>6, <3>1, <3>2
  <2>3. \A i \in m.orders : q[i].status = "none" => order[i].status = "none" BY <1>7, <2>0
  <2>4. Posted(m, fo) BY DEF Told
  <2> QED BY <1>6, <2>1, <2>2, <2>3, <2>4, OrdersTold
<1> QED BY <1>8 DEF st, s1

(* The two events carry the same position. *)
LEMMA LeaveCounted ==
  ASSUME NEW m \in Makers, stream \in Seq(Events), order \in Orders, NEW b \in Int,
         Counted(m, stream, b), NEW c \in IDs, NEW x \in Int, NEW v \in Events,
         v.position = x, x = b + Signed(v.side, v.qty)
  PROVE  Counted(m, Append(stream, v) \o Rejection(c, x), x)
<1> DEFINE s1 == Append(stream, v)
           st == s1 \o Rejection(c, x)
           y == order[c].by
           w == EventIs("rejected", y, order[y].side, order[y].by, 0, x, TRUE)
<1>1. s1 \in Seq(Events) BY AppendFacts
<1>2. /\ y = Nil => st = s1
      /\ y # Nil => w \in Events /\ st = Append(s1, w)
  BY LeaveStream, Zenon
<1>3. y = Nil => st = s1 BY <1>2, Zenon
<1>4. y # Nil => w \in Events /\ st = Append(s1, w) BY <1>2, Zenon
<1>5. w.qty = 0 /\ w.position = x BY DEF EventIs
<1>6. Counted(m, s1, x) BY CountedAppend
<1> HIDE DEF s1, st, y, w
<1>7. CASE y = Nil BY <1>3, <1>6, <1>7, Zenon DEF st, s1
<1>8. CASE y # Nil
  <2>1. x = x + Signed(w.side, w.qty) BY <1>5 DEF Signed
  <2>2. Counted(m, Append(s1, w), x) BY <1>1, <1>4, <1>5, <1>6, <1>8, <2>1, CountedAppend
  <2> QED BY <1>4, <1>8, <2>2, Zenon DEF st, s1
<1> QED BY <1>7, <1>8

-----------------------------------------------------------------------------
(* Alpaca keeps the invariant. *)

(* A request fails, and the main loop is going to hear of it. *)
LEMMA RefuseTold ==
  ASSUME NEW m \in Makers, NEW K \in SUBSET Requests, NEW fo \in SUBSET IDs,
         NEW fr \in SUBSET IDs, NEW st \in Seq(Events), NEW o \in Orders,
         Safe(m, K, fo, fr, st, o), Told(m, K, fo, fr, st, o, Nil), NEW r \in K,
         NEW go \in SUBSET IDs, NEW gr \in SUBSET IDs,
         go = (IF r.op = "create" THEN fo \cup {r.id} ELSE fo),
         gr = (IF r.op = "replace" THEN fr \cup {r.id} ELSE fr)
  PROVE  Told(m, K \ {r}, go, gr, st, o, Nil)
<1> DEFINE L == K \ {r}
<1>0. Safe(m, K, fo, fr, st, o) /\ Told(m, K, fo, fr, st, o, Nil) OBVIOUS
<1>1. L \in SUBSET Requests /\ L \subseteq K OBVIOUS
<1>2. r.op \in {"create", "replace", "cancel"} /\ (r.op = "create" => r.side \in Sides)
  BY RequestFacts
<1>3. ASSUME NEW c, Waits(K, fo, fr, c) PROVE Waits(L, go, gr, c)
  <2>1. CASE c \in fo \/ c \in fr BY <2>1 DEF Waits
  <2>2. CASE \E q \in Asks(K) : q.id = c
    <3>1. PICK q \in Asks(K) : q.id = c BY <2>2
    <3>2. CASE q # r
      <4>1. q \in Asks(L) BY <3>2 DEF Asks
      <4> QED BY <3>1, <4>1 DEF Waits
    <3>3. CASE q = r
      <4>1. r.op # "cancel" /\ r.id = c BY <3>1, <3>3 DEF Asks
      <4>2. c \in go \/ c \in gr BY <1>2, <4>1
      <4> QED BY <4>2 DEF Waits
    <3> QED BY <3>2, <3>3
  <2> QED BY <1>3, <2>1, <2>2, Zenon DEF Waits
<1>4. Posted(m, go)
  <2>1. Posted(m, fo) BY <1>0 DEF Told
  <2>2. r.op = "create" => m.side[r.side].client = r.id BY <1>0 DEF Safe, Created
  <2> QED BY <1>2, <2>1, <2>2 DEF Posted
<1> HIDE DEF L
<1>5. Told(m, L, go, gr, st, o, Nil) BY <1>0, <1>1, <1>3, <1>4, OrdersTold, Zenon
<1> QED BY <1>5 DEF L

(* The requests that are left when r was carried out.                      *)
LEMMA WaitsLess ==
  ASSUME NEW K, NEW fo, NEW fr, NEW r, NEW c, c # r.id, Waits(K, fo, fr, c)
  PROVE  Waits(K \ {r}, fo, fr, c)
<1>1. CASE c \in fo \/ c \in fr BY <1>1, Zenon DEF Waits
<1>2. ASSUME NEW q \in Asks(K), q.id = c PROVE Waits(K \ {r}, fo, fr, c)
  <2>1. q \in Asks(K \ {r}) BY <1>2 DEF Asks
  <2> QED BY <1>2, <2>1 DEF Waits
<1> QED BY <1>1, <1>2, Zenon DEF Waits

(* A new order goes to work or is rejected. *)
LEMMA CreateTold ==
  ASSUME NEW m \in Makers, NEW K \in SUBSET Requests, NEW fo \in SUBSET IDs,
         NEW fr \in SUBSET IDs, NEW st \in Seq(Events), NEW o \in Orders,
         Safe(m, K, fo, fr, st, o), Told(m, K, fo, fr, st, o, Nil), NEW r \in K, r.op = "create", NEW q \in Orders,
         q[r.id].status \in {"open", "over"}, q[r.id].by = Nil,
         \A i \in IDs \ {r.id} : q[i] = o[i],
         NEW v \in Events, v.id = r.id, v.qty = 0, q[r.id].status = "over" => v.final
  PROVE  Told(m, K \ {r}, fo, fr, Append(st, v), q, Nil)
<1> DEFINE L == K \ {r}
           tt == Append(st, v)
<1>0. Safe(m, K, fo, fr, st, o) /\ Told(m, K, fo, fr, st, o, Nil) OBVIOUS
<1>1. L \in SUBSET Requests /\ L \subseteq K /\ tt \in Seq(Events) BY AppendFacts
<1>2. r.id \in IDs /\ r.side \in Sides BY RequestFacts
<1>3. r \in Asks(K) BY DEF Asks
<1>4. r.id \in m.orders /\ o[r.id].status = "none" BY <1>0, <1>3 DEF Safe, Asked
<1>5. o[r.id].by = Nil BY <1>0, <1>2, <1>4, Zenon DEF Safe, Chain
<1>6. m.side[r.side].client = r.id BY <1>0 DEF Safe, Created
<1>7. \A s \in Sides : m.side[s].client2 # r.id
  BY <1>0, <1>2, <1>6, IDFacts DEF Safe, Distinct
<1>8. \A j \in 1..Len(st) : o[v.id].by # st[j].id BY <1>5, EventFacts, IDFacts
<1>9. o[v.id].by # v.id /\ v.id \in m.orders /\ ~ (v.qty > 0)
      /\ \A s \in Sides : m.side[s].client2 # v.id
  BY <1>2, <1>4, <1>5, <1>7, IDFacts
<1>a. Told(m, K, fo, fr, tt, o, Nil) BY <1>0, <1>8, <1>9, AppendTold, Zenon
<1>e. v.final => Ends(tt, v.id) BY <1>0, <1>8, <1>9, AppendTold, Zenon
<1>10. Told(m, K, fo, fr, tt, o, Nil) /\ (v.final => Ends(tt, r.id)) BY <1>a, <1>e, Zenon
<1> HIDE DEF L, tt
<1>13. Told(m, L, fo, fr, tt, q, Nil)
  <2>0. m.orders \subseteq IDs BY MakerFacts
  <2>1. ASSUME NEW i \in 1..Len(tt) PROVE q[tt[i].id].by = o[tt[i].id].by
    <3>1. tt[i].id \in IDs BY <1>1, EventFacts
    <3> QED BY <1>5, <3>1
  <2>2. \A c \in m.orders : q[c].status = "over" => o[c].status = "over" \/ Ends(tt, c)
    BY <1>10, <2>0
  <2>3. \A c \in m.orders : q[c].status = "none" => o[c].status = "none" /\ c # r.id BY <2>0
  <2>4. \A c \in m.orders : q[c].status = "none" /\ Waits(K, fo, fr, c) => Waits(L, fo, fr, c)
    BY <2>3, WaitsLess DEF L
  <2>5. Posted(m, fo) BY <1>0 DEF Told
  <2> QED BY <1>1, <1>10, <2>1, <2>2, <2>3, <2>4, <2>5, OrdersTold
<1> QED BY <1>13 DEF L, tt

(* There was room for it. *)
LEMMA CreateRoom ==
  ASSUME NEW K \in SUBSET Requests, NEW o \in Orders, NEW b \in Int, Room(K, o, b),
         NEW r \in K, r.op = "create", NEW q \in Orders, q[r.id].side = r.side,
         q[r.id].left = Qty, \A i \in IDs \ {r.id} : q[i] = o[i]
  PROVE  Room(K \ {r}, q, b)
<1> DEFINE L == K \ {r}
<1>1. L \in SUBSET Requests /\ L \subseteq K OBVIOUS
<1>2. RoomFor(r.side, b, Qty) BY DEF Room
<1> HIDE DEF L
<1>3. ASSUME NEW i \in IDs, q[i].status = "open"
      PROVE  \/ o[i].status = "open" /\ q[i].side = o[i].side /\ q[i].left = o[i].left
             \/ RoomFor(q[i].side, b, q[i].left)
  BY <1>2, <1>3
<1>4. Room(L, q, b) BY <1>1, <1>3, RoomKeeps
<1> QED BY <1>4 DEF L

(* A replacement is accepted.                                              *)
LEMMA PendTold ==
  ASSUME NEW m \in Makers, NEW K \in SUBSET Requests, NEW fo \in SUBSET IDs,
         NEW fr \in SUBSET IDs, NEW st \in Seq(Events), NEW o \in Orders,
         Safe(m, K, fo, fr, st, o), Told(m, K, fo, fr, st, o, Nil), NEW r \in K, r.op = "replace", NEW q \in Orders,
         o[r.of].status = "open", ReplaceTo(o, q, r.of, r.id, r.price)
  PROVE  Told(m, K \ {r}, fo, fr, st, q, Nil)
<1> DEFINE L == K \ {r}
<1>0. Safe(m, K, fo, fr, st, o) /\ Told(m, K, fo, fr, st, o, Nil) OBVIOUS
<1>1. L \in SUBSET Requests /\ L \subseteq K OBVIOUS
<1>2. r.id \in IDs /\ r.of \in IDs BY RequestFacts
<1>3. r \in Asks(K) BY DEF Asks
<1>4. r.id \in m.orders /\ o[r.id].status = "none" BY <1>0, <1>3 DEF Safe, Asked
<1> HIDE DEF L
<1>5. /\ \A i \in IDs \ {r.of, r.id} : q[i] = o[i]
      /\ q[r.of].status = "open" /\ q[r.of].side = o[r.of].side /\ q[r.of].left = o[r.of].left
      /\ q[r.id].status = "pending"
  BY DEF ReplaceTo, SameTerms
<1>6. ASSUME NEW i \in 1..Len(st), Left(st[i]) PROVE q[st[i].id].by = o[st[i].id].by
  <2>1. HeardOf(m, st[i], o) /\ st[i].final BY <1>0, <1>6 DEF Safe, Heard, Left
  <2>2. o[st[i].id].status = "over" BY <2>1, Zenon DEF HeardOf
  <2>3. st[i].id \in IDs BY EventFacts
  <2> QED BY <1>4, <1>5, <2>2, <2>3
<1>7. Told(m, L, fo, fr, st, q, Nil)
  <2>0. m.orders \subseteq IDs BY MakerFacts
  <2>2. \A c \in m.orders : q[c].status = "over" => o[c].status = "over"
    BY <1>5, <2>0
  <2>3. \A c \in m.orders : q[c].status = "none" => o[c].status = "none" /\ c # r.id
    BY <1>5, <2>0
  <2>4. \A c \in m.orders : q[c].status = "none" /\ Waits(K, fo, fr, c) => Waits(L, fo, fr, c)
    BY <2>3, WaitsLess DEF L
  <2>5. Posted(m, fo) BY <1>0 DEF Told
  <2> QED BY <1>0, <1>1, <1>6, <2>2, <2>3, <2>4, <2>5, OrdersTold
<1> QED BY <1>7 DEF L

(* A pending order needs no room of its own. *)
LEMMA PendRoom ==
  ASSUME NEW K \in SUBSET Requests, NEW o \in Orders, NEW b \in Int, Room(K, o, b),
         NEW r \in K, NEW c \in IDs, NEW x \in IDs, NEW p, NEW q \in Orders,
         o[c].status = "open", ReplaceTo(o, q, c, x, p)
  PROVE  Room(K \ {r}, q, b)
<1> DEFINE L == K \ {r}
<1>1. L \in SUBSET Requests /\ L \subseteq K OBVIOUS
<1> HIDE DEF L
<1>2. ASSUME NEW i \in IDs, q[i].status = "open"
      PROVE  o[i].status = "open" /\ q[i].side = o[i].side /\ q[i].left = o[i].left
  BY <1>2 DEF ReplaceTo, SameTerms
<1>3. Room(L, q, b) BY <1>1, <1>2, RoomKeeps
<1> QED BY <1>3 DEF L

(* A part of an order is executed.                                         *)
LEMMA PartTold ==
  ASSUME NEW m \in Makers, NEW K \in SUBSET Requests, NEW fo \in SUBSET IDs,
         NEW fr \in SUBSET IDs, NEW st \in Seq(Events), NEW o \in Orders,
         Safe(m, K, fo, fr, st, o), Told(m, K, fo, fr, st, o, Nil), NEW c \in IDs, o[c].status = "open", NEW q \in Orders,
         \A i \in IDs : q[i].by = o[i].by /\ q[i].status = o[i].status,
         NEW v \in Events, v.id = c, v.side = o[c].side, ~ v.final
  PROVE  Told(m, K, fo, fr, Append(st, v), q, Nil)
<1> DEFINE tt == Append(st, v)
<1>0. Safe(m, K, fo, fr, st, o) /\ Told(m, K, fo, fr, st, o, Nil) OBVIOUS
<1>1. tt \in Seq(Events) BY AppendFacts
<1>2. OpenIn(m, st, o, c) BY <1>0, OpenFacts
<1>3. /\ v.id \in m.orders
      /\ v.id = m.side[v.side].client \/ v.id = m.side[v.side].client2
      /\ \A s \in Sides : m.side[s].client2 = v.id => Ends(st, m.side[s].client)
      /\ ~ Left(v)
      /\ \A i \in 1..Len(st) : Left(st[i]) => o[st[i].id].by # v.id
  BY <1>2 DEF OpenIn, Left
<1>4. Told(m, K, fo, fr, tt, o, Nil) BY <1>0, <1>3, AppendTold, Zenon
<1> HIDE DEF tt
<1>6. Told(m, K, fo, fr, tt, q, Nil)
  <2>0. m.orders \subseteq IDs BY MakerFacts
  <2>1. \A i \in 1..Len(tt) : q[tt[i].id].by = o[tt[i].id].by BY <1>1, EventFacts
  <2>5. Posted(m, fo) BY <1>0 DEF Told
  <2>6. \A i \in m.orders : q[i].status = o[i].status BY <2>0
  <2> QED BY <1>1, <1>4, <2>1, <2>5, <2>6, OrdersTold
<1> QED BY <1>6 DEF tt

(* An order is replaced by the one that waited for it.                     *)
LEMMA SwapTold ==
  ASSUME NEW m \in Makers, NEW K \in SUBSET Requests, NEW fo \in SUBSET IDs,
         NEW fr \in SUBSET IDs, NEW st \in Seq(Events), NEW o \in Orders,
         Safe(m, K, fo, fr, st, o), Told(m, K, fo, fr, st, o, Nil), NEW c \in IDs, o[c].status = "open", o[c].by # Nil,
         NEW q \in Orders, ReplacedTo(o, q, c, o[c].by),
         NEW u \in Events, u.id = c, u.event = "replaced", u.final, u.qty = 0,
         NEW v \in Events, v.id = o[c].by, ~ v.final, v.qty = 0
  PROVE  Told(m, K, fo, fr, Append(Append(st, u), v), q, Nil)
<1> DEFINE s1 == Append(st, u)
           s2 == Append(s1, v)
           x == o[c].by
<1>0. Safe(m, K, fo, fr, st, o) /\ Told(m, K, fo, fr, st, o, Nil) OBVIOUS
<1>1. s1 \in Seq(Events) BY AppendFacts
<1>x. x \in IDs /\ o[c].side \in Sides BY OrderFacts
<1>2. OpenIn(m, st, o, c) BY <1>0, OpenFacts
<1>3. /\ u.id \in m.orders
      /\ \A s \in Sides : m.side[s].client2 = u.id => Ends(st, m.side[s].client)
      /\ ~ Left(u) /\ ~ (u.qty > 0)
  BY <1>2 DEF OpenIn, Left
<1>4. Told(m, K, fo, fr, s1, o, Nil) /\ Ends(s1, c) BY <1>0, <1>3, AppendTold, Zenon
<1>c. x # c /\ o[x].side = o[c].side /\ m.side[o[c].side].client = c
      /\ m.side[o[c].side].client2 = x
  BY <1>0, Zenon DEF Safe, Chain
<1> HIDE DEF s1
<1>6. Told(m, K, fo, fr, s2, o, Nil) /\ Ends(s2, c)
  <2>1. v.id \in m.orders BY <1>c, <1>x, <1>0, IDFacts DEF Told, Kept
  <2>2. ASSUME NEW s \in Sides, m.side[s].client2 = v.id PROVE Ends(s1, m.side[s].client)
    <3>1. s = o[c].side BY <1>0, <1>c, <1>x, <2>2, IDFacts DEF Safe, Distinct
    <3> QED BY <1>4, <1>c, <3>1
  <2>3. ~ Left(v) /\ ~ (v.qty > 0) BY DEF Left
  <2> QED BY <1>1, <1>4, <2>1, <2>2, <2>3, AppendTold, Zenon
<1>8. s2 \in Seq(Events) BY <1>1, AppendFacts
<1>q. /\ \A i \in IDs : q[i].by = o[i].by
      /\ \A i \in IDs \ {c, x} : q[i] = o[i]
      /\ q[c].status = "over" /\ q[x].status = "open" /\ q[x].left = o[c].left
      /\ q[x].side = o[c].side
  BY <1>c DEF ReplacedTo, SameTerms
<1> HIDE DEF s2, x
<1>9. Told(m, K, fo, fr, s2, q, Nil)
  <2>0. m.orders \subseteq IDs BY MakerFacts
  <2>1. \A i \in 1..Len(s2) : q[s2[i].id].by = o[s2[i].id].by BY <1>8, <1>q, EventFacts
  <2>2. \A i \in m.orders : q[i].status = "over" => o[i].status = "over" \/ Ends(s2, i)
    BY <1>6, <1>q, <2>0
  <2>3. \A i \in m.orders : q[i].status = "none" => o[i].status = "none"
    BY <1>q, <2>0
  <2>5. Posted(m, fo) BY <1>0 DEF Told
  <2> QED BY <1>8, <1>6, <2>1, <2>2, <2>3, <2>5, OrdersTold
<1> QED BY <1>9 DEF s2, s1

(* The replacement takes over the room of its predecessor. *)
LEMMA SwapRoom ==
  ASSUME NEW K \in SUBSET Requests, NEW o \in Orders, NEW b \in Int, Room(K, o, b),
         NEW c \in IDs, o[c].status = "open", NEW x \in IDs, x # c, o[x].side = o[c].side,
         NEW q \in Orders, ReplacedTo(o, q, c, x)
  PROVE  Room(K, q, b)
<1>1. RoomFor(o[c].side, b, o[c].left) BY DEF Room
<1>2. /\ \A i \in IDs \ {c, x} : q[i] = o[i]
      /\ q[c].status = "over" /\ q[x].left = o[c].left /\ q[x].side = o[c].side
  BY DEF ReplacedTo, SameTerms
<1>3. ASSUME NEW i \in IDs, q[i].status = "open"
      PROVE  \/ o[i].status = "open" /\ q[i].side = o[i].side /\ q[i].left = o[i].left
             \/ RoomFor(q[i].side, b, q[i].left)
  BY <1>1, <1>2, <1>3
<1>4. K \subseteq K OBVIOUS
<1> QED BY <1>3, <1>4, RoomKeeps

(* What an order leaves behind that goes without a successor.              *)
LEMMA LeaveSound ==
  ASSUME TypeInv, NEW K \in SUBSET Requests, NEW fo \in SUBSET IDs, NEW fr \in SUBSET IDs,
         NEW c \in IDs, Leave(c), Sound(maker, K, fo, fr, stream, order, net)
  PROVE  /\ Told(maker, K, fo, fr, stream', order', Nil)
         /\ Counted(maker, stream', net)
         /\ Room(K, order', net)
<1>0. /\ Safe(maker, K, fo, fr, stream, order) /\ Told(maker, K, fo, fr, stream, order, Nil)
      /\ Counted(maker, stream, net) /\ Room(K, order, net)
  BY DEF Sound
<1>t. maker \in Makers /\ order \in Orders /\ stream \in Seq(Events) /\ net \in Int
  BY DEF TypeInv
<1> DEFINE v == Report(c, "canceled", 0, net, TRUE)
           q == Over(c, order)
<1>1. v \in Events /\ v = EventIs("canceled", c, order[c].side, order[c].by, 0, net, TRUE)
  BY <1>t, ReportTypes, Zenon
<1>2. order' = q /\ stream' = Append(stream, v) \o Rejection(c, net)
      /\ order[c].status = "open"
  BY DEF Leave
<1>3. q \in Orders /\ OverTo(order, q, c) /\ q[c].left = order[c].left BY <1>t, OverFacts
<1> HIDE DEF v, q
<1>4. v.id = c /\ v.side = order[c].side /\ v.final /\ v.qty = 0 /\ v.position = net
  BY <1>1 DEF EventIs
<1>5. net = net + Signed(v.side, v.qty) BY <1>t, <1>4 DEF Signed
<1>6a. Told(maker, K, fo, fr, Append(stream, v) \o Rejection(c, net), q, Nil)
  BY <1>0, <1>t, <1>1, <1>2, <1>3, <1>4, LeaveTold, Zenon
<1>6b. Counted(maker, Append(stream, v) \o Rejection(c, net), net)
  BY <1>0, <1>t, <1>1, <1>4, <1>5, LeaveCounted, Zenon
<1>6. /\ Told(maker, K, fo, fr, Append(stream, v) \o Rejection(c, net), q, Nil)
      /\ Counted(maker, Append(stream, v) \o Rejection(c, net), net) BY <1>6a, <1>6b, Zenon
<1>7. Room(K, q, net)
  <2>1. ASSUME NEW i \in IDs, q[i].status = "open"
        PROVE  order[i].status = "open" /\ q[i].side = order[i].side /\ q[i].left = order[i].left
    BY <1>3, <2>1 DEF OverTo, SameTerms
  <2>2. K \subseteq K OBVIOUS
  <2> QED BY <1>0, <1>t, <1>3, <2>1, <2>2, RoomKeeps
<1> QED BY <1>2, <1>6, <1>7

(* An execution keeps the invariant. *)
LEMMA ExecuteSound ==
  ASSUME TypeInv, Sound(maker, calls, failedOrders, failedReplaces, stream, order, net),
         NEW c \in IDs, NEW n \in 1..order[c].left, Executes(c, n)
  PROVE  /\ Told(maker, calls, failedOrders, failedReplaces, stream', order', Nil)
         /\ Counted(maker, stream', net')
         /\ Room(calls, order', net')
<1> DEFINE K == calls
           fo == failedOrders
           fr == failedReplaces
<1>0. /\ Safe(maker, K, fo, fr, stream, order) /\ Told(maker, K, fo, fr, stream, order, Nil)
      /\ Counted(maker, stream, net) /\ Room(K, order, net)
      /\ Sound(maker, K, fo, fr, stream, order, net)
  BY DEF Sound
<1>t. /\ maker \in Makers /\ order \in Orders /\ stream \in Seq(Events) /\ net \in Int
      /\ K \in SUBSET Requests /\ fo \in SUBSET IDs /\ fr \in SUBSET IDs
  BY DEF TypeInv
<1> HIDE DEF K, fo, fr
<1> DEFINE done == [order EXCEPT ![c] = [@ EXCEPT !.left = order[c].left - n]]
           over == n = order[c].left
           pos  == net + Signed(order[c].side, n)
           v    == Report(c, "fill", n, pos, over)
<1>1. n \in Nat BY <1>t, OrderFacts
<1>2. pos \in Int /\ over \in BOOLEAN BY <1>t, <1>1 DEF Signed
<1>3. /\ order[c].status = "open" /\ net' = pos
      /\ order' = IF over THEN Over(c, done) ELSE done
      /\ stream' = Append(stream, v) \o IF over THEN Rejection(c, pos) ELSE <<>>
  BY DEF Executes
<1>4. done \in Orders BY <1>t, FilledFacts
<1>5. /\ \A i \in IDs : /\ SameTerms(order, done, i) /\ done[i].by = order[i].by
                        /\ done[i].status = order[i].status
                        /\ (i # c => done[i].left = order[i].left)
      /\ done[c].left = order[c].left - n
  <2>1. order \in Orders BY <1>t, Zenon
  <2> QED BY <2>1, FilledFacts, ZenonT(60)
<1>p. pos = net + Signed(order[c].side, n) OBVIOUS
<1> HIDE DEF done, pos, over
<1>6. v \in Events /\ v = EventIs("fill", c, order[c].side, order[c].by, n, pos, over)
  BY <1>t, <1>1, <1>2, ReportTypes
<1>7. /\ v.id = c /\ v.side = order[c].side /\ v.final = over /\ v.qty = n /\ v.position = pos
  BY <1>6 DEF EventIs
<1> HIDE DEF v
<1>8. pos = net + Signed(v.side, v.qty) BY <1>p, <1>7
<1>9. AloneIn(K, order, c) BY <1>0, <1>t, <1>3, AloneAtWork
<1>10. CASE over
  <2> DEFINE q == Over(c, done)
  <2>1. q \in Orders /\ OverTo(done, q, c) /\ q[c].left = done[c].left BY <1>4, OverFacts
  <2>2. order' = q /\ stream' = Append(stream, v) \o Rejection(c, pos) BY <1>3, <1>10, Zenon
  <2> HIDE DEF q
  <2>3. OverTo(order, q, c) BY <1>5, <2>1 DEF OverTo, SameTerms
  <2>4a. Told(maker, K, fo, fr, Append(stream, v) \o Rejection(c, pos), q, Nil)
    BY <1>0, <1>t, <1>2, <1>3, <1>6, <1>7, <1>10, <2>1, <2>3, LeaveTold, Zenon
  <2>4b. Counted(maker, Append(stream, v) \o Rejection(c, pos), pos)
    BY <1>0, <1>t, <1>2, <1>6, <1>7, <1>8, LeaveCounted, Zenon
  <2>4. /\ Told(maker, K, fo, fr, Append(stream, v) \o Rejection(c, pos), q, Nil)
        /\ Counted(maker, Append(stream, v) \o Rejection(c, pos), pos) BY   <2>4a,   <2>4b
  <2>5. \A i \in IDs : q[i].status = "open" => order[i].status = "open"
    BY <2>3 DEF OverTo
  <2>6. \A i \in IDs : q[i].side = order[i].side /\ (i # c => q[i].left = order[i].left)
    BY <2>3 DEF OverTo, SameTerms
  <2>7. q[c].left = order[c].left - n BY <1>5, <2>1
  <2>8. Room(K, q, pos) BY <1>0, <1>t, <1>3, <1>9, <1>p, <2>1, <2>5, <2>6, <2>7, RoomFilled
  <2> QED BY <1>3, <2>2, <2>4, <2>8, Zenon DEF K, fo, fr
<1>11. CASE ~ over
  <2>1. order' = done /\ stream' = Append(stream, v) BY <1>t, <1>3, <1>6, <1>11, AppendTwo, Zenon
  <2>2. \A i \in IDs : done[i].by = order[i].by /\ done[i].status = order[i].status BY <1>5
  <2>3a. Told(maker, K, fo, fr, Append(stream, v), done, Nil)
    BY <1>0, <1>t, <1>3, <1>4, <1>6, <1>7, <1>11, <2>2, PartTold, Zenon
  <2>3b. Counted(maker, Append(stream, v), pos)
    BY <1>0, <1>t, <1>2, <1>6, <1>7, <1>8, CountedAppend, Zenon
  <2>3. Told(maker, K, fo, fr, Append(stream, v), done, Nil)
        /\ Counted(maker, Append(stream, v), pos) BY   <2>3a,   <2>3b
  <2>6. \A i \in IDs : done[i].side = order[i].side /\ (i # c => done[i].left = order[i].left)
    BY <1>5 DEF SameTerms
  <2>7. done[c].left = order[c].left - n BY <1>5
  <2>8. Room(K, done, pos) BY <1>0, <1>t, <1>3, <1>4, <1>9, <1>p, <2>2, <2>6, <2>7, RoomFilled, Zenon
  <2> QED BY <1>3, <2>1, <2>3, <2>8, Zenon DEF K, fo, fr
<1> QED BY <1>2, <1>10, <1>11

(* Alpaca keeps the invariant. *)
LEMMA AlpacaSound == TypeInv /\ SoundInv /\ Alpaca => SoundInv'
<1> SUFFICES ASSUME TypeInv, SoundInv, Alpaca, drops' = 0, lost' = 0
             PROVE  Sound(maker, calls, failedOrders, failedReplaces, stream, order, net)'
  BY DEF SoundInv
<1> USE DEF callVars, brokerVars
<1>t. /\ maker \in Makers /\ calls \in SUBSET Requests
      /\ failedOrders \in SUBSET IDs /\ failedReplaces \in SUBSET IDs
      /\ stream \in Seq(Events) /\ order \in Orders /\ net \in Int /\ drops \in Nat
  BY MakerAssumption DEF TypeInv
<1>u. /\ calls' \in SUBSET Requests /\ failedOrders' \in SUBSET IDs
      /\ failedReplaces' \in SUBSET IDs
  <2>1. TypeInv' BY AlpacaTypes
  <2> QED BY <2>1 DEF TypeInv
<1>s. drops = 0 /\ lost = 0 => Sound(maker, calls, failedOrders, failedReplaces, stream, order, net)
  BY DEF SoundInv
<1>m. maker' = maker BY Zenon DEF Alpaca, Request, Execute, Replaced, Expire, Disconnect
<1>f. ASSUME drops = 0, lost = 0
      PROVE  Safe(maker, calls, failedOrders, failedReplaces, stream, order)'
  <2>1. SafeInv BY <1>f, <1>s DEF SafeInv, Sound
  <2>2. SafeInv' BY <2>1, AlpacaSafe
  <2> QED BY <2>2 DEF SafeInv
<1>q. ASSUME drops = 0, lost = 0,
             Told(maker, calls', failedOrders', failedReplaces', stream', order', Nil),
             Counted(maker, stream', net'), Room(calls', order', net')
      PROVE  Sound(maker, calls, failedOrders, failedReplaces, stream, order, net)'
  <2>1. Safe(maker', calls', failedOrders', failedReplaces', stream', order') BY <1>f, <1>q
  <2>2. Sound(maker', calls', failedOrders', failedReplaces', stream', order', net')
    BY <1>m, <1>q, <2>1 DEF Sound
  <2> QED BY <2>2
<1>1. CASE Request
  <2>1. PICK r \in calls : /\ calls' = calls \ {r}
                           /\ \/ Refuse(r) \/ Create(r) \/ Replace(r) \/ Cancel(r)
    BY <1>1 DEF Request
  <2>2. r \in Requests BY <1>t
  <2>4. CASE Refuse(r)
    <3>1. /\ failedOrders' = (IF r.op = "create" THEN failedOrders \cup {r.id} ELSE failedOrders)
          /\ failedReplaces' = (IF r.op = "replace" THEN failedReplaces \cup {r.id}
                                                    ELSE failedReplaces)
          /\ stream' = stream /\ order' = order /\ lost' = lost /\ drops' = drops /\ net' = net
      BY <2>4 DEF Refuse, Fail
    <3>2. Safe(maker, calls, failedOrders, failedReplaces, stream, order)
          /\ Told(maker, calls, failedOrders, failedReplaces, stream, order, Nil)
          /\ Counted(maker, stream, net) /\ Room(calls, order, net)
      BY <1>s, <3>1 DEF Sound
    <3>3a. Told(maker, calls \ {r}, failedOrders', failedReplaces', stream, order, Nil)
      BY <1>t, <1>u, <3>1, <3>2, RefuseTold
    <3>3b. Room(calls \ {r}, order, net)
      <4>1. calls \ {r} \subseteq calls OBVIOUS
      <4> QED BY <1>t, <1>u, <2>1, <3>2, <4>1, RoomKeeps
    <3>3. Told(maker, calls \ {r}, failedOrders', failedReplaces', stream, order, Nil)
          /\ Room(calls \ {r}, order, net) BY     <3>3a,     <3>3b
    <3>4. Counted(maker, stream, net) BY <3>2
    <3> QED BY <1>q, <2>1, <3>1, <3>3, <3>4
  <2>5. CASE Create(r)
    <3>1. r.op = "create" /\ lost = 0 /\ failedOrders' = failedOrders
          /\ failedReplaces' = failedReplaces /\ net' = net /\ drops' = drops
      BY <2>2, <2>5, AnswerFacts DEF Create
    <3>0. Safe(maker, calls, failedOrders, failedReplaces, stream, order)
          /\ Told(maker, calls, failedOrders, failedReplaces, stream, order, Nil)
          /\ Counted(maker, stream, net) /\ Room(calls, order, net)
      BY <1>s, <3>1 DEF Sound
    <3>2. r.id \in IDs /\ r.side \in Sides /\ r.price \in Int BY <2>2, <3>1, RequestFacts
    <3>3. PICK rejected \in BOOLEAN : Creates(r, rejected) BY <2>5, Zenon DEF Create, Creates
    <3> DEFINE x == IF rejected THEN "over" ELSE "open"
               h == [status |-> x, side |-> r.side, price |-> r.price, left |-> Qty,
                     by |-> Nil]
               v == EventIs(IF rejected THEN "rejected" ELSE "new", r.id, r.side, Nil, 0, net,
                            rejected)
    <3>4. order' = [order EXCEPT ![r.id] = h] BY <3>3 DEF Creates
    <3>5. x \in {"open", "over"} /\ (x = "over" => rejected) OBVIOUS
    <3>6. v \in Events BY <1>t, <3>2, EventTypes, Zenon
    <3>7. v.id = r.id /\ v.side = r.side /\ v.qty = 0 /\ v.position = net /\ v.final = rejected
      BY DEF EventIs
    <3>8. stream' = Append(stream, v) BY <3>3 DEF Creates, EventIs
    <3> HIDE DEF x, v
    <3>9. /\ order' \in Orders
          /\ order'[r.id].status = x /\ order'[r.id].side = r.side
          /\ order'[r.id].left = Qty /\ order'[r.id].by = Nil
          /\ \A i \in IDs \ {r.id} : order'[i] = order[i]
      <4> DEFINE q == [order EXCEPT ![r.id] = h]
      <4>1. h = [status |-> x, side |-> r.side, price |-> r.price, left |-> Qty, by |-> Nil]
        OBVIOUS
      <4> HIDE DEF h
      <4>2. /\ q \in Orders
            /\ q[r.id].status = x /\ q[r.id].side = r.side
            /\ q[r.id].left = Qty /\ q[r.id].by = Nil
            /\ \A i \in IDs \ {r.id} : q[i] = order[i]
        BY <1>t, <3>2, <3>5, <4>1, CreateFacts
      <4> HIDE DEF q
      <4>3. order' = q BY <3>4 DEF q
      <4> QED BY <4>2, <4>3
    <3>10. order'[r.id].status \in {"open", "over"}
           /\ (order'[r.id].status = "over" => v.final)
      BY <3>5, <3>7, <3>9
    <3>12. net = net + Signed(v.side, v.qty) BY <1>t, <3>7 DEF Signed
    <3>11a. Told(maker, calls \ {r}, failedOrders, failedReplaces, Append(stream, v), order', Nil)
      BY <1>t, <3>0, <3>1, <3>6, <3>7, <3>9, <3>10, CreateTold
    <3>11b. Counted(maker, Append(stream, v), net)
      BY <1>t, <3>0, <3>6, <3>7, <3>12, CountedAppend
    <3>11c. Room(calls \ {r}, order', net)
      BY <1>t, <3>0, <3>1, <3>9, CreateRoom
    <3>11. /\ Told(maker, calls \ {r}, failedOrders, failedReplaces, Append(stream, v), order', Nil)
           /\ Counted(maker, Append(stream, v), net)
           /\ Room(calls \ {r}, order', net) BY     <3>11a,     <3>11b,     <3>11c
    <3> QED BY <1>q, <2>1, <3>1, <3>8, <3>11
  <2>6. CASE Replace(r)
    <3>1. /\ r.op = "replace" /\ lost = 0 /\ failedOrders' = failedOrders
          /\ failedReplaces' = failedReplaces /\ net' = net /\ drops' = drops
      BY <2>2, <2>6, AnswerFacts DEF Replace
    <3>0. Safe(maker, calls, failedOrders, failedReplaces, stream, order)
          /\ Told(maker, calls, failedOrders, failedReplaces, stream, order, Nil)
          /\ Counted(maker, stream, net) /\ Room(calls, order, net)
      BY <1>s, <3>1 DEF Sound
    <3>2. stream' = stream /\ order[r.of].status = "open" BY <2>6 DEF Replace
    <3>3. r.id \in IDs /\ r.of \in IDs /\ r.price \in Int BY <2>2, <3>1, RequestFacts
    <3>4. order[r.id].status = "none" BY <3>0, <3>1 DEF Safe, Asked, Asks
    <3>5. order' \in Orders /\ ReplaceTo(order, order', r.of, r.id, r.price)
      <4>1. order' = [order EXCEPT ![r.of] = [@ EXCEPT !.by = r.id],
             ![r.id] = [status |-> "pending", side |-> order[r.of].side,
                        price |-> r.price, left |-> order[r.of].left, by |-> Nil]]
        BY <2>6 DEF Replace
      <4> QED BY <1>t, <3>2, <3>3, <3>4, <4>1, ReplaceFacts, Zenon
    <3>6a. Told(maker, calls \ {r}, failedOrders, failedReplaces, stream, order', Nil)
      BY <1>t, <3>0, <3>1, <3>2, <3>5, PendTold
    <3>6b. Room(calls \ {r}, order', net) BY <1>t, <3>0, <3>2, <3>3, <3>5, PendRoom
    <3>6. Told(maker, calls \ {r}, failedOrders, failedReplaces, stream, order', Nil)
          /\ Room(calls \ {r}, order', net)
      BY <3>6a, <3>6b
    <3>7. Counted(maker, stream, net) BY <3>0
    <3> QED BY <1>q, <2>1, <3>1, <3>2, <3>6, <3>7
  <2>7. CASE Cancel(r)
    <3>1. /\ r.op = "cancel" /\ Leave(r.of) /\ lost = 0 /\ net' = net /\ drops' = drops
          /\ failedOrders' = failedOrders /\ failedReplaces' = failedReplaces
      BY <2>7 DEF Cancel
    <3>2. r.of \in IDs BY <2>2, <3>1, RequestFacts
    <3>0. Sound(maker, calls, failedOrders, failedReplaces, stream, order, net) BY <1>s, <3>1
    <3> DEFINE L == calls \ {r}
    <3>3. L \in SUBSET Requests /\ Asks(L) = Asks(calls) BY <1>t, <3>1 DEF Asks
    <3> HIDE DEF L
    <3>4. SameBooks(maker, maker) /\ maker.position = maker.position BY DEF SameBooks
    <3>5. Sound(maker, L, failedOrders, failedReplaces, stream, order, net)
      BY <1>t, <3>0, <3>3, <3>4, CancelsTold
    <3>6. /\ Told(maker, L, failedOrders, failedReplaces, stream', order', Nil)
          /\ Counted(maker, stream', net)
          /\ Room(L, order', net)
      BY <1>t, <3>1, <3>2, <3>3, <3>5, LeaveSound, Zenon
    <3> QED BY <1>q, <2>1, <3>1, <3>6 DEF L
  <2> QED BY <2>1, <2>4, <2>5, <2>6, <2>7
<1>2. CASE Execute
  <2>0. PICK c \in IDs : \E n \in 1..order[c].left : Executes(c, n)
    BY <1>2, Zenon DEF Execute, Executes
  <2>1. PICK n \in 1..order[c].left : Executes(c, n) BY <2>0
  <2>2. /\ lost = 0 /\ drops = 0 /\ calls' = calls
        /\ failedOrders' = failedOrders /\ failedReplaces' = failedReplaces
    BY <1>2 DEF Execute
  <2>3. /\ Told(maker, calls, failedOrders, failedReplaces, stream', order', Nil)
        /\ Counted(maker, stream', net')
        /\ Room(calls, order', net')
    BY <1>s, <2>1, <2>2, ExecuteSound
  <2> QED BY <1>q, <2>2, <2>3
<1>3. CASE Replaced
  <2>1. PICK c \in IDs : Replaces(c) BY <1>3, Zenon DEF Replaced, Replaces
  <2>9. /\ lost = 0 /\ drops = 0 /\ calls' = calls /\ net' = net
        /\ failedOrders' = failedOrders /\ failedReplaces' = failedReplaces
    BY <1>3 DEF Replaced
  <2>0. Safe(maker, calls, failedOrders, failedReplaces, stream, order)
        /\ Told(maker, calls, failedOrders, failedReplaces, stream, order, Nil)
        /\ Counted(maker, stream, net) /\ Room(calls, order, net)
    BY <1>s, <2>9 DEF Sound
  <2> DEFINE x == order[c].by
             u == Report(c, "replaced", 0, net, TRUE)
             v == Report(x, "new", 0, net, FALSE)
  <2>2. order[c].status = "open" /\ x # Nil /\ stream' = stream \o <<u, v>>
    BY <2>1 DEF Replaces
  <2>3. x \in IDs BY <1>t, <2>2, OrderFacts
  <2>4. c # x /\ order[x].side = order[c].side BY <2>0, <2>2, Zenon DEF Safe, Chain
  <2>5. order' \in Orders /\ ReplacedTo(order, order', c, x)
    <3>1. order' = [order EXCEPT ![c] = [@ EXCEPT !.status = "over"],
            ![x] = [@ EXCEPT !.status = "open", !.left = order[c].left]]
      BY <2>1 DEF Replaces
    <3> QED BY <1>t, <2>3, <2>4, <3>1, ReplacedOrders, Zenon
  <2>6. u \in Events /\ u = EventIs("replaced", c, order[c].side, order[c].by, 0, net, TRUE)
    BY <1>t, ReportTypes, Zenon
  <2>7. v \in Events /\ v = EventIs("new", x, order[x].side, order[x].by, 0, net, FALSE)
    BY <1>t, <2>3, ReportTypes, Zenon
  <2> HIDE DEF u, v
  <2>8. u.id = c /\ u.event = "replaced" /\ u.final /\ u.qty = 0 /\ u.position = net
    BY <2>6, Zenon DEF EventIs
  <2>12. v.id = order[c].by /\ ~ v.final /\ v.qty = 0 /\ v.position = net
    BY <2>7 DEF EventIs
  <2>10. stream' = Append(Append(stream, u), v) BY <1>t, <2>2, <2>6, <2>7, AppendTwo, Zenon
  <2>11a. Told(maker, calls, failedOrders, failedReplaces, Append(Append(stream, u), v), order', Nil)
    BY <1>t, <2>0, <2>2, <2>5, <2>6, <2>7, <2>8, <2>12, SwapTold, Zenon
  <2>11b. Counted(maker, Append(Append(stream, u), v), net)
    <3>1. net = net + Signed(u.side, u.qty) /\ net = net + Signed(v.side, v.qty)
      BY <1>t, <2>8, <2>12 DEF Signed
    <3>2. Append(stream, u) \in Seq(Events) BY <1>t, <2>6, AppendFacts, Zenon
    <3>3. Counted(maker, Append(stream, u), net) BY <1>t, <2>0, <2>6, <2>8, <3>1, CountedAppend, Zenon
    <3> QED BY <1>t, <2>7, <2>12, <3>1, <3>2, <3>3, CountedAppend, Zenon
  <2>11c. Room(calls, order', net)
    BY <1>t, <2>0, <2>2, <2>3, <2>4, <2>5, SwapRoom, Zenon
  <2>11. /\ Told(maker, calls, failedOrders, failedReplaces, Append(Append(stream, u), v), order', Nil)
         /\ Counted(maker, Append(Append(stream, u), v), net)
         /\ Room(calls, order', net) BY   <2>11a,   <2>11b,   <2>11c
  <2> QED BY <1>q, <2>9, <2>10, <2>11
<1>4. CASE Expire
  <2>1. PICK c \in IDs : Leave(c) BY <1>4 DEF Expire
  <2>2. /\ lost = 0 /\ drops = 0 /\ calls' = calls /\ net' = net
        /\ failedOrders' = failedOrders /\ failedReplaces' = failedReplaces
    BY <1>4 DEF Expire
  <2>3. /\ Told(maker, calls, failedOrders, failedReplaces, stream', order', Nil)
        /\ Counted(maker, stream', net)
        /\ Room(calls, order', net)
    BY <1>t, <1>s, <2>1, <2>2, LeaveSound, Zenon
  <2> QED BY <1>q, <2>2, <2>3
<1>5. ~ Disconnect BY <1>t DEF Disconnect
<1> QED BY <1>1, <1>2, <1>3, <1>4, <1>5 DEF Alpaca

-----------------------------------------------------------------------------
(* The limits are kept and every end is reported. *)

(* The invariant at the start. *)
LEMMA InitSound == Init => SoundInv
<1> SUFFICES ASSUME Init
             PROVE  Sound(maker, calls, failedOrders, failedReplaces, stream, order, net)
  BY DEF SoundInv
<1>1. /\ maker.side = [s \in Sides |-> NoOrder] /\ maker.orders = {}
      /\ maker.position \in Positions
  BY DEF Init
<1>2. \A s \in Sides : maker.side[s].client = Nil /\ maker.side[s].client2 = Nil
  BY <1>1 DEF NoOrder
<1>3. calls = {} /\ failedOrders = {} /\ stream = << >> /\ net = maker.position BY DEF Init
<1>4. Len(stream) = 0 /\ 1..Len(stream) = {} BY <1>3
<1>5. Safe(maker, calls, failedOrders, failedReplaces, stream, order)
  <2>1. lost = 0 BY DEF Init
  <2> QED BY <2>1, InitSafe DEF SafeInv
<1>6. Told(maker, calls, failedOrders, failedReplaces, stream, order, Nil)
  BY <1>1, <1>2, <1>3, <1>4 DEF Told, Kept, Known, InTurn, Filled, Posted
<1>7. net \in Int /\ net \in MinimumPosition..MaximumPosition BY <1>1, <1>3, MakerAssumption
<1>8. Counted(maker, stream, net)
  <2>1. \A i \in 0..Len(stream) : At(maker, stream, i) = net BY <1>3, <1>4 DEF At
  <2> QED BY <1>7, <2>1 DEF Counted
<1>9. Room(calls, order, net)
  <2>1. \A c \in IDs : order[c].status = "none" BY DEF Init
  <2> QED BY <1>3, <1>7, <2>1 DEF Room
<1> QED BY <1>5, <1>6, <1>8, <1>9 DEF Sound

(* The invariant holds. *)
LEMMA SoundHolds == Spec => [](TypeInv /\ SafeInv /\ SoundInv)
<1>1. Init => SoundInv BY InitSound
<1>2. TypeInv /\ SoundInv /\ [Next]_vars => SoundInv'
  <2> SUFFICES ASSUME TypeInv, SoundInv, [Next]_vars PROVE SoundInv' OBVIOUS
  <2>1. CASE MainLoop BY <2>1, LoopSound
  <2>2. CASE Alpaca BY <2>2, AlpacaSound
  <2>3. CASE UNCHANGED vars BY <2>3 DEF SoundInv, vars, callVars, brokerVars
  <2> QED BY <2>1, <2>2, <2>3 DEF Next
<1> QED BY <1>1, <1>2, SafeHolds, PTL DEF Spec

(* The account never holds more than the symbol's maximum position nor less *)
(* than its minimum (canBuy and canSell of Evaluate), however requests,     *)
(* executions, replacements and cancellations cross, as long as no event is *)
(* lost and no request is carried out and said to have failed.              *)
THEOREM MakerKeepsItsLimits == Spec => []PositionWithinLimits
<1>1. SoundInv => PositionWithinLimits BY DEF SoundInv, PositionWithinLimits, Sound, Room
<1> QED BY <1>1, SoundHolds, PTL

(* Told says where the end of a side's order is. *)
LEMMA ToldOfTheEnd ==
  ASSUME TypeInv, Sound(maker, calls, failedOrders, failedReplaces, stream, order, net),
         NEW s \in Sides, maker.side[s].client # Nil, Ended(maker.side[s].client)
  PROVE  \/ maker.side[s].client \in failedOrders
         \/ \E i \in 1..Len(stream) : stream[i].id = maker.side[s].client /\ stream[i].final
<1> DEFINE c == maker.side[s].client
<1>0. /\ Safe(maker, calls, failedOrders, failedReplaces, stream, order)
      /\ Told(maker, calls, failedOrders, failedReplaces, stream, order, Nil)
  BY DEF Sound
<1>1. c \in maker.orders /\ c # Nil BY <1>0 DEF Told, Kept
<1>2. CASE order[c].status = "over"
  <2>1. Ends(stream, c) BY <1>0, <1>1, <1>2 DEF Told, Known
  <2> QED BY <2>1 DEF Ends
<1>3. CASE order[c].status = "none" /\ ~ Requested(c)
  <2>1. Waits(calls, failedOrders, failedReplaces, c) BY <1>0, <1>1, <1>3 DEF Told, Known
  <2>2. c \notin failedReplaces BY <1>0, Zenon DEF Safe, Replacing
  <2>3. \A r \in Asks(calls) : r.id # c BY <1>3 DEF Asks, Requested
  <2> QED BY <2>1, <2>2, <2>3 DEF Waits
<1> QED BY <1>2, <1>3 DEF Ended

(* A side whose order has ended, or was never taken, is going to hear of it,*)
(* by the stream or by gFailedOrders: while nothing is lost it never waits  *)
(* for an order that is not there.                                          *)
THEOREM MakerHearsOfEveryEnd == Spec => []EndIsReported
<1>1. TypeInv /\ SoundInv => EndIsReported BY ToldOfTheEnd DEF SoundInv, EndIsReported
<1> QED BY <1>1, SoundHolds, PTL
=============================================================================
