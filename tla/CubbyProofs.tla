---------------------------- MODULE CubbyProofs ----------------------------
(***************************************************************************)
(* Theorems about Cubby, for any finite set of equities and any bars,      *)
(* prices, rates and number of orders, whatever the strategies do: the     *)
(* book of orders, its types, the margin it holds, the ledger of cash and  *)
(* positions, the buying power its orders were accepted against, and the   *)
(* average prices of CubbyEntry.                                           *)
(*                                                                         *)
(* Each part has an inductive invariant of its own, and uses the earlier   *)
(* ones: Inv (the book), HoldInv (the margin held), AccountOK and BarOK    *)
(* (types and the account's figures), PositionInv, PricesOK and ValueInv   *)
(* (the ledger), BackedInv, FiguresInv and BuyingInv (the buying power),   *)
(* EntryInv (the entry prices) and GapInv (what averages miss).            *)
(* Sums over orders and equities are those of FiniteSums.                  *)
(***************************************************************************)
EXTENDS CubbyEntry, FiniteSums, TLAPS

(* What the steps keep of one order. *)
Record == [equity : Equities, side : {"buy", "sell"},
           quantity : Nat \ {0}, filled : Nat, limit : Limits,
           held : Nat, tif : Auction \cup {"day"},
           orderedAt : Nat, status : Statuses]

(* The inductive invariant: the book is well formed, the maps hold what is *)
(* not final and nothing else, and a minute simulates only orders of the   *)
(* maps whose equity has a bar.                                            *)
BookOK ==
  /\ order \in Seq(Record)
  /\ \A o \in DOMAIN order : order[o].filled <= order[o].quantity
  /\ open = {o \in DOMAIN order : order[o].status \notin Final}
  /\ \A o \in open : order[o].filled < order[o].quantity

LoopOK ==
  /\ now \in -1 .. Horizon - 1
  /\ at # "next" => now >= 0
  /\ position \in [Equities -> Int] /\ price \in [Equities -> Nat]
  /\ todo \subseteq open
  /\ at # "fill" => todo = {}
  /\ at = "fill" => \A o \in todo : /\ order[o].equity \in DOMAIN bar
                                    /\ bar[order[o].equity] \in Bars
  /\ stopped # "broken logic"

Inv == BookOK /\ LoopOK

LEMMA InvInit == Init => Inv
  BY CubbyAssumption DEF Init, Inv, BookOK, LoopOK

-----------------------------------------------------------------------------
(* The book after a change of one order. *)

LEMMA Replaced ==
  ASSUME order \in Seq(Record), NEW o \in DOMAIN order, NEW r \in Record
  PROVE  /\ [order EXCEPT ![o] = r] \in Seq(Record)
         /\ DOMAIN [order EXCEPT ![o] = r] = DOMAIN order
         /\ [order EXCEPT ![o] = r][o] = r
         /\ \A u \in DOMAIN order : u # o => [order EXCEPT ![o] = r][u] = order[u]
  OBVIOUS

LEMMA Appended ==
  ASSUME order \in Seq(Record), NEW r \in Record
  PROVE  /\ Append(order, r) \in Seq(Record)
         /\ DOMAIN Append(order, r) = DOMAIN order \cup {Len(order) + 1}
         /\ Append(order, r)[Len(order) + 1] = r
         /\ \A u \in DOMAIN order : Append(order, r)[u] = order[u]
         /\ Len(order) + 1 \notin DOMAIN order
  OBVIOUS

(* An order that is closed with a final status leaves a good book, smaller *)
(* by that order.                                                          *)
LEMMA CloseKeepsBook ==
  ASSUME BookOK, NEW o \in open, NEW r \in Record,
         r.status \in Final, r.filled <= r.quantity, r.equity = order[o].equity,
         Close(o, r)
  PROVE  /\ BookOK'
         /\ open' = open \ {o}
         /\ DOMAIN order' = DOMAIN order
         /\ \A u \in DOMAIN order : u # o => order'[u] = order[u]
<1>1. o \in DOMAIN order
  BY DEF BookOK
<1>2. order' = [order EXCEPT ![o] = r]
  BY DEF Close
<1>3. /\ order' \in Seq(Record)
      /\ DOMAIN order' = DOMAIN order
      /\ order'[o] = r
      /\ \A u \in DOMAIN order : u # o => order'[u] = order[u]
  BY <1>1, <1>2, Replaced DEF BookOK
<1>4. open' = open \ {o}
  BY DEF Close
<1>5. \A u \in DOMAIN order' : order'[u].filled <= order'[u].quantity
  BY <1>3 DEF BookOK
<1>6. open' = {u \in DOMAIN order' : order'[u].status \notin Final}
  BY <1>3, <1>4 DEF BookOK
<1>7. \A u \in open' : order'[u].filled < order'[u].quantity
  BY <1>3, <1>4 DEF BookOK
<1> QED
  BY <1>3, <1>4, <1>5, <1>6, <1>7 DEF BookOK

-----------------------------------------------------------------------------
(* One order's simulateFill. *)

(* An order of the maps is not final and fills a positive quantity, of no  *)
(* more than it has left.                                                  *)
LEMMA ListedOrder ==
  ASSUME Inv, NEW o \in todo
  PROVE  o \in open /\ o \in DOMAIN order /\ order[o] \in Record
<1>1. o \in open
  BY DEF Inv, LoopOK
<1>2. o \in DOMAIN order
  BY <1>1 DEF Inv, BookOK
<1> QED
  BY <1>1, <1>2 DEF Inv, BookOK

LEMMA FillQuantityFits ==
  ASSUME Inv, at = "fill", NEW o \in todo
  PROVE  /\ order[o].status \notin Final
         /\ FillQuantity(o) \in Int
         /\ FillQuantity(o) <= Unfilled(o)
         /\ \/ order[o].tif \in Auction
            \/ bar[order[o].equity].volume # 0
            => FillQuantity(o) > 0
<1>1. o \in open /\ o \in DOMAIN order
  BY ListedOrder
<1>2. order[o] \in Record
  BY ListedOrder
<1>3. order[o].filled < order[o].quantity /\ order[o].status \notin Final
  BY <1>1 DEF Inv, BookOK
<1>4. bar[order[o].equity].volume \in Nat
  BY CubbyAssumption DEF Inv, LoopOK
<1> QED
  BY <1>2, <1>3, <1>4 DEF FillQuantity, Unfilled, Least, Record

LEMMA NothingIsBroken ==
  ASSUME Inv, at = "fill", NEW o \in todo
  PROVE  Outcome(o) # "broken"
<1>1. order[o].status \notin Final
  BY FillQuantityFits
<1>2. order[o].tif \in Auction \/ bar[order[o].equity].volume # 0
        => ~(FillQuantity(o) <= 0)
  BY FillQuantityFits
<1> QED
  BY <1>1, <1>2 DEF Outcome

LEMMA FillKeepsBook ==
  ASSUME Inv, at = "fill", NEW o \in todo, FillQuantity(o) > 0, Fill(o)
  PROVE  /\ BookOK' /\ open \ {o} \subseteq open'
         /\ DOMAIN order' = DOMAIN order
         /\ \A u \in DOMAIN order : u # o => order'[u] = order[u]
         /\ position' \in [Equities -> Int]
<1> DEFINE n == FillQuantity(o)
           full == n = Unfilled(o)
           r == [order[o] EXCEPT !.filled = @ + n,
                   !.status = IF full THEN "filled" ELSE "partially_filled"]
<1>1. o \in open /\ o \in DOMAIN order /\ order[o] \in Record
  BY ListedOrder
<1>2. n \in Nat /\ n > 0 /\ n <= order[o].quantity - order[o].filled
  BY FillQuantityFits, <1>1 DEF Unfilled, Record
<1>3. /\ r \in Record /\ r.filled = order[o].filled + n
      /\ r.quantity = order[o].quantity /\ r.equity = order[o].equity
      /\ r.status = IF full THEN "filled" ELSE "partially_filled"
  <2>1. order[o].filled + n \in Nat
    BY <1>1, <1>2 DEF Record
  <2>2. (IF full THEN "filled" ELSE "partially_filled") \in Statuses
    BY DEF Statuses, Final
  <2> HIDE DEF n, full
  <2> QED
    BY <1>1, <2>1, <2>2 DEF Record
<1>4. position' \in [Equities -> Int]
  <2>1. order[o].equity \in Equities
    BY <1>1 DEF Record
  <2>2. Signed(o, n) \in Int
    BY <1>2 DEF Signed
  <2> HIDE DEF n
  <2>3. position' = [position EXCEPT ![order[o].equity] = @ + Signed(o, n)]
    BY DEF Fill, n
  <2>4. position \in [Equities -> Int]
    BY DEF Inv, LoopOK
  <2>5. position[order[o].equity] + Signed(o, n) \in Int
    BY <2>1, <2>2, <2>4
  <2> QED
    BY <2>1, <2>3, <2>4, <2>5
<1>5. r.filled <= r.quantity
  BY <1>1, <1>2, <1>3 DEF Record
<1>6. CASE Divides(o)
  <2>1. UNCHANGED book
    BY <1>6 DEF Fill
  <2> QED
    BY <2>1, <1>4 DEF book, Inv, BookOK
<1>7. CASE ~Divides(o) /\ full
  <2>1. Close(o, r)
    BY <1>7 DEF Fill
  <2>2. r.status \in Final
    BY <1>3, <1>7 DEF Final
  <2> HIDE DEF r
  <2> QED
    BY <1>1, <1>3, <1>4, <1>5, <2>1, <2>2, CloseKeepsBook DEF Inv
<1>8. CASE ~Divides(o) /\ ~full
  <2>1. order' = [order EXCEPT ![o] = r] /\ open' = open
    BY <1>8 DEF Fill
  <2>2. r.status \notin Final
    BY <1>3, <1>8 DEF Final
  <2>3. r.filled < r.quantity
    BY <1>1, <1>2, <1>3, <1>8 DEF Unfilled, Record
  <2> HIDE DEF r
  <2>4. /\ order' \in Seq(Record)
        /\ DOMAIN order' = DOMAIN order
        /\ order'[o] = r
        /\ \A u \in DOMAIN order : u # o => order'[u] = order[u]
    BY <1>1, <1>3, <2>1, Replaced DEF Inv, BookOK
  <2>5. \A u \in DOMAIN order' : order'[u].filled <= order'[u].quantity
    BY <1>5, <2>4 DEF Inv, BookOK
  <2>6. open' = {u \in DOMAIN order' : order'[u].status \notin Final}
    BY <1>1, <2>1, <2>2, <2>4 DEF Inv, BookOK
  <2>7. \A u \in open' : order'[u].filled < order'[u].quantity
    BY <2>1, <2>3, <2>4 DEF Inv, BookOK
  <2> QED
    BY <1>4, <2>1, <2>4, <2>5, <2>6, <2>7 DEF BookOK
<1> QED
  BY <1>6, <1>7, <1>8

-----------------------------------------------------------------------------
(* Every step keeps the invariant. *)

LEMMA NextBarKeepsInv ==
  ASSUME Inv, NextBar
  PROVE  Inv'
<1>0. PICK t \in now + 1 .. Horizon - 1, E \in SUBSET Equities :
       \E b \in [E -> Bars] :
         /\ now' = t /\ bar' = b
         /\ price' = [e \in Equities |->
                        IF e \in E THEN b[e].close ELSE price[e]]
         /\ todo' = {o \in open : order[o].equity \in E}
  BY DEF NextBar
<1>1. PICK b \in [E -> Bars] :
         /\ now' = t /\ bar' = b
         /\ price' = [e \in Equities |->
                        IF e \in E THEN b[e].close ELSE price[e]]
         /\ todo' = {o \in open : order[o].equity \in E}
  BY <1>0
<1>2. BookOK'
  BY DEF NextBar, book, Inv, BookOK
<1>3. price' \in [Equities -> Nat]
  <2>1. \A e \in E : b[e].close \in Nat
    BY <1>1, CubbyAssumption
  <2> QED
    BY <1>1, <2>1 DEF Inv, LoopOK
<1>4. /\ at' = "fill" /\ position' = position /\ stopped' = stopped
      /\ open' = open /\ order' = order
  BY DEF NextBar, book
<1>5. now' \in -1 .. Horizon - 1 /\ now' >= 0
  <2>1. now \in -1 .. Horizon - 1 /\ Horizon \in Nat
    BY CubbyAssumption DEF Inv, LoopOK
  <2> QED
    BY <1>0, <2>1
<1>6. \A o \in todo' : /\ order[o].equity \in DOMAIN bar'
                       /\ bar'[order[o].equity] \in Bars
  BY <1>1
<1> QED
  BY <1>1, <1>2, <1>3, <1>4, <1>5, <1>6 DEF Inv, LoopOK

LEMMA SimulateFillKeepsInv ==
  ASSUME Inv, NEW o \in todo, SimulateFill(o)
  PROVE  Inv'
<1>1. o \in open /\ o \in DOMAIN order /\ order[o] \in Record
  BY ListedOrder
<1>2. /\ at = "fill" /\ at' = "fill" /\ todo' = todo \ {o}
      /\ bar' = bar /\ price' = price /\ now' = now
  BY DEF SimulateFill
<1>3. /\ BookOK' /\ open \ {o} \subseteq open'
      /\ \A u \in DOMAIN order : u # o => order'[u] = order[u]
      /\ position' \in [Equities -> Int]
      /\ stopped' # "broken logic"
  <2>1. CASE Outcome(o) \in {"wait", "broken"} /\ UNCHANGED <<position, cash, book>>
              /\ stopped' = IF Outcome(o) = "broken" THEN "broken logic" ELSE stopped
    <3>1. Outcome(o) # "broken"
      BY <1>2, NothingIsBroken
    <3> QED
      BY <2>1, <3>1 DEF book, Inv, BookOK, LoopOK
  <2>2. CASE /\ Outcome(o) \in Final
             /\ Close(o, [order[o] EXCEPT !.status = Outcome(o)])
             /\ UNCHANGED <<position, cash, stopped>>
    <3> DEFINE r == [order[o] EXCEPT !.status = Outcome(o)]
    <3>1. /\ r \in Record /\ r.status \in Final
          /\ r.filled <= r.quantity /\ r.equity = order[o].equity
      BY <1>1, <2>2 DEF Record, Statuses, Inv, BookOK
    <3>2. Close(o, r)
      BY <2>2
    <3> HIDE DEF r
    <3> QED
      BY <1>1, <2>2, <3>1, <3>2, CloseKeepsBook DEF Inv, LoopOK
  <2>3. CASE Outcome(o) = "fill" /\ Fill(o)
    <3>1. FillQuantity(o) > 0
      BY <1>2, <2>3, FillQuantityFits DEF Outcome, Final
    <3>2. stopped' # "broken logic"
      BY <2>3 DEF Fill, Inv, LoopOK
    <3> QED
      BY <1>2, <2>3, <3>1, <3>2, FillKeepsBook
  <2> QED
    BY <2>1, <2>2, <2>3 DEF SimulateFill
<1>4. \A u \in todo' : u \in DOMAIN order /\ u # o /\ u \in todo
  BY <1>2, ListedOrder
<1>5. todo' \subseteq open'
  BY <1>2, <1>3 DEF Inv, LoopOK
<1>6. \A u \in todo' : /\ order'[u].equity \in DOMAIN bar'
                       /\ bar'[order'[u].equity] \in Bars
  BY <1>2, <1>3, <1>4 DEF Inv, LoopOK
<1> QED
  BY <1>2, <1>3, <1>5, <1>6 DEF Inv, LoopOK

LEMMA MarginNeededType ==
  ASSUME Inv, NEW e \in Equities, NEW q \in Int, NEW mark \in Nat
  PROVE  MarginNeeded(e, q, mark) \in Nat
<1>1. \A k \in Int : Abs(k) \in Nat
  BY DEF Abs
<1>2. Rate \in Nat
  BY CubbyAssumption
<1>3. \A m \in Nat, k \in Nat, l \in Nat : m * k * l \in Nat
  OBVIOUS
<1>4. \A k \in Int : /\ MaintenanceMargin(k, mark) \in Nat
                     /\ InitialMargin(k, mark) \in Nat
  <2> SUFFICES ASSUME NEW k \in Int
               PROVE  /\ MaintenanceMargin(k, mark) \in Nat
                      /\ InitialMargin(k, mark) \in Nat
    OBVIOUS
  <2>1. Rate * Abs(k) * mark \in Nat
    BY <1>1, <1>2, <1>3
  <2>2. 5 * Abs(k) * mark \in Nat
    BY <1>1, <1>3
  <2> QED
    BY <2>1, <2>2 DEF MaintenanceMargin, InitialMargin, Most
<1>5. position[e] \in Int /\ position[e] + q \in Int
  <2>1. position[e] \in Int
    BY DEF Inv, LoopOK
  <2> QED
    BY <2>1
<1>6. InitialMargin(position[e] + q, mark)
        - MaintenanceMargin(position[e], mark) \in Int
  BY <1>4, <1>5
<1> QED
  BY <1>6 DEF MarginNeeded, Most

LEMMA OrderKeepsInv ==
  ASSUME Inv, NEW e \in Equities, NEW q \in Quantities, NEW limit \in Limits,
         Order(e, q, limit)
  PROVE  Inv'
<1> DEFINE mark == Least(limit, price[e])
           r == [equity |-> e, side |-> IF q > 0 THEN "buy" ELSE "sell",
                 quantity |-> Abs(q), filled |-> 0, limit |-> limit,
                 held |-> MarginNeeded(e, q, mark), tif |-> TimeInForce,
                 orderedAt |-> now, status |-> "new"]
<1>1. q \in Int \ {0} /\ limit \in Nat /\ mark \in Nat
  <2>1. q \in Int \ {0} /\ limit \in Nat
    <3>1. Quantities \subseteq Int \ {0} /\ Limits \subseteq Nat \ {0}
      BY CubbyAssumption
    <3> QED
      BY <3>1
  <2>2. price[e] \in Nat
    BY DEF Inv, LoopOK
  <2> QED
    BY <2>1, <2>2 DEF Least
<1>2. r \in Record
  <2>1. Abs(q) \in Nat \ {0}
    BY <1>1 DEF Abs
  <2>2. MarginNeeded(e, q, mark) \in Nat
    BY <1>1, MarginNeededType
  <2>3. TimeInForce \in Auction \cup {"day"}
    BY DEF Order, TimeInForce, Auction
  <2>4. now \in Nat
    <3>1. at = "strategy"
      BY DEF Order
    <3>2. now \in -1 .. Horizon - 1 /\ now >= 0
      BY <3>1 DEF Inv, LoopOK
    <3>3. Horizon \in Nat
      BY CubbyAssumption
    <3> QED
      BY <3>2, <3>3
  <2> HIDE DEF mark
  <2> QED
    BY <2>1, <2>2, <2>3, <2>4 DEF Record, Statuses
<1>3. /\ at = "strategy" /\ order' = Append(order, r)
      /\ open' = open \cup {Len(order) + 1}
      /\ UNCHANGED <<now, at, bar, todo, price, position, stopped>>
  BY DEF Order, clock
<1>4. /\ r.status \notin Final /\ r.filled = 0
      /\ r.quantity \in Nat \ {0}
  BY <1>2 DEF Final, Record
<1> HIDE DEF r
<1>5. /\ order' \in Seq(Record)
      /\ DOMAIN order' = DOMAIN order \cup {Len(order) + 1}
      /\ order'[Len(order) + 1] = r
      /\ \A u \in DOMAIN order : order'[u] = order[u]
      /\ Len(order) + 1 \notin DOMAIN order
  BY <1>2, <1>3, Appended DEF Inv, BookOK
<1>6. \A u \in DOMAIN order' : order'[u].filled <= order'[u].quantity
  BY <1>4, <1>5 DEF Inv, BookOK
<1>7. open' = {u \in DOMAIN order' : order'[u].status \notin Final}
  BY <1>3, <1>4, <1>5 DEF Inv, BookOK
<1>8. \A u \in open' : order'[u].filled < order'[u].quantity
  <2>1. open \subseteq DOMAIN order
    BY DEF Inv, BookOK
  <2> QED
    BY <1>3, <1>4, <1>5, <2>1 DEF Inv, BookOK
<1>9. BookOK'
  BY <1>5, <1>6, <1>7, <1>8 DEF BookOK
<1>10. todo' = {} /\ at' # "fill"
  BY <1>3 DEF Inv, LoopOK
<1> QED
  BY <1>3, <1>9, <1>10 DEF Inv, LoopOK

LEMMA CancelKeepsInv ==
  ASSUME Inv, NEW o \in DOMAIN order, Cancel(o)
  PROVE  Inv'
<1> DEFINE r == [order[o] EXCEPT !.status = "canceled"]
<1>1. o \in open
  BY DEF Cancel, Inv, BookOK
<1>2. order[o] \in Record
  BY DEF Inv, BookOK
<1>3. /\ r \in Record /\ r.status \in Final
      /\ r.filled <= r.quantity /\ r.equity = order[o].equity
  BY <1>2 DEF Record, Statuses, Final, Inv, BookOK
<1>4. /\ Close(o, r) /\ at = "strategy"
      /\ UNCHANGED <<now, at, bar, todo, price, position, stopped>>
  BY DEF Cancel, clock
<1> HIDE DEF r
<1>5. BookOK'
  BY <1>1, <1>3, <1>4, CloseKeepsBook DEF Inv
<1>6. todo' = {} /\ at' # "fill"
  BY <1>4 DEF Inv, LoopOK
<1> QED
  BY <1>4, <1>5, <1>6 DEF Inv, LoopOK

LEMMA CheckMarketCloseKeepsInv ==
  ASSUME Inv, CheckMarketClose
  PROVE  Inv'
<1>1. /\ at = "fill" /\ at' = "strategy" /\ todo = {}
      /\ UNCHANGED <<now, todo, price, position, order, open>>
  BY DEF CheckMarketClose, book
<1>2. stopped' # "broken logic"
  BY DEF CheckMarketClose, Inv, LoopOK
<1>3. BookOK'
  BY <1>1 DEF Inv, BookOK
<1> QED
  BY <1>1, <1>2, <1>3 DEF Inv, LoopOK

LEMMA EndOfBarKeepsInv ==
  ASSUME Inv, EndOfBar
  PROVE  Inv'
<1>1. /\ at = "strategy" /\ at' = "next"
      /\ UNCHANGED <<now, todo, price, position, order, open>>
  BY DEF EndOfBar, book
<1>2. stopped' # "broken logic"
  BY DEF EndOfBar, Inv, LoopOK
<1>3. BookOK'
  BY <1>1 DEF Inv, BookOK
<1> QED
  BY <1>1, <1>2, <1>3 DEF Inv, LoopOK

LEMMA StutterKeepsInv ==
  ASSUME Inv, UNCHANGED vars
  PROVE  Inv'
  BY DEF vars, clock, account, book, history, Inv, BookOK, LoopOK

LEMMA NextKeepsInv == Inv /\ [Next]_vars => Inv'
<1> SUFFICES ASSUME Inv, [Next]_vars PROVE Inv'
  OBVIOUS
<1>1. CASE NextBar
  BY <1>1, NextBarKeepsInv
<1>2. CASE \E o \in todo : SimulateFill(o)
  BY <1>2, SimulateFillKeepsInv
<1>3. CASE CheckMarketClose
  BY <1>3, CheckMarketCloseKeepsInv
<1>4. CASE \E e \in Equities, q \in Quantities, limit \in Limits :
             Order(e, q, limit)
  BY <1>4, OrderKeepsInv
<1>5. CASE \E o \in DOMAIN order : Cancel(o)
  BY <1>5, CancelKeepsInv
<1>6. CASE EndOfBar
  BY <1>6, EndOfBarKeepsInv
<1>7. CASE UNCHANGED vars
  BY <1>7, StutterKeepsInv
<1> QED
  BY <1>1, <1>2, <1>3, <1>4, <1>5, <1>6, <1>7 DEF Next

LEMMA InvHolds == Spec => []Inv
  BY InvInit, NextKeepsInv, PTL DEF Spec

-----------------------------------------------------------------------------
(* Orders.OpenIsWorking: the maps hold exactly the orders that are not     *)
(* final, each has something left to fill, and the two panics of           *)
(* simulateFill (order.go:51-57, 127-131) are never reached.               *)
THEOREM OpenOrdersWork == Spec => []OpenIsWorking
<1>1. Inv => OpenIsWorking
  <2> SUFFICES ASSUME Inv PROVE OpenIsWorking
    OBVIOUS
  <2>1. \A o \in open : Unfilled(o) > 0
    <3> SUFFICES ASSUME NEW o \in open PROVE Unfilled(o) > 0
      OBVIOUS
    <3>1. o \in DOMAIN order
      BY DEF Inv, BookOK
    <3>2. order[o] \in Record /\ order[o].filled < order[o].quantity
      BY <3>1 DEF Inv, BookOK
    <3> QED
      BY <3>2 DEF Unfilled, Record
  <2> QED
    BY <2>1 DEF OpenIsWorking, Inv, BookOK, LoopOK
<1> QED
  BY <1>1, InvHolds, PTL

(* An order that has ended is never changed: no fill, no second cancel, no *)
(* expiration reaches it (Order.Cancel, simulateFill, setStatus).          *)
THEOREM FinishedOrdersStay == Spec => FinalStays
<1>1. Inv /\ [Next]_vars
        => \A o \in DOMAIN order \ open : order'[o] = order[o]
  <2> SUFFICES ASSUME Inv, [Next]_vars, NEW o \in DOMAIN order \ open
               PROVE  order'[o] = order[o]
    OBVIOUS
  <2>1. CASE UNCHANGED order
    BY <2>1
  <2>2. CASE \E u \in todo : SimulateFill(u)
    <3>1. PICK u \in todo : SimulateFill(u)
      BY <2>2
    <3>2. u \in open /\ u \in DOMAIN order
      BY ListedOrder
    <3>3. \/ UNCHANGED order
          \/ \E r : order' = [order EXCEPT ![u] = r]
      BY <3>1 DEF SimulateFill, Fill, Close, book
    <3> QED
      BY <3>2, <3>3
  <2>3. CASE \E e \in Equities, q \in Quantities, limit \in Limits :
               Order(e, q, limit)
    <3>1. PICK r : order' = Append(order, r)
      BY <2>3 DEF Order
    <3>2. order \in Seq(Record)
      BY DEF Inv, BookOK
    <3> QED
      BY <3>1, <3>2
  <2>4. CASE \E u \in DOMAIN order : Cancel(u)
    <3>1. PICK u \in DOMAIN order : Cancel(u)
      BY <2>4
    <3>2. u \in open
      BY <3>1 DEF Cancel, Inv, BookOK
    <3>3. PICK r : order' = [order EXCEPT ![u] = r]
      BY <3>1 DEF Cancel, Close
    <3> QED
      BY <3>2, <3>3
  <2>5. CASE NextBar \/ CheckMarketClose \/ EndOfBar \/ UNCHANGED vars
    BY <2>1, <2>5 DEF NextBar, CheckMarketClose, EndOfBar, vars, book
  <2> QED
    BY <2>2, <2>3, <2>4, <2>5 DEF Next
<1>2. [Inv /\ [Next]_vars]_vars
        => [\A o \in DOMAIN order \ open : order'[o] = order[o]]_vars
  BY <1>1
<1> QED
  BY <1>1, InvHolds, PTL DEF Spec, FinalStays

-----------------------------------------------------------------------------
(* What a step does to the order it simulates, in the form the sums need.  *)

SameTerms(o, r) ==
  /\ r \in Record
  /\ r.equity = order[o].equity /\ r.side = order[o].side
  /\ r.quantity = order[o].quantity /\ r.limit = order[o].limit
  /\ r.held = order[o].held

Ends(o, r) ==
  /\ SameTerms(o, r) /\ r.filled = order[o].filled
  /\ Close(o, r)
  /\ UNCHANGED <<position, cash, stopped>>

Fills(o, n, r) ==
  /\ SameTerms(o, r) /\ r.filled = order[o].filled + n
  /\ n \in Nat \ {0} /\ n <= order[o].quantity - order[o].filled
  /\ Crosses(o)
  /\ cash' = cash - 10 * Signed(o, n) * FillPrice(o)
  /\ position' = [position EXCEPT ![order[o].equity] = @ + Signed(o, n)]
  /\ \/ stopped' = "division" /\ Divides(o) /\ n = FillQuantity(o)
        /\ UNCHANGED book
     \/ /\ stopped' = stopped
        /\ order' = [order EXCEPT ![o] = r]
        /\ \/ /\ n = order[o].quantity - order[o].filled
              /\ open' = open \ {o} /\ hold' = hold - r.held
           \/ UNCHANGED <<open, hold>>

LEMMA FillCases ==
  ASSUME Inv, NEW o \in todo, SimulateFill(o)
  PROVE  \/ UNCHANGED <<position, cash, book, stopped>>
         \/ \E r : Ends(o, r)
         \/ \E n, r : Fills(o, n, r)
<1>1. at = "fill" /\ Outcome(o) # "broken"
  BY NothingIsBroken DEF SimulateFill
<1>2. o \in open /\ o \in DOMAIN order /\ order[o] \in Record
  BY ListedOrder
<1>3. CASE Outcome(o) \in {"wait", "broken"} /\ UNCHANGED <<position, cash, book>>
            /\ stopped' = IF Outcome(o) = "broken" THEN "broken logic" ELSE stopped
  BY <1>1, <1>3
<1>4. CASE /\ Outcome(o) \in Final
           /\ Close(o, [order[o] EXCEPT !.status = Outcome(o)])
           /\ UNCHANGED <<position, cash, stopped>>
  <2> DEFINE r == [order[o] EXCEPT !.status = Outcome(o)]
  <2>1. SameTerms(o, r) /\ r.filled = order[o].filled
    BY <1>2, <1>4 DEF SameTerms, Record, Statuses
  <2>2. Close(o, r) /\ UNCHANGED <<position, cash, stopped>>
    BY <1>4
  <2> HIDE DEF r
  <2> QED
    BY <2>1, <2>2 DEF Ends
<1>5. CASE Outcome(o) = "fill" /\ Fill(o)
  <2> DEFINE n == FillQuantity(o)
             full == n = Unfilled(o)
             r == [order[o] EXCEPT !.filled = @ + n,
                     !.status = IF full THEN "filled" ELSE "partially_filled"]
  <2>1. n \in Nat \ {0} /\ n <= order[o].quantity - order[o].filled
    <3>1. n > 0 /\ n \in Int /\ n <= Unfilled(o)
      BY <1>1, <1>5, FillQuantityFits DEF Outcome, Final
    <3> QED
      BY <3>1 DEF Unfilled
  <2>2. SameTerms(o, r) /\ r.filled = order[o].filled + n
    <3>1. order[o].filled + n \in Nat
      BY <1>2, <2>1 DEF Record
    <3>2. (IF full THEN "filled" ELSE "partially_filled") \in Statuses
      BY DEF Statuses, Final
    <3> HIDE DEF n, full
    <3> QED
      BY <1>2, <3>1, <3>2 DEF SameTerms, Record
  <2>3. Crosses(o)
    BY <1>5 DEF Outcome, Final
  <2>4. /\ cash' = cash - 10 * Signed(o, n) * FillPrice(o)
        /\ position' = [position EXCEPT ![order[o].equity] = @ + Signed(o, n)]
    BY <1>5 DEF Fill
  <2>5. \/ stopped' = "division" /\ Divides(o) /\ UNCHANGED book
        \/ /\ stopped' = stopped
           /\ order' = [order EXCEPT ![o] = r]
           /\ \/ /\ n = order[o].quantity - order[o].filled
                 /\ open' = open \ {o} /\ hold' = hold - r.held
              \/ UNCHANGED <<open, hold>>
    <3>1. CASE Divides(o)
      BY <1>5, <3>1 DEF Fill
    <3>2. CASE ~Divides(o)
      <4>1. stopped' = stopped
        BY <1>5, <3>2 DEF Fill
      <4>2. IF full THEN Close(o, r)
            ELSE order' = [order EXCEPT ![o] = r] /\ UNCHANGED <<open, hold>>
        BY <1>5, <3>2 DEF Fill
      <4> HIDE DEF r
      <4> QED
        BY <4>1, <4>2 DEF Close, Unfilled
    <3> QED
      BY <3>1, <3>2
  <2>6. n = FillQuantity(o)
    OBVIOUS
  <2> HIDE DEF n, r
  <2>7. Fills(o, n, r)
    BY <2>1, <2>2, <2>3, <2>4, <2>5, <2>6 DEF Fills
  <2> QED
    BY <2>7
<1> QED
  BY <1>3, <1>4, <1>5 DEF SimulateFill

(* A canceled order ends as well. *)
LEMMA CancelEnds ==
  ASSUME Inv, NEW o \in DOMAIN order, Cancel(o)
  PROVE  o \in open /\ \E r : Ends(o, r)
<1> DEFINE r == [order[o] EXCEPT !.status = "canceled"]
<1>1. o \in open
  BY DEF Cancel, Inv, BookOK
<1>2. order[o] \in Record
  BY DEF Inv, BookOK
<1>3. SameTerms(o, r) /\ r.filled = order[o].filled
  BY <1>2 DEF SameTerms, Record, Statuses, Final
<1>4. Close(o, r) /\ UNCHANGED <<position, cash, stopped>>
  BY DEF Cancel, account
<1> HIDE DEF r
<1> QED
  BY <1>1, <1>3, <1>4 DEF Ends

(* What Order appends. *)
Places(e, q, limit, r) ==
  /\ r \in Record
  /\ r.equity = e /\ r.side = (IF q > 0 THEN "buy" ELSE "sell")
  /\ r.quantity = Abs(q) /\ r.filled = 0 /\ r.limit = limit
  /\ r.held = MarginNeeded(e, q, Least(limit, price[e]))
  /\ order' = Append(order, r)
  /\ open' = open \cup {Len(order) + 1}
  /\ hold' = hold + r.held

LEMMA OrderPlaces ==
  ASSUME Inv, NEW e \in Equities, NEW q \in Quantities, NEW limit \in Limits,
         Order(e, q, limit)
  PROVE  \E r : Places(e, q, limit, r)
<1> DEFINE mark == Least(limit, price[e])
           r == [equity |-> e, side |-> IF q > 0 THEN "buy" ELSE "sell",
                 quantity |-> Abs(q), filled |-> 0, limit |-> limit,
                 held |-> MarginNeeded(e, q, mark), tif |-> TimeInForce,
                 orderedAt |-> now, status |-> "new"]
<1>1. Inv'
  BY OrderKeepsInv
<1>2. /\ order' = Append(order, r) /\ open' = open \cup {Len(order) + 1}
      /\ hold' = hold + r.held
  BY DEF Order
<1>3. order \in Seq(Record) /\ order' \in Seq(Record)
  BY <1>1 DEF Inv, BookOK
<1>4. /\ r.equity = e /\ r.side = (IF q > 0 THEN "buy" ELSE "sell")
      /\ r.quantity = Abs(q) /\ r.filled = 0 /\ r.limit = limit
      /\ r.held = MarginNeeded(e, q, mark)
  OBVIOUS
<1> HIDE DEF r
<1>5. r \in Record
  <2>1. Len(order') = Len(order) + 1 /\ order'[Len(order) + 1] = r
    BY <1>2, <1>3
  <2> QED
    BY <1>3, <2>1
<1> QED
  BY <1>2, <1>4, <1>5 DEF Places

LEMMA BookIsFinite ==
  ASSUME BookOK
  PROVE  /\ IsFiniteSet(DOMAIN order) /\ open \subseteq DOMAIN order
         /\ \A O \in SUBSET DOMAIN order : IsFiniteSet(O)
<1>1. DOMAIN order = 1 .. Len(order) /\ Len(order) \in Nat
  BY DEF BookOK
<1>2. IsFiniteSet(DOMAIN order)
  BY <1>1, FS_Interval
<1>3. open \subseteq DOMAIN order
  BY DEF BookOK
<1> QED
  BY <1>2, <1>3, FS_Subset

LEMMA OpenOrders ==
  ASSUME Inv
  PROVE  /\ IsFiniteSet(open) /\ open \subseteq DOMAIN order
         /\ \A u \in DOMAIN order : order[u] \in Record
         /\ \A u \in open : order[u].held \in Nat
<1>1. IsFiniteSet(open) /\ open \subseteq DOMAIN order
  BY BookIsFinite DEF Inv
<1>2. \A u \in DOMAIN order : order[u] \in Record
  BY DEF Inv, BookOK
<1>3. \A u \in DOMAIN order : order[u].held \in Nat
  BY <1>2 DEF Record
<1> QED
  BY <1>1, <1>2, <1>3

-----------------------------------------------------------------------------
(* The hold: what the open orders hold, added up.                          *)

Holds == [o \in open |-> order[o].held]
HoldInv == hold = SumFunction(Holds)

LEMMA HoldsType ==
  ASSUME Inv
  PROVE  Holds \in [open -> Nat] /\ SumFunction(Holds) \in Nat
<1>1. IsFiniteSet(open) /\ \A o \in open : order[o].held \in Nat
  BY OpenOrders
<1>2. Holds \in [open -> Nat]
  BY <1>1 DEF Holds
<1> QED
  BY <1>1, <1>2, TotalNat

LEMMA HoldWithout ==
  ASSUME Inv, HoldInv, NEW o \in open, NEW r,
         r.held = order[o].held, order' = [order EXCEPT ![o] = r],
         open' = open \ {o}, hold' = hold - r.held
  PROVE  HoldInv'
<1>1. IsFiniteSet(open) /\ \A u \in open : order[u].held \in Int
  BY OpenOrders
<1>2. \A u \in open \ {o} : order'[u].held = order[u].held
  BY OpenOrders
<1>3. Rest(open, Holds, o, Holds')
  BY <1>1, <1>2 DEF Rest, Holds
<1>4. Holds[o] = r.held
  BY DEF Holds
<1>5. /\ SumFunction(Holds) = Holds[o] + SumFunction(Holds')
      /\ SumFunction(Holds') \in Int /\ Holds[o] \in Int
  BY <1>3, TotalOfRest
<1> QED
  BY <1>4, <1>5 DEF HoldInv

LEMMA HoldSame ==
  ASSUME HoldInv, open' = open, hold' = hold,
         \A u \in open : order'[u].held = order[u].held
  PROVE  HoldInv'
<1>1. Holds' = Holds
  BY DEF Holds
<1> QED
  BY <1>1 DEF HoldInv

LEMMA HoldWith ==
  ASSUME Inv, HoldInv, NEW r \in Record, order' = Append(order, r),
         open' = open \cup {Len(order) + 1}, hold' = hold + r.held
  PROVE  HoldInv'
<1> DEFINE z == Len(order) + 1
<1>1. /\ order'[z] = r /\ z \notin DOMAIN order
      /\ \A u \in DOMAIN order : order'[u] = order[u]
  BY Appended DEF Inv, BookOK
<1>2. IsFiniteSet(open) /\ open \subseteq DOMAIN order
      /\ \A u \in open : order[u].held \in Int
  BY OpenOrders
<1> HIDE DEF z
<1>3. open' \ {z} = open /\ z \in open' /\ r.held \in Int
  BY <1>1, <1>2 DEF Record, z
<1>4. IsFiniteSet(open')
  BY <1>2, FS_AddElement
<1>5. \A u \in open : order[u].held = order'[u].held
  BY <1>1, <1>2
<1>6. \A u \in open' : order'[u].held \in Int
  BY <1>1, <1>2, <1>3, <1>5
<1>7. Rest(open', Holds', z, Holds)
  BY <1>2, <1>3, <1>4, <1>5, <1>6 DEF Rest, Holds
<1>8. Holds'[z] = r.held
  BY <1>1, <1>3 DEF Holds
<1>9. /\ SumFunction(Holds') = Holds'[z] + SumFunction(Holds)
      /\ SumFunction(Holds) \in Int
  BY <1>7, TotalOfRest
<1> QED
  BY <1>3, <1>8, <1>9 DEF HoldInv

LEMMA HoldInit == Init => HoldInv
<1> SUFFICES ASSUME Init PROVE HoldInv
  OBVIOUS
<1>1. IsFiniteSet(open) /\ open = {} /\ hold = 0
  BY FS_EmptySet DEF Init
<1>2. SumFunction(Holds) = 0
  BY <1>1, TotalZero DEF Holds
<1> QED
  BY <1>1, <1>2 DEF HoldInv

LEMMA EndsKeepsHold ==
  ASSUME Inv, HoldInv, NEW o \in open, NEW r, Ends(o, r)
  PROVE  HoldInv'
<1>1. /\ r.held = order[o].held /\ order' = [order EXCEPT ![o] = r]
      /\ open' = open \ {o} /\ hold' = hold - r.held
  BY DEF Ends, SameTerms, Close
<1> QED
  BY <1>1, HoldWithout

LEMMA NextKeepsHold == Inv /\ HoldInv /\ [Next]_vars => HoldInv'
<1> SUFFICES ASSUME Inv, HoldInv, [Next]_vars PROVE HoldInv'
  OBVIOUS
<1>1. CASE UNCHANGED book
  BY <1>1, HoldSame DEF book
<1>2. CASE \E o \in todo : SimulateFill(o)
  <2>1. PICK o \in todo : SimulateFill(o)
    BY <1>2
  <2>2. o \in open /\ o \in DOMAIN order
    BY ListedOrder
  <2>3. CASE UNCHANGED <<position, cash, book, stopped>>
    BY <1>1, <2>3
  <2>4. CASE \E r : Ends(o, r)
    BY <2>2, <2>4, EndsKeepsHold
  <2>5. CASE \E n, r : Fills(o, n, r)
    <3>1. PICK n, r : Fills(o, n, r)
      BY <2>5
    <3>2. r.held = order[o].held
      BY <3>1 DEF Fills, SameTerms
    <3>3. CASE UNCHANGED book
      BY <1>1, <3>3
    <3>4. CASE /\ order' = [order EXCEPT ![o] = r]
               /\ open' = open \ {o} /\ hold' = hold - r.held
      BY <2>2, <3>2, <3>4, HoldWithout
    <3>5. CASE order' = [order EXCEPT ![o] = r] /\ UNCHANGED <<open, hold>>
      <4>1. \A u \in open : order'[u].held = order[u].held
        BY <2>2, <3>2, <3>5, BookIsFinite DEF Inv, BookOK
      <4> QED
        BY <3>5, <4>1, HoldSame
    <3> QED
      BY <3>1, <3>3, <3>4, <3>5 DEF Fills
  <2> QED
    BY <2>1, <2>3, <2>4, <2>5, FillCases
<1>3. CASE \E e \in Equities, q \in Quantities, limit \in Limits :
             Order(e, q, limit)
  <2>1. PICK e \in Equities, q \in Quantities, limit \in Limits :
          Order(e, q, limit)
    BY <1>3
  <2>2. PICK r : Places(e, q, limit, r)
    BY <2>1, OrderPlaces
  <2> QED
    BY <2>2, HoldWith DEF Places
<1>4. CASE \E o \in DOMAIN order : Cancel(o)
  BY <1>4, CancelEnds, EndsKeepsHold
<1> QED
  BY <1>1, <1>2, <1>3, <1>4
  DEF Next, NextBar, CheckMarketClose, EndOfBar, vars

-----------------------------------------------------------------------------
(* The account's figures.  The buying power never becomes negative because *)
(* a day whose equity does not cover its margin ends the run.              *)

Used  == [e \in Equities |-> MaintenanceMargin(position[e], price[e])]

LEMMA MaintenanceType ==
  ASSUME NEW q \in Int, NEW p \in Nat
  PROVE  MaintenanceMargin(q, p) \in Nat
<1>1. Abs(q) \in Nat /\ Rate \in Nat
  BY CubbyAssumption DEF Abs
<1>2. Rate * Abs(q) \in Nat
  BY <1>1
<1>3. Rate * Abs(q) * p \in Nat
  BY <1>2
<1> QED
  BY <1>3 DEF MaintenanceMargin

LEMMA UsedType ==
  ASSUME Inv
  PROVE  Used \in [Equities -> Nat] /\ MarginUsed \in Nat
<1>1. \A e \in Equities : position[e] \in Int /\ price[e] \in Nat
  BY DEF Inv, LoopOK
<1>2. Used \in [Equities -> Nat]
  BY <1>1, MaintenanceType DEF Used
<1>3. SumFunction(Used) \in Nat
  BY <1>2, CubbyAssumption, TotalNat
<1> QED
  BY <1>2, <1>3 DEF Used, MarginUsed

LEMMA PortfolioType ==
  ASSUME Inv, cash \in Int
  PROVE  PortfolioValue \in Int
<1> DEFINE worth == [e \in Equities |-> 10 * Abs(position[e]) * price[e]]
<1>1. \A e \in Equities : 10 * Abs(position[e]) * price[e] \in Int
  <2>1. \A e \in Equities : Abs(position[e]) \in Int /\ price[e] \in Int
    <3>1. \A e \in Equities : position[e] \in Int /\ price[e] \in Nat
      BY DEF Inv, LoopOK
    <3> QED
      BY <3>1 DEF Abs
  <2> QED
    BY <2>1
<1>2. worth \in [Equities -> Int]
  BY <1>1
<1> HIDE DEF worth
<1>3. SumFunction(worth) \in Int
  BY <1>2, CubbyAssumption, TotalInt
<1> QED
  BY <1>3 DEF worth, PortfolioValue

AccountOK ==
  /\ at \in {"next", "fill", "strategy"}
  /\ opened \in BOOLEAN /\ closed \in BOOLEAN
  /\ cash \in Int /\ dtbp \in Nat
  /\ lastEquity \in Int /\ lastMaint \in Nat
  /\ stopped \in {"no", "broken logic", "division", "margin call", "rekt"}
  /\ interest \in Nat /\ steady \in BOOLEAN /\ plain \in BOOLEAN
  /\ stopped = "no" => lastMaint <= lastEquity

BarOK == DOMAIN bar \subseteq Equities /\ \A e \in DOMAIN bar : bar[e] \in Bars

LEMMA AccountInit == Init => AccountOK /\ BarOK
<1> SUFFICES ASSUME Init PROVE AccountOK /\ BarOK
  OBVIOUS
<1>1. Cash0 \in Nat /\ Multiplier \in Nat
  BY CubbyAssumption
<1>2. AccountOK
  <2>1. dtbp \in Nat
    BY <1>1 DEF Init
  <2>2. lastMaint = 0 /\ lastEquity \in Nat /\ cash \in Nat
    BY <1>1 DEF Init
  <2>3. /\ at = "next" /\ opened \in BOOLEAN /\ closed \in BOOLEAN
        /\ stopped = "no" /\ interest = 0
        /\ steady \in BOOLEAN /\ plain \in BOOLEAN
    BY DEF Init
  <2>4. lastMaint <= lastEquity
    BY <2>2
  <2> QED
    BY <2>1, <2>2, <2>3, <2>4 DEF AccountOK
<1>3. DOMAIN bar = {}
  BY DEF Init
<1> QED
  BY <1>2, <1>3 DEF BarOK

LEMMA NextBarKeepsAccount ==
  ASSUME Inv, AccountOK, stopped = "no", NextBar
  PROVE  AccountOK' /\ BarOK'
<1>1. PICK t \in now + 1 .. Horizon - 1, E \in SUBSET Equities :
        \E b \in [E -> Bars] :
          /\ bar' = b
          /\ opened' = ((opened /\ ~(Day(t) # Day(now)))
                        \/ Opens(t, opened /\ ~(Day(t) # Day(now))))
          /\ closed' = (closed /\ ~(Day(t) # Day(now)))
          /\ dtbp' = IF Opens(t, opened /\ ~(Day(t) # Day(now)))
                     THEN Multiplier * (lastEquity - lastMaint) ELSE dtbp
          /\ steady' = (steady /\ \A e \in E :
                            /\ price[e] \in {0, b[e].close}
                            /\ b[e].open = b[e].close
                            /\ b[e].vwap = b[e].close)
  BY DEF NextBar
<1>2. Multiplier * (lastEquity - lastMaint) \in Nat
  <2>1. lastEquity - lastMaint \in Nat /\ Multiplier \in Nat
    BY CubbyAssumption DEF AccountOK
  <2> QED
    BY <2>1
<1>3. dtbp' \in Nat
  BY <1>1, <1>2 DEF AccountOK
<1>4. opened' \in BOOLEAN /\ closed' \in BOOLEAN /\ steady' \in BOOLEAN
  BY <1>1
<1>5. /\ at' = "fill"
      /\ UNCHANGED <<cash, lastEquity, lastMaint, stopped, interest, plain>>
  BY DEF NextBar
<1>6. AccountOK'
  BY <1>3, <1>4, <1>5 DEF AccountOK
<1>7. BarOK'
  BY <1>1 DEF BarOK
<1> QED
  BY <1>6, <1>7

LEMMA SimulateFillKeepsAccount ==
  ASSUME Inv, AccountOK, BarOK, stopped = "no", NEW o \in todo, SimulateFill(o)
  PROVE  AccountOK' /\ BarOK'
<1>1. UNCHANGED <<at, bar, opened, closed, dtbp, lastEquity, lastMaint,
                  interest, steady, plain>>
  BY DEF SimulateFill, history
<1>2. BarOK'
  BY <1>1 DEF BarOK
<1>3. cash' \in Int /\ stopped' \in {"no", "division"}
  <2>1. CASE UNCHANGED <<position, cash, book, stopped>>
    BY <2>1 DEF AccountOK
  <2>2. CASE \E r : Ends(o, r)
    BY <2>2 DEF Ends, AccountOK
  <2>3. CASE \E n, r : Fills(o, n, r)
    <3>1. PICK n, r : Fills(o, n, r)
      BY <2>3
    <3>2. n \in Nat /\ Signed(o, n) \in Int
      BY <3>1 DEF Fills, Signed
    <3>3. FillPrice(o) \in Int
      <4>1. at = "fill"
        BY DEF SimulateFill
      <4>2. bar[order[o].equity] \in Bars
        BY <4>1 DEF Inv, LoopOK
      <4> QED
        BY <4>2, CubbyAssumption DEF FillPrice
    <3>4. 10 * Signed(o, n) * FillPrice(o) \in Int
      BY <3>2, <3>3
    <3>5. cash' = cash - 10 * Signed(o, n) * FillPrice(o)
          /\ (stopped' = "division" \/ stopped' = stopped)
      BY <3>1 DEF Fills
    <3> QED
      BY <3>4, <3>5 DEF AccountOK
  <2> QED
    BY <2>1, <2>2, <2>3, FillCases
<1> QED
  BY <1>1, <1>2, <1>3 DEF AccountOK

LEMMA CheckMarketCloseKeepsAccount ==
  ASSUME Inv, AccountOK, stopped = "no", CheckMarketClose
  PROVE  AccountOK' /\ BarOK'
<1>1. at' = "strategy" /\ bar' = <<>>
      /\ UNCHANGED <<opened, dtbp, steady, plain>>
  BY DEF CheckMarketClose
<1>2. BarOK'
  BY <1>1 DEF BarOK
<1>3. CASE UNCHANGED <<closed, cash, lastEquity, lastMaint, stopped, interest>>
  BY <1>1, <1>2, <1>3 DEF AccountOK
<1>4. CASE \E i \in IF cash < 0 THEN DailyInterest ELSE {0} :
             /\ closed' = TRUE
             /\ cash' = cash - i /\ interest' = interest + i
             /\ lastEquity' = PortfolioValue - i
             /\ lastMaint' = MarginUsed
             /\ stopped' = IF MarginUsed > PortfolioValue - i
                           THEN "margin call" ELSE stopped
  <2>1. PICK i \in IF cash < 0 THEN DailyInterest ELSE {0} :
             /\ closed' = TRUE
             /\ cash' = cash - i /\ interest' = interest + i
             /\ lastEquity' = PortfolioValue - i
             /\ lastMaint' = MarginUsed
             /\ stopped' = IF MarginUsed > PortfolioValue - i
                           THEN "margin call" ELSE stopped
    BY <1>4
  <2>2. i \in Nat
    BY CubbyAssumption
  <2>3. PortfolioValue \in Int /\ MarginUsed \in Nat
    BY PortfolioType, UsedType DEF AccountOK
  <2>4. stopped' = "no" => lastMaint' <= lastEquity'
    <3> DEFINE m == MarginUsed
               v == PortfolioValue
    <3>1. m \in Nat /\ v \in Int /\ lastMaint' = m /\ lastEquity' = v - i
      BY <2>1, <2>3
    <3>2. m > v - i => stopped' = "margin call"
      BY <2>1
    <3> HIDE DEF m, v
    <3> QED
      BY <2>2, <3>1, <3>2
  <2>5. /\ cash' \in Int /\ interest' \in Nat
        /\ lastEquity' \in Int /\ lastMaint' \in Nat
    <3>1. cash \in Int /\ interest \in Nat
      BY DEF AccountOK
    <3>2. /\ cash' = cash - i /\ interest' = interest + i
          /\ lastEquity' = PortfolioValue - i /\ lastMaint' = MarginUsed
      BY <2>1
    <3> QED
      BY <3>1, <3>2, <2>2, <2>3
  <2>6. stopped' \in {"no", "margin call"}
    BY <2>1
  <2> QED
    BY <1>1, <1>2, <2>1, <2>4, <2>5, <2>6 DEF AccountOK
<1> QED
  BY <1>3, <1>4 DEF CheckMarketClose

LEMMA NextKeepsAccount ==
  Inv /\ AccountOK /\ BarOK /\ [Next]_vars => AccountOK' /\ BarOK'
<1> SUFFICES ASSUME Inv, AccountOK, BarOK, [Next]_vars
             PROVE  AccountOK' /\ BarOK'
  OBVIOUS
<1>1. CASE NextBar /\ stopped = "no"
  BY <1>1, NextBarKeepsAccount
<1>2. CASE stopped = "no" /\ \E o \in todo : SimulateFill(o)
  BY <1>2, SimulateFillKeepsAccount
<1>3. CASE CheckMarketClose /\ stopped = "no"
  BY <1>3, CheckMarketCloseKeepsAccount
<1>4. CASE \E e \in Equities, q \in Quantities, limit \in Limits :
             Order(e, q, limit)
  <2>1. PICK e \in Equities, q \in Quantities, limit \in Limits :
          Order(e, q, limit)
    BY <1>4
  <2>2. /\ UNCHANGED <<clock, account, stopped, interest, steady>>
        /\ plain' = (plain /\ Plain(e, q, limit))
    BY <2>1 DEF Order
  <2>3. plain' \in BOOLEAN
    BY <2>2
  <2> QED
    BY <2>2, <2>3 DEF clock, account, AccountOK, BarOK
<1>5. CASE \E o \in DOMAIN order : Cancel(o)
  BY <1>5 DEF Cancel, clock, account, history, AccountOK, BarOK
<1>6. CASE EndOfBar
  BY <1>6 DEF EndOfBar, account, history, AccountOK, BarOK
<1>7. CASE UNCHANGED vars
  BY <1>7 DEF vars, clock, account, history, AccountOK, BarOK
<1> QED
  BY <1>1, <1>2, <1>3, <1>4, <1>5, <1>6, <1>7 DEF Next

MoneyInv == Inv /\ HoldInv /\ AccountOK /\ BarOK

LEMMA MoneyHolds == Spec => []MoneyInv
<1>1. Init => MoneyInv
  BY InvInit, HoldInit, AccountInit DEF MoneyInv
<1>2. MoneyInv /\ [Next]_vars => MoneyInv'
  BY NextKeepsInv, NextKeepsHold, NextKeepsAccount DEF MoneyInv
<1> QED
  BY <1>1, <1>2, PTL DEF Spec

(* Types, and with them three facts of the account: the buying power and   *)
(* the hold are never negative, and no order is filled beyond its quantity *)
(* (cubby.go, equity.go, order.go).                                        *)
THEOREM CubbyTypes == Spec => []TypeOK
<1>1. MoneyInv => TypeOK
  <2> SUFFICES ASSUME MoneyInv PROVE TypeOK
    OBVIOUS
  <2>1. Inv /\ HoldInv /\ AccountOK /\ BarOK
    BY DEF MoneyInv
  <2>2. hold \in Nat
    BY <2>1, HoldsType DEF HoldInv
  <2>3. todo \subseteq DOMAIN order /\ open \subseteq DOMAIN order
    BY <2>1, BookIsFinite DEF Inv, LoopOK
  <2>4. order \in Seq([equity : Equities, side : {"buy", "sell"},
                    quantity : Nat \ {0}, filled : Nat, limit : Limits,
                    held : Nat, tif : Auction \cup {"day"},
                    orderedAt : Nat, status : Statuses])
    BY <2>1 DEF Inv, BookOK, Record
  <2>5. /\ now \in -1 .. Horizon - 1
        /\ price \in [Equities -> Nat] /\ position \in [Equities -> Int]
        /\ \A o \in DOMAIN order : order[o].filled <= order[o].quantity
    BY <2>1 DEF Inv, LoopOK, BookOK
  <2> QED
    BY <2>1, <2>2, <2>3, <2>4, <2>5 DEF TypeOK, AccountOK, BarOK
<1> QED
  BY <1>1, MoneyHolds, PTL

(* equity.go's gMarginHold is what the open orders hold: every way an      *)
(* order can end gives its whole hold back, once (setStatus).              *)
THEOREM HoldsAreExact == Spec => []HoldExact
<1>1. MoneyInv => HoldExact
  BY DEF MoneyInv, HoldInv, Holds, HoldExact
<1> QED
  BY <1>1, MoneyHolds, PTL

-----------------------------------------------------------------------------
(* The ledger: positions against fills, and cash against positions.        *)

Ours(e)   == {o \in DOMAIN order : order[o].equity = e}
Shares(e) == [o \in Ours(e) |-> Signed(o, order[o].filled)]

PositionInv ==
  stopped # "division" =>
    \A e \in Equities : position[e] = SumFunction(Shares(e))

LEMMA SharesType ==
  ASSUME Inv, NEW e
  PROVE  /\ IsFiniteSet(Ours(e)) /\ Ours(e) \subseteq DOMAIN order
         /\ \A o \in Ours(e) : Signed(o, order[o].filled) \in Int
         /\ Shares(e) \in [Ours(e) -> Int]
<1>1. IsFiniteSet(Ours(e)) /\ Ours(e) \subseteq DOMAIN order
  BY BookIsFinite DEF Ours, Inv
<1>2. \A o \in DOMAIN order : order[o].filled \in Nat
  BY OpenOrders DEF Record
<1>3. \A o \in Ours(e) : Signed(o, order[o].filled) \in Int
  BY <1>1, <1>2 DEF Signed
<1> QED
  BY <1>1, <1>3 DEF Shares

LEMMA SharesSame ==
  ASSUME DOMAIN order' = DOMAIN order, NEW e,
         \A u \in DOMAIN order : /\ order'[u].equity = order[u].equity
                                 /\ order'[u].side = order[u].side
                                 /\ order'[u].filled = order[u].filled
  PROVE  Shares(e)' = Shares(e)
<1>1. Ours(e)' = Ours(e) /\ Ours(e) \subseteq DOMAIN order
  BY DEF Ours
<1>2. \A u \in Ours(e) : Signed(u, order[u].filled)' = Signed(u, order[u].filled)
  BY <1>1 DEF Signed
<1> QED
  BY <1>1, <1>2 DEF Shares

LEMMA SharesFilled ==
  ASSUME Inv, NEW o \in DOMAIN order, NEW n \in Nat, NEW r, SameTerms(o, r),
         r.filled = order[o].filled + n, order' = [order EXCEPT ![o] = r],
         NEW e
  PROVE  SumFunction(Shares(e))'
           = IF e = order[o].equity
             THEN SumFunction(Shares(e)) + Signed(o, n)
             ELSE SumFunction(Shares(e))
<1>1. /\ DOMAIN order' = DOMAIN order /\ order'[o] = r
      /\ \A u \in DOMAIN order : u # o => order'[u] = order[u]
  BY DEF Inv, BookOK
<1>2. Ours(e)' = Ours(e)
  BY <1>1 DEF Ours, SameTerms
<1>3. \A u \in Ours(e) : u # o =>
        Signed(u, order[u].filled)' = Signed(u, order[u].filled)
  BY <1>1 DEF Signed, Ours
<1>4. CASE e # order[o].equity
  <2>1. o \notin Ours(e)
    BY <1>4 DEF Ours
  <2>2. Shares(e)' = Shares(e)
    BY <1>2, <1>3, <2>1 DEF Shares
  <2> QED
    BY <1>4, <2>2
<1>5. CASE e = order[o].equity
  <2>1. o \in Ours(e)
    BY <1>5 DEF Ours
  <2>2. order[o].filled \in Nat
    BY OpenOrders DEF Record
  <2>3. Signed(o, order[o].filled)' = Signed(o, order[o].filled) + Signed(o, n)
    BY <1>1, <2>2 DEF Signed, SameTerms
  <2>4. Signed(o, n) \in Int
    BY DEF Signed
  <2>5. \A u \in Ours(e) : Signed(u, order[u].filled)' \in Int
    BY <1>3, <2>3, <2>4, <2>1, SharesType
  <2>6. /\ Shares(e)' \in [Ours(e) -> Int]
        /\ \A u \in Ours(e) \ {o} : Shares(e)'[u] = Shares(e)[u]
        /\ Shares(e)'[o] = Shares(e)[o] + Signed(o, n)
    BY <1>2, <1>3, <2>1, <2>3, <2>5 DEF Shares
  <2>7. DifferAt(Ours(e), Shares(e), o, Shares(e)')
    BY <2>1, <2>6, SharesType DEF DifferAt
  <2> DEFINE old == Shares(e)
             new == Shares(e)'
  <2>8. /\ SumFunction(new) = SumFunction(old) - old[o] + new[o]
        /\ SumFunction(old) \in Int /\ old[o] \in Int
        /\ new[o] = old[o] + Signed(o, n)
    BY <2>6, <2>7, TotalChanged
  <2> HIDE DEF old, new
  <2>9. SumFunction(new) = SumFunction(old) + Signed(o, n)
    BY <2>4, <2>8
  <2> QED
    BY <1>5, <2>9 DEF old, new
<1> QED
  BY <1>4, <1>5

LEMMA SharesPlaced ==
  ASSUME Inv, NEW r \in Record, r.filled = 0, order' = Append(order, r), NEW e
  PROVE  SumFunction(Shares(e))' = SumFunction(Shares(e))
<1>1. PICK z :
        /\ DOMAIN order' = DOMAIN order \cup {z} /\ order'[z] = r
        /\ \A u \in DOMAIN order : order'[u] = order[u]
        /\ z \notin DOMAIN order
  BY Appended DEF Inv, BookOK
<1>2. \A u \in Ours(e) : Signed(u, order[u].filled)' = Signed(u, order[u].filled)
  BY <1>1 DEF Signed, Ours
<1>3. CASE r.equity # e
  <2>1. Ours(e)' = Ours(e)
    BY <1>1, <1>3 DEF Ours
  <2>2. Shares(e)' = Shares(e)
    BY <1>2, <2>1 DEF Shares
  <2> QED
    BY <2>2
<1>4. CASE r.equity = e
  <2>1. /\ Ours(e)' = Ours(e) \cup {z} /\ z \in Ours(e)'
        /\ Ours(e)' \ {z} = Ours(e)
    BY <1>1, <1>4 DEF Ours
  <2>2. Signed(z, order[z].filled)' = 0
    BY <1>1 DEF Signed
  <2>3. IsFiniteSet(Ours(e)')
    BY <2>1, SharesType, FS_AddElement
  <2>4. \A u \in Ours(e)' : Signed(u, order[u].filled)' \in Int
    <3>1. \A u \in Ours(e) : Signed(u, order[u].filled) \in Int
      BY SharesType
    <3>2. \A u \in Ours(e) : Signed(u, order[u].filled)' \in Int
      BY <1>2, <3>1
    <3>3. \A u \in Ours(e)' : u \in Ours(e) \/ u = z
      BY <2>1
    <3>4. 0 \in Int
      OBVIOUS
    <3> QED
      BY <2>2, <3>2, <3>3, <3>4
  <2>5. /\ Shares(e)' \in [Ours(e)' -> Int]
        /\ \A u \in Ours(e) : Shares(e)'[u] = Shares(e)[u]
        /\ Shares(e)'[z] = 0
    BY <1>2, <2>1, <2>2, <2>4 DEF Shares
  <2>6. Rest(Ours(e)', Shares(e)', z, Shares(e))
    BY <2>1, <2>3, <2>5, SharesType DEF Rest
  <2>7. /\ SumFunction(Shares(e)') = Shares(e)'[z] + SumFunction(Shares(e))
        /\ SumFunction(Shares(e)) \in Int
    BY <2>6, TotalOfRest
  <2> QED
    BY <2>5, <2>7
<1> QED
  BY <1>3, <1>4

LEMMA PositionInit == Init => PositionInv
<1> SUFFICES ASSUME Init, NEW e \in Equities
             PROVE  position[e] = SumFunction(Shares(e))
  BY DEF PositionInv
<1>1. position[e] = 0 /\ Ours(e) = {} /\ IsFiniteSet({})
  BY FS_EmptySet DEF Init, Ours
<1>2. DOMAIN Shares(e) = {}
  BY <1>1 DEF Shares
<1> QED
  BY <1>1, <1>2, TotalZero

LEMMA EndsKeepsPositions ==
  ASSUME Inv, PositionInv, stopped = "no", NEW o \in DOMAIN order, NEW r, Ends(o, r)
  PROVE  PositionInv'
<1>1. /\ SameTerms(o, r) /\ r.filled = order[o].filled
      /\ order' = [order EXCEPT ![o] = r]
      /\ UNCHANGED <<position, stopped>>
  BY DEF Ends, Close
<1>2. /\ DOMAIN order' = DOMAIN order
      /\ \A u \in DOMAIN order : /\ order'[u].equity = order[u].equity
                                 /\ order'[u].side = order[u].side
                                 /\ order'[u].filled = order[u].filled
  BY <1>1 DEF Inv, BookOK, SameTerms
<1>3. \A e : Shares(e)' = Shares(e)
  BY <1>2, SharesSame
<1> QED
  BY <1>1, <1>3 DEF PositionInv

LEMMA NextKeepsPositions == Inv /\ PositionInv /\ [Next]_vars => PositionInv'
<1> SUFFICES ASSUME Inv, PositionInv, [Next]_vars PROVE PositionInv'
  OBVIOUS
<1>1. CASE /\ UNCHANGED <<position, order>>
           /\ stopped' = "division" => stopped = "division"
           /\ stopped = "no" \/ stopped' = stopped
  <2>1. \A e : Shares(e)' = Shares(e)
    BY <1>1, SharesSame
  <2> QED
    BY <1>1, <2>1 DEF PositionInv
<1>2. CASE stopped = "no" /\ \E o \in todo : SimulateFill(o)
  <2>1. PICK o \in todo : SimulateFill(o)
    BY <1>2
  <2>2. o \in DOMAIN order
    BY ListedOrder
  <2>3. CASE UNCHANGED <<position, cash, book, stopped>>
    BY <1>1, <1>2, <2>3 DEF book
  <2>4. CASE \E r : Ends(o, r)
    BY <1>2, <2>2, <2>4, EndsKeepsPositions
  <2>5. CASE \E n, r : Fills(o, n, r)
    <3>1. PICK n, r : Fills(o, n, r)
      BY <2>5
    <3>2. CASE stopped' = "division"
      BY <3>2 DEF PositionInv
    <3>3. CASE stopped' # "division"
      <4>1. /\ SameTerms(o, r) /\ r.filled = order[o].filled + n /\ n \in Nat
            /\ order' = [order EXCEPT ![o] = r]
            /\ position' = [position EXCEPT ![order[o].equity] = @ + Signed(o, n)]
        BY <3>1, <3>3 DEF Fills
      <4>2. \A e : SumFunction(Shares(e))'
                     = IF e = order[o].equity
                       THEN SumFunction(Shares(e)) + Signed(o, n)
                       ELSE SumFunction(Shares(e))
        BY <2>2, <4>1, SharesFilled
      <4>3. position \in [Equities -> Int]
        BY DEF Inv, LoopOK
      <4>4. \A e \in Equities :
              position'[e] = IF e = order[o].equity THEN position[e] + Signed(o, n)
                             ELSE position[e]
        BY <4>1, <4>3
      <4>5. \A e \in Equities : position[e] = SumFunction(Shares(e))
        BY <1>2 DEF PositionInv
      <4>6. \A e \in Equities : position'[e] = SumFunction(Shares(e))'
        BY <4>2, <4>4, <4>5
      <4> QED
        BY <4>6 DEF PositionInv
    <3> QED
      BY <3>2, <3>3
  <2> QED
    BY <2>1, <2>3, <2>4, <2>5, FillCases
<1>3. CASE stopped = "no" /\ \E e \in Equities, q \in Quantities, limit \in Limits :
             Order(e, q, limit)
  <2>1. PICK e \in Equities, q \in Quantities, limit \in Limits :
          Order(e, q, limit)
    BY <1>3
  <2>2. PICK r : Places(e, q, limit, r)
    BY <2>1, OrderPlaces
  <2>3. \A d : SumFunction(Shares(d))' = SumFunction(Shares(d))
    BY <2>2, SharesPlaced DEF Places
  <2>4. UNCHANGED <<position, stopped>>
    BY <2>1 DEF Order
  <2> QED
    BY <2>3, <2>4 DEF PositionInv
<1>4. CASE stopped = "no" /\ \E o \in DOMAIN order : Cancel(o)
  BY <1>4, CancelEnds, EndsKeepsPositions
<1>5. CASE stopped = "no" /\ (NextBar \/ CheckMarketClose \/ EndOfBar)
  <2>1. UNCHANGED <<position, order>> /\ stopped' # "division"
    BY <1>5 DEF NextBar, CheckMarketClose, EndOfBar, book
  <2> QED
    BY <1>1, <1>5, <2>1
<1>6. CASE UNCHANGED vars
  BY <1>1, <1>6 DEF vars, book
<1> QED
  BY <1>2, <1>3, <1>4, <1>5, <1>6 DEF Next

-----------------------------------------------------------------------------
(* What the positions are worth.  A position is held at a price, and the   *)
(* bars a minute fills at are the ones its prices come from.               *)

Worths == [e \in Equities |-> 10 * position[e] * price[e]]

PricesOK ==
  /\ \A e \in Equities : position[e] # 0 => price[e] > 0
  /\ at = "fill" =>
       \A e \in DOMAIN bar :
         /\ price[e] = bar[e].close
         /\ steady => bar[e].open = price[e] /\ bar[e].vwap = price[e]

ValueInv == steady => cash + interest + SumFunction(Worths) = Cash0

(* One minute's bars. *)
Takes(t, E, b) ==
  /\ t \in now + 1 .. Horizon - 1 /\ E \in SUBSET Equities
  /\ b \in [E -> Bars]
  /\ now' = t /\ bar' = b /\ at' = "fill"
  /\ price' = [e \in Equities |-> IF e \in E THEN b[e].close ELSE price[e]]
  /\ steady' = (steady /\ \A e \in E :
                  /\ price[e] \in {0, b[e].close}
                  /\ b[e].open = b[e].close
                  /\ b[e].vwap = b[e].close)

LEMMA NextBarTakes ==
  ASSUME NextBar
  PROVE  \E t, E, b : Takes(t, E, b)
  BY DEF NextBar, Takes

LEMMA WorthType ==
  ASSUME Inv
  PROVE  /\ IsFiniteSet(Equities) /\ Worths \in [Equities -> Int]
         /\ SumFunction(Worths) \in Int
         /\ \A e \in Equities : position[e] \in Int /\ price[e] \in Nat
<1>1. \A e \in Equities : position[e] \in Int /\ price[e] \in Nat
  BY DEF Inv, LoopOK
<1>2. IsFiniteSet(Equities)
  BY CubbyAssumption
<1>3. Worths \in [Equities -> Int]
  BY <1>1 DEF Worths
<1> QED
  BY <1>1, <1>2, <1>3, TotalInt

LEMMA PricesInit == Init => PricesOK /\ ValueInv
<1> SUFFICES ASSUME Init PROVE PricesOK /\ ValueInv
  OBVIOUS
<1>1. \A e \in Equities : position[e] = 0 /\ price[e] = 0
  BY DEF Init
<1>2. PricesOK
  BY <1>1 DEF Init, PricesOK
<1>3. DOMAIN Worths = Equities /\ \A e \in Equities : Worths[e] = 0
  BY <1>1 DEF Worths
<1>4. SumFunction(Worths) = 0
  BY <1>3, TotalZero, CubbyAssumption
<1>5. ValueInv
  BY <1>4, CubbyAssumption DEF Init, ValueInv
<1> QED
  BY <1>2, <1>5

LEMMA NextBarKeepsValue ==
  ASSUME Inv, PricesOK, ValueInv, NextBar
  PROVE  PricesOK' /\ ValueInv'
<1>1. PICK t, E, b : Takes(t, E, b)
  BY NextBarTakes
<1>2. UNCHANGED <<position, cash, interest>>
  BY DEF NextBar
<1>3. \A e \in E : b[e] \in Bars /\ b[e].close \in Nat \ {0}
  BY <1>1, CubbyAssumption DEF Takes
<1>4. \A e \in Equities : price'[e] = IF e \in E THEN b[e].close ELSE price[e]
  BY <1>1 DEF Takes
<1>5. PricesOK'
  <2>1. \A e \in Equities : position[e] # 0 => price'[e] > 0
    <3> SUFFICES ASSUME NEW e \in Equities, position[e] # 0 PROVE price'[e] > 0
      OBVIOUS
    <3>1. CASE e \in E
      BY <1>3, <1>4, <3>1
    <3>2. CASE e \notin E
      BY <1>4, <3>2 DEF PricesOK
    <3> QED
      BY <3>1, <3>2
  <2>2. \A e \in DOMAIN bar' : e \in E /\ e \in Equities /\ bar'[e] = b[e]
    BY <1>1 DEF Takes
  <2>3. \A e \in DOMAIN bar' :
          /\ price'[e] = bar'[e].close
          /\ steady' => bar'[e].open = price'[e] /\ bar'[e].vwap = price'[e]
    BY <1>1, <1>4, <2>2 DEF Takes
  <2> QED
    BY <1>2, <2>1, <2>3 DEF PricesOK
<1>6. ASSUME steady' PROVE Worths' = Worths
  <2> SUFFICES ASSUME NEW e \in Equities
               PROVE  10 * position[e] * price'[e] = 10 * position[e] * price[e]
    BY <1>2 DEF Worths
  <2>1. position[e] \in Int /\ price[e] \in Nat
    BY WorthType
  <2>2. CASE e \notin E
    BY <1>4, <2>2
  <2>3. CASE e \in E
    <3>1. price[e] \in {0, b[e].close} /\ price'[e] = b[e].close
      BY <1>1, <1>4, <1>6, <2>3 DEF Takes
    <3>2. CASE price[e] = b[e].close
      BY <3>1, <3>2
    <3>3. CASE price[e] = 0
      <4>1. position[e] = 0
        BY <2>1, <3>3 DEF PricesOK
      <4> QED
        BY <1>3, <2>3, <3>1, <3>3, <4>1
    <3> QED
      BY <3>1, <3>2, <3>3
  <2> QED
    BY <2>2, <2>3
<1>7. ValueInv'
  BY <1>1, <1>2, <1>6 DEF ValueInv, Takes
<1> QED
  BY <1>5, <1>7

(* While prices stand still, a fill is at the price. *)
LEMMA FillsAtPrice ==
  ASSUME Inv, PricesOK, AccountOK, NEW o \in todo, at = "fill"
  PROVE  /\ order[o].equity \in Equities
         /\ price[order[o].equity] \in Nat \ {0}
         /\ FillPrice(o) \in Nat \ {0}
         /\ steady => FillPrice(o) = price[order[o].equity]
<1> DEFINE e == order[o].equity
<1>1. e \in DOMAIN bar /\ bar[e] \in Bars
  BY DEF Inv, LoopOK
<1>2. order[o] \in Record
  BY ListedOrder
<1>3. e \in Equities
  BY <1>2 DEF Record
<1>4. /\ bar[e].open \in Nat \ {0} /\ bar[e].vwap \in Nat \ {0}
      /\ bar[e].close \in Nat \ {0}
  BY <1>1, CubbyAssumption
<1>5. FillPrice(o) = bar[e].open \/ FillPrice(o) = bar[e].vwap
  BY DEF FillPrice
<1>6. /\ price[e] = bar[e].close
      /\ steady => bar[e].open = price[e] /\ bar[e].vwap = price[e]
  BY <1>1 DEF PricesOK
<1> HIDE DEF e
<1>7. e \in Equities /\ price[e] \in Nat \ {0} /\ FillPrice(o) \in Nat \ {0}
      /\ (steady => FillPrice(o) = price[e])
  BY <1>3, <1>4, <1>5, <1>6
<1> QED
  BY <1>7 DEF e

LEMMA WorthGrows ==
  ASSUME NEW q \in Int, NEW n \in Int, NEW p \in Int
  PROVE  10 * (q + n) * p = 10 * q * p + 10 * n * p
  OBVIOUS

LEMMA FillKeepsValue ==
  ASSUME Inv, PricesOK, ValueInv, AccountOK, at = "fill", UNCHANGED <<at, bar, price, steady, interest>>,
         NEW o \in todo, NEW n, NEW r, Fills(o, n, r)
  PROVE  PricesOK' /\ ValueInv'
<1> DEFINE e == order[o].equity
           s == Signed(o, n)
           p == FillPrice(o)
<1>1. /\ e \in Equities /\ price[e] \in Nat \ {0} /\ p \in Nat \ {0}
      /\ (steady => p = price[e])
  BY FillsAtPrice
<1>2. s \in Int
  BY DEF Fills, Signed
<1>3. /\ cash' = cash - 10 * s * p
      /\ position' = [position EXCEPT ![e] = @ + s]
  BY DEF Fills
<1> HIDE DEF e, s, p
<1>4. /\ position'[e] = position[e] + s
      /\ \A d \in Equities \ {e} : position'[d] = position[d]
  BY <1>1, <1>3 DEF Inv, LoopOK
<1>7. price' = price
  OBVIOUS
<1>5. PricesOK'
  <2>1. \A d \in Equities : position'[d] # 0 => price[d] > 0
    BY <1>1, <1>4 DEF PricesOK
  <2> QED
    BY <2>1 DEF PricesOK
<1>6. ASSUME steady PROVE cash' + interest + SumFunction(Worths)' = Cash0
  <2>1. position[e] \in Int /\ price[e] \in Int /\ cash \in Int /\ interest \in Int
    <3>1. cash \in Int /\ interest \in Nat
      BY DEF AccountOK
    <3>2. position[e] \in Int /\ price[e] \in Nat
      BY <1>1, WorthType
    <3> QED
      BY <3>1, <3>2
  <2>2. \A d \in Equities : Worths'[d] = 10 * position'[d] * price[d]
    BY <1>7 DEF Worths
  <2>3. /\ Worths[e] = 10 * position[e] * price[e]
        /\ Worths'[e] = 10 * (position[e] + s) * price[e]
        /\ \A d \in Equities \ {e} : Worths'[d] = Worths[d]
    BY <1>1, <1>4, <2>2 DEF Worths
  <2>4. Worths' \in [Equities -> Int]
    <3>1. \A d \in Equities : position'[d] \in Int /\ price[d] \in Int
      <4>1. position'[e] \in Int
        BY <1>2, <1>4, <2>1
      <4> QED
        BY <1>4, <4>1, WorthType
    <3>2. \A d \in Equities : 10 * position'[d] * price[d] \in Int
      BY <3>1
    <3> QED
      BY <3>2 DEF Worths
  <2>5. DifferAt(Equities, Worths, e, Worths')
    BY <1>1, <2>3, <2>4, WorthType DEF DifferAt
  <2>6. /\ SumFunction(Worths') = SumFunction(Worths) - Worths[e] + Worths'[e]
        /\ SumFunction(Worths) \in Int /\ Worths[e] \in Int /\ Worths'[e] \in Int
    BY <2>5, TotalChanged
  <2>7. Worths'[e] = Worths[e] + 10 * s * price[e]
    BY <1>2, <2>1, <2>3, WorthGrows
  <2>8. 10 * s * price[e] \in Int /\ cash' = cash - 10 * s * price[e]
    BY <1>1, <1>2, <1>3, <1>6, <2>1
  <2>9. cash + interest + SumFunction(Worths) = Cash0
    BY <1>6 DEF ValueInv
  <2> QED
    BY <2>1, <2>6, <2>7, <2>8, <2>9
<1> QED
  BY <1>5, <1>6 DEF ValueInv

LEMMA NextKeepsValue ==
  Inv /\ AccountOK /\ PricesOK /\ ValueInv /\ [Next]_vars => PricesOK' /\ ValueInv'
<1> SUFFICES ASSUME Inv, AccountOK, PricesOK, ValueInv, [Next]_vars
             PROVE  PricesOK' /\ ValueInv'
  OBVIOUS
<1>1. CASE /\ UNCHANGED <<position, price, cash, interest, steady>>
           /\ at' = "fill" => UNCHANGED <<at, bar>>
  <2>1. Worths' = Worths
    BY <1>1 DEF Worths
  <2>2. PricesOK'
    BY <1>1 DEF PricesOK
  <2> QED
    BY <1>1, <2>1, <2>2 DEF ValueInv
<1>2. CASE NextBar
  BY <1>2, NextBarKeepsValue
<1>3. CASE \E o \in todo : SimulateFill(o)
  <2>1. PICK o \in todo : SimulateFill(o)
    BY <1>3
  <2>2. at = "fill" /\ UNCHANGED <<at, bar, price, interest, steady>>
    BY <2>1 DEF SimulateFill, history
  <2>3. CASE UNCHANGED <<position, cash>>
    BY <1>1, <2>2, <2>3
  <2>4. CASE \E n, r : Fills(o, n, r)
    BY <2>2, <2>4, FillKeepsValue
  <2> QED
    BY <2>1, <2>3, <2>4, FillCases DEF Ends
<1>4. CASE CheckMarketClose
  <2>1. at' = "strategy" /\ UNCHANGED <<position, price, steady>>
    BY <1>4 DEF CheckMarketClose
  <2>7. cash \in Int /\ interest \in Int /\ 0 \in Int
    <3>1. cash \in Int /\ interest \in Nat
      BY DEF AccountOK
    <3> QED
      BY <3>1
  <2>2. \E i \in Int : cash' = cash - i /\ interest' = interest + i
    <3>1. CASE UNCHANGED <<cash, interest>>
      BY <2>7, <3>1
    <3>2. CASE \E i \in IF cash < 0 THEN DailyInterest ELSE {0} :
                 cash' = cash - i /\ interest' = interest + i
      BY <3>2, CubbyAssumption
    <3>3. \/ UNCHANGED <<cash, interest>>
          \/ \E i \in IF cash < 0 THEN DailyInterest ELSE {0} :
               cash' = cash - i /\ interest' = interest + i
      BY <1>4 DEF CheckMarketClose
    <3> QED
      BY <3>1, <3>2, <3>3
  <2>3. cash' + interest' = cash + interest
    BY <2>2, <2>7
  <2>4. Worths' = Worths
    BY <2>1 DEF Worths
  <2>5. PricesOK'
    BY <2>1 DEF PricesOK
  <2> QED
    BY <2>1, <2>3, <2>4, <2>5 DEF ValueInv
<1>5. CASE \/ EndOfBar \/ \E o \in DOMAIN order : Cancel(o)
           \/ \E e \in Equities, q \in Quantities, limit \in Limits :
                Order(e, q, limit)
  <2>1. UNCHANGED <<position, price, cash, interest, steady>>
    BY <1>5 DEF EndOfBar, Cancel, Order, account, history
  <2>2. at' # "fill"
    BY <1>5 DEF EndOfBar, Cancel, Order, clock
  <2> QED
    BY <1>1, <2>1, <2>2
<1>6. CASE UNCHANGED vars
  BY <1>1, <1>6 DEF vars, clock, account, history
<1> QED
  BY <1>2, <1>3, <1>4, <1>5, <1>6 DEF Next

LedgerInv == MoneyInv /\ PositionInv /\ PricesOK /\ ValueInv

LEMMA LedgerHolds == Spec => []LedgerInv
<1>1. Init => LedgerInv
  BY InvInit, HoldInit, AccountInit, PositionInit, PricesInit
     DEF LedgerInv, MoneyInv
<1>2. LedgerInv /\ [Next]_vars => LedgerInv'
  BY NextKeepsInv, NextKeepsHold, NextKeepsAccount, NextKeepsPositions,
     NextKeepsValue DEF LedgerInv, MoneyInv
<1> QED
  BY <1>1, <1>2, PTL DEF Spec

(* The ledger balances (order.go's fills, equity.go's positions, cubby.go's *)
(* interest): every position is what its orders filled, and while prices   *)
(* stand still no money appears or disappears.                             *)
THEOREM TheLedgerIsExact == Spec => []LedgerExact
<1>1. LedgerInv => LedgerExact
  BY DEF LedgerInv, PositionInv, ValueInv, Worths, Shares, Ours, LedgerExact
<1> QED
  BY <1>1, LedgerHolds, PTL

-----------------------------------------------------------------------------
(* Margins: monotone, and additive up to the sign of what is added.        *)

LEMMA ProductGrows ==
  ASSUME NEW k \in Nat, NEW p \in Nat, NEW a \in Nat, NEW b \in Nat, a <= b
  PROVE  k * a * p <= k * b * p
<1>1. b - a \in Nat /\ b = a + (b - a)
  OBVIOUS
<1>2. k * (b - a) * p \in Nat
  <2>1. k * (b - a) \in Nat
    BY <1>1
  <2> QED
    BY <2>1
<1>3. k * b * p = k * a * p + k * (b - a) * p
  OBVIOUS
<1> QED
  BY <1>2, <1>3

LEMMA ProductSplits ==
  ASSUME NEW k \in Nat, NEW p \in Nat, NEW a \in Nat, NEW b \in Nat
  PROVE  k * (a + b) * p = k * a * p + k * b * p
  OBVIOUS

LEMMA MarginGrows ==
  ASSUME NEW a \in Int, NEW b \in Int, Abs(a) <= Abs(b), NEW p \in Nat
  PROVE  MaintenanceMargin(a, p) <= MaintenanceMargin(b, p)
<1>1. Abs(a) \in Nat /\ Abs(b) \in Nat /\ Rate \in Nat
  BY CubbyAssumption DEF Abs
<1> QED
  BY <1>1, ProductGrows DEF MaintenanceMargin

LEMMA MarginSplits ==
  ASSUME NEW a \in Nat, NEW b \in Nat, NEW p \in Nat
  PROVE  MaintenanceMargin(a + b, p)
           = MaintenanceMargin(a, p) + MaintenanceMargin(b, p)
<1>1. Abs(a) = a /\ Abs(b) = b /\ Abs(a + b) = a + b /\ Rate \in Nat
  BY CubbyAssumption DEF Abs
<1> QED
  BY <1>1, ProductSplits DEF MaintenanceMargin

LEMMA MarginTriangle ==
  ASSUME NEW a \in Int, NEW b \in Int, NEW p \in Nat
  PROVE  MaintenanceMargin(a + b, p)
           <= MaintenanceMargin(a, p) + MaintenanceMargin(b, p)
<1>1. /\ Abs(a) \in Nat /\ Abs(b) \in Nat /\ Abs(a + b) \in Nat
      /\ Abs(a + b) <= Abs(a) + Abs(b) /\ Rate \in Nat
  BY CubbyAssumption DEF Abs
<1>2. Rate * Abs(a + b) * p <= Rate * (Abs(a) + Abs(b)) * p
  <2>1. Abs(a) + Abs(b) \in Nat
    BY <1>1
  <2> QED
    BY <1>1, <2>1, ProductGrows
<1>3. Rate * (Abs(a) + Abs(b)) * p = Rate * Abs(a) * p + Rate * Abs(b) * p
  BY <1>1, ProductSplits
<1> QED
  BY <1>2, <1>3 DEF MaintenanceMargin

-----------------------------------------------------------------------------
(* A step takes n contracts off an open order: it fills them, or ends it.  *)
Shrinks(o, n, r) ==
  /\ o \in open /\ SameTerms(o, r) /\ n \in Nat
  /\ r.filled = order[o].filled + n /\ r.filled <= r.quantity
  /\ order' = [order EXCEPT ![o] = r]
  /\ open' = open \/ open' = open \ {o}

LEMMA Shrunk ==
  ASSUME Inv, NEW o, NEW n, NEW r, Shrinks(o, n, r)
  PROVE  /\ DOMAIN order' = DOMAIN order /\ order'[o] = r
         /\ \A u \in DOMAIN order : u # o => order'[u] = order[u]
         /\ o \in DOMAIN order /\ order[o] \in Record /\ r \in Record
         /\ Unfilled(o) \in Nat /\ n <= Unfilled(o)
         /\ r.quantity - r.filled = Unfilled(o) - n
         /\ o \in open /\ n \in Nat
         /\ r.equity = order[o].equity /\ r.side = order[o].side
         /\ r.limit = order[o].limit /\ r.held = order[o].held
<1>1. o \in DOMAIN order /\ order[o] \in Record /\ r \in Record
  BY OpenOrders DEF Shrinks, SameTerms
<1>2. /\ DOMAIN order' = DOMAIN order /\ order'[o] = r
      /\ \A u \in DOMAIN order : u # o => order'[u] = order[u]
  BY <1>1 DEF Shrinks, Inv, BookOK
<1>3. /\ order[o].quantity \in Nat /\ order[o].filled \in Nat
      /\ r.quantity = order[o].quantity
  BY <1>1 DEF Record, Shrinks, SameTerms
<1>4. r.filled = order[o].filled + n /\ r.filled <= r.quantity /\ n \in Nat
  BY DEF Shrinks
<1>5. /\ Unfilled(o) \in Nat /\ n <= Unfilled(o)
      /\ r.quantity - r.filled = Unfilled(o) - n
  BY <1>3, <1>4 DEF Unfilled
<1>6. /\ o \in open /\ n \in Nat
      /\ r.equity = order[o].equity /\ r.side = order[o].side
      /\ r.limit = order[o].limit /\ r.held = order[o].held
  BY DEF Shrinks, SameTerms
<1> QED
  BY <1>1, <1>2, <1>5, <1>6

(* What the orders of one side of an equity have still to fill.            *)
Sided(e, s)     == {o \in open : order[o].equity = e /\ order[o].side = s}
Unfilleds(e, s) == [o \in Sided(e, s) |-> Unfilled(o)]

LEMMA UnfilledType ==
  ASSUME Inv
  PROVE  \A o \in open : Unfilled(o) \in Nat \ {0}
<1> SUFFICES ASSUME NEW o \in open PROVE Unfilled(o) \in Nat \ {0}
  OBVIOUS
<1>1. order[o] \in Record /\ order[o].filled < order[o].quantity
  BY OpenOrders DEF Inv, BookOK
<1>2. order[o].filled \in Nat /\ order[o].quantity \in Nat
  BY <1>1 DEF Record
<1> QED
  BY <1>1, <1>2 DEF Unfilled

LEMMA WorkingType ==
  ASSUME Inv, NEW e, NEW s
  PROVE  /\ IsFiniteSet(Sided(e, s)) /\ Sided(e, s) \subseteq open
         /\ \A o \in open : Unfilled(o) \in Nat \ {0}
         /\ Unfilleds(e, s) \in [Sided(e, s) -> Nat]
         /\ Working(e, s) = SumFunction(Unfilleds(e, s))
         /\ Working(e, s) \in Nat
<1>1. Sided(e, s) \subseteq open /\ IsFiniteSet(Sided(e, s))
  <2>1. Sided(e, s) \subseteq open
    BY DEF Sided
  <2> QED
    BY <2>1, OpenOrders, FS_Subset
<1>2. \A o \in open : Unfilled(o) \in Nat \ {0}
  BY UnfilledType
<1>3. Unfilleds(e, s) \in [Sided(e, s) -> Nat]
  BY <1>1, <1>2 DEF Unfilleds
<1>4. Working(e, s) = SumFunction(Unfilleds(e, s))
  BY DEF Working, Unfilleds, Sided
<1> QED
  BY <1>1, <1>2, <1>3, <1>4, TotalNat

(* The same as a formula, for the states before and after a step. *)
WorkingFacts ==
  \A e, s :
    /\ IsFiniteSet(Sided(e, s))
    /\ Unfilleds(e, s) \in [Sided(e, s) -> Nat]
    /\ Working(e, s) = SumFunction(Unfilleds(e, s))
    /\ Working(e, s) \in Nat

LEMMA WorkingTypes == Inv => WorkingFacts
  BY WorkingType DEF WorkingFacts

(* An open order is part of what is working on its side. *)
LEMMA WorkingAtLeast ==
  ASSUME Inv, NEW o \in open
  PROVE  Unfilled(o) <= Working(order[o].equity, order[o].side)
<1> DEFINE e == order[o].equity
           s == order[o].side
           S == Sided(e, s)
           g == [u \in S \ {o} |-> Unfilled(u)]
<1>1. o \in S
  BY DEF Sided
<1>2. /\ IsFiniteSet(S) /\ Unfilleds(e, s) \in [S -> Nat]
      /\ Working(e, s) = SumFunction(Unfilleds(e, s))
      /\ \A u \in S : Unfilleds(e, s)[u] = Unfilled(u)
  BY WorkingType DEF Unfilleds
<1> HIDE DEF S
<1>3. g \in [S \ {o} -> Nat] /\ \A u \in S \ {o} : g[u] = Unfilleds(e, s)[u]
  BY <1>2
<1>4. Unfilleds(e, s)[o] = Unfilled(o)
  BY <1>1, <1>2
<1> HIDE DEF g, e, s
<1>5. Rest(S, Unfilleds(e, s), o, g)
  BY <1>1, <1>2, <1>3 DEF Rest
<1>6. SumFunction(g) \in Nat
  <2>1. IsFiniteSet(S \ {o})
    BY <1>2, FS_RemoveElement
  <2> QED
    BY <1>3, <2>1, TotalNat
<1>7. /\ SumFunction(Unfilleds(e, s)) = Unfilleds(e, s)[o] + SumFunction(g)
      /\ Unfilleds(e, s)[o] \in Int
  BY <1>5, TotalOfRest
<1>8. Unfilled(o) <= Working(e, s)
  BY <1>2, <1>4, <1>6, <1>7
<1> QED
  BY <1>8 DEF e, s

LEMMA WorkingShrinks ==
  ASSUME Inv, Inv', NEW o, NEW n, NEW r, Shrinks(o, n, r), NEW e, NEW s
  PROVE  /\ (e = order[o].equity /\ s = order[o].side)
              => Working(e, s)' <= Working(e, s) - n
         /\ ~(e = order[o].equity /\ s = order[o].side)
              => Working(e, s)' = Working(e, s)
<1> DEFINE S == Sided(e, s)
           f == Unfilleds(e, s)
<1>1. /\ DOMAIN order' = DOMAIN order /\ order'[o] = r
      /\ \A u \in DOMAIN order : u # o => order'[u] = order[u]
      /\ o \in DOMAIN order /\ n \in Nat /\ Unfilled(o) \in Nat
      /\ n <= Unfilled(o) /\ r.quantity - r.filled = Unfilled(o) - n
      /\ o \in open /\ r.equity = order[o].equity /\ r.side = order[o].side
  BY Shrunk
<1>2. open \subseteq DOMAIN order
  BY OpenOrders
<1>3. /\ IsFiniteSet(S) /\ f \in [S -> Nat] /\ Working(e, s) = SumFunction(f)
      /\ \A u \in S : f[u] = Unfilled(u)
  BY WorkingType DEF Unfilleds
<1>4. /\ f' \in [S' -> Nat] /\ Working(e, s)' = SumFunction(f')
      /\ \A u \in S' : f'[u] = Unfilled(u)'
  <2>1. WorkingFacts'
    BY WorkingTypes, PTL
  <2>2. /\ f' \in [S' -> Nat] /\ Working(e, s)' = SumFunction(f')
    BY <2>1 DEF WorkingFacts
  <2> QED
    BY <2>2 DEF Unfilleds
<1>5. \A u \in open \ {o} : Unfilled(u)' = Unfilled(u)
  BY <1>1, <1>2 DEF Unfilled
<1>6. Unfilled(o)' = Unfilled(o) - n
  BY <1>1 DEF Unfilled
<1>7. CASE ~(e = order[o].equity /\ s = order[o].side)
  <2>1. S' = S /\ o \notin S
    BY <1>1, <1>2, <1>7 DEF Sided, Shrinks
  <2>2. S \subseteq open \ {o}
    BY <2>1 DEF Sided
  <2>3. f' = f
    BY <1>5, <2>1, <2>2 DEF Unfilleds
  <2> QED
    BY <1>3, <1>4, <1>7, <2>3
<1>8. CASE e = order[o].equity /\ s = order[o].side
  <2>1. o \in S
    BY <1>1, <1>8 DEF Sided
  <2>2. \A u \in S : u # o => Unfilled(u)' = Unfilled(u)
    BY <1>5 DEF Sided
  <2>3. CASE open' = open
    <3>1. S' = S
      BY <1>1, <1>2, <2>3 DEF Sided
    <3>2. \A u \in S \ {o} : f'[u] = f[u]
      BY <1>3, <1>4, <2>2, <3>1
    <3>3. f'[o] = f[o] - n
      BY <1>3, <1>4, <1>6, <2>1, <3>1
    <3> HIDE DEF f, S
    <3>4. DifferAt(S, f, o, f')
      BY <1>3, <1>4, <2>1, <3>1, <3>2 DEF DifferAt
    <3>5. /\ SumFunction(f') = SumFunction(f) - f[o] + f'[o]
          /\ SumFunction(f) \in Int /\ f[o] \in Int /\ f'[o] \in Int
      BY <3>4, TotalChanged
    <3>6. SumFunction(f') = SumFunction(f) - n
      BY <1>1, <3>3, <3>5
    <3> QED
      BY <1>1, <1>3, <1>4, <1>8, <3>5, <3>6
  <2>4. CASE open' = open \ {o}
    <3>1. S' = S \ {o}
      BY <1>1, <1>2, <2>4 DEF Sided
    <3>2. \A u \in S \ {o} : f'[u] = f[u]
      BY <1>3, <1>4, <2>2, <3>1
    <3>3. f[o] = Unfilled(o)
      BY <1>3, <2>1
    <3> HIDE DEF f, S
    <3>4. Rest(S, f, o, f')
      BY <1>3, <1>4, <2>1, <3>1, <3>2 DEF Rest
    <3>5. /\ SumFunction(f) = f[o] + SumFunction(f')
          /\ SumFunction(f') \in Int /\ f[o] \in Int
      BY <3>4, TotalOfRest
    <3>6. SumFunction(f') <= SumFunction(f) - n
      BY <1>1, <3>3, <3>5
    <3> QED
      BY <1>3, <1>4, <1>8, <3>6
  <2> QED
    BY <2>3, <2>4 DEF Shrinks
<1> QED
  BY <1>7, <1>8

LEMMA WorkingPlaced ==
  ASSUME Inv, Inv', NEW e, NEW q, NEW limit, NEW r, Places(e, q, limit, r),
         NEW d, NEW s
  PROVE  Working(d, s)' = IF d = e /\ s = r.side THEN Working(d, s) + Abs(q)
                          ELSE Working(d, s)
<1> DEFINE S == Sided(d, s)
           f == Unfilleds(d, s)
<1>1. PICK z :
        /\ DOMAIN order' = DOMAIN order \cup {z} /\ order'[z] = r
        /\ \A u \in DOMAIN order : order'[u] = order[u]
        /\ z \notin DOMAIN order /\ open' = open \cup {z}
  BY Appended DEF Inv, BookOK, Places
<1>2. open \subseteq DOMAIN order
  BY OpenOrders
<1>3. /\ IsFiniteSet(S) /\ f \in [S -> Nat] /\ Working(d, s) = SumFunction(f)
      /\ \A u \in S : f[u] = Unfilled(u)
  BY WorkingType DEF Unfilleds
<1>4. /\ IsFiniteSet(S') /\ f' \in [S' -> Nat]
      /\ Working(d, s)' = SumFunction(f')
      /\ \A u \in S' : f'[u] = Unfilled(u)'
  <2>1. WorkingFacts'
    BY WorkingTypes, PTL
  <2>2. /\ IsFiniteSet(S') /\ f' \in [S' -> Nat]
        /\ Working(d, s)' = SumFunction(f')
    BY <2>1 DEF WorkingFacts
  <2> QED
    BY <2>2 DEF Unfilleds
<1>5. \A u \in open : Unfilled(u)' = Unfilled(u)
  BY <1>1, <1>2 DEF Unfilled
<1>6. Unfilled(z)' = Abs(q) /\ r.equity = e
  <2>1. r.filled = 0 /\ r.quantity = Abs(q) /\ r.quantity \in Nat /\ r.equity = e
    BY DEF Places, Record
  <2>2. order'[z].quantity - order'[z].filled = Abs(q)
    BY <1>1, <2>1
  <2> QED
    BY <2>1, <2>2 DEF Unfilled
<1>7. CASE ~(d = e /\ s = r.side)
  <2>1. S' = S /\ S \subseteq open
    BY <1>1, <1>2, <1>6, <1>7 DEF Sided
  <2>2. f' = f
    BY <1>5, <2>1 DEF Unfilleds
  <2> QED
    BY <1>3, <1>4, <1>7, <2>2
<1>8. CASE d = e /\ s = r.side
  <2>1. /\ S' = S \cup {z} /\ z \in S' /\ S' \ {z} = S /\ S \subseteq open
    BY <1>1, <1>2, <1>6, <1>8 DEF Sided
  <2>2. \A u \in S : f[u] = f'[u]
    BY <1>3, <1>4, <1>5, <2>1
  <2>3. f'[z] = Abs(q)
    BY <1>4, <1>6, <2>1
  <2> HIDE DEF f, S
  <2>4. Rest(S', f', z, f)
    BY <1>3, <1>4, <2>1, <2>2 DEF Rest
  <2>5. /\ SumFunction(f') = f'[z] + SumFunction(f)
        /\ SumFunction(f) \in Int /\ f'[z] \in Int
    BY <2>4, TotalOfRest
  <2>6. SumFunction(f') = SumFunction(f) + Abs(q)
    BY <2>3, <2>5
  <2> QED
    BY <1>3, <1>4, <1>8, <2>6
<1> QED
  BY <1>7, <1>8

-----------------------------------------------------------------------------
(* The margin the open orders will use.                                    *)
MarkOf(o) == Least(order[o].limit, price[order[o].equity])
ToUse == [o \in open |-> MarginToUse(o)]

LEMMA MarkType ==
  ASSUME Inv, NEW o \in open
  PROVE  /\ MarkOf(o) \in Nat /\ order[o].equity \in Equities
         /\ order[o].limit \in Nat /\ order[o].held \in Nat
         /\ order[o].side \in {"buy", "sell"}
         /\ price[order[o].equity] \in Nat
<1>1. order[o] \in Record
  BY OpenOrders
<1>2. /\ order[o].equity \in Equities /\ order[o].limit \in Limits
      /\ order[o].held \in Nat /\ order[o].side \in {"buy", "sell"}
  BY <1>1 DEF Record
<1>3. price[order[o].equity] \in Nat
  BY <1>2 DEF Inv, LoopOK
<1>4. order[o].limit \in Nat
  BY <1>2, CubbyAssumption
<1> QED
  BY <1>2, <1>3, <1>4 DEF MarkOf, Least

LEMMA ToUseType ==
  ASSUME Inv
  PROVE  /\ \A o \in open : MarginToUse(o) \in Nat /\ MarginToUse(o) <= order[o].held
         /\ IsFiniteSet(open) /\ ToUse \in [open -> Nat]
         /\ SumFunction(ToUse) \in Nat
<1>1. ASSUME NEW o \in open
      PROVE  MarginToUse(o) \in Nat /\ MarginToUse(o) <= order[o].held
  <2>1. MaintenanceMargin(Unfilled(o), MarkOf(o)) \in Nat
    <3>1. Unfilled(o) \in Int
      BY UnfilledType
    <3> QED
      BY <3>1, MarkType, MaintenanceType
  <2>2. order[o].held \in Nat
    BY MarkType
  <2> QED
    BY <2>1, <2>2 DEF MarginToUse, MarkOf, Least
<1>2. IsFiniteSet(open)
  BY OpenOrders
<1>3. ToUse \in [open -> Nat]
  BY <1>1 DEF ToUse
<1> QED
  BY <1>1, <1>2, <1>3, TotalNat

ToUseFacts ==
  /\ \A o \in open : MarginToUse(o) <= order[o].held
  /\ IsFiniteSet(open) /\ ToUse \in [open -> Nat]

LEMMA ToUseTypes == Inv => ToUseFacts
  BY ToUseType DEF ToUseFacts

LEMMA ToUseWithinHold ==
  ASSUME Inv, HoldInv
  PROVE  SumFunction(ToUse) <= hold
<1>1. /\ ToUse \in [open -> Int] /\ Holds \in [open -> Int]
      /\ IsFiniteSet(open)
  BY ToUseType, HoldsType
<1>2. \A o \in open : ToUse[o] <= Holds[o]
  BY ToUseType DEF ToUse, Holds
<1>3. SumFunction(ToUse) <= SumFunction(Holds)
  BY <1>1, <1>2, TotalMonotonic
<1> QED
  BY <1>3 DEF HoldInv

LEMMA ToUseShrinks ==
  ASSUME Inv, Inv', NEW o, NEW n, NEW r, Shrinks(o, n, r), price' = price
  PROVE  SumFunction(ToUse)'
           <= SumFunction(ToUse) - MarginToUse(o)
              + Least(order[o].held,
                      MaintenanceMargin(Unfilled(o) - n, MarkOf(o)))
<1> DEFINE f == ToUse
           l == Least(order[o].held,
                      MaintenanceMargin(Unfilled(o) - n, MarkOf(o)))
<1>1. /\ DOMAIN order' = DOMAIN order /\ order'[o] = r
      /\ \A u \in DOMAIN order : u # o => order'[u] = order[u]
      /\ n \in Nat /\ Unfilled(o) \in Nat
      /\ n <= Unfilled(o) /\ r.quantity - r.filled = Unfilled(o) - n
      /\ o \in open /\ r.equity = order[o].equity
      /\ r.limit = order[o].limit /\ r.held = order[o].held
  BY Shrunk
<1>2. open \subseteq DOMAIN order
  BY OpenOrders
<1>3. /\ IsFiniteSet(open) /\ f \in [open -> Nat]
      /\ \A u \in open : f[u] = MarginToUse(u)
  BY ToUseType DEF ToUse
<1>4. /\ f' \in [open' -> Nat] /\ \A u \in open' : f'[u] = MarginToUse(u)'
  <2>1. ToUseFacts'
    BY ToUseTypes, PTL
  <2> QED
    BY <2>1 DEF ToUseFacts, ToUse
<1>5. \A u \in open \ {o} : MarginToUse(u)' = MarginToUse(u)
  BY <1>1, <1>2 DEF MarginToUse, Unfilled
<1>6. MarginToUse(o)' = l
  BY <1>1 DEF MarginToUse, Unfilled, MarkOf
<1>7. l \in Nat
  <2>1. MaintenanceMargin(Unfilled(o) - n, MarkOf(o)) \in Nat
    <3>1. MarkOf(o) \in Nat /\ Unfilled(o) - n \in Int
      BY <1>1, MarkType
    <3> QED
      BY <3>1, MaintenanceType
  <2> QED
    BY <1>1, <2>1, MarkType DEF Least
<1>8. f[o] = MarginToUse(o)
  BY <1>1, <1>3
<1> HIDE DEF f, l
<1>9. CASE open' = open
  <2>1. DifferAt(open, f, o, f')
    BY <1>1, <1>3, <1>4, <1>5, <1>9 DEF DifferAt
  <2>2. /\ SumFunction(f') = SumFunction(f) - f[o] + f'[o]
        /\ SumFunction(f) \in Int /\ f[o] \in Int /\ f'[o] \in Int
    BY <2>1, TotalChanged
  <2>3. f'[o] = l
    BY <1>1, <1>4, <1>6, <1>9
  <2>4. SumFunction(f') <= SumFunction(f) - f[o] + l
    BY <2>2, <2>3
  <2> QED
    BY <1>8, <2>4 DEF f, l
<1>10. CASE open' = open \ {o}
  <2>1. Rest(open, f, o, f')
    BY <1>1, <1>3, <1>4, <1>5, <1>10 DEF Rest
  <2>2. /\ SumFunction(f) = f[o] + SumFunction(f')
        /\ SumFunction(f') \in Int /\ f[o] \in Int
    BY <2>1, TotalOfRest
  <2>3. SumFunction(f') <= SumFunction(f) - f[o] + l
    BY <1>7, <2>2
  <2> QED
    BY <1>8, <2>3 DEF f, l
<1> QED
  BY <1>9, <1>10 DEF Shrinks

LEMMA ToUsePlaced ==
  ASSUME Inv, Inv', NEW e \in Equities, NEW q \in Int, NEW limit, NEW r,
         Places(e, q, limit, r), price' = price
  PROVE  /\ SumFunction(ToUse)' <= SumFunction(ToUse) + r.held
         /\ r.held \in Nat
<1> DEFINE f == ToUse
<1>1. PICK z :
        /\ DOMAIN order' = DOMAIN order \cup {z} /\ order'[z] = r
        /\ \A u \in DOMAIN order : order'[u] = order[u]
        /\ z \notin DOMAIN order /\ open' = open \cup {z}
  BY Appended DEF Inv, BookOK, Places
<1>2. open \subseteq DOMAIN order /\ open' \ {z} = open /\ z \in open'
  BY <1>1, OpenOrders
<1>3. f \in [open -> Nat] /\ \A u \in open : f[u] = MarginToUse(u)
  BY ToUseType DEF ToUse
<1>4. /\ IsFiniteSet(open') /\ f' \in [open' -> Nat]
      /\ \A u \in open' : /\ f'[u] = MarginToUse(u)'
                          /\ MarginToUse(u)' <= order'[u].held
  <2>1. ToUseFacts'
    BY ToUseTypes, PTL
  <2> QED
    BY <2>1 DEF ToUseFacts, ToUse
<1>5. \A u \in open : MarginToUse(u)' = MarginToUse(u)
  BY <1>1, <1>2 DEF MarginToUse, Unfilled
<1>6. \A u \in open : f[u] = f'[u]
  BY <1>1, <1>3, <1>4, <1>5
<1> HIDE DEF f
<1>7. Rest(open', f', z, f)
  BY <1>2, <1>3, <1>4, <1>6 DEF Rest
<1>8. /\ SumFunction(f') = f'[z] + SumFunction(f)
      /\ SumFunction(f) \in Int /\ f'[z] \in Int
  BY <1>7, TotalOfRest
<1>9. f'[z] <= r.held /\ r.held \in Nat
  BY <1>1, <1>2, <1>4 DEF Places, Record
<1> QED
  BY <1>8, <1>9 DEF f

-----------------------------------------------------------------------------
(* Why the account can afford what it accepted.  Every open order either   *)
(* holds the margin that what is left of it will use, at the price it will *)
(* fill at, or only takes the position it works on toward zero.            *)

Covered(o) ==
  /\ MaintenanceMargin(Unfilled(o), MarkOf(o)) <= order[o].held
  /\ order[o].side = "sell" => price[order[o].equity] <= order[o].limit

Within(o) ==
  LET e == order[o].equity
  IN /\ order[o].side = "sell" => Working(e, "sell") <= position[e]
     /\ order[o].side = "buy"  => Working(e, "buy") <= -position[e]

BackedInv ==
  /\ plain => \A o \in open : price[order[o].equity] > 0
  /\ plain /\ steady /\ stopped # "division" =>
       \A o \in open : Covered(o) \/ Within(o)

LEMMA BackedInit == Init => BackedInv
  BY DEF Init, BackedInv

(* While prices stand still an open order's price does. *)
LEMMA SteadyPrices ==
  ASSUME Inv, PricesOK, BackedInv, NEW t, NEW E, NEW b, Takes(t, E, b)
  PROVE  /\ plain => \A o \in open : price'[order[o].equity] > 0
         /\ plain /\ steady' =>
              \A o \in open : price'[order[o].equity] = price[order[o].equity]
         /\ steady' => steady
         /\ steady' => \A e \in Equities : \/ price'[e] = price[e]
                                           \/ position[e] = 0
<1>1. \A e \in E : b[e] \in Bars /\ b[e].close \in Nat \ {0}
  BY CubbyAssumption DEF Takes
<1>2. \A e \in Equities : price'[e] = IF e \in E THEN b[e].close ELSE price[e]
  BY DEF Takes
<1>3. steady' => steady /\ \A e \in E : price[e] \in {0, b[e].close}
  BY DEF Takes
<1>4. \A o \in open : order[o].equity \in Equities
  BY MarkType
<1>5. plain => \A o \in open : price[order[o].equity] > 0
  BY DEF BackedInv
<1>6. \A e \in Equities : price[e] \in Nat /\ (position[e] # 0 => price[e] > 0)
  BY DEF Inv, LoopOK, PricesOK
<1>7. ASSUME NEW e \in Equities, price[e] > 0 \/ e \notin E
      PROVE  steady' => price'[e] = price[e]
  BY <1>1, <1>2, <1>3, <1>7
<1>8. ASSUME NEW e \in Equities, price[e] > 0
      PROVE  price'[e] > 0
  BY <1>1, <1>2, <1>8
<1>9. ASSUME steady', NEW e \in Equities
      PROVE  price'[e] = price[e] \/ position[e] = 0
  BY <1>6, <1>7, <1>9
<1> QED
  BY <1>3, <1>4, <1>5, <1>7, <1>8, <1>9

LEMMA NextBarKeepsBacked ==
  ASSUME Inv, PricesOK, BackedInv, NextBar, stopped = "no"
  PROVE  BackedInv'
<1>1. PICK t, E, b : Takes(t, E, b)
  BY NextBarTakes
<1>2. UNCHANGED <<order, open, position, plain, stopped>>
  BY DEF NextBar, book
<1>3. plain => \A o \in open : price'[order[o].equity] > 0
  BY <1>1, SteadyPrices
<1>4. ASSUME plain, steady', NEW o \in open
      PROVE  Covered(o)' \/ Within(o)'
  <2>1. steady /\ price'[order[o].equity] = price[order[o].equity]
    BY <1>1, <1>4, SteadyPrices
  <2>2. Covered(o) \/ Within(o)
    BY <1>4, <2>1 DEF BackedInv
  <2>3. Covered(o)' <=> Covered(o)
    BY <1>2, <2>1 DEF Covered, Unfilled, MarkOf
  <2>4. Within(o)' <=> Within(o)
    BY <1>2 DEF Within, Working, Unfilled
  <2> QED
    BY <2>2, <2>3, <2>4
<1> QED
  BY <1>2, <1>3, <1>4 DEF BackedInv

(* The position in d after n contracts of order o. *)
Moved(o, n, d) ==
  IF order[o].side = "buy" THEN position[d] + n ELSE position[d] - n

(* Filling or ending an order leaves every other backed, and what is left  *)
(* of it.                                                                  *)
LEMMA ShrinksKeepsBacked ==
  ASSUME Inv, Inv', BackedInv, NEW o, NEW n, NEW r, Shrinks(o, n, r),
         UNCHANGED <<price, steady, plain>>, stopped = "no",
         \A d \in Equities :
           position'[d] = IF d = order[o].equity THEN Moved(o, n, d)
                          ELSE position[d]
  PROVE  BackedInv'
<1>1. /\ DOMAIN order' = DOMAIN order /\ order'[o] = r
      /\ \A u \in DOMAIN order : u # o => order'[u] = order[u]
      /\ n \in Nat /\ Unfilled(o) \in Nat
      /\ n <= Unfilled(o) /\ r.quantity - r.filled = Unfilled(o) - n
      /\ o \in open /\ r.equity = order[o].equity /\ r.side = order[o].side
      /\ r.limit = order[o].limit /\ r.held = order[o].held
  BY Shrunk
<1>2. open \subseteq DOMAIN order /\ open' \subseteq open
  BY OpenOrders DEF Shrinks
<1>3. \A u \in open : /\ order'[u].equity = order[u].equity
                      /\ order'[u].side = order[u].side
                      /\ order'[u].limit = order[u].limit
                      /\ order'[u].held = order[u].held
  BY <1>1, <1>2
<1>4. plain => \A u \in open' : price'[order'[u].equity] > 0
  BY <1>2, <1>3 DEF BackedInv
<1>5. ASSUME NEW u \in open', Covered(u) PROVE Covered(u)'
  <2>1. u \in open /\ MarkOf(u)' = MarkOf(u) /\ MarkOf(u) \in Nat
    BY <1>2, <1>3, MarkType DEF MarkOf
  <2>2. /\ Unfilled(u) \in Nat /\ Unfilled(u)' \in Nat
        /\ Unfilled(u)' <= Unfilled(u)
    <3>1. CASE u = o
      BY <1>1, <3>1 DEF Unfilled
    <3>2. CASE u # o
      <4>1. Unfilled(u)' = Unfilled(u)
        BY <1>1, <1>2, <3>2 DEF Unfilled
      <4> QED
        BY <2>1, <4>1, UnfilledType
    <3> QED
      BY <3>1, <3>2
  <2>3. Abs(Unfilled(u)') <= Abs(Unfilled(u))
    BY <2>2 DEF Abs
  <2>4. MaintenanceMargin(Unfilled(u)', MarkOf(u))
          <= MaintenanceMargin(Unfilled(u), MarkOf(u))
    BY <2>1, <2>2, <2>3, MarginGrows
  <2>5. /\ MaintenanceMargin(Unfilled(u)', MarkOf(u)) \in Nat
        /\ MaintenanceMargin(Unfilled(u), MarkOf(u)) \in Nat
        /\ order[u].held \in Nat
    BY <2>1, <2>2, MaintenanceType, MarkType
  <2>6. MaintenanceMargin(Unfilled(u), MarkOf(u))' <= order'[u].held
    <3>1. MaintenanceMargin(Unfilled(u), MarkOf(u))'
            = MaintenanceMargin(Unfilled(u)', MarkOf(u))
      BY <2>1 DEF MaintenanceMargin
    <3>2. MaintenanceMargin(Unfilled(u), MarkOf(u)) <= order[u].held
      BY <1>5 DEF Covered
    <3> QED
      BY <1>3, <2>1, <2>4, <2>5, <3>1, <3>2
  <2> QED
    BY <1>3, <1>5, <2>1, <2>6 DEF Covered
<1>6. ASSUME NEW u \in open', Within(u) PROVE Within(u)'
  <2>1. PICK e \in Equities, s \in {"buy", "sell"} :
          order[u].equity = e /\ order[u].side = s
    BY <1>2, MarkType
  <2>2. order'[u].equity = e /\ order'[u].side = s
    BY <1>2, <1>3, <2>1
  <2>3. position[e] \in Int /\ Working(e, s) \in Int /\ Working(e, s)' \in Int
    <3>1. position[e] \in Int
      BY <2>1 DEF Inv, LoopOK
    <3>2. WorkingFacts /\ WorkingFacts'
      BY WorkingTypes, PTL
    <3> QED
      BY <3>1, <3>2 DEF WorkingFacts
  <2>4. /\ s = "sell" => Working(e, s) <= position[e]
        /\ s = "buy" => Working(e, s) <= -position[e]
    BY <1>6, <2>1 DEF Within
  <2>5. /\ s = "sell" => Working(e, s)' <= position'[e]
        /\ s = "buy" => Working(e, s)' <= -position'[e]
    <3>1. CASE e # order[o].equity
      <4>1. Working(e, s)' = Working(e, s) /\ position'[e] = position[e]
        BY <2>1, <3>1, WorkingShrinks
      <4> QED
        BY <2>4, <4>1
    <3>2. CASE e = order[o].equity /\ s # order[o].side
      <4>1. Working(e, s)' = Working(e, s)
            /\ position'[e] = Moved(o, n, e)
        BY <2>1, <3>2, WorkingShrinks
      <4>2. /\ s = "sell" => Moved(o, n, e) = position[e] + n
            /\ s = "buy" => Moved(o, n, e) = position[e] - n
        <5>1. order[o].side \in {"buy", "sell"}
          BY <1>1, MarkType
        <5> QED
          BY <2>1, <3>2, <5>1 DEF Moved
      <4> QED
        BY <1>1, <2>3, <2>4, <4>1, <4>2
    <3>3. CASE e = order[o].equity /\ s = order[o].side
      <4>1. Working(e, s)' <= Working(e, s) - n
            /\ position'[e] = Moved(o, n, e)
        BY <2>1, <3>3, WorkingShrinks
      <4>2. /\ s = "sell" => Moved(o, n, e) = position[e] - n
            /\ s = "buy" => Moved(o, n, e) = position[e] + n
        BY <3>3 DEF Moved
      <4> QED
        BY <1>1, <2>3, <2>4, <4>1, <4>2
    <3> QED
      BY <3>1, <3>2, <3>3
  <2> QED
    BY <2>2, <2>5 DEF Within
<1>7. plain /\ steady => \A u \in open' : Covered(u)' \/ Within(u)'
  BY <1>2, <1>5, <1>6 DEF BackedInv
<1> QED
  BY <1>4, <1>7 DEF BackedInv

(* An order away from zero holds the margin of what it will fill. *)
LEMMA HeldCovers ==
  ASSUME NEW e, NEW q \in Int, position[e] \in Int, NEW mark \in Nat,
         (q > 0 /\ position[e] >= 0) \/ (q < 0 /\ position[e] <= 0)
  PROVE  MaintenanceMargin(Abs(q), mark) <= MarginNeeded(e, q, mark)
<1> DEFINE a == position[e]
<1>1. /\ Abs(a) \in Nat /\ Abs(q) \in Nat /\ Abs(a + q) = Abs(a) + Abs(q)
      /\ Abs(Abs(q)) = Abs(q) /\ Rate \in Nat
  BY CubbyAssumption DEF Abs
<1> DEFINE old  == MaintenanceMargin(a, mark)
           new  == MaintenanceMargin(a + q, mark)
           more == MaintenanceMargin(Abs(q), mark)
           init == InitialMargin(a + q, mark)
<1>2. new = old + more
  BY <1>1, ProductSplits DEF MaintenanceMargin
<1>3. old \in Nat /\ new \in Nat /\ more \in Nat
  <2>1. a \in Int /\ a + q \in Int /\ Abs(q) \in Int
    BY <1>1
  <2> QED
    BY <2>1, MaintenanceType
<1>4. init \in Int /\ new <= init
  <2>1. 5 * Abs(a + q) * mark \in Int
    <3>1. Abs(a + q) \in Int
      BY <1>1
    <3> QED
      BY <3>1
  <2> QED
    BY <1>3, <2>1 DEF InitialMargin, Most
<1>5. MarginNeeded(e, q, mark) = Most(0, init - old)
  BY DEF MarginNeeded
<1> HIDE DEF old, new, more, init
<1>6. more <= Most(0, init - old)
  BY <1>2, <1>3, <1>4 DEF Most
<1> QED
  BY <1>5, <1>6 DEF more

LEMMA OrderKeepsBacked ==
  ASSUME Inv, Inv', BackedInv, stopped = "no",
         NEW e \in Equities, NEW q \in Quantities, NEW limit \in Limits,
         Order(e, q, limit)
  PROVE  BackedInv'
<1>1. PICK r : Places(e, q, limit, r)
  BY OrderPlaces
<1>2. PICK z :
        /\ DOMAIN order' = DOMAIN order \cup {z} /\ order'[z] = r
        /\ \A u \in DOMAIN order : order'[u] = order[u]
        /\ z \notin DOMAIN order /\ open' = open \cup {z}
  BY <1>1, Appended DEF Inv, BookOK, Places
<1>3. /\ UNCHANGED <<price, position, steady, stopped>>
      /\ plain' = (plain /\ Plain(e, q, limit))
  BY DEF Order
<1>4. /\ r.equity = e /\ r.quantity = Abs(q) /\ r.filled = 0
      /\ r.limit = limit /\ r.held = MarginNeeded(e, q, Least(limit, price[e]))
      /\ r.side = IF q > 0 THEN "buy" ELSE "sell"
  BY <1>1 DEF Places
<1>5. /\ q \in Int \ {0} /\ limit \in Nat /\ price[e] \in Nat
      /\ position[e] \in Int
  BY CubbyAssumption DEF Inv, LoopOK
<1>6. open \subseteq DOMAIN order
  BY OpenOrders
<1>7. \A u \in open : order'[u] = order[u]
  BY <1>2, <1>6
<1>8. ASSUME plain' PROVE \A u \in open' : price'[order'[u].equity] > 0
  <2>1. plain /\ price[e] > 0
    BY <1>3, <1>8 DEF Plain
  <2> QED
    BY <1>2, <1>3, <1>4, <1>7, <2>1 DEF BackedInv
<1>9. ASSUME plain', NEW u \in open, Within(u)
      PROVE  Within(u)'
  <2>1. PICK d \in Equities, s \in {"buy", "sell"} :
          order[u].equity = d /\ order[u].side = s
    BY MarkType
  <2>2. /\ s = "sell" => Working(d, s) <= position[d]
        /\ s = "buy" => Working(d, s) <= -position[d]
    BY <1>9, <2>1 DEF Within
  <2>3. /\ Working(d, s) \in Nat /\ Unfilled(u) \in Nat \ {0}
        /\ Unfilled(u) <= Working(d, s)
    BY <2>1, WorkingType, WorkingAtLeast
  <2>4. /\ s = "sell" => Working(d, s)' <= position[d]
        /\ s = "buy" => Working(d, s)' <= -position[d]
    <3>1. CASE ~(d = e /\ s = r.side)
      <4>1. Working(d, s)' = Working(d, s)
        BY <1>1, <3>1, WorkingPlaced
      <4> QED
        BY <2>2, <4>1
    <3>2. CASE d = e /\ s = r.side
      <4>1. Working(d, s)' = Working(d, s) + Abs(q)
        BY <1>1, <3>2, WorkingPlaced
      <4>2. CASE q < 0
        <5>1. s = "sell" /\ Abs(q) = -q
          BY <1>4, <1>5, <3>2, <4>2 DEF Abs
        <5>2. position[e] > 0
          BY <1>5, <2>2, <2>3, <3>2, <5>1
        <5>3. Working(e, "sell") - q <= position[e]
          <6>1. \/ q > 0 /\ position[e] >= 0
                \/ q < 0 /\ position[e] <= 0 /\ limit >= price[e]
                \/ q < 0 /\ position[e] > 0 /\ Working(e, "sell") - q <= position[e]
                \/ q > 0 /\ position[e] < 0 /\ Working(e, "buy") + q <= -position[e]
            BY <1>3, <1>9 DEF Plain
          <6>2. ~(q > 0) /\ ~(position[e] <= 0)
            BY <1>5, <4>2, <5>2
          <6> QED
            BY <6>1, <6>2
        <5> QED
          BY <1>5, <2>3, <3>2, <4>1, <5>1, <5>3
      <4>3. CASE q > 0
        <5>1. s = "buy" /\ Abs(q) = q
          BY <1>4, <1>5, <3>2, <4>3 DEF Abs
        <5>2. position[e] < 0
          BY <1>5, <2>2, <2>3, <3>2, <5>1
        <5>3. Working(e, "buy") + q <= -position[e]
          <6>1. \/ q > 0 /\ position[e] >= 0
                \/ q < 0 /\ position[e] <= 0 /\ limit >= price[e]
                \/ q < 0 /\ position[e] > 0 /\ Working(e, "sell") - q <= position[e]
                \/ q > 0 /\ position[e] < 0 /\ Working(e, "buy") + q <= -position[e]
            BY <1>3, <1>9 DEF Plain
          <6>2. ~(q < 0) /\ ~(position[e] >= 0)
            BY <1>5, <4>3, <5>2
          <6> QED
            BY <6>1, <6>2
        <5> QED
          BY <1>5, <2>3, <3>2, <4>1, <5>1, <5>3
      <4> QED
        BY <1>5, <4>2, <4>3
    <3> QED
      BY <3>1, <3>2
  <2>5. order'[u].equity = d /\ order'[u].side = s
    BY <1>7, <2>1
  <2> QED
    BY <1>3, <2>4, <2>5 DEF Within
<1>10. ASSUME NEW u \in open, Covered(u) PROVE Covered(u)'
  BY <1>3, <1>7, <1>10 DEF Covered, Unfilled, MarkOf
<1>11. ASSUME plain' PROVE Covered(z)' \/ Within(z)'
  <2>1. Plain(e, q, limit)
    BY <1>3, <1>11
  <2>2. CASE (q > 0 /\ position[e] >= 0)
             \/ (q < 0 /\ position[e] <= 0 /\ price[e] <= limit)
    <3>1. Least(limit, price[e]) \in Nat
      BY <1>5 DEF Least
    <3>2. MaintenanceMargin(Abs(q), Least(limit, price[e])) <= r.held
      BY <1>4, <1>5, <2>2, <3>1, HeldCovers
    <3>3. Unfilled(z)' = Abs(q) /\ MarkOf(z)' = Least(limit, price[e])
      <4>1. Abs(q) - 0 = Abs(q)
        BY <1>5 DEF Abs
      <4> QED
        BY <1>2, <1>3, <1>4, <4>1 DEF Unfilled, MarkOf
    <3>4. MaintenanceMargin(Unfilled(z), MarkOf(z))' <= order'[z].held
      BY <1>2, <3>2, <3>3 DEF MaintenanceMargin
    <3>5. r.side = "sell" => price[e] <= limit
      BY <1>4, <1>5, <2>2
    <3> QED
      BY <1>2, <1>3, <1>4, <3>4, <3>5 DEF Covered
  <2>3. CASE q < 0 /\ position[e] > 0 /\ Working(e, "sell") - q <= position[e]
    <3>1. r.side = "sell" /\ Abs(q) = -q
      BY <1>4, <1>5, <2>3 DEF Abs
    <3>2. Working(e, "sell")' = Working(e, "sell") + Abs(q)
          /\ Working(e, "sell") \in Nat
      BY <1>1, <3>1, WorkingPlaced, WorkingType
    <3>3. Working(e, "sell")' <= position[e]
      BY <1>5, <2>3, <3>1, <3>2
    <3> QED
      BY <1>2, <1>3, <1>4, <3>1, <3>3 DEF Within
  <2>4. CASE q > 0 /\ position[e] < 0 /\ Working(e, "buy") + q <= -position[e]
    <3>1. r.side = "buy" /\ Abs(q) = q
      BY <1>4, <1>5, <2>4 DEF Abs
    <3>2. Working(e, "buy")' = Working(e, "buy") + Abs(q)
          /\ Working(e, "buy") \in Nat
      BY <1>1, <3>1, WorkingPlaced, WorkingType
    <3>3. Working(e, "buy")' <= -position[e]
      BY <1>5, <2>4, <3>1, <3>2
    <3> QED
      BY <1>2, <1>3, <1>4, <3>1, <3>3 DEF Within
  <2> QED
    BY <1>5, <2>1, <2>2, <2>3, <2>4 DEF Plain
<1>12. plain' /\ steady' => \A u \in open' : Covered(u)' \/ Within(u)'
  BY <1>2, <1>3, <1>9, <1>10, <1>11 DEF BackedInv
<1> QED
  BY <1>8, <1>12 DEF BackedInv

LEMMA EndsShrinks ==
  ASSUME Inv, NEW o \in open, NEW r, Ends(o, r)
  PROVE  /\ Shrinks(o, 0, r)
         /\ \A d \in Equities :
              position'[d] = IF d = order[o].equity THEN Moved(o, 0, d)
                             ELSE position[d]
<1>1. /\ SameTerms(o, r) /\ r.filled = order[o].filled
      /\ order' = [order EXCEPT ![o] = r] /\ open' = open \ {o}
      /\ position' = position
  BY DEF Ends, Close
<1>2. order[o] \in Record /\ order[o].filled < order[o].quantity
  BY OpenOrders DEF Inv, BookOK
<1>3. /\ order[o].filled \in Nat /\ order[o].quantity \in Nat
      /\ r.quantity = order[o].quantity
  BY <1>1, <1>2 DEF Record, SameTerms
<1>4. r.filled = order[o].filled + 0 /\ r.filled <= r.quantity /\ 0 \in Nat
  BY <1>1, <1>2, <1>3
<1>5. \A d \in Equities : position[d] \in Int
  BY DEF Inv, LoopOK
<1>6. \A d \in Equities : Moved(o, 0, d) = position[d]
  BY <1>5 DEF Moved
<1> QED
  BY <1>1, <1>4, <1>5, <1>6 DEF Shrinks

LEMMA FillsShrinks ==
  ASSUME Inv, NEW o \in todo, NEW n, NEW r, Fills(o, n, r), stopped' # "division"
  PROVE  /\ Shrinks(o, n, r) /\ stopped' = stopped
         /\ \A d \in Equities :
              position'[d] = IF d = order[o].equity THEN Moved(o, n, d)
                             ELSE position[d]
<1>1. o \in open
  BY ListedOrder
<1>2. /\ SameTerms(o, r) /\ r.filled = order[o].filled + n
      /\ n \in Nat /\ n <= order[o].quantity - order[o].filled
      /\ order' = [order EXCEPT ![o] = r] /\ stopped' = stopped
      /\ open' = open \/ open' = open \ {o}
      /\ position' = [position EXCEPT ![order[o].equity] = @ + Signed(o, n)]
  BY DEF Fills
<1>3. order[o] \in Record /\ r.quantity = order[o].quantity
  BY <1>1, <1>2, OpenOrders DEF SameTerms
<1>4. order[o].filled \in Nat /\ order[o].quantity \in Nat
  BY <1>3 DEF Record
<1>5. r.filled <= r.quantity
  BY <1>2, <1>3, <1>4
<1>6. position \in [Equities -> Int]
  BY DEF Inv, LoopOK
<1>7. \A d \in Equities : position[d] + Signed(o, n) = Moved(o, n, d)
  BY <1>2, <1>6 DEF Signed, Moved
<1> QED
  BY <1>1, <1>2, <1>5, <1>6, <1>7 DEF Shrinks

LEMMA NextKeepsBacked ==
  ASSUME Inv, Inv', PricesOK, BackedInv, [Next]_vars
  PROVE  BackedInv'
<1>1. CASE /\ UNCHANGED <<order, open, position, price, steady, plain>>
           /\ stopped' # "division" => stopped # "division"
  <2>1. \A o \in open : (Covered(o)' <=> Covered(o)) /\ (Within(o)' <=> Within(o))
    BY <1>1 DEF Covered, Unfilled, MarkOf, Within, Working
  <2> QED
    BY <1>1, <2>1 DEF BackedInv
<1>2. CASE stopped = "no" /\ NextBar
  BY <1>2, NextBarKeepsBacked
<1>3. CASE stopped = "no" /\ \E o \in todo : SimulateFill(o)
  <2>1. PICK o \in todo : SimulateFill(o)
    BY <1>3
  <2>2. UNCHANGED <<price, steady, plain>> /\ o \in open
    BY <2>1, ListedOrder DEF SimulateFill, history
  <2>3. CASE UNCHANGED <<position, cash, book, stopped>>
    BY <1>1, <2>2, <2>3 DEF book
  <2>4. CASE \E r : Ends(o, r)
    BY <1>3, <2>2, <2>4, EndsShrinks, ShrinksKeepsBacked
  <2>5. CASE \E n, r : Fills(o, n, r)
    <3>1. PICK n, r : Fills(o, n, r)
      BY <2>5
    <3>2. CASE stopped' = "division"
      <4>1. UNCHANGED <<order, open>>
        BY <1>3, <3>1, <3>2 DEF Fills, book
      <4> QED
        BY <2>2, <3>2, <4>1 DEF BackedInv
    <3>3. CASE stopped' # "division"
      BY <1>3, <2>2, <3>1, <3>3, FillsShrinks, ShrinksKeepsBacked
    <3> QED
      BY <3>2, <3>3
  <2> QED
    BY <2>1, <2>3, <2>4, <2>5, FillCases
<1>4. CASE stopped = "no" /\ \E o \in DOMAIN order : Cancel(o)
  <2>1. PICK o \in DOMAIN order : Cancel(o)
    BY <1>4
  <2>2. UNCHANGED <<price, steady, plain>>
    BY <2>1 DEF Cancel, history
  <2>3. o \in open /\ \E r : Ends(o, r)
    BY <2>1, CancelEnds
  <2> QED
    BY <1>4, <2>2, <2>3, EndsShrinks, ShrinksKeepsBacked
<1>5. CASE stopped = "no" /\ \E e \in Equities, q \in Quantities, limit \in Limits :
             Order(e, q, limit)
  BY <1>5, OrderKeepsBacked
<1>6. CASE stopped = "no" /\ (CheckMarketClose \/ EndOfBar)
  <2>1. UNCHANGED <<order, open, position, price, steady, plain>>
    BY <1>6 DEF CheckMarketClose, EndOfBar, book, history
  <2> QED
    BY <1>1, <1>6, <2>1
<1>7. CASE UNCHANGED vars
  BY <1>1, <1>7 DEF vars, book, history
<1> QED
  BY <1>2, <1>3, <1>4, <1>5, <1>6, <1>7 DEF Next

-----------------------------------------------------------------------------
(* The first figures: until the close of the first day is passed on, the   *)
(* buying power is the one the account began with.                         *)

FiguresInv ==
  /\ closed => now >= 0
  /\ now < DayLength => \/ closed /\ now >= CloseAt
                        \/ lastEquity = Cash0 /\ lastMaint = 0
  /\ FirstFigures => dtbp = Multiplier * Cash0

LEMMA FirstDay ==
  ASSUME NEW t \in Int, t >= -1
  PROVE  /\ Day(t) \in Int /\ (Day(t) <= 0 <=> t < DayLength)
         /\ \A s \in Int : s <= t => Day(s) <= Day(t)
         /\ t >= 0 /\ t < DayLength => t % DayLength = t
         /\ DayLength \in Nat \ {0} /\ CloseAt \in Nat
<1>1. DayLength \in Nat \ {0} /\ CloseAt \in Nat
  BY CubbyAssumption
<1>2. Day(t) \in Int /\ (t < DayLength => Day(t) <= 0)
  BY <1>1 DEF Day
<1>3. Day(t) <= 0 => t < DayLength
  BY <1>1 DEF Day
<1>4. \A s \in Int : s <= t => Day(s) <= Day(t)
  BY <1>1 DEF Day
<1>5. t >= 0 /\ t < DayLength => t % DayLength = t
  BY <1>1
<1> QED
  BY <1>1, <1>2, <1>3, <1>4, <1>5

LEMMA FiguresInit == Init => FiguresInv
  BY DEF Init, FiguresInv

(* The clock's part of a minute's bars. *)
Opened(t) ==
  LET wasOpened == opened /\ ~(Day(t) # Day(now))
  IN /\ t \in now + 1 .. Horizon - 1 /\ now' = t
     /\ opened' = (wasOpened \/ Opens(t, wasOpened))
     /\ closed' = (closed /\ ~(Day(t) # Day(now)))
     /\ dtbp' = IF Opens(t, wasOpened)
                THEN Multiplier * (lastEquity - lastMaint) ELSE dtbp
     /\ UNCHANGED <<lastEquity, lastMaint>>

LEMMA NextBarKeepsFigures ==
  ASSUME Inv, AccountOK, FiguresInv, NextBar
  PROVE  /\ FiguresInv'
         /\ FirstFigures' => FirstFigures /\ dtbp' = dtbp
<1>1. PICK t : Opened(t)
  BY DEF NextBar, Opened
<1>2. /\ now \in Int /\ now >= -1 /\ t \in Int /\ t >= 0 /\ now < t
      /\ now' = t /\ UNCHANGED <<lastEquity, lastMaint>>
  <2>1. now \in -1 .. Horizon - 1 /\ Horizon \in Nat
    BY CubbyAssumption DEF Inv, LoopOK
  <2>2. t \in now + 1 .. Horizon - 1 /\ now' = t
    BY <1>1 DEF Opened
  <2>3. UNCHANGED <<lastEquity, lastMaint>>
    BY <1>1 DEF Opened
  <2>4. now \in Int /\ now >= -1 /\ t \in Int /\ t >= 0 /\ now < t
    BY <2>1, <2>2
  <2> QED
    BY <2>2, <2>3, <2>4
<1>3. /\ Day(now) \in Int /\ Day(t) \in Int /\ Day(now) <= Day(t)
      /\ (Day(t) <= 0 <=> t < DayLength) /\ (Day(now) <= 0 <=> now < DayLength)
      /\ t < DayLength => t % DayLength = t
      /\ CloseAt \in Nat
  BY <1>2, FirstDay
<1>4. /\ opened' => (Day(t) = Day(now) /\ opened)
                    \/ Opens(t, opened /\ Day(t) = Day(now))
      /\ Day(t) = Day(now) /\ opened => opened'
      /\ Opens(t, opened /\ Day(t) = Day(now)) => opened'
      /\ closed' => closed /\ Day(t) = Day(now)
      /\ closed /\ Day(t) = Day(now) => closed'
      /\ opened' \in BOOLEAN
      /\ dtbp' = IF Opens(t, opened /\ Day(t) = Day(now))
                 THEN Multiplier * (lastEquity - lastMaint) ELSE dtbp
  BY <1>1 DEF Opened
<1>5. ASSUME FirstFigures' PROVE FirstFigures
  <2>1. Day(t) <= 0 \/ (Day(t) = 1 /\ ~opened')
    BY <1>2, <1>5 DEF FirstFigures, Day
  <2>2. Day(now) <= 0 \/ (Day(now) = 1 /\ Day(t) = Day(now))
    BY <1>3, <2>1
  <2> QED
    BY <1>3, <1>4, <2>1, <2>2 DEF FirstFigures
<1>6. ASSUME FirstFigures' PROVE dtbp' = dtbp
  <2>1. dtbp = Multiplier * Cash0
    BY <1>5, <1>6 DEF FiguresInv
  <2>2. CASE Opens(t, opened /\ Day(t) = Day(now))
    <3>1. opened' /\ t % DayLength < CloseAt
      BY <1>4, <2>2 DEF Opens
    <3>2. Day(t) <= 0
      BY <1>2, <1>6, <3>1 DEF FirstFigures, Day
    <3>3. t < DayLength /\ t < CloseAt /\ now < DayLength /\ ~(now >= CloseAt)
      BY <1>2, <1>3, <3>1, <3>2
    <3>4. lastEquity = Cash0 /\ lastMaint = 0
      BY <3>3 DEF FiguresInv
    <3>5. Cash0 - 0 = Cash0
      BY CubbyAssumption
    <3> QED
      BY <1>4, <2>1, <2>2, <3>4, <3>5
  <2>3. CASE ~Opens(t, opened /\ Day(t) = Day(now))
    BY <1>4, <2>3
  <2> QED
    BY <2>2, <2>3
<1>7. closed' => now' >= 0
  BY <1>2
<1>8. ASSUME now' < DayLength
      PROVE  \/ closed' /\ now' >= CloseAt
             \/ lastEquity' = Cash0 /\ lastMaint' = 0
  <2>1. t < DayLength /\ now < DayLength
    BY <1>2, <1>3, <1>8
  <2>2. CASE closed /\ now >= CloseAt
    <3>1. now >= 0 /\ Day(now) >= 0 /\ Day(t) <= 0
      <4>1. now >= 0
        BY <2>2 DEF FiguresInv
      <4>2. Day(0) <= Day(now)
        BY <1>2, <4>1, FirstDay
      <4>3. Day(0) = 0
        BY <1>2, FirstDay DEF Day
      <4> QED
        BY <1>2, <1>3, <2>1, <4>1, <4>2, <4>3
    <3>2. Day(t) = Day(now)
      BY <1>3, <3>1
    <3> QED
      BY <1>2, <1>3, <1>4, <2>2, <3>2
  <2>3. CASE lastEquity = Cash0 /\ lastMaint = 0
    BY <1>2, <2>3
  <2> QED
    BY <2>1, <2>2, <2>3 DEF FiguresInv
<1>9. FirstFigures' => dtbp' = Multiplier * Cash0
  BY <1>5, <1>6 DEF FiguresInv
<1> QED
  BY <1>5, <1>6, <1>7, <1>8, <1>9 DEF FiguresInv

LEMMA NextKeepsFigures ==
  ASSUME Inv, AccountOK, FiguresInv, [Next]_vars
  PROVE  FiguresInv'
<1>1. CASE UNCHANGED <<now, opened, closed, lastEquity, lastMaint, dtbp>>
  BY <1>1 DEF FiguresInv, FirstFigures, Day
<1>2. CASE NextBar
  BY <1>2, NextBarKeepsFigures
<1>3. CASE CheckMarketClose
  <2>1. at = "fill" /\ UNCHANGED <<now, opened, dtbp>>
    BY <1>3 DEF CheckMarketClose
  <2>2. now >= 0 /\ now \in Int /\ now >= -1
    <3>1. now \in -1 .. Horizon - 1 /\ Horizon \in Nat
      BY CubbyAssumption DEF Inv, LoopOK
    <3>2. at # "next"
      BY <2>1
    <3>3. now >= 0
      BY <3>2 DEF Inv, LoopOK
    <3> QED
      BY <3>1, <3>3
  <2>3. FirstFigures' => FirstFigures
    BY <2>1 DEF FirstFigures, Day
  <2>4. CASE UNCHANGED <<closed, lastEquity, lastMaint>>
    BY <1>1, <2>1, <2>4
  <2>5. CASE closed' = TRUE /\ ~(TimeOfDay < CloseAt)
    <3>1. now < DayLength => now >= CloseAt
      <4>1. now < DayLength => now % DayLength = now
        BY <2>2, FirstDay
      <4>2. CloseAt \in Nat
        BY <2>2, FirstDay
      <4>3. now < DayLength => ~(now < CloseAt)
        BY <2>5, <4>1 DEF TimeOfDay
      <4> QED
        BY <2>2, <4>2, <4>3
    <3> QED
      BY <2>1, <2>2, <2>3, <2>5, <3>1 DEF FiguresInv
  <2> QED
    BY <1>3, <2>4, <2>5 DEF CheckMarketClose
<1>4. CASE \E o \in todo : SimulateFill(o)
  BY <1>1, <1>4 DEF SimulateFill
<1>5. CASE \/ EndOfBar \/ \E o \in DOMAIN order : Cancel(o)
           \/ \E e \in Equities, q \in Quantities, limit \in Limits :
                Order(e, q, limit)
  <2>1. UNCHANGED <<now, opened, closed, lastEquity, lastMaint, dtbp>>
    BY <1>5 DEF EndOfBar, Cancel, Order, clock, account
  <2> QED
    BY <1>1, <2>1
<1>6. CASE UNCHANGED vars
  BY <1>1, <1>6 DEF vars, clock, account
<1> QED
  BY <1>2, <1>3, <1>4, <1>5, <1>6 DEF Next

-----------------------------------------------------------------------------
(* The buying power: a fill uses no more margin than its order set aside.  *)

BuyingInv ==
  plain /\ steady /\ FirstFigures => MarginUsed + SumFunction(ToUse) <= dtbp

LEMMA BuyingInit == Init => BuyingInv
<1> SUFFICES ASSUME Init PROVE MarginUsed + SumFunction(ToUse) <= dtbp
  BY DEF BuyingInv
<1>1. SumFunction(ToUse) = 0
  <2>1. open = {} /\ IsFiniteSet(open)
    BY FS_EmptySet DEF Init
  <2>2. DOMAIN ToUse = open /\ \A o \in open : ToUse[o] = 0
    BY <2>1 DEF ToUse
  <2> QED
    BY <2>1, <2>2, TotalZero
<1>2. MarginUsed = 0
  <2>1. \A e \in Equities : MaintenanceMargin(position[e], price[e]) = 0
    <3>1. Rate \in Nat /\ Abs(0) = 0
      BY CubbyAssumption DEF Abs
    <3>2. Rate * 0 * 0 = 0
      BY <3>1
    <3> QED
      BY <3>1, <3>2 DEF Init, MaintenanceMargin
  <2>2. DOMAIN Used = Equities /\ \A e \in Equities : Used[e] = 0
    BY <2>1 DEF Used
  <2>3. SumFunction(Used) = 0
    BY <2>2, TotalZero, CubbyAssumption
  <2> QED
    BY <2>3 DEF MarginUsed, Used
<1>3. dtbp \in Nat
  BY AccountInit DEF AccountOK
<1> QED
  BY <1>1, <1>2, <1>3

(* As a formula, for the states before and after a step. *)
UsedFacts == MarginUsed \in Nat

LEMMA UsedTypes == Inv => UsedFacts
  BY UsedType DEF UsedFacts

LEMMA UsedSame ==
  ASSUME Inv, position' = position,
         \A e \in Equities : price'[e] = price[e]
                             \/ (position[e] = 0 /\ price'[e] \in Nat)
  PROVE  MarginUsed' = MarginUsed
<1>1. ASSUME NEW e \in Equities
      PROVE  MaintenanceMargin(position[e], price'[e])
               = MaintenanceMargin(position[e], price[e])
  <2>1. CASE price'[e] = price[e]
    BY <2>1
  <2>2. CASE position[e] = 0 /\ price'[e] \in Nat
    <3>1. Rate \in Nat /\ Abs(0) = 0 /\ price[e] \in Nat
      <4>1. price[e] \in Nat
        BY DEF Inv, LoopOK
      <4> QED
        BY <4>1, CubbyAssumption DEF Abs
    <3>2. Rate * 0 * price[e] = 0 /\ Rate * 0 * price'[e] = 0
      BY <2>2, <3>1
    <3> QED
      BY <2>2, <3>1, <3>2 DEF MaintenanceMargin
  <2> QED
    BY <2>1, <2>2
<1>2. Used' = Used
  BY <1>1 DEF Used, MaintenanceMargin
<1> QED
  BY <1>2 DEF Used, MarginUsed

LEMMA UsedChanged ==
  ASSUME Inv, Inv', price' = price, NEW e \in Equities,
         \A d \in Equities \ {e} : position'[d] = position[d]
  PROVE  MarginUsed' = MarginUsed - MaintenanceMargin(position[e], price[e])
                       + MaintenanceMargin(position'[e], price[e])
<1>1. \A d \in Equities : /\ position[d] \in Int /\ position'[d] \in Int
                          /\ price[d] \in Nat
  BY DEF Inv, LoopOK
<1>2. IsFiniteSet(Equities) /\ Used \in [Equities -> Int]
      /\ \A d \in Equities : Used[d] = MaintenanceMargin(position[d], price[d])
  BY UsedType, CubbyAssumption DEF Used
<1>3. \A d \in Equities : MaintenanceMargin(position'[d], price[d]) \in Nat
  BY <1>1, MaintenanceType
<1>4. /\ Used' \in [Equities -> Int]
      /\ \A d \in Equities : Used'[d] = MaintenanceMargin(position'[d], price[d])
  BY <1>3 DEF Used, MaintenanceMargin
<1>5. \A d \in Equities \ {e} : Used'[d] = Used[d]
  BY <1>2, <1>4
<1>6. DifferAt(Equities, Used, e, Used')
  BY <1>2, <1>4, <1>5 DEF DifferAt
<1>7. SumFunction(Used') = SumFunction(Used) - Used[e] + Used'[e]
  BY <1>6, TotalChanged
<1> QED
  BY <1>2, <1>4, <1>7 DEF Used, MarginUsed

(* One fill.  When it takes a position toward zero less margin is used;    *)
(* otherwise the order held what the fill uses.                            *)
LEMMA FillIsBacked ==
  ASSUME Inv, Inv', PricesOK, AccountOK, at = "fill", steady, price' = price,
         NEW o \in todo, NEW n, NEW r, Fills(o, n, r), stopped' # "division",
         Covered(o) \/ Within(o)
  PROVE  MarginUsed' + SumFunction(ToUse)' <= MarginUsed + SumFunction(ToUse)
<1> DEFINE e == order[o].equity
<1>1. PICK p, a, u, h, m, s :
        /\ p = price[e] /\ a = position[e] /\ u = Unfilled(o)
        /\ h = order[o].held /\ m = MarkOf(o) /\ s = order[o].side
  OBVIOUS
<1>2. o \in open /\ Shrinks(o, n, r)
  BY ListedOrder, FillsShrinks
<1>3. /\ e \in Equities /\ p \in Nat /\ a \in Int /\ h \in Nat /\ m \in Nat
      /\ s \in {"buy", "sell"}
  BY <1>1, <1>2, MarkType DEF Inv, LoopOK
<1>4. u \in Nat /\ n \in Nat /\ n <= u
  BY <1>1, <1>2, Shrunk
<1>5. PICK b : /\ b = position'[e] /\ b = IF s = "buy" THEN a + n ELSE a - n
               /\ \A d \in Equities \ {e} : position'[d] = position[d]
  BY <1>1, <1>3, FillsShrinks DEF Moved
<1>6. b \in Int
  BY <1>3, <1>4, <1>5
<1>7. MarginUsed' = MarginUsed - MaintenanceMargin(a, p) + MaintenanceMargin(b, p)
  BY <1>1, <1>3, <1>5, UsedChanged
<1>8. SumFunction(ToUse)' <= SumFunction(ToUse) - Least(h, MaintenanceMargin(u, m))
                             + Least(h, MaintenanceMargin(u - n, m))
  <2>1. MarginToUse(o) = Least(h, MaintenanceMargin(u, m))
    BY <1>1 DEF MarginToUse, MarkOf
  <2> QED
    BY <1>1, <1>2, <2>1, ToUseShrinks
<1>9. /\ MaintenanceMargin(a, p) \in Nat /\ MaintenanceMargin(b, p) \in Nat
      /\ MaintenanceMargin(u, m) \in Nat /\ MaintenanceMargin(u - n, m) \in Nat
      /\ MaintenanceMargin(n, p) \in Nat
      /\ MarginUsed \in Nat /\ SumFunction(ToUse) \in Nat
      /\ SumFunction(ToUse)' \in Nat
  <2>1. u - n \in Int /\ u \in Int /\ n \in Int
    BY <1>4
  <2>2. SumFunction(ToUse)' \in Nat
    <3>1. ToUseFacts'
      BY ToUseTypes, PTL
    <3> QED
      BY <3>1, TotalNat DEF ToUseFacts
  <2> QED
    BY <1>3, <1>6, <2>1, <2>2, MaintenanceType, UsedType, ToUseType
<1>10. MaintenanceMargin(u - n, m) <= MaintenanceMargin(u, m)
  <2>1. Abs(u - n) <= Abs(u) /\ u - n \in Int /\ u \in Int
    BY <1>4 DEF Abs
  <2> QED
    BY <1>3, <2>1, MarginGrows
<1>11. CASE Covered(o)
  <2>1. MaintenanceMargin(u, m) <= h /\ (s = "sell" => p <= order[o].limit)
    BY <1>1, <1>11 DEF Covered
  <2>2. m = p
    <3>1. FillPrice(o) = p
      BY <1>1, FillsAtPrice
    <3>2. s = "buy" => p <= order[o].limit
      BY <1>1, <3>1 DEF Fills, Crosses
    <3>3. p <= order[o].limit /\ order[o].limit \in Nat
      BY <1>2, <1>3, <2>1, <3>2, MarkType
    <3> QED
      BY <1>1, <1>3, <3>3 DEF MarkOf, Least
  <2>3. MaintenanceMargin(u, m) = MaintenanceMargin(u - n, m) + MaintenanceMargin(n, p)
    <3>1. u - n \in Nat /\ (u - n) + n = u
      BY <1>4
    <3> QED
      BY <1>3, <1>4, <2>2, <3>1, MarginSplits
  <2>4. MaintenanceMargin(b, p) <= MaintenanceMargin(a, p) + MaintenanceMargin(n, p)
    <3>1. CASE s = "buy"
      BY <1>3, <1>4, <1>5, <3>1, MarginTriangle
    <3>2. CASE s = "sell"
      <4>1. -n \in Int /\ b = a + (-n) /\ Abs(-n) = Abs(n)
        BY <1>3, <1>4, <1>5, <3>2 DEF Abs
      <4>2. MaintenanceMargin(-n, p) = MaintenanceMargin(n, p)
        BY <4>1 DEF MaintenanceMargin
      <4> QED
        BY <1>3, <4>1, <4>2, MarginTriangle
    <3> QED
      BY <1>3, <3>1, <3>2
  <2>5. /\ Least(h, MaintenanceMargin(u, m)) = MaintenanceMargin(u, m)
        /\ Least(h, MaintenanceMargin(u - n, m)) <= MaintenanceMargin(u - n, m)
        /\ Least(h, MaintenanceMargin(u - n, m)) \in Nat
    BY <1>3, <1>9, <1>10, <2>1 DEF Least
  <2> QED
    BY <1>7, <1>8, <1>9, <2>3, <2>4, <2>5
<1>12. CASE Within(o)
  <2>1. /\ s = "sell" => u <= a
        /\ s = "buy" => u <= -a
    <3>1. u <= Working(e, s) /\ Working(e, s) \in Nat
      BY <1>1, <1>2, WorkingAtLeast, WorkingType
    <3>2. /\ s = "sell" => Working(e, s) <= a
          /\ s = "buy" => Working(e, s) <= -a
      BY <1>1, <1>12 DEF Within
    <3> QED
      BY <1>3, <1>4, <3>1, <3>2
  <2>2. Abs(b) <= Abs(a)
    BY <1>3, <1>4, <1>5, <2>1 DEF Abs
  <2>3. MaintenanceMargin(b, p) <= MaintenanceMargin(a, p)
    BY <1>3, <1>6, <2>2, MarginGrows
  <2>4. /\ Least(h, MaintenanceMargin(u - n, m)) <= Least(h, MaintenanceMargin(u, m))
        /\ Least(h, MaintenanceMargin(u - n, m)) \in Nat
        /\ Least(h, MaintenanceMargin(u, m)) \in Nat
    BY <1>3, <1>9, <1>10 DEF Least
  <2> QED
    BY <1>7, <1>8, <1>9, <2>3, <2>4
<1> QED
  BY <1>11, <1>12

(* A covering fill that ends the process in a division uses less, too. *)
LEMMA DivisionIsBacked ==
  ASSUME Inv, Inv', price' = price, NEW o \in todo, NEW n, NEW r, Fills(o, n, r),
         stopped = "no", stopped' = "division"
  PROVE  MarginUsed' <= MarginUsed /\ ToUse' = ToUse
<1> DEFINE e == order[o].equity
<1>1. /\ Divides(o) /\ n = FillQuantity(o) /\ UNCHANGED book
      /\ n \in Nat
      /\ position' = [position EXCEPT ![e] = @ + Signed(o, n)]
  BY DEF Fills
<1>2. order[o].side = "buy" /\ position[e] + n = 0
  BY <1>1 DEF Divides
<1>3. e \in Equities /\ position \in [Equities -> Int] /\ price \in [Equities -> Nat]
  BY ListedOrder, MarkType DEF Inv, LoopOK
<1>4. /\ position'[e] = 0 /\ \A d \in Equities \ {e} : position'[d] = position[d]
  BY <1>1, <1>2, <1>3 DEF Signed
<1>5. MarginUsed' = MarginUsed - MaintenanceMargin(position[e], price[e])
                    + MaintenanceMargin(0, price[e])
  BY <1>3, <1>4, UsedChanged
<1>6. position[e] \in Int /\ price[e] \in Nat
  BY <1>3
<1>7. MaintenanceMargin(0, price[e]) <= MaintenanceMargin(position[e], price[e])
  <2>1. Abs(0) <= Abs(position[e]) /\ 0 \in Int
    BY <1>6 DEF Abs
  <2> QED
    BY <1>6, <2>1, MarginGrows
<1>8. /\ MaintenanceMargin(0, price[e]) \in Nat /\ MarginUsed \in Nat
      /\ MaintenanceMargin(position[e], price[e]) \in Nat
  <2>1. 0 \in Int
    OBVIOUS
  <2>2. MaintenanceMargin(0, price[e]) \in Nat
    BY <1>6, <2>1, MaintenanceType
  <2> QED
    BY <1>6, <2>2, MaintenanceType, UsedType
<1>9. MarginUsed' <= MarginUsed
  <2>1. ASSUME NEW x \in Nat, NEW y \in Nat, NEW z \in Nat, x <= y
        PROVE  z - y + x <= z
    BY <2>1
  <2> QED
    BY <1>5, <1>7, <1>8, <2>1
<1>10. ToUse' = ToUse
  <2>1. UNCHANGED <<order, open, price>>
    BY <1>1 DEF book
  <2> QED
    BY <2>1 DEF ToUse, MarginToUse, Unfilled
<1> QED
  BY <1>9, <1>10

LEMMA EndIsBacked ==
  ASSUME Inv, Inv', UNCHANGED <<price>>, NEW o \in open, NEW r, Ends(o, r)
  PROVE  MarginUsed' = MarginUsed /\ SumFunction(ToUse)' <= SumFunction(ToUse)
<1>1. Shrinks(o, 0, r) /\ position' = position
  BY EndsShrinks DEF Ends
<1>2. MarginUsed' = MarginUsed
  BY <1>1, UsedSame
<1>3. /\ Unfilled(o) \in Nat /\ Unfilled(o) - 0 = Unfilled(o)
  BY UnfilledType
<1>4. SumFunction(ToUse)' <= SumFunction(ToUse) - MarginToUse(o)
           + Least(order[o].held, MaintenanceMargin(Unfilled(o) - 0, MarkOf(o)))
  BY <1>1, ToUseShrinks
<1>5. Least(order[o].held, MaintenanceMargin(Unfilled(o) - 0, MarkOf(o)))
        = MarginToUse(o)
  BY <1>3 DEF MarginToUse, MarkOf
<1>6. MarginToUse(o) \in Nat /\ SumFunction(ToUse) \in Nat
  BY ToUseType
<1>7. SumFunction(ToUse) - MarginToUse(o) + MarginToUse(o) = SumFunction(ToUse)
  BY <1>6
<1> QED
  BY <1>2, <1>4, <1>5, <1>7

LEMMA OrderIsAffordable ==
  ASSUME Inv, Inv', HoldInv, AccountOK, BuyingInv, plain', steady, FirstFigures,
         NEW e \in Equities, NEW q \in Quantities, NEW limit \in Limits,
         Order(e, q, limit)
  PROVE  MarginUsed' + SumFunction(ToUse)' <= dtbp'
<1>1. PICK r : Places(e, q, limit, r)
  BY OrderPlaces
<1>2. /\ UNCHANGED <<price, position, dtbp>> /\ plain
      /\ Affordable(e, q, Least(limit, price[e]))
  BY DEF Order, account
<1>3. r.held = MarginNeeded(e, q, Least(limit, price[e]))
  BY <1>1 DEF Places
<1>4. r.held > 0 => r.held <= dtbp - MarginUsed - hold
  BY <1>2, <1>3 DEF Affordable
<1>5. q \in Int
  BY CubbyAssumption
<1>6. SumFunction(ToUse)' <= SumFunction(ToUse) + r.held /\ r.held \in Nat
  BY <1>1, <1>2, <1>5, ToUsePlaced
<1>7. MarginUsed' = MarginUsed
  BY <1>2, UsedSame
<1>8. SumFunction(ToUse) <= hold /\ SumFunction(ToUse) \in Nat
      /\ MarginUsed \in Nat /\ hold \in Nat /\ dtbp \in Int
      /\ SumFunction(ToUse)' \in Nat
  <2>1. SumFunction(ToUse)' \in Nat
    <3>1. ToUseFacts'
      BY ToUseTypes, PTL
    <3> QED
      BY <3>1, TotalNat DEF ToUseFacts
  <2>2. hold \in Nat
    BY HoldsType DEF HoldInv
  <2>3. dtbp \in Nat
    BY DEF AccountOK
  <2> QED
    BY <2>1, <2>2, <2>3, ToUseType, UsedType, ToUseWithinHold
<1>9. MarginUsed + SumFunction(ToUse) <= dtbp
  BY <1>2 DEF BuyingInv
<1> QED
  BY <1>2, <1>4, <1>6, <1>7, <1>8, <1>9

LEMMA NextKeepsBuying ==
  ASSUME Inv, Inv', HoldInv, AccountOK, PricesOK, BackedInv, FiguresInv, BuyingInv,
         [Next]_vars
  PROVE  BuyingInv'
<1>0. /\ MarginUsed \in Nat /\ SumFunction(ToUse) \in Nat /\ dtbp \in Nat
  BY UsedType, ToUseType DEF AccountOK
<1>10. MarginUsed' \in Nat /\ SumFunction(ToUse)' \in Nat
  <2>1. ToUseFacts' /\ UsedFacts'
    BY ToUseTypes, UsedTypes, PTL
  <2> QED
    BY <2>1, TotalNat DEF ToUseFacts, UsedFacts
<1>1. CASE /\ UNCHANGED <<order, open, position, price, dtbp, now, opened>>
           /\ plain' => plain
           /\ steady' => steady
  <2>1. ToUse' = ToUse
    BY <1>1 DEF ToUse, MarginToUse, Unfilled
  <2>2. MarginUsed' = MarginUsed
    BY <1>1 DEF MarginUsed, MaintenanceMargin
  <2>3. FirstFigures' => FirstFigures
    BY <1>1 DEF FirstFigures, Day
  <2> QED
    BY <1>1, <2>1, <2>2, <2>3 DEF BuyingInv
<1>2. CASE stopped = "no" /\ NextBar
  <2> SUFFICES ASSUME plain', steady', FirstFigures'
               PROVE  MarginUsed' + SumFunction(ToUse)' <= dtbp'
    BY DEF BuyingInv
  <2>1. PICK t, E, b : Takes(t, E, b)
    BY <1>2, NextBarTakes
  <2>2. UNCHANGED <<order, open, position, plain>>
    BY <1>2 DEF NextBar, book
  <2>3. FirstFigures /\ dtbp' = dtbp /\ plain
    BY <1>2, <2>2, NextBarKeepsFigures
  <2>4. /\ steady
        /\ \A o \in open : price'[order[o].equity] = price[order[o].equity]
        /\ \A e \in Equities : price'[e] = price[e] \/ position[e] = 0
    BY <2>1, <2>3, SteadyPrices
  <2>5. \A e \in Equities : price'[e] \in Nat
    BY DEF Inv, LoopOK
  <2>6. MarginUsed' = MarginUsed
    BY <2>2, <2>4, <2>5, UsedSame
  <2>7. ToUse' = ToUse
    BY <2>2, <2>4 DEF ToUse, MarginToUse, Unfilled
  <2> QED
    BY <2>3, <2>4, <2>6, <2>7 DEF BuyingInv
<1>3. CASE stopped = "no" /\ \E o \in todo : SimulateFill(o)
  <2>1. PICK o \in todo : SimulateFill(o)
    BY <1>3
  <2>2. UNCHANGED <<price, steady, plain, dtbp, now, opened>> /\ o \in open /\ at = "fill"
    BY <2>1, ListedOrder DEF SimulateFill, history
  <2>3. FirstFigures' <=> FirstFigures
    BY <2>2 DEF FirstFigures, Day
  <2> SUFFICES ASSUME plain, steady, FirstFigures
               PROVE  MarginUsed' + SumFunction(ToUse)'
                        <= MarginUsed + SumFunction(ToUse)
    BY <1>0, <1>10, <2>2, <2>3 DEF BuyingInv
  <2>4. CASE UNCHANGED <<position, cash, book, stopped>>
    <3>1. ToUse' = ToUse
      BY <2>2, <2>4 DEF book, ToUse, MarginToUse, Unfilled
    <3>2. MarginUsed' = MarginUsed
      BY <2>2, <2>4 DEF MarginUsed, MaintenanceMargin
    <3> QED
      BY <1>0, <3>1, <3>2
  <2>5. CASE \E r : Ends(o, r)
    <3>1. MarginUsed' = MarginUsed /\ SumFunction(ToUse)' <= SumFunction(ToUse)
      BY <2>2, <2>5, EndIsBacked
    <3> QED
      BY <1>0, <1>10, <3>1
  <2>6. CASE \E n, r : Fills(o, n, r)
    <3>1. PICK n, r : Fills(o, n, r)
      BY <2>6
    <3>2. CASE stopped' = "division"
      <4>1. MarginUsed' <= MarginUsed /\ ToUse' = ToUse
        BY <1>3, <2>2, <3>1, <3>2, DivisionIsBacked
      <4> QED
        BY <1>0, <1>10, <4>1
    <3>3. CASE stopped' # "division"
      <4>1. Covered(o) \/ Within(o)
        BY <1>3, <2>2 DEF BackedInv
      <4> QED
        BY <2>2, <3>1, <3>3, <4>1, FillIsBacked
    <3> QED
      BY <3>2, <3>3
  <2> QED
    BY <2>1, <2>4, <2>5, <2>6, FillCases
<1>4. CASE stopped = "no" /\ \E o \in DOMAIN order : Cancel(o)
  <2>1. PICK o \in DOMAIN order : Cancel(o)
    BY <1>4
  <2>2. UNCHANGED <<price, steady, plain, dtbp, now, opened>>
    BY <2>1 DEF Cancel, history, account, clock
  <2>3. MarginUsed' = MarginUsed /\ SumFunction(ToUse)' <= SumFunction(ToUse)
    BY <2>1, <2>2, CancelEnds, EndIsBacked
  <2>4. FirstFigures' <=> FirstFigures
    BY <2>2 DEF FirstFigures, Day
  <2> QED
    BY <1>0, <1>10, <2>2, <2>3, <2>4 DEF BuyingInv
<1>5. CASE stopped = "no" /\ \E e \in Equities, q \in Quantities, limit \in Limits :
             Order(e, q, limit)
  <2>1. PICK e \in Equities, q \in Quantities, limit \in Limits :
          Order(e, q, limit)
    BY <1>5
  <2>2. UNCHANGED <<now, opened, steady>>
    BY <2>1 DEF Order, clock
  <2>3. FirstFigures' <=> FirstFigures
    BY <2>2 DEF FirstFigures, Day
  <2> QED
    BY <2>1, <2>2, <2>3, OrderIsAffordable DEF BuyingInv
<1>6. CASE stopped = "no" /\ (CheckMarketClose \/ EndOfBar)
  <2>1. UNCHANGED <<order, open, position, price, dtbp, now, opened, steady, plain>>
    BY <1>6 DEF CheckMarketClose, EndOfBar, book, account, history
  <2> QED
    BY <1>1, <2>1
<1>7. CASE UNCHANGED vars
  BY <1>1, <1>7 DEF vars, book, history, account, clock
<1> QED
  BY <1>2, <1>3, <1>4, <1>5, <1>6, <1>7 DEF Next

PowerInv == LedgerInv /\ BackedInv /\ FiguresInv /\ BuyingInv

LEMMA PowerHolds == Spec => []PowerInv
<1>1. Init => PowerInv
  BY InvInit, HoldInit, AccountInit, PositionInit, PricesInit, BackedInit,
     FiguresInit, BuyingInit DEF PowerInv, LedgerInv, MoneyInv
<1>2. PowerInv /\ [Next]_vars => PowerInv'
  <2> SUFFICES ASSUME PowerInv, [Next]_vars PROVE PowerInv'
    OBVIOUS
  <2>1. /\ Inv /\ HoldInv /\ AccountOK /\ BarOK /\ PositionInv /\ PricesOK
        /\ ValueInv /\ BackedInv /\ FiguresInv /\ BuyingInv
    BY DEF PowerInv, LedgerInv, MoneyInv
  <2>2. Inv'
    BY <2>1, NextKeepsInv
  <2>3. HoldInv' /\ AccountOK' /\ BarOK' /\ PositionInv' /\ PricesOK' /\ ValueInv'
    BY <2>1, NextKeepsHold, NextKeepsAccount, NextKeepsPositions, NextKeepsValue
  <2>4. BackedInv' /\ FiguresInv' /\ BuyingInv'
    BY <2>1, <2>2, NextKeepsBacked, NextKeepsFigures, NextKeepsBuying
  <2> QED
    BY <2>2, <2>3, <2>4 DEF PowerInv, LedgerInv, MoneyInv
<1> QED
  BY <1>1, <1>2, PTL DEF Spec

(* The buying power checked when an order is accepted (equity.go:164-180)  *)
(* is still there when it fills: until the figures of a first day take     *)
(* effect and while prices stand still, the margin used and what the open  *)
(* orders will use of the margin they hold stay within it, whatever is     *)
(* filled, canceled or left to expire in between.                          *)
THEOREM AcceptedOrdersAreAffordable == Spec => []WithinBuyingPower
<1>1. PowerInv => WithinBuyingPower
  BY DEF PowerInv, BuyingInv, ToUse, WithinBuyingPower
<1> QED
  BY <1>1, PowerHolds, PTL
-----------------------------------------------------------------------------
(* The entry prices of CubbyEntry.                                         *)

LEMMA QuotientRemainder ==
  ASSUME NEW a \in Nat, NEW n \in Nat \ {0}
  PROVE  a \div n \in Nat /\ a % n \in 0..(n - 1) /\ a = n * (a \div n) + (a % n)
  BY SMT

(* Rounding to even never leaves the whole numbers a quotient lies between. *)
LEMMA DivWithin ==
  ASSUME NEW a \in Nat, NEW n \in Nat \ {0}, NEW lo \in Nat, NEW hi \in Nat,
         lo * n <= a, a <= hi * n
  PROVE  Div(a, n) \in Nat /\ lo <= Div(a, n) /\ Div(a, n) <= hi
<1> DEFINE q == a \div n
           r == a % n
<1>1. q \in Nat /\ r \in 0..(n - 1) /\ a = n * q + r
  BY QuotientRemainder
<1>2. q % 2 \in 0..1
  BY <1>1, SMT
<1>3. Div(a, n) = IF 2 * r + (q % 2) > n THEN q + 1 ELSE q
  <2>1. Abs(a) = a /\ Abs(n) = n /\ ~(a < 0) /\ ~(n < 0)
    BY DEF Abs
  <2> QED
    BY <2>1 DEF Div
<1> HIDE DEF q, r
<1>4. lo <= q
  <2>1. SUFFICES ASSUME q + 1 <= lo PROVE FALSE
    BY <1>1
  <2>2. (q + 1) * n <= lo * n
    BY <2>1, <1>1, SMT
  <2> QED
    BY <2>2, <1>1, SMT
<1>5. q <= hi
  <2>1. SUFFICES ASSUME hi + 1 <= q PROVE FALSE
    BY <1>1
  <2>2. (hi + 1) * n <= q * n
    BY <2>1, <1>1, SMT
  <2> QED
    BY <2>2, <1>1, SMT
<1>6. ASSUME q = hi PROVE r = 0
  BY <1>6, <1>1, SMT
<1>7. CASE q = hi
  BY <1>1, <1>2, <1>3, <1>4, <1>6, <1>7, SMT
<1>8. CASE q < hi
  BY <1>1, <1>3, <1>4, <1>8, SMT
<1> QED
  BY <1>1, <1>5, <1>7, <1>8

(* A mean of an average and a price, weighted by shares, keeps to the       *)
(* bounds of both.                                                          *)
LEMMA MeanWithin ==
  ASSUME NEW avg \in Nat, NEW tick \in Nat,
         NEW m \in Nat, NEW k \in Nat \ {0},
         NEW lo \in Nat, NEW hi \in Nat,
         m > 0 => lo <= avg /\ avg <= hi, lo <= tick, tick <= hi
  PROVE  LET mean == Div(avg * m + tick * k, m + k)
         IN mean \in Nat /\ lo <= mean /\ mean <= hi
<1>1. avg * m + tick * k \in Nat /\ m + k \in Nat \ {0}
  BY SMT
<1>2. lo * k <= tick * k /\ tick * k <= hi * k
  BY SMT
<1>3. lo * m <= avg * m /\ avg * m <= hi * m
  <2>1. CASE m = 0
    BY <2>1, SMT
  <2>2. CASE m > 0
    BY <2>2, SMT
  <2> QED
    BY <2>1, <2>2
<1>4. lo * (m + k) <= avg * m + tick * k
  BY <1>2, <1>3, SMT
<1>5. avg * m + tick * k <= hi * (m + k)
  BY <1>2, <1>3, SMT
<1> QED
  BY <1>1, <1>4, <1>5, DivWithin

LEMMA DivType ==
  ASSUME NEW a \in Int, NEW n \in Int, n # 0
  PROVE  Div(a, n) \in Int
<1>1. Abs(a) \in Nat /\ Abs(n) \in Nat \ {0}
  BY DEF Abs
<1>2. Abs(a) \div Abs(n) \in Nat
  BY <1>1, QuotientRemainder
<1> QED
  BY <1>2 DEF Div

(* The inductive invariant: only a position that was short can be short.    *)
EntryInv ==
  /\ entryPrice \in [Equities -> Int]
  /\ paid \in [Equities -> SUBSET Nat]
  /\ shorted \in [Equities -> BOOLEAN]
  /\ \A e \in Equities : ~shorted[e] => position[e] >= 0
  /\ \A e \in Equities : ~shorted[e] /\ position[e] > 0 => entryPrice[e] \in Nat
  /\ EntryWithinPaid

LEMMA EntryStart == EntryInit => EntryInv
  BY DEF EntryInit, Init, EntryInv, EntryWithinPaid

LEMMA NothingFillsKeepsEntry ==
  ASSUME EntryInv, (stopped = "no" /\ NothingFills) \/ UNCHANGED entryVars
  PROVE  EntryInv'
<1>1. UNCHANGED <<position, entryPrice, paid, shorted>>
  BY DEF NothingFills, entryVars, averages, vars, NextBar, CheckMarketClose,
         Order, Cancel, EndOfBar
<1>2. stopped' # "division" => stopped # "division"
  BY DEF entryVars, vars
<1> QED
  BY <1>1, <1>2 DEF EntryInv, EntryWithinPaid

(* A buy of a position that was never short averages within what was paid.  *)
LEMMA BuyWithinPaid ==
  ASSUME Inv, EntryInv, NEW e \in Equities, ~shorted[e],
         NEW tick \in Nat, NEW n \in Nat \ {0}
  PROVE  LET mean == Div(entryPrice[e] * position[e] + tick * n, position[e] + n)
         IN /\ mean \in Nat
            /\ \E p \in paid[e] \cup {tick} : p <= mean
            /\ \E p \in paid[e] \cup {tick} : mean <= p
<1> DEFINE mean == Div(entryPrice[e] * position[e] + tick * n, position[e] + n)
<1>1. position[e] \in Nat /\ entryPrice[e] \in Int
  <2>1. position[e] \in Int
    BY DEF Inv, LoopOK
  <2>2. position[e] >= 0 /\ entryPrice[e] \in Int
    BY DEF EntryInv
  <2> QED
    BY <2>1, <2>2
<1>2. CASE position[e] = 0
  <2>1. entryPrice[e] * position[e] + tick * n = tick * n /\ position[e] + n = n
    BY <1>1, <1>2, SMT
  <2>2. tick * n \in Nat /\ tick * n <= tick * n
    BY SMT
  <2>3. mean \in Nat /\ tick <= mean /\ mean <= tick
    BY <2>1, <2>2, DivWithin
  <2> QED
    BY <2>3
<1>3. CASE position[e] > 0
  <2>1. PICK lo \in paid[e] : lo <= entryPrice[e]
    BY <1>3 DEF EntryInv, EntryWithinPaid
  <2>2. PICK hi \in paid[e] : entryPrice[e] <= hi
    BY <1>3 DEF EntryInv, EntryWithinPaid
  <2>3. lo \in Nat /\ hi \in Nat /\ entryPrice[e] \in Nat
    BY <1>3 DEF EntryInv
  <2>4. PICK low \in {lo, tick} : low <= entryPrice[e] /\ low <= tick
    BY <2>1, <2>3
  <2>5. PICK high \in {hi, tick} : entryPrice[e] <= high /\ tick <= high
    BY <2>2, <2>3
  <2>6. low \in Nat /\ high \in Nat
    BY <2>3, <2>4, <2>5
  <2>7. mean \in Nat /\ low <= mean /\ mean <= high
    BY <1>1, <2>3, <2>4, <2>5, <2>6, MeanWithin
  <2> HIDE DEF mean
  <2> QED
    <3>1. {lo, tick} \subseteq paid[e] \cup {tick} /\ {hi, tick} \subseteq paid[e] \cup {tick}
      BY <2>1, <2>2
    <3>2. low \in paid[e] \cup {tick} /\ high \in paid[e] \cup {tick}
      BY <2>4, <2>5, <3>1
    <3> QED
      BY <2>7, <3>2 DEF mean
<1> QED
  BY <1>1, <1>2, <1>3

LEMMA FillKeepsEntry ==
  ASSUME Inv, EntryInv, stopped = "no", NEW o \in todo, FillsAverage(o)
  PROVE  EntryInv'
<1>1. CASE Outcome(o) # "fill"
  <2>1. UNCHANGED <<position, entryPrice, paid, shorted>>
    BY <1>1 DEF FillsAverage, SimulateFill, averages
  <2> QED
    BY <2>1 DEF EntryInv, EntryWithinPaid
<1>2. CASE Outcome(o) = "fill"
  <2> DEFINE e == order[o].equity
             n == FillQuantity(o)
  <2>1. at = "fill" /\ Fill(o) /\ Average(o)
    BY <1>2 DEF FillsAverage, SimulateFill, Final
  <2>2. e \in Equities /\ order[o].side \in {"buy", "sell"}
    BY ListedOrder DEF Record
  <2>3. n \in Nat \ {0}
    BY <1>2, <2>1, FillQuantityFits DEF Outcome, Final
  <2>4. Ticks(o) \in Nat
    <3>1. FillPrice(o) \in Nat
      BY <2>1, CubbyAssumption DEF FillPrice, Inv, LoopOK
    <3> QED
      BY <3>1, EntryAssumption, SMT DEF Ticks
  <2>5. position' = [position EXCEPT ![e] = @ + Signed(o, n)]
    BY <2>1 DEF Fill
  <2>6. /\ position \in [Equities -> Int] /\ position' \in [Equities -> Int]
        /\ position'[e] = position[e] + Signed(o, n)
        /\ \A x \in Equities \ {e} : position'[x] = position[x]
    <3>1. position \in [Equities -> Int]
      BY DEF Inv, LoopOK
    <3>2. Signed(o, n) \in Int
      BY <2>3 DEF Signed
    <3> HIDE DEF e, n
    <3> QED
      BY <2>2, <2>5, <3>1, <3>2
  <2>7. /\ entryPrice' = [entryPrice EXCEPT ![e] = EntryPriceAfter(o)]
        /\ paid' = [paid EXCEPT ![e] =
                      IF position'[e] = 0 THEN {}
                      ELSE IF order[o].side = "buy" THEN @ \cup {Ticks(o)} ELSE @]
        /\ shorted' = [shorted EXCEPT ![e] =
                         ~(position'[e] = 0) /\ (@ \/ position'[e] < 0)]
    BY <2>1 DEF Average
  <2> DEFINE Good(x) == 
        /\ entryPrice'[x] \in Int
        /\ paid'[x] \in SUBSET Nat
        /\ ~shorted'[x] => position'[x] >= 0
        /\ ~shorted'[x] /\ position'[x] > 0 => entryPrice'[x] \in Nat
        /\ ~shorted'[x] =>
             IF position'[x] = 0 THEN stopped' # "division" => entryPrice'[x] = 0
             ELSE /\ \E p \in paid'[x] : p <= entryPrice'[x]
                  /\ \E p \in paid'[x] : entryPrice'[x] <= p
  <2>9. \A x \in Equities \ {e} : Good(x)
    <3> HIDE DEF e, n
    <3>1. \A x \in Equities \ {e} : /\ entryPrice'[x] = entryPrice[x]
                                    /\ paid'[x] = paid[x] /\ shorted'[x] = shorted[x]
      BY <2>7 DEF EntryInv
    <3> QED
      BY <2>6, <3>1 DEF EntryInv, EntryWithinPaid
  <2>10. Good(e)
    <3>1. /\ entryPrice'[e] = EntryPriceAfter(o)
          /\ paid'[e] = IF position'[e] = 0 THEN {}
                        ELSE IF order[o].side = "buy" THEN paid[e] \cup {Ticks(o)}
                        ELSE paid[e]
          /\ shorted'[e] = (~(position'[e] = 0) /\ (shorted[e] \/ position'[e] < 0))
      <4> HIDE DEF e
      <4> QED
        BY <2>2, <2>7 DEF EntryInv
    <3>2. /\ entryPrice[e] \in Int /\ position[e] \in Int /\ paid[e] \in SUBSET Nat
          /\ shorted[e] \in BOOLEAN
      BY <2>2, <2>6 DEF EntryInv
    <3>3. CASE Divides(o)
      <4>1. position'[e] = 0 /\ stopped' = "division"
        BY <2>1, <2>6, <3>3 DEF Divides, Signed, Fill
      <4>2. EntryPriceAfter(o) = entryPrice[e]
        BY <3>3 DEF EntryPriceAfter
      <4> QED
        BY <3>1, <3>2, <4>1, <4>2
    <3>4. CASE ~Divides(o) /\ order[o].side = "buy"
      <4>1. position'[e] = position[e] + n /\ position'[e] # 0
        BY <2>6, <3>4 DEF Divides, Signed
      <4>2. entryPrice'[e]
              = Div(entryPrice[e] * position[e] + Ticks(o) * n, position[e] + n)
        BY <3>1, <3>4 DEF EntryPriceAfter
      <4>3. paid'[e] = paid[e] \cup {Ticks(o)}
        BY <3>1, <3>4, <4>1
      <4>4. CASE shorted[e]
        <5>1. shorted'[e]
          BY <3>1, <4>1, <4>4
        <5>2. entryPrice'[e] \in Int
          BY <2>3, <2>4, <3>2, <4>1, <4>2, DivType
        <5>3. paid'[e] \in SUBSET Nat
          BY <2>4, <3>2, <4>3
        <5> HIDE DEF e, n
        <5> QED
          BY <5>1, <5>2, <5>3
      <4>5. CASE ~shorted[e]
        <5> HIDE DEF e, n
        <5>1. /\ entryPrice'[e] \in Nat
              /\ \E p \in paid[e] \cup {Ticks(o)} : p <= entryPrice'[e]
              /\ \E p \in paid[e] \cup {Ticks(o)} : entryPrice'[e] <= p
          <6> HIDE DEF EntryInv
          <6>1. LET mean == Div(entryPrice[e] * position[e] + Ticks(o) * n, position[e] + n)
                IN /\ mean \in Nat
                   /\ \E p \in paid[e] \cup {Ticks(o)} : p <= mean
                   /\ \E p \in paid[e] \cup {Ticks(o)} : mean <= p
            BY <2>2, <2>3, <2>4, <4>5, BuyWithinPaid, Zenon
          <6> QED
            BY <4>2, <6>1, Zenon
        <5>2. position'[e] > 0
          BY <2>2, <2>3, <3>2, <4>1, <4>5 DEF EntryInv
        <5>3. paid'[e] \in SUBSET Nat
          BY <2>4, <3>2, <4>3
        <5>4. /\ \E p \in paid'[e] : p <= entryPrice'[e]
              /\ \E p \in paid'[e] : entryPrice'[e] <= p
          BY <4>3, <5>1
        <5>5. entryPrice'[e] \in Int /\ position'[e] >= 0 /\ position'[e] # 0
          BY <2>2, <2>6, <5>1, <5>2
        <5> QED
          BY <5>1, <5>2, <5>3, <5>4, <5>5
      <4> QED
        BY <3>2, <4>4, <4>5
    <3>5. CASE order[o].side = "sell"
      <4>1. position'[e] = position[e] - n
        BY <2>3, <2>6, <3>2, <3>5 DEF Signed
      <4>2. entryPrice'[e] = IF position'[e] = 0 THEN 0 ELSE entryPrice[e]
        BY <3>1, <3>5, <4>1 DEF EntryPriceAfter, Divides
      <4>3. CASE position'[e] = 0
        BY <3>1, <4>2, <4>3
      <4>4. CASE position'[e] # 0
        <5>1. entryPrice'[e] = entryPrice[e] /\ paid'[e] = paid[e]
          BY <3>1, <3>5, <4>2, <4>4
        <5>2. ~shorted'[e] => ~shorted[e] /\ position'[e] > 0 /\ position[e] > 0
          <6> SUFFICES ASSUME ~shorted'[e]
                       PROVE  ~shorted[e] /\ position'[e] > 0 /\ position[e] > 0
            OBVIOUS
          <6> HIDE DEF e, n
          <6>1. ~shorted[e] /\ ~(position'[e] < 0)
            BY <3>1, <3>2, <4>4
          <6>2. position'[e] \in Int
            BY <2>2, <2>6
          <6> QED
            BY <2>3, <3>2, <4>1, <4>4, <6>1, <6>2
        <5> HIDE DEF e, n
        <5>3. ~shorted'[e] => /\ \E p \in paid[e] : p <= entryPrice[e]
                              /\ \E p \in paid[e] : entryPrice[e] <= p
                              /\ entryPrice[e] \in Nat
          BY <2>2, <5>2 DEF EntryInv, EntryWithinPaid
        <5>4. entryPrice'[e] \in Int /\ paid'[e] \in SUBSET Nat
          BY <3>2, <5>1
        <5>5. ~shorted'[e] => position'[e] >= 0
          BY <2>2, <2>6, <5>2
        <5>6. ~shorted'[e] => /\ \E p \in paid'[e] : p <= entryPrice'[e]
                              /\ \E p \in paid'[e] : entryPrice'[e] <= p
                              /\ entryPrice'[e] \in Nat
          BY <5>1, <5>3
        <5> QED
          BY <4>4, <5>4, <5>5, <5>6
      <4> QED
        BY <4>3, <4>4
    <3> QED
      BY <2>2, <3>3, <3>4, <3>5
  <2>11. /\ entryPrice' \in [Equities -> Int] /\ paid' \in [Equities -> SUBSET Nat]
         /\ shorted' \in [Equities -> BOOLEAN]
    <3>1. \A x \in Equities : Good(x)
      BY <2>9, <2>10
    <3>2. /\ DOMAIN entryPrice' = Equities /\ DOMAIN paid' = Equities
          /\ \A x \in Equities : shorted'[x] \in BOOLEAN
      <4> HIDE DEF e, n
      <4> QED
        BY <2>7 DEF EntryInv
    <3> QED
      BY <2>7, <3>1, <3>2 DEF EntryInv
  <2> HIDE DEF e, n
  <2> QED
    BY <2>9, <2>10, <2>11 DEF EntryInv, EntryWithinPaid
<1> QED
  BY <1>1, <1>2

-----------------------------------------------------------------------------
(* The filled prices of CubbyEntry.                                        *)

Trades == [o \in DOMAIN order |-> Signed(o, filledPrice[o] * order[o].filled)]
Spent  == Cash0 - interest - cash
Gap    == TicksPerPrice * Spent - 10 * SumFunction(Trades)

FilledOK ==
  /\ filledPrice \in [1..MaxOrders -> Nat] /\ rounding \in Nat
  /\ Len(order) <= MaxOrders

GapInv == stopped # "division" => 2 * Gap <= 10 * rounding /\ -(2 * Gap) <= 10 * rounding

(* Rounding half to even misses by at most half. *)
LEMMA DivMisses ==
  ASSUME NEW a \in Nat, NEW n \in Nat \ {0}
  PROVE  /\ Div(a, n) \in Nat
         /\ 2 * (Div(a, n) * n - a) <= n
         /\ 2 * (a - Div(a, n) * n) <= n
<1> DEFINE q == a \div n
           r == a % n
<1>1. q \in Nat /\ r \in 0..(n - 1) /\ a = n * q + r
  BY QuotientRemainder
<1>2. q % 2 \in 0..1
  BY <1>1, SMT
<1>3. Div(a, n) = IF 2 * r + (q % 2) > n THEN q + 1 ELSE q
  <2>1. Abs(a) = a /\ Abs(n) = n /\ ~(a < 0) /\ ~(n < 0)
    BY DEF Abs
  <2> QED
    BY <2>1 DEF Div
<1> HIDE DEF q, r
<1>4. CASE 2 * r + (q % 2) > n
  <2>1. Div(a, n) = q + 1 /\ 2 * r >= n
    BY <1>1, <1>2, <1>3, <1>4
  <2>2. (q + 1) * n - a = n - r
    BY <1>1
  <2> QED
    BY <1>1, <2>1, <2>2
<1>5. CASE ~(2 * r + (q % 2) > n)
  <2>1. Div(a, n) = q /\ 2 * r <= n
    BY <1>1, <1>2, <1>3, <1>5
  <2>2. a - q * n = r
    BY <1>1
  <2> QED
    BY <1>1, <2>1, <2>2
<1> QED
  BY <1>4, <1>5

(* What averaging one more fill in misses: nothing when it is the first. *)
Miss(f, q, tick, n) == Div(f * q + tick * n, q + n) * (q + n) - (f * q + tick * n)

LEMMA MissIsRounding ==
  ASSUME NEW f \in Nat, NEW q \in Nat, NEW tick \in Nat, NEW n \in Nat \ {0}
  PROVE  /\ Div(f * q + tick * n, q + n) \in Nat
         /\ Miss(f, q, tick, n) \in Int
         /\ q = 0 => Miss(f, q, tick, n) = 0
         /\ 2 * Miss(f, q, tick, n) <= q + n
         /\ -(2 * Miss(f, q, tick, n)) <= q + n
<1> DEFINE a == f * q + tick * n
           m == q + n
           d == Div(a, m)
<1>1. a \in Nat /\ m \in Nat \ {0}
  BY SMT
<1>2. d \in Nat /\ 2 * (d * m - a) <= m /\ 2 * (a - d * m) <= m
  BY <1>1, DivMisses
<1>3. Miss(f, q, tick, n) = d * m - a
  BY DEF Miss
<1>4. ASSUME q = 0 PROVE d * m - a = 0
  <2>1. a = tick * n /\ m = n
    BY <1>4, SMT
  <2>2. tick * n \in Nat /\ tick * n <= tick * n
    BY SMT
  <2>3. d = tick
    <3>1. d = Div(tick * n, n)
      BY <2>1
    <3>2. tick <= Div(tick * n, n) /\ Div(tick * n, n) <= tick /\ Div(tick * n, n) \in Nat
      BY <2>2, DivWithin
    <3> HIDE DEF d
    <3> QED
      BY <3>1, <3>2
  <2> HIDE DEF a, m, d
  <2> QED
    BY <2>1, <2>2, <2>3
<1> HIDE DEF a, m, d
<1>5. d * m \in Int
  BY <1>1, <1>2
<1>6. -(2 * (d * m - a)) = 2 * (a - d * m)
  BY <1>1, <1>5
<1> QED
  BY <1>1, <1>2, <1>3, <1>4, <1>5, <1>6 DEF a, m, d

LEMMA TradesType ==
  ASSUME Inv, FilledOK
  PROVE  /\ IsFiniteSet(DOMAIN order) /\ DOMAIN order \subseteq 1..MaxOrders
         /\ \A o \in DOMAIN order : /\ filledPrice[o] \in Nat /\ order[o].filled \in Nat
                                    /\ filledPrice[o] * order[o].filled \in Nat
         /\ Trades \in [DOMAIN order -> Int] /\ SumFunction(Trades) \in Int
<1>1. IsFiniteSet(DOMAIN order)
  BY BookIsFinite DEF Inv
<1>2. DOMAIN order \subseteq 1..MaxOrders
  BY CubbyAssumption DEF Inv, BookOK, FilledOK
<1>3. \A o \in DOMAIN order : filledPrice[o] \in Nat /\ order[o].filled \in Nat
  BY <1>2, OpenOrders DEF FilledOK, Record
<1>4. \A o \in DOMAIN order : filledPrice[o] * order[o].filled \in Nat
  BY <1>3, SMT
<1>5. \A o \in DOMAIN order : Signed(o, filledPrice[o] * order[o].filled) \in Int
  BY <1>4 DEF Signed
<1>6. Trades \in [DOMAIN order -> Int]
  BY <1>5 DEF Trades
<1> QED
  BY <1>1, <1>2, <1>3, <1>4, <1>6, TotalInt

(* One order's part of what was traded changes. *)
LEMMA TradesFilled ==
  ASSUME Inv, FilledOK, NEW o \in DOMAIN order, NEW n \in Nat, NEW r, SameTerms(o, r),
         r.filled = order[o].filled + n, order' = [order EXCEPT ![o] = r],
         NEW x \in Nat, filledPrice' = [filledPrice EXCEPT ![o] = x]
  PROVE  /\ SumFunction(Trades)' = SumFunction(Trades)
              - Signed(o, filledPrice[o] * order[o].filled)
              + Signed(o, x * (order[o].filled + n))
         /\ FilledOK' \/ rounding' \notin Nat
<1>1. /\ DOMAIN order' = DOMAIN order /\ order'[o] = r /\ Len(order') = Len(order)
      /\ \A u \in DOMAIN order : u # o => order'[u] = order[u]
  BY DEF Inv, BookOK
<1>2. /\ filledPrice' \in [1..MaxOrders -> Nat] /\ filledPrice'[o] = x
      /\ \A u \in DOMAIN order : u # o => filledPrice'[u] = filledPrice[u]
  BY TradesType DEF FilledOK
<1>3. order[o].filled \in Nat /\ filledPrice[o] * order[o].filled \in Nat
  BY TradesType
<1>4. x * (order[o].filled + n) \in Nat
  BY <1>3, SMT
<1>5. Signed(o, filledPrice[o] * order[o].filled)' = Signed(o, x * (order[o].filled + n))
  BY <1>1, <1>2 DEF Signed, SameTerms
<1>6. \A u \in DOMAIN order : u # o =>
        Signed(u, filledPrice[u] * order[u].filled)'
          = Signed(u, filledPrice[u] * order[u].filled)
  BY <1>1, <1>2 DEF Signed
<1>7. Signed(o, x * (order[o].filled + n)) \in Int
  BY <1>4 DEF Signed
<1>8. \A u \in DOMAIN order : Signed(u, filledPrice[u] * order[u].filled) \in Int
  BY TradesType DEF Signed
<1>9. /\ Trades' \in [DOMAIN order -> Int]
      /\ \A u \in DOMAIN order \ {o} : Trades'[u] = Trades[u]
      /\ Trades'[o] = Signed(o, x * (order[o].filled + n))
      /\ Trades[o] = Signed(o, filledPrice[o] * order[o].filled)
  BY <1>1, <1>5, <1>6, <1>7, <1>8 DEF Trades
<1>10. DifferAt(DOMAIN order, Trades, o, Trades')
  BY <1>9, TradesType DEF DifferAt
<1> DEFINE old == Trades
           new == Trades'
<1>11. SumFunction(new) = SumFunction(old) - old[o] + new[o]
  BY <1>10, TotalChanged
<1> HIDE DEF old, new
<1>12. SumFunction(new) = SumFunction(old)
              - Signed(o, filledPrice[o] * order[o].filled)
              + Signed(o, x * (order[o].filled + n))
  BY <1>9, <1>11 DEF old, new
<1> QED
  BY <1>1, <1>2, <1>12 DEF old, new, FilledOK

LEMMA TradesSame ==
  ASSUME DOMAIN order' = DOMAIN order, filledPrice' = filledPrice,
         \A u \in DOMAIN order : /\ order'[u].side = order[u].side
                                 /\ order'[u].filled = order[u].filled
  PROVE  Trades' = Trades
<1>1. \A u \in DOMAIN order : Signed(u, filledPrice[u] * order[u].filled)'
                                = Signed(u, filledPrice[u] * order[u].filled)
  BY DEF Signed
<1> QED
  BY <1>1 DEF Trades

LEMMA TradesPlaced ==
  ASSUME Inv, FilledOK, NEW r \in Record, r.filled = 0, order' = Append(order, r),
         filledPrice' = filledPrice, Len(order) < MaxOrders
  PROVE  SumFunction(Trades)' = SumFunction(Trades) /\ Len(order') <= MaxOrders
<1>1. PICK z :
        /\ DOMAIN order' = DOMAIN order \cup {z} /\ order'[z] = r
        /\ \A u \in DOMAIN order : order'[u] = order[u]
        /\ z \notin DOMAIN order /\ z = Len(order) + 1
  BY Appended DEF Inv, BookOK
<1>2. Len(order') = Len(order) + 1 /\ Len(order) \in Nat
  BY DEF Inv, BookOK
<1>3. filledPrice[z] \in Nat
  BY <1>1, <1>2, CubbyAssumption DEF FilledOK
<1>4. filledPrice[z] * 0 = 0
  BY <1>3, SMT
<1>5. Signed(z, filledPrice[z] * order[z].filled)' = 0
  BY <1>1, <1>4 DEF Signed
<1>6. \A u \in DOMAIN order : Signed(u, filledPrice[u] * order[u].filled)'
                                = Signed(u, filledPrice[u] * order[u].filled)
  BY <1>1 DEF Signed
<1>7. \A u \in DOMAIN order : Signed(u, filledPrice[u] * order[u].filled) \in Int
  BY TradesType DEF Signed
<1>8. /\ Trades' \in [DOMAIN order' -> Int] /\ Trades'[z] = 0
      /\ \A u \in DOMAIN order : Trades'[u] = Trades[u]
  BY <1>1, <1>5, <1>6, <1>7 DEF Trades
<1>9. IsFiniteSet(DOMAIN order')
  BY <1>1, TradesType, FS_AddElement
<1>10. Rest(DOMAIN order', Trades', z, Trades)
  BY <1>1, <1>8, <1>9, TradesType DEF Rest
<1>11. /\ SumFunction(Trades') = Trades'[z] + SumFunction(Trades)
       /\ SumFunction(Trades) \in Int
  BY <1>10, TotalOfRest
<1> QED
  BY <1>2, <1>8, <1>11, CubbyAssumption

LEMMA GapStart == EntryInit => FilledOK /\ GapInv
<1> SUFFICES ASSUME EntryInit PROVE FilledOK /\ GapInv
  OBVIOUS
<1>1. order = <<>> /\ cash = Cash0 /\ interest = 0 /\ rounding = 0
  BY DEF EntryInit, Init
<1>2. FilledOK
  BY <1>1, CubbyAssumption DEF EntryInit, FilledOK
<1>3. SumFunction(Trades) = 0
  <2>1. DOMAIN Trades = {} /\ IsFiniteSet({})
    BY <1>1, FS_EmptySet DEF Trades
  <2> QED
    BY <2>1, TotalZero
<1>4. Gap = 0
  <2>1. Spent = 0
    BY <1>1, CubbyAssumption DEF Spent
  <2>2. TicksPerPrice * 0 = 0
    BY EntryAssumption, SMT
  <2> QED
    BY <1>3, <2>1, <2>2 DEF Gap
<1> QED
  BY <1>1, <1>2, <1>4 DEF GapInv

(* A step that trades nothing. *)
LEMMA GapSame ==
  ASSUME FilledOK, GapInv, UNCHANGED <<filledPrice, rounding>>,
         Spent' = Spent, SumFunction(Trades)' = SumFunction(Trades),
         Len(order') <= MaxOrders, stopped' # "division" => stopped # "division"
  PROVE  FilledOK' /\ GapInv'
<1>1. Gap' = Gap
  BY DEF Gap
<1> QED
  BY <1>1 DEF FilledOK, GapInv

LEMMA GapFill ==
  ASSUME Inv, AccountOK, FilledOK, GapInv, stopped = "no", NEW o \in todo,
         Outcome(o) = "fill", FillsAverage(o)
  PROVE  FilledOK' /\ GapInv'
<1> DEFINE n == FillQuantity(o)
           q == order[o].filled
           f == filledPrice[o]
           tick == Ticks(o)
           x == FilledPriceAfter(o)
<1>1. at = "fill" /\ Fill(o) /\ Average(o) /\ interest' = interest
  BY DEF FillsAverage, SimulateFill, Final, history
<1>2. o \in DOMAIN order /\ order[o] \in Record /\ o \in open
  BY ListedOrder
<1>3. n \in Nat \ {0} /\ n <= Unfilled(o)
  BY <1>1, FillQuantityFits DEF Outcome, Final
<1>4. q \in Nat /\ f \in Nat /\ f * q \in Nat
  BY <1>2, TradesType
<1>5. FillPrice(o) \in Nat /\ tick \in Nat
  <2>1. FillPrice(o) \in Nat
    BY <1>1, CubbyAssumption DEF FillPrice, Inv, LoopOK
  <2> QED
    BY <2>1, EntryAssumption, SMT DEF Ticks
<1>6. rounding' \in Nat /\ rounding' = rounding + IF q = 0 THEN 0 ELSE q + n
  <2>1. rounding' = IF q = 0 THEN rounding ELSE rounding + q + n
    BY <1>1 DEF Average
  <2>2. rounding \in Nat
    BY DEF FilledOK
  <2> HIDE DEF n, q
  <2> QED
    BY <1>3, <1>4, <2>1, <2>2
<1>7. CASE Divides(o)
  <2>1. stopped' = "division" /\ UNCHANGED book /\ filledPrice' = filledPrice
    BY <1>1, <1>7 DEF Fill, Average
  <2> QED
    BY <1>6, <2>1 DEF GapInv, FilledOK, book
<1>8. CASE ~Divides(o)
  <2> DEFINE r == [order[o] EXCEPT !.filled = @ + n,
                     !.status = IF n = Unfilled(o) THEN "filled" ELSE "partially_filled"]
  <2>1. order' = [order EXCEPT ![o] = r] /\ filledPrice' = [filledPrice EXCEPT ![o] = x]
    BY <1>1, <1>8 DEF Fill, Close, Average
  <2>2. SameTerms(o, r) /\ r.filled = q + n
    <3>1. q + n \in Nat
      BY <1>3, <1>4
    <3>2. (IF n = Unfilled(o) THEN "filled" ELSE "partially_filled") \in Statuses
      BY DEF Statuses, Final
    <3> HIDE DEF n
    <3> QED
      BY <1>2, <3>1, <3>2 DEF SameTerms, Record
  <2>3. /\ x = Div(f * q + tick * n, q + n) /\ x \in Nat
        /\ Miss(f, q, tick, n) \in Int
        /\ q = 0 => Miss(f, q, tick, n) = 0
        /\ 2 * Miss(f, q, tick, n) <= q + n
        /\ -(2 * Miss(f, q, tick, n)) <= q + n
    <3>1. x = Div(f * q + tick * n, q + n)
      BY DEF FilledPriceAfter
    <3> HIDE DEF n, q, f, tick, x
    <3> QED
      BY <1>3, <1>4, <1>5, <3>1, MissIsRounding
  <2> DEFINE miss == Miss(f, q, tick, n)
             cost == tick * n
  <2>4. x * (q + n) = f * q + cost + miss /\ cost \in Nat
    <3> HIDE DEF n, q, f, tick, x
    <3>1. x * (q + n) \in Int /\ cost \in Nat
      BY <1>3, <1>4, <1>5, <2>3, SMT
    <3>2. miss = x * (q + n) - (f * q + cost)
      BY <2>3 DEF Miss
    <3> HIDE DEF miss, cost
    <3> QED
      BY <1>4, <2>3, <3>1, <3>2
  <2>5. /\ SumFunction(Trades)' = SumFunction(Trades) - Signed(o, f * q)
                                    + Signed(o, x * (q + n))
        /\ FilledOK'
    <3> HIDE DEF n, x, r
    <3> QED
      BY <1>2, <1>3, <1>6, <2>1, <2>2, <2>3, TradesFilled
  <2>6. Spent' = Spent + 10 * Signed(o, n) * FillPrice(o) /\ Spent \in Int
    <3>1. cash' = cash - 10 * Signed(o, n) * FillPrice(o)
      BY <1>1 DEF Fill
    <3>2. Signed(o, n) \in Int
      BY <1>3 DEF Signed
    <3>3. cash \in Int /\ interest \in Int /\ Cash0 \in Int
      BY CubbyAssumption DEF AccountOK
    <3> HIDE DEF n
    <3>4. 10 * Signed(o, n) * FillPrice(o) \in Int
      BY <1>5, <3>2, SMT
    <3> DEFINE paidNow == 10 * Signed(o, n) * FillPrice(o)
    <3> HIDE DEF paidNow
    <3>5. paidNow \in Int /\ cash' = cash - paidNow
      BY <3>1, <3>4 DEF paidNow
    <3>6. Spent' = Spent + paidNow /\ Spent \in Int
      BY <1>1, <3>3, <3>5 DEF Spent
    <3> QED
      BY <3>6 DEF paidNow
  <2>7. TicksPerPrice * (10 * Signed(o, n) * FillPrice(o)) = 10 * Signed(o, cost)
    <3>1. TicksPerPrice \in Nat
      BY EntryAssumption
    <3>2. CASE order[o].side = "buy"
      <4>1. Signed(o, n) = n /\ Signed(o, cost) = cost
        BY <3>2 DEF Signed
      <4> HIDE DEF n
      <4>2. TicksPerPrice * (10 * n * FillPrice(o)) = 10 * (TicksPerPrice * FillPrice(o) * n)
        BY <1>3, <1>5, <3>1, SMT
      <4> QED
        BY <4>1, <4>2 DEF Ticks
    <3>3. CASE order[o].side # "buy"
      <4>1. Signed(o, n) = -n /\ Signed(o, cost) = -cost
        BY <3>3 DEF Signed
      <4> HIDE DEF n
      <4>2. TicksPerPrice * (10 * (-n) * FillPrice(o))
              = 10 * (-(TicksPerPrice * FillPrice(o) * n))
        BY <1>3, <1>5, <3>1, SMT
      <4> QED
        BY <4>1, <4>2 DEF Ticks
    <3> QED
      BY <3>2, <3>3
  <2>8. Signed(o, x * (q + n)) - Signed(o, f * q) = Signed(o, cost) + Signed(o, miss)
    <3> HIDE DEF n, q, f, tick, x, miss, cost
    <3> QED
      BY <1>4, <2>3, <2>4 DEF Signed, miss
  <2>9. SumFunction(Trades) \in Int
    BY TradesType
  <2>10. /\ Signed(o, cost) \in Int /\ Signed(o, miss) \in Int
         /\ Signed(o, f * q) \in Int /\ Signed(o, x * (q + n)) \in Int
    <3>1. cost \in Int /\ miss \in Int /\ f * q \in Int /\ x * (q + n) \in Int
      <4> HIDE DEF n, q, f, tick, x, miss, cost
      <4> QED
        BY <1>4, <2>3, <2>4 DEF miss
    <3> HIDE DEF n, q, f, tick, x, miss, cost
    <3> QED
      BY <3>1 DEF Signed
  <2>11. Gap' = Gap - 10 * Signed(o, miss) /\ Gap \in Int
    <3> DEFINE step == 10 * Signed(o, n) * FillPrice(o)
               sum == SumFunction(Trades)
               gain == Signed(o, cost)
               off == Signed(o, miss)
    <3>1. /\ Spent' = Spent + step /\ Spent \in Int
          /\ TicksPerPrice * step = 10 * gain
          /\ sum' = sum + gain + off
          /\ sum \in Int /\ gain \in Int /\ off \in Int
      <4>1. sum' = sum - Signed(o, f * q) + Signed(o, x * (q + n))
        BY <2>5
      <4> HIDE DEF n, q, f, tick, x, miss, cost, sum
      <4> QED
        BY <2>6, <2>7, <2>8, <2>9, <2>10, <4>1 DEF sum
    <3>2. step \in Int
      <4>1. Signed(o, n) \in Int
        BY <1>3 DEF Signed
      <4> HIDE DEF n
      <4> QED
        BY <1>5, <4>1, SMT
    <3>3. Gap' = TicksPerPrice * Spent' - 10 * sum' /\ Gap = TicksPerPrice * Spent - 10 * sum
      BY DEF Gap
    <3> HIDE DEF n, q, f, tick, x, miss, cost, step, sum, gain, off
    <3>4. TicksPerPrice * (Spent + step) = TicksPerPrice * Spent + TicksPerPrice * step
          /\ TicksPerPrice * Spent \in Int
      BY <3>1, <3>2, EntryAssumption, SMT
    <3>5. Gap' = Gap - 10 * off /\ Gap \in Int
      BY <3>1, <3>3, <3>4
    <3> QED
      BY <3>5 DEF off
  <2>12. 2 * Gap <= 10 * rounding /\ -(2 * Gap) <= 10 * rounding
    BY DEF GapInv
  <2>13. /\ q = 0 => Signed(o, miss) = 0
         /\ 2 * Signed(o, miss) <= q + n /\ -(2 * Signed(o, miss)) <= q + n
    <3>1. /\ miss \in Int
          /\ q = 0 => miss = 0
          /\ 2 * miss <= q + n /\ -(2 * miss) <= q + n
      BY <2>3
    <3> HIDE DEF n, q, miss
    <3>2. q + n \in Nat
      BY <1>3, <1>4
    <3>3. CASE order[o].side = "buy"
      BY <3>1, <3>3 DEF Signed
    <3>4. CASE order[o].side # "buy"
      <4>1. Signed(o, miss) = -miss
        BY <3>4 DEF Signed
      <4>2. 2 * (-miss) = -(2 * miss) /\ -(2 * (-miss)) = 2 * miss
        BY <3>1
      <4> QED
        BY <3>1, <4>1, <4>2
    <3> QED
      BY <3>3, <3>4
  <2>14. rounding \in Nat
    BY DEF FilledOK
  <2> DEFINE off == Signed(o, miss)
  <2>15. GapInv'
    <3>1. /\ off \in Int /\ Gap' = Gap - 10 * off /\ Gap \in Int
          /\ q = 0 => off = 0
          /\ 2 * off <= q + n /\ -(2 * off) <= q + n
      BY <2>10, <2>11, <2>13
    <3> HIDE DEF n, q, off
    <3> QED
      BY <1>3, <1>4, <1>6, <2>12, <2>14, <3>1 DEF GapInv
  <2> QED
    BY <2>5, <2>15
<1> QED
  BY <1>7, <1>8

LEMMA NextKeepsGap ==
  ASSUME Inv, AccountOK, FilledOK, GapInv, [EntryNext]_entryVars
  PROVE  FilledOK' /\ GapInv'
<1> DEFINE same == UNCHANGED <<filledPrice, rounding>>
<1>1. Len(order) <= MaxOrders /\ cash \in Int /\ interest \in Nat
  BY DEF FilledOK, AccountOK
<1>2. ASSUME same, UNCHANGED <<order, cash, interest>>,
             stopped' # "division" => stopped # "division"
      PROVE  FilledOK' /\ GapInv'
  <2>1. Trades' = Trades /\ Spent' = Spent
    BY <1>2, TradesSame DEF Spent
  <2> QED
    BY <1>1, <1>2, <2>1, GapSame
<1>3. ASSUME same, interest' = interest, NEW o \in DOMAIN order, NEW r, Ends(o, r)
      PROVE  FilledOK' /\ GapInv'
  <2>1. /\ SameTerms(o, r) /\ r.filled = order[o].filled
        /\ order' = [order EXCEPT ![o] = r] /\ UNCHANGED <<cash, stopped>>
    BY <1>3 DEF Ends, Close
  <2>2. /\ DOMAIN order' = DOMAIN order /\ Len(order') = Len(order)
        /\ \A u \in DOMAIN order : /\ order'[u].side = order[u].side
                                   /\ order'[u].filled = order[u].filled
    BY <1>3, <2>1 DEF Inv, BookOK, SameTerms
  <2>3. Trades' = Trades /\ Spent' = Spent
    BY <1>3, <2>1, <2>2, TradesSame DEF Spent
  <2> QED
    BY <1>1, <1>3, <2>1, <2>2, <2>3, GapSame
<1>4. CASE stopped = "no" /\ \E o \in todo : FillsAverage(o)
  <2>1. PICK o \in todo : FillsAverage(o)
    BY <1>4
  <2>2. CASE Outcome(o) = "fill"
    BY <1>4, <2>1, <2>2, GapFill
  <2>3. CASE Outcome(o) # "fill"
    <3>1. SimulateFill(o) /\ same /\ interest' = interest
      BY <2>1, <2>3 DEF FillsAverage, averages, SimulateFill, history
    <3>2. o \in DOMAIN order
      BY ListedOrder
    <3>3. CASE UNCHANGED <<cash, book>>
      BY <1>2, <1>4, <3>1, <3>3 DEF book
    <3>4. CASE \E r : Ends(o, r)
      BY <1>3, <3>1, <3>2, <3>4
    <3>5. Outcome(o) \in {"wait", "broken"} \/ Outcome(o) \in Final
      BY <2>3, <3>1 DEF SimulateFill
    <3>6. CASE Outcome(o) \in {"wait", "broken"}
      <4>1. UNCHANGED <<cash, book>>
        BY <3>1, <3>6 DEF SimulateFill, Final
      <4> QED
        BY <3>3, <4>1
    <3>7. CASE Outcome(o) \in Final
      <4> DEFINE r == [order[o] EXCEPT !.status = Outcome(o)]
      <4>1. Close(o, r) /\ UNCHANGED <<position, cash, stopped>>
        BY <3>1, <3>7 DEF SimulateFill, Final
      <4>2. SameTerms(o, r) /\ r.filled = order[o].filled
        BY <3>7, ListedOrder DEF SameTerms, Record, Statuses
      <4> HIDE DEF r
      <4> QED
        BY <3>4, <4>1, <4>2 DEF Ends
    <3> QED
      BY <3>5, <3>6, <3>7
  <2> QED
    BY <2>2, <2>3
<1>5. CASE stopped = "no" /\ NothingFills
  <2>1. same
    BY <1>5 DEF NothingFills, averages
  <2>2. CASE NextBar \/ EndOfBar
    BY <1>2, <1>5, <2>1, <2>2 DEF NextBar, EndOfBar, book, account, history
  <2>3. CASE CheckMarketClose
    <3>1. UNCHANGED order
      BY <2>3 DEF CheckMarketClose, book
    <3>2. Spent' = Spent
      <4>1. CASE UNCHANGED <<cash, interest>>
        BY <4>1 DEF Spent
      <4>2. CASE \E i \in IF cash < 0 THEN DailyInterest ELSE {0} :
                   cash' = cash - i /\ interest' = interest + i
        <5>1. PICK i \in IF cash < 0 THEN DailyInterest ELSE {0} :
                   cash' = cash - i /\ interest' = interest + i
          BY <4>2
        <5>2. i \in Nat /\ Cash0 \in Nat
          BY CubbyAssumption
        <5> QED
          BY <1>1, <5>1, <5>2 DEF Spent
      <4> QED
        BY <2>3, <4>1, <4>2 DEF CheckMarketClose
    <3>3. Trades' = Trades
      BY <2>1, <3>1, TradesSame
    <3> QED
      BY <1>1, <1>5, <2>1, <3>1, <3>2, <3>3, GapSame
  <2>4. CASE \E e \in Equities, y \in Quantities, limit \in Limits : Order(e, y, limit)
    <3>1. PICK e \in Equities, y \in Quantities, limit \in Limits : Order(e, y, limit)
      BY <2>4
    <3>2. PICK r : Places(e, y, limit, r)
      BY <3>1, OrderPlaces
    <3>3. /\ Len(order) < MaxOrders /\ Spent' = Spent
          /\ UNCHANGED <<cash, interest, stopped>>
      BY <3>1 DEF Order, account, Spent
    <3>4. SumFunction(Trades)' = SumFunction(Trades) /\ Len(order') <= MaxOrders
      BY <2>1, <3>2, <3>3, TradesPlaced DEF Places
    <3> QED
      BY <2>1, <3>3, <3>4, GapSame
  <2>5. CASE \E o \in DOMAIN order : Cancel(o)
    <3>1. PICK o \in DOMAIN order : Cancel(o)
      BY <2>5
    <3>2. \E r : Ends(o, r)
      BY <3>1, CancelEnds
    <3>3. interest' = interest
      BY <3>1 DEF Cancel, history
    <3> QED
      BY <1>3, <2>1, <3>2, <3>3
  <2> QED
    BY <1>5, <2>2, <2>3, <2>4, <2>5 DEF NothingFills
<1>6. CASE UNCHANGED entryVars
  BY <1>2, <1>6 DEF entryVars, averages, vars, book, account, history
<1> QED
  BY <1>4, <1>5, <1>6 DEF EntryNext

(* What CubbyEntry adds changes nothing of what cubby does. *)
LEMMA EntryIsCubby == EntrySpec => Spec
<1>1. EntryInit => Init
  BY DEF EntryInit
<1>2. [EntryNext]_entryVars => [Next]_vars
  BY DEF EntryNext, FillsAverage, NothingFills, Next, entryVars
<1> QED
  BY <1>1, <1>2, PTL DEF EntrySpec, Spec

(* What orders paid on average comes to what the account paid, but for half *)
(* a tick for each share an average was taken over again; and the entry     *)
(* price of an equity that was not short since it was last flat lies        *)
(* between the prices paid since, whatever was sold in between, and of a    *)
(* flat one is zero (order.go:142-163).                                     *)
THEOREM AveragesAgree == EntrySpec => []AveragesFollowFills
<1>1. Inv /\ EntryInv /\ [EntryNext]_entryVars => EntryInv'
  BY FillKeepsEntry, NothingFillsKeepsEntry DEF EntryNext
<1>2. Inv /\ AccountOK /\ FilledOK /\ GapInv /\ [EntryNext]_entryVars => FilledOK' /\ GapInv'
  BY NextKeepsGap
<1>3. Inv /\ AccountOK /\ EntryInv /\ FilledOK /\ GapInv => AveragesFollowFills
  <2> SUFFICES ASSUME Inv, AccountOK, EntryInv, FilledOK, GapInv
               PROVE  FilledPricesAddUp /\ EntryWithinPaid
    BY DEF AveragesFollowFills
  <2>1. EntryWithinPaid
    BY DEF EntryInv
  <2>2. FilledPricesAddUp
    <3> SUFFICES ASSUME stopped # "division" PROVE 2 * Abs(Gap) <= 10 * rounding
      BY DEF FilledPricesAddUp, Gap, Spent, Trades
    <3>1. 2 * Gap <= 10 * rounding /\ -(2 * Gap) <= 10 * rounding
      BY DEF GapInv
    <3>2. Gap \in Int
      <4>1. SumFunction(Trades) \in Int
        BY TradesType
      <4>2. cash \in Int /\ interest \in Nat
        BY DEF AccountOK
      <4>3. Spent \in Int
        BY <4>2, CubbyAssumption DEF Spent
      <4> QED
        BY <4>1, <4>3, EntryAssumption, SMT DEF Gap
    <3> QED
      BY <3>1, <3>2 DEF Abs
  <2> QED
    BY <2>1, <2>2
<1>4. MoneyInv => Inv /\ AccountOK
  BY DEF MoneyInv
<1> QED
  BY <1>1, <1>2, <1>3, <1>4, EntryStart, GapStart, EntryIsCubby, MoneyHolds, PTL DEF EntrySpec
=============================================================================
