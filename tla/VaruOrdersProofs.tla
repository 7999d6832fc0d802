-------------------------- MODULE VaruOrdersProofs --------------------------
(* Theorems about VaruOrders and VaruOrdersNews, for all their constants. *)
EXTENDS VaruOrdersNews, FiniteSetTheorems, TLAPS

-----------------------------------------------------------------------------
(* What the channels and the book-keeping helpers do to their types. *)

(* Receiving from a channel. *)
LEMMA Receive ==
  ASSUME NEW S, NEW q \in Seq(S), q # <<>>
  PROVE  /\ Head(q) \in S /\ Head(q) = q[1] /\ 1 \in 1..Len(q)
         /\ Tail(q) \in Seq(S)
         /\ Len(Tail(q)) = Len(q) - 1
         /\ \A i \in 1..Len(Tail(q)) : Tail(q)[i] = q[i + 1] /\ i + 1 \in 1..Len(q)
OBVIOUS

BookTypeOK ==
  /\ pending \subseteq Orders /\ byOption \in [Options -> [Orders -> Nat]]
  /\ bySchwab \in [IDs -> Orders \cup {Nil}]
  /\ orderID \in [Orders -> IDs \cup {Nil}]

LEMMA DeleteTypeOK ==
  ASSUME TypeOK, NEW o \in Orders, DeleteSchwabOrder(o)
  PROVE  BookTypeOK'
<1>1. pending' \subseteq Orders /\ orderID' \in [Orders -> IDs \cup {Nil}]
  BY DEF TypeOK, DeleteSchwabOrder, RemovePendingOrder
<1>2. bySchwab' \in [IDs -> Orders \cup {Nil}]
  BY DEF TypeOK, DeleteSchwabOrder
<1>3. byOption' \in [Options -> [Orders -> Nat]]
  <2>1. ASSUME NEW x \in Options, NEW n \in Orders
        PROVE  byOption[x][n] \in Nat /\ legs[o][x] \in Nat
               /\ (byOption[x][n] > 0 => byOption[x][n] - 1 \in Nat)
    BY OrdersAssumption DEF TypeOK, Legs
  <2>2. QED BY <2>1 DEF DeleteSchwabOrder, RemovePendingOrder
<1>4. QED BY <1>1, <1>2, <1>3 DEF BookTypeOK

LEMMA UnchangedBook ==
  ASSUME TypeOK, UNCHANGED <<idVars, pendingVars>>
  PROVE  BookTypeOK'
BY DEF TypeOK, BookTypeOK, idVars, pendingVars

-----------------------------------------------------------------------------
(* Type correctness. *)

LEMMA TypeInit == Init => TypeOK
<1>1. NoLegs \in Legs /\ NoLegs \in [Options -> Nat]
  BY OrdersAssumption DEF NoLegs, Legs
<1>2. <<>> \in Seq(Events) /\ <<>> \in Seq(Updates)
  OBVIOUS
<1>3. QED BY <1>1, <1>2, OrdersAssumption DEF Init, TypeOK

LEMMA TypeOrderID ==
  ASSUME TypeOK, OnOrderOrderID
  PROVE  TypeOK'
<1> DEFINE u == Head(updates)
<1>1. u \in Updates /\ updates' \in Seq(Updates)
  BY Receive DEF OnOrderOrderID, TypeOK
<1>2. u.order \in Orders /\ u.id \in IDs \cup {Nil}
  BY <1>1 DEF Updates
<1>3. BookTypeOK'
  <2>1. CASE u.id # Nil
    BY <1>2, <2>1 DEF OnOrderOrderID, TypeOK, BookTypeOK, pendingVars
  <2>2. CASE u.id = Nil
    BY <1>2, <2>2, DeleteTypeOK DEF OnOrderOrderID
  <2>3. QED BY <2>1, <2>2
<1>4. QED
  BY <1>1, <1>3 DEF OnOrderOrderID, TypeOK, BookTypeOK, callVars, brokerVars

LEMMA TypeEvent ==
  ASSUME TypeOK, OnOrderEvent
  PROVE  TypeOK'
<1> DEFINE e == Head(events)
<1>1. e \in Events /\ events' \in Seq(Events)
  BY Receive DEF OnOrderEvent, TypeOK
<1>2. e.id \in IDs
  BY <1>1 DEF Events, FillEvents, CancelEvents, OutEvents, ChangeEvents
<1>3. BookTypeOK' /\ volume' \in [Options -> Nat] /\ filled' \in [Orders -> SUBSET Options]
  <2>1. CASE OnFillEvent(e)
    <3>1. e.option \in Options /\ e.qty \in Nat
      BY <1>1, <2>1, OrdersAssumption
         DEF OnFillEvent, Events, FillEvents, CancelEvents, OutEvents, ChangeEvents
    <3>2. volume' \in [Options -> Nat]
      <4>1. volume \in [Options -> Nat] /\ volume[e.option] + e.qty \in Nat
        BY <3>1 DEF TypeOK
      <4>2. volume' = volume \/ volume' = [volume EXCEPT ![e.option] = volume[e.option] + e.qty]
        BY <2>1 DEF OnFillEvent
      <4>3. QED BY <4>1, <4>2
    <3>3. bySchwab[e.id] = Nil \/ bySchwab[e.id] \in Orders
      BY <1>2 DEF TypeOK
    <3>4. filled' \in [Orders -> SUBSET Options]
      <4> DEFINE o == bySchwab[e.id]
                 marks == filled[o] \cup ({e.option} \cap LegSet(legs[o]))
      <4>1. filled \in [Orders -> SUBSET Options]
        BY DEF TypeOK
      <4>2. filled' = filled \/ (o # Nil /\ filled' = [filled EXCEPT ![o] = marks])
        BY <2>1 DEF OnFillEvent
      <4>3. o # Nil => marks \subseteq Options
        BY <3>1, <3>3, <4>1
      <4>4. QED BY <3>3, <4>1, <4>2, <4>3
    <3>5. BookTypeOK'
      BY <2>1, <3>3, DeleteTypeOK, UnchangedBook DEF OnFillEvent
    <3>6. QED BY <3>2, <3>4, <3>5
  <2>2. CASE OnOrderOver(e)
    <3>1. bySchwab[e.id] = Nil \/ bySchwab[e.id] \in Orders
      BY <1>2 DEF TypeOK
    <3>2. BookTypeOK'
      BY <2>2, <3>1, DeleteTypeOK, UnchangedBook DEF OnOrderOver
    <3>3. QED BY <2>2, <3>2 DEF OnOrderOver, TypeOK
  <2>3. CASE OnCancelAccepted(e)
    BY <2>3, UnchangedBook DEF OnCancelAccepted, TypeOK
  <2>4. CASE OnChangeEvent(e)
    <3>1. e.parent \in IDs
      BY <1>1, <2>4
         DEF OnChangeEvent, Events, FillEvents, CancelEvents, OutEvents, ChangeEvents
    <3>2. BookTypeOK'
      BY <1>2, <2>4, <3>1 DEF OnChangeEvent, TypeOK, BookTypeOK, idVars, pendingVars
    <3>3. QED BY <2>4, <3>2 DEF OnChangeEvent, TypeOK
  <2>5. QED BY <2>1, <2>2, <2>3, <2>4 DEF OnOrderEvent
<1>4. QED
  BY <1>1, <1>3 DEF OnOrderEvent, TypeOK, BookTypeOK, callVars, brokerVars

LEMMA AppendType ==
  ASSUME NEW S, NEW q \in Seq(S), NEW e \in S
  PROVE  Append(q, e) \in Seq(S)
OBVIOUS

LEMMA EmitType ==
  ASSUME TypeOK, NEW e \in Events, Emit(e)
  PROVE  events' \in Seq(Events)
<1>1. events \in Seq(Events)
  BY DEF TypeOK
<1>2. Append(events, e) \in Seq(Events)
  BY <1>1, AppendType
<1>3. QED BY <1>1, <1>2 DEF Emit

(* An edited order is news under its old id and its new one. *)
LEMMA ChangeTold ==
  ASSUME TypeOK, NEW b \in IDs, ChangeOrder(b)
  PROVE  \E e \in Events : /\ e.kind = "change" /\ e.id = issued + 1 /\ e.parent = b
                           /\ Emit(e)
<1>1. issued + 1 \in IDs
  BY OrdersAssumption DEF ChangeOrder, TypeOK, IDs
<1>2. PICK f \in BOOLEAN : Emit([kind |-> "change", id |-> issued + 1, parent |-> b,
                                 supported |-> f])
  BY DEF ChangeOrder
<1> DEFINE r == [kind |-> "change", id |-> issued + 1, parent |-> b, supported |-> f]
<1>3. r \in Events /\ r.kind = "change" /\ r.id = issued + 1 /\ r.parent = b
  BY <1>1 DEF Events, ChangeEvents
<1> QED
  BY <1>2, <1>3

LEMMA TypeStart ==
  ASSUME TypeOK, LoadDefinitions \/ RestorePortfolio \/ Restart
  PROVE  TypeOK'
<1>1. CASE LoadDefinitions
  BY <1>1 DEF LoadDefinitions, TypeOK, idVars, pendingVars, callVars, brokerVars, newsVars
<1>2. CASE RestorePortfolio
  <2>1. ASSUME NEW x \in Options
        PROVE  Executions(x) \in Nat
    <3> DEFINE P == {p \in IDs \X (1..MaxQty) :
                       IsFilledOrder(p[1]) /\ p[2] <= legs[owner[p[1]]][x]}
    <3>1. IsFiniteSet(IDs) /\ IsFiniteSet(1..MaxQty)
      BY FS_Interval, OrdersAssumption DEF IDs
    <3>2. IsFiniteSet(IDs \X (1..MaxQty))
      BY <3>1, FS_Product
    <3>3. IsFiniteSet(P)
      BY <3>2, FS_Subset
    <3>4. QED BY <3>3, FS_CardinalityType DEF Executions
  <2>2. volume' \in [Options -> Nat]
    BY <1>2, <2>1 DEF RestorePortfolio, TypeOK
  <2>3. QED
    BY <1>2, <2>2
       DEF RestorePortfolio, TypeOK, idVars, pendingVars, callVars, brokerVars, newsVars
<1>3. CASE Restart
  <2>1. NoLegs \in [Options -> Nat] /\ <<>> \in Seq(Events) /\ <<>> \in Seq(Updates)
    BY DEF NoLegs
  <2>2. restarts' \in 0..MaxRestarts
    BY <1>3, OrdersAssumption DEF Restart, TypeOK
  <2>3. QED BY <1>3, <2>1, <2>2 DEF Restart, TypeOK, brokerVars
<1>4. QED BY <1>1, <1>2, <1>3

LEMMA TypeSend ==
  ASSUME TypeOK, NEW ls \in Shapes, SendOrder(ls)
  PROVE  TypeOK'
<1>1. ls \in Legs /\ sent + 1 \in Orders /\ sent' \in 0..MaxOrders
  BY OrdersAssumption DEF SendOrder, TypeOK, Legs, Orders
<1>2. pending' \subseteq Orders
  BY <1>1 DEF SendOrder, AddPendingOrder, TypeOK
<1>3. byOption' \in [Options -> [Orders -> Nat]]
  BY DEF SendOrder, AddPendingOrder, TypeOK
<1>4. QED
  BY <1>1, <1>2, <1>3 DEF SendOrder, TypeOK, idVars, brokerVars, newsVars

LEMMA TypeCalls ==
  ASSUME TypeOK, NEW o \in Orders,
         PlaceOrder(o) \/ CreateOrderReturns(o) \/ RetryPost(o) \/ BeginCancelCall(o)
  PROVE  TypeOK'
<1>1. CASE PlaceOrder(o)
  <2>1. issued + 1 \in IDs /\ issued' \in 0..MaxIDs
    BY <1>1, OrdersAssumption DEF PlaceOrder, TypeOK, IDs
  <2>2. legs[o] \in Legs
    BY DEF TypeOK
  <2>3. QED
    BY <1>1, <2>1, <2>2 DEF PlaceOrder, TypeOK, idVars, pendingVars, newsVars
<1>2. CASE CreateOrderReturns(o)
  <2>1. PICK id \in {reply[o]} \cup (IF MayHideID(o) THEN {Nil} ELSE {}) :
          updates' = Append(updates, [order |-> o, id |-> id])
    BY <1>2 DEF CreateOrderReturns
  <2>2. [order |-> o, id |-> id] \in Updates
    BY <2>1 DEF Updates, TypeOK
  <2>3. updates' \in Seq(Updates)
    BY <2>1, <2>2, AppendType DEF TypeOK
  <2>4. QED
    BY <1>2, <2>3 DEF CreateOrderReturns, TypeOK, idVars, pendingVars, brokerVars
<1>3. CASE RetryPost(o)
  BY <1>3 DEF RetryPost, TypeOK, idVars, pendingVars, brokerVars, newsVars
<1>4. CASE BeginCancelCall(o)
  BY <1>4 DEF BeginCancelCall, TypeOK, idVars, pendingVars, brokerVars, newsVars
<1>5. QED BY <1>1, <1>2, <1>3, <1>4

LEMMA TypeCancelPass ==
  ASSUME TypeOK, NEW S \in SUBSET Orders, CancelUnfilledOrders(S)
  PROVE  TypeOK'
BY DEF CancelUnfilledOrders, TypeOK, idVars, pendingVars, brokerVars, newsVars

LEMMA TypeSchwab ==
  ASSUME TypeOK, Schwab
  PROVE  TypeOK'
<1>1. PICK b \in IDs : SchwabWorks(b)
  BY DEF Schwab
<1>2. ASSUME NEW x \in Options, NEW n \in 1..MaxQty, Execute(b, x, n)
      PROVE  TypeOK'
  <2>1. [kind |-> "fill", id |-> b, option |-> x, qty |-> n] \in Events
    BY DEF Events, FillEvents
  <2>2. events' \in Seq(Events)
    BY <1>2, <2>1, EmitType DEF Execute
  <2>3. left' \in [IDs -> Legs]
    <3>1. left[b][x] - n \in 0..MaxQty
      BY <1>2, OrdersAssumption DEF Execute, TypeOK, Legs
    <3>2. [left[b] EXCEPT ![x] = left[b][x] - n] \in Legs
      BY <3>1 DEF TypeOK, Legs
    <3>3. QED BY <1>2, <3>2 DEF Execute, TypeOK
  <2>4. traded' \in [Options -> Nat]
    <3>1. traded[x] + n \in Nat
      BY OrdersAssumption DEF TypeOK
    <3>2. QED BY <1>2, <3>1 DEF Execute, TypeOK
  <2>5. status' \in [IDs -> {"none", "open", "pulling", "closed"}]
    BY <1>2 DEF Execute, TypeOK
  <2>6. QED
    BY <1>2, <2>2, <2>3, <2>4, <2>5
       DEF Execute, TypeOK, idVars, pendingVars, callVars
<1>3. ASSUME NEW e \in Events, Close(b, e)
      PROVE  /\ events' \in Seq(Events)
             /\ status' \in [IDs -> {"none", "open", "pulling", "closed"}]
             /\ UNCHANGED <<issued, owner, left, traded>>
  BY <1>3, EmitType DEF Close, TypeOK
<1>4. CASE ReceiveCancel(b)
  <2>1. /\ [kind |-> "cancel", id |-> b, closed |-> FALSE] \in Events
        /\ [kind |-> "cancel", id |-> b, closed |-> TRUE] \in Events
    BY DEF Events, CancelEvents
  <2>2. /\ events' \in Seq(Events)
        /\ status' \in [IDs -> {"none", "open", "pulling", "closed"}]
        /\ UNCHANGED <<issued, owner, left, traded>>
    BY <1>3, <1>4, <2>1, EmitType DEF ReceiveCancel, brokerVars, TypeOK
  <2>3. QED BY <1>4, <2>2 DEF ReceiveCancel, TypeOK, idVars, pendingVars
<1>5. CASE LeaveMarket(b)
  <2>1. \A kind \in {"urout", "expired"} : [kind |-> kind, id |-> b] \in Events
    BY DEF Events, OutEvents
  <2>2. QED
    BY <1>3, <1>5, <2>1 DEF LeaveMarket, TypeOK, idVars, pendingVars, callVars
<1>6. CASE ChangeOrder(b)
  <2>1. issued + 1 \in IDs /\ issued' \in 0..MaxIDs
    BY <1>6, OrdersAssumption DEF ChangeOrder, TypeOK, IDs
  <2>2. PICK e \in Events : Emit(e)
    BY <1>6, ChangeTold
  <2>3. events' \in Seq(Events)
    BY <2>2, EmitType
  <2>4. QED
    BY <1>6, <2>1, <2>3 DEF ChangeOrder, TypeOK, idVars, pendingVars, callVars
<1>7. QED BY <1>1, <1>2, <1>4, <1>5, <1>6 DEF SchwabWorks

LEMMA TypeNext == TypeOK /\ [Next]_vars => TypeOK'
<1> SUFFICES ASSUME TypeOK, [Next]_vars PROVE TypeOK'
  OBVIOUS
<1>1. CASE Trader
  BY <1>1, TypeStart, TypeSend, TypeCancelPass, TypeOrderID, TypeEvent DEF Trader
<1>2. CASE Calls
  BY <1>2, TypeCalls DEF Calls
<1>3. CASE Schwab
  BY <1>3, TypeSchwab
<1>4. CASE Restart
  BY <1>4, TypeStart
<1>5. CASE UNCHANGED vars
  BY <1>5 DEF vars, TypeOK, idVars, pendingVars, callVars, brokerVars, newsVars
<1>6. QED BY <1>1, <1>2, <1>3, <1>4, <1>5 DEF Next

(* Every variable keeps its type, whatever the bounds and the faults. *)
THEOREM TypeCorrect == Spec => []TypeOK
BY TypeInit, TypeNext, PTL DEF Spec
-----------------------------------------------------------------------------
(* The inductive invariant.  What makes IndexExact, RegistryExact and the   *)
(* rest inductive is where an order stands between being sent and its id    *)
(* being known: its goroutine still calls, or exactly one update carries    *)
(* the news; and that every id the trader hears of was issued for the order *)
(* it hears it about.                                                       *)

(* An order that was not created yet has left no trace. *)
UnsentInv ==
  \A o \in Orders : o > sent =>
    o \notin pending /\ orderID[o] = Nil /\ o \notin canceling /\ post[o] = "none"

CancelInv == \A o \in canceling : orderID[o] # Nil

(* An order whose goroutine calls waits for its id. *)
CallInv == \A o \in Orders : post[o] = "calling" => o \in pending /\ orderID[o] = Nil

(* An update finds its order waiting, and is the only one for it. *)
UpdateInv ==
  \A i \in 1..Len(updates) :
    /\ updates[i].order \in pending
    /\ orderID[updates[i].order] = Nil
    /\ post[updates[i].order] = "done"
    /\ updates[i].id # Nil => owner[updates[i].id] = updates[i].order

UpdateOnce ==
  \A i, j \in 1..Len(updates) : updates[i].order = updates[j].order => i = j

(* Ids belong to the orders they were issued for. *)
OwnerInv ==
  /\ \A b \in IDs : owner[b] # Nil => b <= issued
  /\ \A b \in IDs : status[b] # "none" => owner[b] # Nil
  /\ \A b \in IDs : bySchwab[b] # Nil => owner[b] = bySchwab[b]
  /\ \A o \in Orders : reply[o] # Nil => owner[reply[o]] = o

ChangeInv ==
  \A i \in 1..Len(events) : events[i].kind = "change" =>
    owner[events[i].id] # Nil /\ owner[events[i].id] = owner[events[i].parent]

(* The refinement needs to know that a free slot is found by counting. *)
SlotBound == Cardinality(pending) <= MaxPending

BookInv  == IndexExact /\ SlotBound /\ RegistryExact
StageInv == UnsentInv /\ CancelInv /\ CallInv /\ UpdateInv /\ UpdateOnce /\ NewsIsComing
IInv     == TypeOK /\ BookInv /\ StageInv /\ OwnerInv /\ ChangeInv

LEMMA InvInit == Init => IInv
<1> SUFFICES ASSUME Init PROVE IInv
  OBVIOUS
<1>1. TypeOK
  BY TypeInit
<1>2. IndexExact /\ RegistryExact
  BY OrdersAssumption DEF Init, IndexExact, RegistryExact, NoLegs
<1>3. SlotBound
  BY FS_EmptySet, OrdersAssumption DEF Init, SlotBound
<1>4. StageInv
  BY DEF Init, StageInv, UnsentInv, CancelInv, CallInv, UpdateInv, UpdateOnce, NewsIsComing
<1>5. OwnerInv /\ ChangeInv
  BY OrdersAssumption DEF Init, OwnerInv, ChangeInv
<1>6. QED BY <1>1, <1>2, <1>3, <1>4, <1>5 DEF IInv, BookInv

LEMMA PendingFinite ==
  ASSUME TypeOK
  PROVE  IsFiniteSet(pending) /\ Cardinality(pending) \in Nat
<1>1. IsFiniteSet(Orders)
  BY FS_Interval, OrdersAssumption DEF Orders
<1>2. IsFiniteSet(pending)
  BY <1>1, FS_Subset DEF TypeOK
<1>3. QED BY <1>2, FS_CardinalityType

LEMMA UpdateTyped ==
  ASSUME TypeOK, NEW i \in 1..Len(updates)
  PROVE  updates[i].order \in Orders
<1>1. updates[i] \in Updates
  BY DEF TypeOK
<1>2. QED BY <1>1 DEF Updates

(* An order leaves the books. *)
LEMMA DeleteBook ==
  ASSUME IInv, NEW o \in pending, DeleteSchwabOrder(o), UNCHANGED legs
  PROVE  BookInv'
<1>1. o \in Orders
  BY DEF IInv, TypeOK
<1>2. IndexExact'
  <2> SUFFICES ASSUME NEW x \in Options, NEW n \in Orders
               PROVE  byOption'[x][n] = IF n \in pending' /\ legs[n][x] > 0 THEN 1 ELSE 0
    BY DEF IndexExact
  <2>1. byOption[x][n] = IF n \in pending /\ legs[n][x] > 0 THEN 1 ELSE 0
    BY DEF IInv, BookInv, IndexExact
  <2>2. byOption'[x][n] = IF n = o /\ legs[o][x] > 0 /\ byOption[x][n] > 0
                          THEN byOption[x][n] - 1 ELSE byOption[x][n]
    BY DEF DeleteSchwabOrder, RemovePendingOrder
  <2>3. pending' = pending \ {o}
    BY DEF DeleteSchwabOrder, RemovePendingOrder
  <2>4. QED BY <2>1, <2>2, <2>3
<1>3. SlotBound'
  <2>1. IsFiniteSet(pending) /\ Cardinality(pending) \in Nat
    BY PendingFinite DEF IInv
  <2>2. Cardinality(pending \ {o}) = Cardinality(pending) - 1
    BY <2>1, FS_RemoveElement
  <2>3. pending' = pending \ {o}
    BY DEF DeleteSchwabOrder, RemovePendingOrder
  <2>4. QED
    BY <2>1, <2>2, <2>3, OrdersAssumption DEF IInv, BookInv, SlotBound
<1>4. RegistryExact'
  BY <1>1 DEF IInv, TypeOK, BookInv, RegistryExact, DeleteSchwabOrder, RemovePendingOrder, Nil, IDs
<1>5. QED BY <1>2, <1>3, <1>4 DEF BookInv

(* An order whose id was known leaves the books: no update was waiting for  *)
(* it and its goroutine is done.                                            *)
LEMMA DeleteStage ==
  ASSUME IInv, NEW o \in pending, orderID[o] # Nil, DeleteSchwabOrder(o),
         UNCHANGED <<sent, canceling, post, updates, owner>>
  PROVE  StageInv'
<1>1. orderID' = orderID /\ pending' = pending \ {o}
  BY DEF DeleteSchwabOrder, RemovePendingOrder
<1>2. UnsentInv' /\ CancelInv' /\ CallInv'
  BY <1>1 DEF IInv, StageInv, UnsentInv, CancelInv, CallInv
<1>3. UpdateInv' /\ UpdateOnce'
  BY <1>1 DEF IInv, StageInv, UpdateInv, UpdateOnce
<1>4. NewsIsComing'
  BY <1>1 DEF IInv, StageInv, NewsIsComing, UpdateQueued
<1>5. QED BY <1>2, <1>3, <1>4 DEF StageInv

-----------------------------------------------------------------------------
(* Steps that leave the books alone. *)

OwnerKept == \A b \in IDs : owner[b] # Nil => owner'[b] = owner[b]

LEMMA Quiet ==
  ASSUME IInv, UNCHANGED <<sent, legs, canceling, idVars, pendingVars, post, updates>>,
         OwnerKept
  PROVE  BookInv' /\ StageInv'
<1>1. BookInv'
  BY DEF IInv, BookInv, IndexExact, SlotBound, RegistryExact, idVars, pendingVars
<1>2. UpdateInv'
  <2> SUFFICES ASSUME NEW i \in 1..Len(updates)
               PROVE  /\ updates[i].order \in pending
                      /\ orderID[updates[i].order] = Nil
                      /\ post[updates[i].order] = "done"
                      /\ updates[i].id # Nil => owner'[updates[i].id] = updates[i].order
    BY DEF UpdateInv, idVars, pendingVars
  <2>1. updates[i] \in Updates
    BY DEF IInv, TypeOK
  <2>2. updates[i].order # Nil /\ updates[i].id \in IDs \cup {Nil}
    BY <2>1, OrdersAssumption DEF Updates, Orders, Nil
  <2>3. QED BY <2>2 DEF IInv, StageInv, UpdateInv, OwnerKept
<1>3. UnsentInv' /\ CancelInv' /\ CallInv' /\ UpdateOnce' /\ NewsIsComing'
  BY DEF IInv, StageInv, UnsentInv, CancelInv, CallInv, UpdateOnce, NewsIsComing,
         UpdateQueued, idVars, pendingVars
<1>4. QED BY <1>1, <1>2, <1>3 DEF StageInv

(* The events queue: a change event that joins it must name its order. *)
LEMMA EventsKept ==
  ASSUME IInv, UNCHANGED events, OwnerKept
  PROVE  ChangeInv'
<1> SUFFICES ASSUME NEW i \in 1..Len(events), events[i].kind = "change"
             PROVE  owner'[events[i].id] # Nil
                    /\ owner'[events[i].id] = owner'[events[i].parent]
  BY DEF ChangeInv
<1>1. events[i] \in Events
  BY DEF IInv, TypeOK
<1>2. events[i].id \in IDs /\ events[i].parent \in IDs
  BY <1>1 DEF Events, FillEvents, CancelEvents, OutEvents, ChangeEvents
<1>3. QED BY <1>2 DEF IInv, ChangeInv, OwnerKept

LEMMA EventEmitted ==
  ASSUME IInv, NEW e \in Events, Emit(e), OwnerKept,
         e.kind = "change" => owner'[e.id] # Nil /\ owner'[e.id] = owner'[e.parent]
  PROVE  ChangeInv'
<1>1. CASE UNCHANGED events
  BY <1>1, EventsKept
<1>2. CASE events' = Append(events, e)
  <2> SUFFICES ASSUME NEW i \in 1..Len(events'), events'[i].kind = "change"
               PROVE  owner'[events'[i].id] # Nil
                      /\ owner'[events'[i].id] = owner'[events'[i].parent]
    BY DEF ChangeInv
  <2>1. events \in Seq(Events) /\ Len(events') = Len(events) + 1
    BY <1>2 DEF IInv, TypeOK
  <2>2. CASE i = Len(events) + 1
    BY <1>2, <2>1, <2>2
  <2>3. CASE i \in 1..Len(events)
    <3>1. events'[i] = events[i] /\ events[i] \in Events
      BY <1>2, <2>1, <2>3
    <3>2. events[i].id \in IDs /\ events[i].parent \in IDs
      BY <3>1 DEF Events, FillEvents, CancelEvents, OutEvents, ChangeEvents
    <3>3. QED BY <2>3, <3>1, <3>2 DEF IInv, ChangeInv, OwnerKept
  <2>4. QED BY <2>1, <2>2, <2>3
<1>3. QED BY <1>1, <1>2 DEF Emit

LEMMA EventReceived ==
  ASSUME IInv, events # <<>>, events' = Tail(events), UNCHANGED owner
  PROVE  ChangeInv'
<1>1. events \in Seq(Events)
  BY DEF IInv, TypeOK
<1>2. \A i \in 1..Len(events') : events'[i] = events[i + 1] /\ i + 1 \in 1..Len(events)
  BY <1>1, Receive
<1>3. QED BY <1>2 DEF IInv, ChangeInv
-----------------------------------------------------------------------------
(* Each action preserves the invariant. *)

LEMMA InvStart ==
  ASSUME IInv, LoadDefinitions \/ RestorePortfolio
  PROVE  IInv'
<1>1. UNCHANGED <<sent, legs, canceling, idVars, pendingVars, callVars, brokerVars, newsVars>>
  BY DEF LoadDefinitions, RestorePortfolio
<1>2. TypeOK'
  BY TypeStart DEF IInv
<1>3. OwnerKept
  BY <1>1 DEF OwnerKept, brokerVars
<1>4. BookInv' /\ StageInv'
  BY <1>1, <1>3, Quiet DEF callVars, newsVars
<1>5. ChangeInv'
  BY <1>1, <1>3, EventsKept DEF newsVars
<1>6. OwnerInv'
  BY <1>1 DEF IInv, OwnerInv, idVars, callVars, brokerVars
<1>7. QED BY <1>2, <1>4, <1>5, <1>6 DEF IInv

LEMMA InvRestart ==
  ASSUME IInv, Restart
  PROVE  IInv'
<1>1. TypeOK'
  BY TypeStart DEF IInv
<1>2. IndexExact' /\ RegistryExact'
  BY DEF Restart, IndexExact, RegistryExact
<1>3. SlotBound'
  BY FS_EmptySet, OrdersAssumption DEF Restart, SlotBound
<1>4. StageInv'
  <2>1. UnsentInv' /\ CancelInv' /\ CallInv' /\ NewsIsComing'
    BY DEF Restart, IInv, TypeOK, StageInv, UnsentInv, CancelInv, CallInv, NewsIsComing
  <2>2. UpdateInv' /\ UpdateOnce'
    BY DEF Restart, UpdateInv, UpdateOnce
  <2>3. QED BY <2>1, <2>2 DEF StageInv
<1>5. OwnerInv' /\ ChangeInv'
  BY DEF Restart, IInv, OwnerInv, ChangeInv, brokerVars
<1>6. QED BY <1>1, <1>2, <1>3, <1>4, <1>5 DEF IInv, BookInv

LEMMA InvSend ==
  ASSUME IInv, NEW ls \in Shapes, SendOrder(ls)
  PROVE  IInv'
<1> DEFINE o == sent + 1
<1>1. TypeOK'
  BY TypeSend DEF IInv
<1>2. ls \in Legs /\ o \in Orders /\ sent \in Nat
  BY OrdersAssumption DEF SendOrder, IInv, TypeOK, Legs, Orders
<1>3. o \notin pending /\ orderID[o] = Nil /\ o \notin canceling /\ post[o] = "none"
  BY <1>2 DEF IInv, StageInv, UnsentInv
<1>4. legs' = [legs EXCEPT ![o] = ls] /\ pending' = pending \cup {o}
  BY DEF SendOrder, AddPendingOrder
<1>5. IndexExact'
  <2> SUFFICES ASSUME NEW x \in Options, NEW n \in Orders
               PROVE  byOption'[x][n] = IF n \in pending' /\ legs'[n][x] > 0 THEN 1 ELSE 0
    BY DEF IndexExact
  <2>1. byOption[x][n] = IF n \in pending /\ legs[n][x] > 0 THEN 1 ELSE 0
    BY DEF IInv, BookInv, IndexExact
  <2>2. byOption'[x][n] = IF n = o /\ ls[x] > 0 THEN byOption[x][n] + 1 ELSE byOption[x][n]
    BY DEF SendOrder, AddPendingOrder
  <2>3. legs'[n] = IF n = o THEN ls ELSE legs[n]
    BY <1>2, <1>4 DEF IInv, TypeOK
  <2>4. QED BY <1>3, <1>4, <2>1, <2>2, <2>3
<1>6. SlotBound'
  <2>1. IsFiniteSet(pending) /\ Cardinality(pending) \in Nat
    BY PendingFinite DEF IInv
  <2>2. Cardinality(pending \cup {o}) = Cardinality(pending) + 1
    BY <1>3, <2>1, FS_AddElement
  <2>3. QED BY <1>4, <2>1, <2>2, OrdersAssumption DEF SendOrder, SlotBound
<1>7. RegistryExact'
  BY <1>3, <1>4 DEF SendOrder, IInv, BookInv, RegistryExact, idVars
<1>8. StageInv'
  <2>1. post' = [post EXCEPT ![o] = "calling"] /\ sent' = sent + 1
        /\ UNCHANGED <<canceling, orderID, updates, owner>>
    BY DEF SendOrder, idVars, newsVars, brokerVars
  <2>2. post'[o] = "calling" /\ \A n \in Orders : n # o => post'[n] = post[n]
    BY <1>2, <2>1 DEF IInv, TypeOK
  <2>3. UnsentInv' /\ CancelInv' /\ CallInv'
    BY <1>2, <1>3, <1>4, <2>1, <2>2
       DEF IInv, StageInv, UnsentInv, CancelInv, CallInv, Orders
  <2>4. UpdateInv' /\ UpdateOnce'
    <3> SUFFICES ASSUME NEW i \in 1..Len(updates)
                 PROVE  /\ updates[i].order \in pending'
                        /\ orderID[updates[i].order] = Nil
                        /\ post'[updates[i].order] = "done"
                        /\ updates[i].id # Nil => owner[updates[i].id] = updates[i].order
      BY <2>1 DEF UpdateInv, UpdateOnce, IInv, StageInv
    <3>1. updates[i].order \in Orders /\ updates[i].order \in pending
      BY DEF IInv, TypeOK, StageInv, UpdateInv
    <3>2. QED BY <1>3, <1>4, <2>2, <3>1 DEF IInv, StageInv, UpdateInv
  <2>5. NewsIsComing'
    BY <1>2, <1>4, <2>1, <2>2 DEF IInv, TypeOK, StageInv, NewsIsComing, UpdateQueued
  <2>6. QED BY <2>3, <2>4, <2>5 DEF StageInv
<1>9. OwnerInv' /\ ChangeInv'
  BY DEF SendOrder, IInv, OwnerInv, ChangeInv, idVars, brokerVars, newsVars
<1>10. QED BY <1>1, <1>5, <1>6, <1>7, <1>8, <1>9 DEF IInv, BookInv

LEMMA InvCancelPass ==
  ASSUME IInv, NEW S \in SUBSET Orders, CancelUnfilledOrders(S)
  PROVE  IInv'
<1>1. TypeOK'
  BY TypeCancelPass DEF IInv
<1>2. /\ canceling' = canceling \cup S
      /\ \A o \in S : o \in pending /\ orderID[o] # Nil
      /\ UNCHANGED <<sent, legs, idVars, pendingVars, post, reply, brokerVars, newsVars>>
  BY DEF CancelUnfilledOrders, Cancelable
<1>3. BookInv'
  BY <1>2 DEF IInv, BookInv, IndexExact, SlotBound, RegistryExact, idVars, pendingVars
<1>4. UnsentInv' /\ CancelInv'
  BY <1>2 DEF IInv, StageInv, UnsentInv, CancelInv, idVars, pendingVars
<1>5. CallInv' /\ UpdateInv' /\ UpdateOnce' /\ NewsIsComing'
  BY <1>2 DEF IInv, StageInv, CallInv, UpdateInv, UpdateOnce, NewsIsComing, UpdateQueued,
              idVars, pendingVars, newsVars, brokerVars
<1>6. OwnerInv' /\ ChangeInv'
  BY <1>2 DEF IInv, OwnerInv, ChangeInv, idVars, brokerVars, newsVars
<1>7. QED BY <1>1, <1>3, <1>4, <1>5, <1>6 DEF IInv, StageInv

LEMMA InvPlace ==
  ASSUME IInv, NEW o \in Orders, PlaceOrder(o)
  PROVE  IInv'
<1> DEFINE b == issued + 1
<1>1. TypeOK'
  BY TypeCalls DEF IInv
<1>2. b \in IDs /\ issued \in Nat /\ o # Nil
  BY OrdersAssumption DEF PlaceOrder, IInv, TypeOK, IDs, Orders, Nil
<1>3. owner[b] = Nil
  BY <1>2 DEF IInv, OwnerInv
<1>4. owner' = [owner EXCEPT ![b] = o] /\ issued' = issued + 1
      /\ reply' = [reply EXCEPT ![o] = b] /\ status' = [status EXCEPT ![b] = "open"]
  BY DEF PlaceOrder
<1>5. /\ owner'[b] = o /\ reply'[o] = b
      /\ \A c \in IDs : c # b => owner'[c] = owner[c] /\ status'[c] = status[c]
      /\ \A n \in Orders : n # o => reply'[n] = reply[n]
  BY <1>2, <1>4 DEF IInv, TypeOK
<1>6. OwnerKept
  BY <1>3, <1>5 DEF OwnerKept
<1>7. BookInv' /\ StageInv'
  BY <1>6, Quiet DEF PlaceOrder, newsVars
<1>8. ChangeInv'
  BY <1>6, EventsKept DEF PlaceOrder, newsVars
<1>9. OwnerInv'
  <2>1. \A c \in IDs : (owner'[c] # Nil => c <= issued') /\ (status'[c] # "none" => owner'[c] # Nil)
    BY <1>2, <1>4, <1>5 DEF IInv, OwnerInv, IDs
  <2>2. \A c \in IDs : bySchwab'[c] # Nil => owner'[c] = bySchwab'[c]
    BY <1>3, <1>5 DEF IInv, OwnerInv, PlaceOrder, idVars
  <2>3. \A n \in Orders : reply'[n] # Nil => owner'[reply'[n]] = n
    <3> SUFFICES ASSUME NEW n \in Orders, reply'[n] # Nil PROVE owner'[reply'[n]] = n
      OBVIOUS
    <3>1. CASE n = o
      BY <1>5, <3>1
    <3>2. CASE n # o
      <4>1. reply'[n] = reply[n] /\ reply[n] \in IDs /\ owner[reply[n]] = n /\ n # Nil
        BY <1>5, <3>2, OrdersAssumption DEF IInv, TypeOK, OwnerInv, Orders, Nil
      <4>2. QED BY <1>3, <1>5, <4>1
    <3>3. QED BY <3>1, <3>2
  <2>4. QED BY <2>1, <2>2, <2>3 DEF OwnerInv
<1>10. QED BY <1>1, <1>7, <1>8, <1>9 DEF IInv

LEMMA InvReturn ==
  ASSUME IInv, NEW o \in Orders, CreateOrderReturns(o)
  PROVE  IInv'
<1>1. TypeOK'
  BY TypeCalls DEF IInv
<1>2. PICK id \in {reply[o]} \cup (IF MayHideID(o) THEN {Nil} ELSE {}) :
        updates' = Append(updates, [order |-> o, id |-> id])
  BY DEF CreateOrderReturns
<1> DEFINE u == [order |-> o, id |-> id]
<1>3. /\ post[o] = "calling" /\ post' = [post EXCEPT ![o] = "done"]
      /\ UNCHANGED <<sent, legs, canceling, idVars, pendingVars, reply, brokerVars, events>>
  BY DEF CreateOrderReturns
<1>4. post'[o] = "done" /\ \A n \in Orders : n # o => post'[n] = post[n]
  BY <1>3 DEF IInv, TypeOK
<1>5. o \in pending /\ orderID[o] = Nil /\ (id # Nil => owner[id] = o)
  BY <1>2, <1>3 DEF IInv, StageInv, CallInv, OwnerInv
<1>6. updates \in Seq(Updates) /\ Len(updates') = Len(updates) + 1
      /\ updates'[Len(updates) + 1] = u
      /\ \A i \in 1..Len(updates) : updates'[i] = updates[i] /\ updates[i].order \in Orders
  <2>1. updates \in Seq(Updates) /\ u \in Updates
    BY <1>2 DEF IInv, TypeOK, Updates
  <2>2. \A i \in 1..Len(updates) : updates[i].order \in Orders
    BY UpdateTyped DEF IInv
  <2>3. QED BY <1>2, <2>1, <2>2
<1>7. \A i \in 1..Len(updates) : updates[i].order # o
  BY <1>3 DEF IInv, StageInv, UpdateInv
<1>8. BookInv'
  BY <1>3 DEF IInv, BookInv, IndexExact, SlotBound, RegistryExact, idVars, pendingVars
<1>9. UnsentInv' /\ CancelInv' /\ CallInv'
  BY <1>3, <1>4 DEF IInv, StageInv, UnsentInv, CancelInv, CallInv, idVars, pendingVars
<1>10. UpdateInv'
  <2> SUFFICES ASSUME NEW i \in 1..Len(updates')
               PROVE  /\ updates'[i].order \in pending
                      /\ orderID[updates'[i].order] = Nil
                      /\ post'[updates'[i].order] = "done"
                      /\ updates'[i].id # Nil => owner[updates'[i].id] = updates'[i].order
    BY <1>3 DEF UpdateInv, idVars, pendingVars, brokerVars
  <2>1. CASE i = Len(updates) + 1
    BY <1>4, <1>5, <1>6, <2>1
  <2>2. CASE i \in 1..Len(updates)
    BY <1>4, <1>6, <1>7, <2>2 DEF IInv, StageInv, UpdateInv
  <2>3. QED BY <1>6, <2>1, <2>2
<1>11. UpdateOnce'
  BY <1>6, <1>7 DEF IInv, StageInv, UpdateOnce
<1>12. NewsIsComing'
  <2> SUFFICES ASSUME NEW n \in pending, orderID[n] = Nil
               PROVE  post'[n] = "calling" \/ \E i \in 1..Len(updates') : updates'[i].order = n
    BY <1>3 DEF NewsIsComing, UpdateQueued, idVars, pendingVars
  <2>1. CASE n = o
    BY <1>6, <2>1
  <2>2. CASE n # o
    <3>1. n \in Orders /\ (post[n] = "calling" \/ \E i \in 1..Len(updates) : updates[i].order = n)
      BY DEF IInv, TypeOK, StageInv, NewsIsComing, UpdateQueued
    <3>2. Len(updates) \in Nat
      BY <1>6
    <3>3. QED BY <1>4, <1>6, <2>2, <3>1, <3>2
  <2>3. QED BY <2>1, <2>2
<1>13. OwnerInv' /\ ChangeInv'
  BY <1>3 DEF IInv, OwnerInv, ChangeInv, idVars, brokerVars
<1>14. QED BY <1>1, <1>8, <1>9, <1>10, <1>11, <1>12, <1>13 DEF IInv, StageInv

LEMMA InvCalls ==
  ASSUME IInv, NEW o \in Orders, RetryPost(o) \/ BeginCancelCall(o)
  PROVE  IInv'
<1>1. TypeOK'
  BY TypeCalls DEF IInv
<1>2. UNCHANGED <<sent, legs, canceling, idVars, pendingVars, post, brokerVars, newsVars>>
  BY DEF RetryPost, BeginCancelCall
<1>3. OwnerKept
  BY <1>2 DEF OwnerKept, brokerVars
<1>4. BookInv' /\ StageInv'
  BY <1>2, <1>3, Quiet DEF newsVars
<1>5. ChangeInv'
  BY <1>2, <1>3, EventsKept DEF newsVars
<1>6. \A n \in Orders : reply'[n] = reply[n] \/ reply'[n] = Nil
  BY DEF RetryPost, BeginCancelCall, IInv, TypeOK
<1>7. OwnerInv'
  BY <1>2, <1>6 DEF IInv, OwnerInv, idVars, brokerVars
<1>8. QED BY <1>1, <1>4, <1>5, <1>7 DEF IInv

LEMMA InvOrderID ==
  ASSUME IInv, OnOrderOrderID
  PROVE  IInv'
<1> DEFINE u == Head(updates)
           o == u.order
<1>1. TypeOK'
  BY TypeOrderID DEF IInv
<1>2. /\ updates # <<>> /\ updates' = Tail(updates)
      /\ UNCHANGED <<sent, legs, canceling, callVars, brokerVars, events>>
  BY DEF OnOrderOrderID
<1>3. updates \in Seq(Updates)
  BY DEF IInv, TypeOK
<1>4. /\ u = updates[1] /\ u \in Updates /\ 1 \in 1..Len(updates)
      /\ Len(updates') = Len(updates) - 1
      /\ \A i \in 1..Len(updates') : updates'[i] = updates[i + 1] /\ i + 1 \in 1..Len(updates)
  BY <1>2, <1>3, Receive
<1>5. /\ o \in pending /\ o \in Orders /\ orderID[o] = Nil /\ post[o] = "done"
      /\ u.id \in IDs \cup {Nil} /\ (u.id # Nil => owner[u.id] = o)
  BY <1>4 DEF IInv, StageInv, UpdateInv, Updates
<1>6. \A i \in 1..Len(updates') : updates'[i].order # o /\ updates'[i].order \in Orders
  <2> TAKE i \in 1..Len(updates')
  <2>1. updates'[i] = updates[i + 1] /\ i + 1 \in 1..Len(updates) /\ i + 1 # 1
    BY <1>4
  <2>2. updates[i + 1].order # o
    BY <1>4, <2>1 DEF IInv, StageInv, UpdateOnce
  <2>3. updates[i + 1].order \in Orders
    BY <2>1, UpdateTyped DEF IInv
  <2>4. QED BY <2>1, <2>2, <2>3
<1>7. /\ pending' \subseteq pending /\ pending \subseteq pending' \cup {o}
      /\ \A n \in Orders : n # o => orderID'[n] = orderID[n]
      /\ o \in pending' => orderID'[o] # Nil
  <2>1. CASE u.id # Nil
    BY <1>5, <2>1 DEF OnOrderOrderID, pendingVars, IInv, TypeOK
  <2>2. CASE u.id = Nil
    BY <1>5, <2>2 DEF OnOrderOrderID, DeleteSchwabOrder, RemovePendingOrder
  <2>3. QED BY <2>1, <2>2
<1>8. BookInv'
  <2>1. CASE u.id # Nil
    <3>1. orderID' = [orderID EXCEPT ![o] = u.id] /\ bySchwab' = [bySchwab EXCEPT ![u.id] = o]
          /\ UNCHANGED pendingVars
      BY <2>1 DEF OnOrderOrderID
    <3>2. IndexExact' /\ SlotBound'
      BY <1>2, <3>1 DEF IInv, BookInv, IndexExact, SlotBound, pendingVars
    <3>3. orderID'[o] = u.id /\ bySchwab'[u.id] = o
          /\ \A b \in IDs : b # u.id => bySchwab'[b] = bySchwab[b]
      BY <1>5, <2>1, <3>1 DEF IInv, TypeOK
    <3>4. \A b \in IDs : bySchwab[b] # o
      <4>1. o # Nil /\ \A b \in IDs : b # Nil
        BY <1>5, OrdersAssumption DEF Orders, IDs, Nil
      <4>2. QED BY <1>5, <4>1 DEF IInv, BookInv, RegistryExact
    <3>5. \A b \in IDs : bySchwab'[b] # Nil =>
            bySchwab'[b] \in pending' /\ orderID'[bySchwab'[b]] = b
      <4> SUFFICES ASSUME NEW b \in IDs, bySchwab'[b] # Nil
                   PROVE  bySchwab'[b] \in pending' /\ orderID'[bySchwab'[b]] = b
        OBVIOUS
      <4>1. CASE b = u.id
        BY <1>5, <3>1, <3>3, <4>1 DEF pendingVars
      <4>2. CASE b # u.id
        <5>1. bySchwab'[b] = bySchwab[b] /\ bySchwab[b] # o /\ bySchwab[b] \in pending
              /\ bySchwab[b] \in Orders /\ orderID[bySchwab[b]] = b
          BY <3>3, <3>4, <4>2 DEF IInv, TypeOK, BookInv, RegistryExact
        <5>2. QED BY <1>7, <3>1, <5>1 DEF pendingVars
      <4>3. QED BY <4>1, <4>2
    <3>6. \A n \in pending' : orderID'[n] # Nil => bySchwab'[orderID'[n]] = n
      <4> SUFFICES ASSUME NEW n \in pending', orderID'[n] # Nil
                   PROVE  bySchwab'[orderID'[n]] = n
        OBVIOUS
      <4>1. CASE n = o
        BY <3>3, <4>1
      <4>2. CASE n # o
        <5>1. n \in pending /\ n \in Orders /\ n # Nil /\ orderID'[n] = orderID[n]
              /\ orderID[n] \in IDs /\ bySchwab[orderID[n]] = n
          BY <1>7, <4>2, OrdersAssumption
             DEF IInv, TypeOK, BookInv, RegistryExact, Orders, Nil
        <5>2. owner[orderID[n]] = n
          BY <5>1 DEF IInv, OwnerInv
        <5>3. orderID[n] # u.id
          BY <1>5, <2>1, <4>2, <5>2
        <5>4. QED BY <3>3, <5>1, <5>3
      <4>3. QED BY <4>1, <4>2
    <3>7. QED BY <3>2, <3>5, <3>6 DEF BookInv, RegistryExact
  <2>2. CASE u.id = Nil
    <3>1. DeleteSchwabOrder(o)
      BY <2>2 DEF OnOrderOrderID
    <3>2. QED BY <1>2, <1>5, <3>1, DeleteBook
  <2>3. QED BY <2>1, <2>2
<1>9. UnsentInv' /\ CancelInv' /\ CallInv'
  <2>1. o <= sent /\ o \notin canceling /\ post[o] # "calling"
    BY <1>5, OrdersAssumption DEF IInv, TypeOK, StageInv, UnsentInv, CancelInv, Orders
  <2>2. UnsentInv'
    <3> SUFFICES ASSUME NEW n \in Orders, n > sent
                 PROVE  n \notin pending' /\ orderID'[n] = Nil /\ n \notin canceling /\ post[n] = "none"
      BY <1>2 DEF UnsentInv, callVars
    <3>1. n # o /\ n \notin pending /\ orderID[n] = Nil
      BY <2>1, OrdersAssumption DEF IInv, TypeOK, StageInv, UnsentInv, Orders
    <3>2. QED BY <1>7, <3>1 DEF IInv, StageInv, UnsentInv
  <2>3. CancelInv'
    BY <1>2, <1>7, <2>1 DEF IInv, TypeOK, StageInv, CancelInv
  <2>4. CallInv'
    BY <1>2, <1>7, <2>1 DEF IInv, StageInv, CallInv, callVars
  <2>5. QED BY <2>2, <2>3, <2>4
<1>10. UpdateInv'
  <2> SUFFICES ASSUME NEW i \in 1..Len(updates')
               PROVE  /\ updates'[i].order \in pending'
                      /\ orderID'[updates'[i].order] = Nil
                      /\ post[updates'[i].order] = "done"
                      /\ updates'[i].id # Nil => owner[updates'[i].id] = updates'[i].order
    BY <1>2 DEF UpdateInv, callVars, brokerVars
  <2>1. updates'[i] = updates[i + 1] /\ i + 1 \in 1..Len(updates)
    BY <1>4
  <2>2. /\ updates[i + 1].order \in pending
        /\ orderID[updates[i + 1].order] = Nil
        /\ post[updates[i + 1].order] = "done"
        /\ updates[i + 1].id # Nil => owner[updates[i + 1].id] = updates[i + 1].order
    BY <2>1 DEF IInv, StageInv, UpdateInv
  <2>3. QED BY <1>6, <1>7, <2>1, <2>2
<1>11. UpdateOnce'
  <2> SUFFICES ASSUME NEW i \in 1..Len(updates'), NEW j \in 1..Len(updates'),
                      updates'[i].order = updates'[j].order
               PROVE  i = j
    BY DEF UpdateOnce
  <2>1. i + 1 = j + 1
    BY <1>4 DEF IInv, StageInv, UpdateOnce
  <2>2. QED BY <2>1
<1>12. NewsIsComing'
  <2> SUFFICES ASSUME NEW n \in pending', orderID'[n] = Nil
               PROVE  post[n] = "calling" \/ \E i \in 1..Len(updates') : updates'[i].order = n
    BY <1>2 DEF NewsIsComing, UpdateQueued, callVars
  <2>1. n # o /\ n \in pending /\ n \in Orders /\ orderID[n] = Nil
    BY <1>7 DEF IInv, TypeOK
  <2>2. CASE post[n] # "calling"
    <3>1. PICK j \in 1..Len(updates) : updates[j].order = n
      BY <2>1, <2>2 DEF IInv, StageInv, NewsIsComing, UpdateQueued
    <3>2. j # 1
      BY <1>4, <2>1, <3>1
    <3>3. Len(updates) \in Nat
      BY <1>3
    <3>4. j - 1 \in 1..Len(updates') /\ (j - 1) + 1 = j
      BY <1>4, <3>2, <3>3
    <3>5. updates'[j - 1].order = n
      BY <1>4, <3>1, <3>4
    <3>6. QED BY <3>4, <3>5
  <2>3. QED BY <2>2
<1>13. OwnerInv'
  <2>1. \A b \in IDs : bySchwab'[b] # Nil => owner[b] = bySchwab'[b]
    <3>1. CASE u.id # Nil
      BY <1>5, <3>1 DEF OnOrderOrderID, IInv, TypeOK, OwnerInv
    <3>2. CASE u.id = Nil
      BY <3>2 DEF OnOrderOrderID, DeleteSchwabOrder, IInv, OwnerInv
    <3>3. QED BY <3>1, <3>2
  <2>2. QED BY <1>2, <2>1 DEF IInv, OwnerInv, callVars, brokerVars
<1>14. ChangeInv'
  BY <1>2 DEF IInv, ChangeInv, brokerVars
<1>15. QED
  BY <1>1, <1>8, <1>9, <1>10, <1>11, <1>12, <1>13, <1>14 DEF IInv, StageInv

(* What the registry says of an id it knows. *)
LEMMA Registered ==
  ASSUME IInv, NEW b \in IDs, bySchwab[b] # Nil
  PROVE  /\ bySchwab[b] \in pending /\ bySchwab[b] \in Orders
         /\ orderID[bySchwab[b]] = b /\ b # Nil /\ owner[b] = bySchwab[b]
<1>1. bySchwab[b] \in pending /\ orderID[bySchwab[b]] = b /\ owner[b] = bySchwab[b]
  BY DEF IInv, BookInv, RegistryExact, OwnerInv
<1>2. b # Nil
  BY OrdersAssumption DEF IDs, Nil
<1>3. QED BY <1>1, <1>2 DEF IInv, TypeOK

(* An event either finds no order and leaves the books alone, or ends it. *)
LEMMA EventEndsOrder ==
  ASSUME IInv, NEW b \in IDs,
         UNCHANGED <<sent, legs, canceling, post, updates, owner>>,
         \/ UNCHANGED <<idVars, pendingVars>>
         \/ bySchwab[b] # Nil /\ DeleteSchwabOrder(bySchwab[b])
  PROVE  /\ BookInv' /\ StageInv'
         /\ \A c \in IDs : bySchwab'[c] # Nil => owner'[c] = bySchwab'[c]
<1>1. CASE UNCHANGED <<idVars, pendingVars>>
  <2>1. OwnerKept
    BY DEF OwnerKept
  <2>2. QED BY <1>1, <2>1, Quiet DEF IInv, OwnerInv, idVars
<1>2. CASE bySchwab[b] # Nil /\ DeleteSchwabOrder(bySchwab[b])
  <2>1. bySchwab[b] \in pending /\ orderID[bySchwab[b]] # Nil
    BY <1>2, Registered
  <2>2. BookInv'
    BY <1>2, <2>1, DeleteBook
  <2>3. StageInv'
    BY <1>2, <2>1, DeleteStage
  <2>4. \A c \in IDs : bySchwab'[c] # Nil => owner'[c] = bySchwab'[c]
    BY <1>2 DEF DeleteSchwabOrder, IInv, OwnerInv
  <2>5. QED BY <2>2, <2>3, <2>4
<1>3. QED BY <1>1, <1>2

(* A change event moves an order to its new id, which was issued for it. *)
LEMMA EventMovesOrder ==
  ASSUME IInv, NEW e \in Events, OnChangeEvent(e),
         e.kind = "change" => owner[e.id] # Nil /\ owner[e.id] = owner[e.parent],
         UNCHANGED <<sent, legs, canceling, post, updates, owner>>
  PROVE  /\ BookInv' /\ StageInv'
         /\ \A c \in IDs : bySchwab'[c] # Nil => owner'[c] = bySchwab'[c]
<1> DEFINE o == bySchwab[e.parent]
<1>1. e.id \in IDs /\ e.parent \in IDs /\ e.kind = "change" /\ UNCHANGED pendingVars
  BY DEF OnChangeEvent, Events, FillEvents, CancelEvents, OutEvents, ChangeEvents
<1>2. CASE UNCHANGED idVars
  <2>1. OwnerKept
    BY DEF OwnerKept
  <2>2. QED BY <1>1, <1>2, <2>1, Quiet DEF IInv, OwnerInv, idVars
<1>3. CASE /\ bySchwab[e.id] = Nil /\ o # Nil
           /\ orderID' = [orderID EXCEPT ![o] = e.id]
           /\ bySchwab' = [bySchwab EXCEPT ![e.id] = o, ![e.parent] = Nil]
  <2>1. /\ o \in pending /\ o \in Orders /\ o # Nil /\ orderID[o] = e.parent
        /\ e.parent # Nil /\ owner[e.id] = o /\ e.id # e.parent
    BY <1>1, <1>3, Registered
  <2>2. /\ bySchwab'[e.id] = o /\ bySchwab'[e.parent] = Nil /\ orderID'[o] = e.id
        /\ \A c \in IDs : c # e.id /\ c # e.parent => bySchwab'[c] = bySchwab[c]
        /\ \A n \in Orders : n # o => orderID'[n] = orderID[n]
    BY <1>1, <1>3, <2>1 DEF IInv, TypeOK
  <2>3. e.id # Nil /\ pending' = pending /\ byOption' = byOption
    BY <1>1, OrdersAssumption DEF IDs, Nil, pendingVars
  <2>4. IndexExact' /\ SlotBound'
    BY <2>3 DEF IInv, BookInv, IndexExact, SlotBound
  <2>5. \A c \in IDs : bySchwab'[c] # Nil =>
          bySchwab'[c] \in pending /\ orderID'[bySchwab'[c]] = c /\ owner[c] = bySchwab'[c]
    <3> SUFFICES ASSUME NEW c \in IDs, bySchwab'[c] # Nil
                 PROVE  bySchwab'[c] \in pending /\ orderID'[bySchwab'[c]] = c
                        /\ owner[c] = bySchwab'[c]
      OBVIOUS
    <3>1. CASE c = e.id
      BY <2>1, <2>2, <3>1
    <3>2. CASE c # e.id
      <4>1. c # e.parent /\ bySchwab'[c] = bySchwab[c]
        BY <2>2, <3>2
      <4>2. /\ bySchwab[c] \in pending /\ bySchwab[c] \in Orders
            /\ orderID[bySchwab[c]] = c /\ owner[c] = bySchwab[c]
        BY <4>1, Registered
      <4>3. bySchwab[c] # o
        BY <2>1, <4>1, <4>2
      <4>4. QED BY <2>2, <4>1, <4>2, <4>3
    <3>3. QED BY <3>1, <3>2
  <2>6. \A n \in pending : orderID'[n] # Nil => bySchwab'[orderID'[n]] = n
    <3> SUFFICES ASSUME NEW n \in pending, orderID'[n] # Nil
                 PROVE  bySchwab'[orderID'[n]] = n
      OBVIOUS
    <3>1. CASE n = o
      BY <2>2, <3>1
    <3>2. CASE n # o
      <4>1. n \in Orders /\ orderID'[n] = orderID[n] /\ orderID[n] \in IDs
            /\ bySchwab[orderID[n]] = n /\ n # Nil
        BY <2>2, <3>2, OrdersAssumption DEF IInv, TypeOK, BookInv, RegistryExact, Orders, Nil
      <4>2. orderID[n] # e.parent /\ orderID[n] # e.id
        BY <1>3, <3>2, <4>1
      <4>3. QED BY <2>2, <4>1, <4>2
    <3>3. QED BY <3>1, <3>2
  <2>7. BookInv'
    BY <2>3, <2>4, <2>5, <2>6 DEF BookInv, RegistryExact
  <2>8. \A n \in Orders : orderID'[n] = Nil <=> orderID[n] = Nil
    BY <2>1, <2>2, <2>3
  <2>9. o <= sent
    BY <2>1, OrdersAssumption DEF IInv, TypeOK, StageInv, UnsentInv, Orders
  <2>10. UnsentInv' /\ CancelInv' /\ CallInv' /\ NewsIsComing'
    BY <2>3, <2>8
       DEF IInv, TypeOK, StageInv, UnsentInv, CancelInv, CallInv, NewsIsComing, UpdateQueued
  <2>11. UpdateInv' /\ UpdateOnce'
    BY <2>3, <2>8, UpdateTyped DEF IInv, StageInv, UpdateInv, UpdateOnce
  <2>12. QED BY <2>5, <2>7, <2>10, <2>11 DEF StageInv
<1>4. QED BY <1>2, <1>3 DEF OnChangeEvent

LEMMA InvEvent ==
  ASSUME IInv, OnOrderEvent
  PROVE  IInv'
<1> DEFINE e == Head(events)
<1>1. TypeOK'
  BY TypeEvent DEF IInv
<1>2. /\ events # <<>> /\ events' = Tail(events)
      /\ UNCHANGED <<sent, legs, canceling, callVars, brokerVars, updates>>
  BY DEF OnOrderEvent
<1>3. events \in Seq(Events) /\ e \in Events /\ e = events[1] /\ 1 \in 1..Len(events)
  BY <1>2, Receive DEF IInv, TypeOK
<1>4. e.id \in IDs
  BY <1>3 DEF Events, FillEvents, CancelEvents, OutEvents, ChangeEvents
<1>5. UNCHANGED <<sent, legs, canceling, post, reply, updates, owner, issued, status>>
  BY <1>2 DEF callVars, brokerVars
<1>6. /\ BookInv' /\ StageInv'
      /\ \A c \in IDs : bySchwab'[c] # Nil => owner'[c] = bySchwab'[c]
  <2>1. CASE OnFillEvent(e) \/ OnOrderOver(e) \/ OnCancelAccepted(e)
    <3>1. \/ UNCHANGED <<idVars, pendingVars>>
          \/ bySchwab[e.id] # Nil /\ DeleteSchwabOrder(bySchwab[e.id])
      BY <2>1 DEF OnFillEvent, OnOrderOver, OnCancelAccepted
    <3>2. QED BY <1>4, <1>5, <3>1, EventEndsOrder
  <2>2. CASE OnChangeEvent(e)
    <3>1. e.kind = "change" => owner[e.id] # Nil /\ owner[e.id] = owner[e.parent]
      BY <1>3 DEF IInv, ChangeInv
    <3>2. QED BY <1>3, <1>5, <2>2, <3>1, EventMovesOrder
  <2>3. QED BY <2>1, <2>2 DEF OnOrderEvent
<1>7. OwnerInv'
  BY <1>5, <1>6 DEF IInv, OwnerInv
<1>8. ChangeInv'
  BY <1>2, <1>5, EventReceived
<1>9. QED BY <1>1, <1>6, <1>7, <1>8 DEF IInv, StageInv

LEMMA InvSchwab ==
  ASSUME IInv, NEW b \in IDs, SchwabWorks(b)
  PROVE  IInv'
<1>1. TypeOK'
  BY TypeSchwab DEF IInv, Schwab
<1>2. UNCHANGED <<sent, legs, canceling, idVars, pendingVars, post, reply, updates>>
  BY DEF SchwabWorks, Execute, ReceiveCancel, LeaveMarket, ChangeOrder, callVars
<1>3. CASE ChangeOrder(b)
  <2> DEFINE c == issued + 1
  <2>0. PICK e \in Events : e.kind = "change" /\ e.id = c /\ e.parent = b /\ Emit(e)
    BY <1>3, ChangeTold DEF IInv
  <2>1. c \in IDs /\ issued \in Nat
    BY <1>3, OrdersAssumption DEF ChangeOrder, IInv, TypeOK, IDs
  <2>2. owner[c] = Nil /\ owner[b] # Nil /\ b # c
    BY <1>3, <2>1 DEF ChangeOrder, IInv, OwnerInv
  <2>3. owner'[c] = owner[b] /\ \A d \in IDs : d # c => owner'[d] = owner[d]
    BY <1>3, <2>1 DEF ChangeOrder, IInv, TypeOK
  <2>4. OwnerKept
    BY <2>2, <2>3 DEF OwnerKept
  <2>5. BookInv' /\ StageInv'
    BY <1>2, <2>4, Quiet
  <2>6. ChangeInv'
    <3>1. e.kind = "change" => owner'[e.id] # Nil /\ owner'[e.id] = owner'[e.parent]
      BY <2>0, <2>2, <2>3
    <3>2. QED BY <2>0, <2>4, <3>1, EventEmitted
  <2>7. OwnerInv'
    <3>1. \A d \in IDs : (owner'[d] # Nil => d <= issued') /\ (status'[d] # "none" => owner'[d] # Nil)
      <4>1. issued' = issued + 1 /\ \A d \in IDs : d # c /\ d # b => status'[d] = status[d]
        BY <1>3, <2>1 DEF ChangeOrder, IInv, TypeOK
      <4>2. \A d \in IDs : d # c => (owner'[d] # Nil => d <= issued')
        BY <2>1, <2>3, <4>1 DEF IInv, OwnerInv, IDs
      <4>3. \A d \in IDs : d # c => (status'[d] # "none" => owner'[d] # Nil)
        BY <2>2, <2>3, <4>1 DEF IInv, OwnerInv
      <4>4. owner'[c] # Nil /\ c <= issued'
        BY <2>1, <2>2, <2>3, <4>1
      <4>5. QED BY <4>2, <4>3, <4>4
    <3>2. \A d \in IDs : bySchwab'[d] # Nil => owner'[d] = bySchwab'[d]
      BY <1>2, <2>4, OrdersAssumption DEF IInv, OwnerInv, OwnerKept, idVars
    <3>3. \A n \in Orders : reply'[n] # Nil => owner'[reply'[n]] = n
      <4> SUFFICES ASSUME NEW n \in Orders, reply[n] # Nil PROVE owner'[reply[n]] = n
        BY <1>2
      <4>1. reply[n] \in IDs /\ owner[reply[n]] = n /\ n # Nil
        BY OrdersAssumption DEF IInv, TypeOK, OwnerInv, Orders, Nil
      <4>2. QED BY <2>4, <4>1 DEF OwnerKept
    <3>4. QED BY <3>1, <3>2, <3>3 DEF OwnerInv
  <2>8. QED BY <1>1, <2>5, <2>6, <2>7 DEF IInv
<1>4. CASE ~ChangeOrder(b)
  <2>1. UNCHANGED <<issued, owner>> /\ (UNCHANGED events \/ \E e \in Events : e.kind # "change" /\ Emit(e))
    <3>1. ASSUME NEW x \in Options, NEW n \in 1..MaxQty, Execute(b, x, n)
          PROVE  UNCHANGED <<issued, owner>> /\ \E e \in Events : e.kind # "change" /\ Emit(e)
      <4>1. [kind |-> "fill", id |-> b, option |-> x, qty |-> n] \in Events
        BY DEF Events, FillEvents
      <4>2. QED BY <3>1, <4>1 DEF Execute
    <3>2. CASE ReceiveCancel(b)
      <4>1. \A f \in BOOLEAN : [kind |-> "cancel", id |-> b, closed |-> f] \in Events
        BY DEF Events, CancelEvents
      <4>2. QED BY <3>2, <4>1 DEF ReceiveCancel, Close, brokerVars
    <3>3. CASE LeaveMarket(b)
      <4>1. \A kind \in {"urout", "expired"} : [kind |-> kind, id |-> b] \in Events
        BY DEF Events, OutEvents
      <4>2. QED BY <3>3, <4>1 DEF LeaveMarket, Close
    <3>4. QED BY <1>4, <3>1, <3>2, <3>3 DEF SchwabWorks
  <2>2. OwnerKept
    BY <2>1 DEF OwnerKept
  <2>3. BookInv' /\ StageInv'
    BY <1>2, <2>2, Quiet
  <2>4. ChangeInv'
    BY <2>1, <2>2, EventsKept, EventEmitted
  <2>5. \A d \in IDs : status'[d] = status[d] \/ (d = b /\ status[b] # "none")
    BY <1>4 DEF SchwabWorks, Execute, ReceiveCancel, LeaveMarket, Close, Working, brokerVars,
                IInv, TypeOK
  <2>6. OwnerInv'
    BY <1>2, <2>1, <2>5 DEF IInv, OwnerInv, idVars
  <2>7. QED BY <1>1, <2>3, <2>4, <2>6 DEF IInv
<1>5. QED BY <1>3, <1>4

LEMMA InvNext == IInv /\ [Next]_vars => IInv'
<1> SUFFICES ASSUME IInv, [Next]_vars PROVE IInv'
  OBVIOUS
<1>1. CASE Trader
  BY <1>1, InvStart, InvSend, InvCancelPass, InvOrderID, InvEvent DEF Trader
<1>2. CASE Calls
  BY <1>2, InvPlace, InvReturn, InvCalls DEF Calls
<1>3. CASE Schwab
  BY <1>3, InvSchwab DEF Schwab
<1>4. CASE Restart
  BY <1>4, InvRestart
<1>5. CASE UNCHANGED vars
  <2>1. TypeOK'
    BY <1>5, TypeNext DEF IInv
  <2>2. OwnerKept
    BY <1>5 DEF OwnerKept, vars, brokerVars
  <2>3. BookInv' /\ StageInv' /\ ChangeInv'
    BY <1>5, <2>2, Quiet, EventsKept DEF vars, callVars, newsVars
  <2>4. OwnerInv'
    BY <1>5 DEF IInv, OwnerInv, vars, idVars, callVars, brokerVars
  <2>5. QED BY <2>1, <2>3, <2>4 DEF IInv
<1>6. QED BY <1>1, <1>2, <1>3, <1>4, <1>5 DEF Next

LEMMA InvCorrect == Spec => []IInv
BY InvInit, InvNext, PTL DEF Spec

(* The index by option of pending.go agrees with PendingOrders in every     *)
(* reachable state: addPendingOrder and removePendingOrder keep every list  *)
(* exact whatever order events, updates and restarts come in.               *)
THEOREM IndexIsExact == Spec => []IndexExact
<1>1. IInv => IndexExact
  BY DEF IInv, BookInv
<1>2. QED BY <1>1, InvCorrect, PTL

(* OrdersBySchwabID and the ids of the pending orders are inverse to each   *)
(* other: onOrderOrderID, onChangeEvent and deleteSchwabOrder never leave a *)
(* dangling id behind.                                                      *)
THEOREM RegistryIsExact == Spec => []RegistryExact
<1>1. IInv => RegistryExact
  BY DEF IInv, BookInv
<1>2. QED BY <1>1, InvCorrect, PTL

(* A pending order without an id still has a goroutine of sendLiveOrder     *)
(* calling or an OrderUpdate queued: no order waits for news that is not    *)
(* coming.                                                                  *)
THEOREM NewsAlwaysComes == Spec => []NewsIsComing
<1>1. IInv => NewsIsComing
  BY DEF IInv, StageInv
<1>2. QED BY <1>1, InvCorrect, PTL

-----------------------------------------------------------------------------
(* Orders that work occupy a slot.  What makes WorkingIsPending inductive   *)
(* is that the trader has not been told more of an order than happened to   *)
(* it: a leg marked filled has executed in part, an event that ends an      *)
(* order is about a closed one, and an order that was edited had not        *)
(* executed at all, so that its marks, which outlive the edit, are empty.   *)

SentInv ==
  /\ \A o \in Orders : o <= sent => legs[o] # NoLegs
  /\ \A b \in IDs : owner[b] # Nil => owner[b] <= sent

KnownInv == \A o \in Orders : orderID[o] # Nil => owner[orderID[o]] = o

LeftInv ==
  \A b \in IDs : owner[b] # Nil =>
    /\ \A x \in Options : left[b][x] <= legs[owner[b]][x]
    /\ Working(b) => left[b] # NoLegs

FilledInv ==
  \A o \in Orders : \A x \in filled[o] :
    orderID[o] # Nil /\ left[orderID[o]][x] < legs[o][x]

TellsTruth(e) ==
  /\ e.kind = "fill" => /\ owner[e.id] # Nil
                        /\ left[e.id][e.option] < legs[owner[e.id]][e.option]
  /\ e.kind = "change" => /\ owner[e.parent] # Nil /\ status[e.parent] = "closed"
                          /\ left[e.parent] = legs[owner[e.parent]]
  /\ Ends(e) => status[e.id] = "closed"

TruthInv == \A i \in 1..Len(events) : TellsTruth(events[i])

Single(o) == \A x \in Options : legs[o][x] <= 1

OverInv ==
  restarts = 0 => \A o \in Orders :
    o \notin pending /\ orderID[o] # Nil /\ Single(o) => ~ Working(orderID[o])

WorkInv == SentInv /\ KnownInv /\ LeftInv /\ FilledInv /\ TruthInv /\ OverInv

(* The numbers of contracts are naturals, and so on for what they compare. *)
LEMMA WorkTypes ==
  ASSUME TypeOK
  PROVE  /\ \A b \in IDs, x \in Options : left[b][x] \in Nat
         /\ \A o \in Orders, x \in Options : legs[o][x] \in Nat
         /\ \A b \in IDs : owner[b] \in Orders \cup {Nil}
         /\ \A o \in Orders : orderID[o] \in IDs \cup {Nil} /\ filled[o] \subseteq Options
         /\ \A o \in Orders : o # Nil
         /\ sent \in Nat
<1>1. \A b \in IDs, x \in Options : left[b][x] \in Nat
  BY OrdersAssumption DEF TypeOK, Legs
<1>2. \A o \in Orders, x \in Options : legs[o][x] \in Nat
  BY OrdersAssumption DEF TypeOK, Legs
<1> QED
  BY <1>1, <1>2, OrdersAssumption DEF TypeOK, Orders, Nil

LEMMA EventParts ==
  ASSUME NEW e \in Events
  PROVE  /\ e.id \in IDs
         /\ e.kind = "fill" => e.option \in Options
         /\ e.kind = "change" => e.parent \in IDs
BY DEF Events, FillEvents, CancelEvents, OutEvents, ChangeEvents

LEMMA WorkInit == Init => WorkInv
<1> SUFFICES ASSUME Init PROVE WorkInv
  OBVIOUS
<1>1. SentInv
  BY OrdersAssumption DEF Init, SentInv, Orders, Nil
<1>2. KnownInv /\ FilledInv /\ TruthInv
  BY DEF Init, KnownInv, FilledInv, TruthInv
<1>3. LeftInv /\ OverInv
  BY DEF Init, LeftInv, OverInv
<1> QED
  BY <1>1, <1>2, <1>3 DEF WorkInv

(* Steps that touch nothing of all this. *)
LEMMA WorkSame ==
  ASSUME WorkInv, UNCHANGED <<sent, legs, filled, orderID, pending, restarts, events,
                              owner, left, status>>
  PROVE  WorkInv'
<1>1. SentInv' /\ KnownInv'
  BY DEF WorkInv, SentInv, KnownInv
<1>2. LeftInv' /\ FilledInv'
  BY DEF WorkInv, LeftInv, FilledInv, Working
<1>3. TruthInv'
  BY DEF WorkInv, TruthInv, TellsTruth
<1>4. OverInv'
  BY DEF WorkInv, OverInv, Working, Single
<1> QED
  BY <1>1, <1>2, <1>3, <1>4 DEF WorkInv

(* What the market may do to orders: execute them and end them. *)
Onward ==
  \A b \in IDs : owner[b] # Nil =>
    /\ owner'[b] = owner[b] /\ legs'[owner[b]] = legs[owner[b]]
    /\ \A x \in Options : left'[b][x] <= left[b][x]
    /\ status'[b] \in {"open", "pulling"} => Working(b)
    /\ status[b] = "closed" => status'[b] = "closed" /\ left'[b] = left[b]

LEMMA TruthStays ==
  ASSUME TypeOK, TypeOK', OwnerInv, Onward, NEW e \in Events, TellsTruth(e)
  PROVE  TellsTruth(e)'
<1> USE EventParts
<1>1. ASSUME e.kind = "fill"
      PROVE  owner'[e.id] # Nil /\ left'[e.id][e.option] < legs'[owner'[e.id]][e.option]
  <2>1. /\ e.id \in IDs /\ e.option \in Options /\ owner[e.id] # Nil
        /\ left[e.id][e.option] < legs[owner[e.id]][e.option]
    BY <1>1 DEF TellsTruth
  <2>2. /\ owner'[e.id] = owner[e.id] /\ legs'[owner[e.id]] = legs[owner[e.id]]
        /\ left'[e.id][e.option] <= left[e.id][e.option]
    BY <2>1 DEF Onward
  <2>3. left[e.id][e.option] \in Nat /\ legs[owner[e.id]][e.option] \in Nat
    BY <2>1, WorkTypes
  <2>4. left'[e.id][e.option] \in Nat
    BY <2>1, OrdersAssumption DEF TypeOK, Legs
  <2> QED
    BY <2>1, <2>2, <2>3, <2>4
<1>2. ASSUME e.kind = "change"
      PROVE  /\ owner'[e.parent] # Nil /\ status'[e.parent] = "closed"
             /\ left'[e.parent] = legs'[owner'[e.parent]]
  BY <1>2 DEF TellsTruth, Onward
<1>3. ASSUME Ends(e)
      PROVE  status'[e.id] = "closed"
  BY <1>3 DEF TellsTruth, Onward, OwnerInv
<1> QED
  BY <1>1, <1>2, <1>3 DEF TellsTruth, Ends

LEMMA TruthKept ==
  ASSUME TypeOK, TypeOK', OwnerInv, TruthInv, Onward, UNCHANGED events
  PROVE  TruthInv'
<1>1. ASSUME NEW i \in 1..Len(events) PROVE TellsTruth(events[i])'
  <2>1. events[i] \in Events /\ TellsTruth(events[i])
    BY DEF TypeOK, TruthInv
  <2> DEFINE e == events[i]
  <2>2. TellsTruth(e)'
    BY <2>1, TruthStays
  <2> QED
    BY <2>2
<1> QED
  BY <1>1 DEF TruthInv

(* An event that joins the queue must tell the truth as well. *)
LEMMA TruthEmitted ==
  ASSUME TypeOK, TypeOK', OwnerInv, TruthInv, Onward, NEW e \in Events, Emit(e),
         TellsTruth(e)'
  PROVE  TruthInv'
<1>1. CASE UNCHANGED events
  BY <1>1, TruthKept
<1>2. CASE events' = Append(events, e)
  <2>1. events \in Seq(Events) /\ Len(events') = Len(events) + 1
    BY <1>2 DEF TypeOK
  <2>2. ASSUME NEW i \in 1..Len(events') PROVE TellsTruth(events[i])' \/ events'[i] = e
    <3>1. CASE i = Len(events) + 1
      BY <1>2, <2>1, <3>1
    <3>2. CASE i \in 1..Len(events)
      <4>1. events'[i] = events[i] /\ events[i] \in Events /\ TellsTruth(events[i])
        BY <1>2, <2>1, <3>2 DEF TruthInv
      <4>2. ASSUME NEW f \in Events, f = events[i] PROVE TellsTruth(f)'
        BY <4>1, <4>2, TruthStays
      <4> QED
        BY <4>1, <4>2
    <3> QED
      BY <2>1, <3>1, <3>2
  <2> QED
    BY <2>2 DEF TruthInv
<1> QED
  BY <1>1, <1>2 DEF Emit

(* The trader hears an event and leaves the orders of Schwab alone. *)
LEMMA TruthHeard ==
  ASSUME TypeOK, TruthInv, events # <<>>, events' = Tail(events),
         UNCHANGED <<owner, left, status, legs>>
  PROVE  TruthInv'
<1>1. \A i \in 1..Len(events') : events'[i] = events[i + 1] /\ i + 1 \in 1..Len(events)
  BY Receive DEF TypeOK
<1>2. \A i \in 1..Len(events) : TellsTruth(events[i])
  BY DEF TruthInv
<1>3. ASSUME NEW f, TellsTruth(f) PROVE TellsTruth(f)'
  BY <1>3 DEF TellsTruth
<1>4. ASSUME NEW i \in 1..Len(events') PROVE TellsTruth(events'[i])
  BY <1>1, <1>2
<1> QED
  BY <1>4 DEF TruthInv, TellsTruth

(* The market and the goroutines leave the trader's books alone. *)
LEMMA BooksKept ==
  ASSUME TypeOK, TypeOK', WorkInv, Onward, UNCHANGED <<filled, orderID, restarts>>,
         \A o \in Orders : o \in pending => o \in pending'
  PROVE  KnownInv' /\ FilledInv' /\ OverInv'
<1>1. \A o \in Orders : orderID[o] # Nil =>
        /\ orderID[o] \in IDs /\ owner[orderID[o]] = o /\ owner[orderID[o]] # Nil
  BY WorkTypes DEF WorkInv, KnownInv
<1>2. \A o \in Orders : orderID[o] # Nil => owner'[orderID[o]] = o /\ legs'[o] = legs[o]
  BY <1>1 DEF Onward
<1>3. KnownInv'
  BY <1>2 DEF KnownInv
<1>4. FilledInv'
  <2> SUFFICES ASSUME NEW o \in Orders, NEW x \in filled[o]
               PROVE  orderID[o] # Nil /\ left'[orderID[o]][x] < legs'[o][x]
    BY DEF FilledInv
  <2>1. orderID[o] # Nil /\ left[orderID[o]][x] < legs[o][x] /\ x \in Options
    BY WorkTypes DEF WorkInv, FilledInv
  <2>2. left'[orderID[o]][x] <= left[orderID[o]][x]
    BY <1>1, <2>1 DEF Onward
  <2>3. left[orderID[o]][x] \in Nat /\ legs[o][x] \in Nat /\ left'[orderID[o]][x] \in Nat
    BY <1>1, <2>1, WorkTypes, OrdersAssumption DEF TypeOK, Legs
  <2> QED
    BY <1>2, <2>1, <2>2, <2>3
<1>5. OverInv'
  <2> SUFFICES ASSUME restarts = 0, NEW o \in Orders, o \notin pending', orderID[o] # Nil,
                      Single(o)'
               PROVE  ~ (status'[orderID[o]] \in {"open", "pulling"})
    BY DEF OverInv, Working
  <2>1. Single(o)
    BY <1>2 DEF Single
  <2>2. ~ Working(orderID[o])
    BY <2>1 DEF WorkInv, OverInv
  <2> QED
    BY <1>1, <2>2 DEF Onward
<1> QED
  BY <1>3, <1>4, <1>5

LEMMA WorkSend ==
  ASSUME IInv, TypeOK', WorkInv, NEW ls \in Shapes, SendOrder(ls)
  PROVE  WorkInv'
<1> DEFINE o == sent + 1
<1>1. /\ o \in Orders /\ sent \in Nat /\ sent' = sent + 1 /\ ls # NoLegs
      /\ legs' = [legs EXCEPT ![o] = ls] /\ pending' = pending \cup {o}
      /\ UNCHANGED <<filled, orderID, restarts, events, owner, left, status>>
  BY OrdersAssumption
     DEF SendOrder, AddPendingOrder, IInv, TypeOK, Orders, idVars, brokerVars, newsVars
<1>2. legs'[o] = ls /\ \A n \in Orders : n # o => legs'[n] = legs[n]
  BY <1>1 DEF IInv, TypeOK
<1>3. \A b \in IDs : owner[b] # Nil => owner[b] \in Orders /\ owner[b] <= sent /\ owner[b] # o
  <2>1. \A b \in IDs : owner[b] \in Orders \cup {Nil}
    BY WorkTypes DEF IInv
  <2>2. \A b \in IDs : owner[b] # Nil => owner[b] <= sent
    BY DEF WorkInv, SentInv
  <2> QED
    BY <1>1, <2>1, <2>2
<1>4. Onward
  <2>1. \A b \in IDs, x \in Options : left[b][x] <= left[b][x]
    BY WorkTypes DEF IInv
  <2> QED
    BY <1>1, <1>2, <1>3, <2>1 DEF Onward, Working
<1>5. SentInv'
  BY <1>1, <1>2, <1>3 DEF WorkInv, SentInv, Orders
<1>6. KnownInv' /\ FilledInv' /\ OverInv'
  BY <1>1, <1>4, BooksKept DEF IInv
<1>7. LeftInv'
  BY <1>1, <1>2, <1>3 DEF WorkInv, LeftInv, Working
<1>8. TruthInv'
  BY <1>1, <1>4, TruthKept DEF IInv, WorkInv
<1> QED
  BY <1>5, <1>6, <1>7, <1>8 DEF WorkInv

LEMMA WorkPlace ==
  ASSUME IInv, TypeOK', WorkInv, NEW o \in Orders, PlaceOrder(o)
  PROVE  WorkInv'
<1> DEFINE b == issued + 1
<1>1. /\ b \in IDs /\ owner' = [owner EXCEPT ![b] = o] /\ left' = [left EXCEPT ![b] = legs[o]]
      /\ status' = [status EXCEPT ![b] = "open"]
      /\ UNCHANGED <<sent, legs, filled, orderID, pending, restarts, events>>
  BY OrdersAssumption DEF PlaceOrder, IInv, TypeOK, IDs, idVars, pendingVars, newsVars
<1>2. owner[b] = Nil
  BY OrdersAssumption DEF IInv, TypeOK, OwnerInv, IDs, PlaceOrder
<1>3. /\ owner'[b] = o /\ left'[b] = legs[o]
      /\ \A c \in IDs : c # b => owner'[c] = owner[c] /\ left'[c] = left[c] /\ status'[c] = status[c]
  BY <1>1 DEF IInv, TypeOK
<1> HIDE DEF b
<1>4. o <= sent
  <2>1. ~ (o > sent)
    BY DEF PlaceOrder, IInv, StageInv, UnsentInv
  <2> QED
    BY <2>1, WorkTypes DEF IInv, Orders
<1>5. Onward
  <2>1. \A c \in IDs, x \in Options : left[c][x] <= left[c][x]
    BY WorkTypes DEF IInv
  <2> QED
    BY <1>1, <1>2, <1>3, <2>1 DEF Onward, Working
<1>6. SentInv'
  BY <1>1, <1>3, <1>4 DEF WorkInv, SentInv
<1>7. KnownInv' /\ FilledInv' /\ OverInv'
  BY <1>1, <1>5, BooksKept DEF IInv
<1>8. LeftInv'
  <2>1. legs[o] # NoLegs /\ \A x \in Options : legs[o][x] <= legs[o][x]
    BY <1>4, WorkTypes DEF WorkInv, SentInv, IInv
  <2> QED
    BY <1>1, <1>3, <2>1 DEF WorkInv, LeftInv, Working
<1>9. TruthInv'
  BY <1>1, <1>5, TruthKept DEF IInv, WorkInv
<1> QED
  BY <1>6, <1>7, <1>8, <1>9 DEF WorkInv

(* No reply, update or event of the process that ended is left. *)
LEMMA WorkRestart ==
  ASSUME IInv, WorkInv, Restart
  PROVE  WorkInv'
<1>1. /\ events' = <<>> /\ restarts' # 0
      /\ UNCHANGED <<sent, legs, filled, orderID, owner, left, status>>
  BY DEF Restart, IInv, TypeOK, brokerVars
<1>2. SentInv' /\ KnownInv'
  BY <1>1 DEF WorkInv, SentInv, KnownInv
<1>3. LeftInv' /\ FilledInv'
  BY <1>1 DEF WorkInv, LeftInv, FilledInv, Working
<1>4. TruthInv' /\ OverInv'
  BY <1>1 DEF TruthInv, OverInv
<1> QED
  BY <1>2, <1>3, <1>4 DEF WorkInv

(* Steps of the trader leave the market alone. *)
LEMMA MarketSame ==
  ASSUME WorkInv, UNCHANGED <<sent, legs, owner, left, status>>
  PROVE  SentInv' /\ LeftInv'
<1>1. SentInv'
  BY DEF WorkInv, SentInv
<1>2. LeftInv'
  BY DEF WorkInv, LeftInv, Working
<1> QED
  BY <1>1, <1>2

(* One order's slot may be freed, if that order is not one that works. *)
LEMMA SlotFreed ==
  ASSUME WorkInv, NEW o \in Orders, UNCHANGED <<legs, orderID, status, restarts>>,
         pending' = pending \/ pending' = pending \ {o},
         pending' # pending /\ restarts = 0 /\ orderID[o] # Nil /\ Single(o)
           => ~ Working(orderID[o])
  PROVE  OverInv'
<1> SUFFICES ASSUME restarts = 0, NEW n \in Orders, n \notin pending', orderID[n] # Nil,
                    Single(n)
             PROVE  ~ Working(orderID[n])
  BY DEF OverInv, Working, Single
<1>1. CASE n \notin pending
  BY <1>1 DEF WorkInv, OverInv
<1>2. CASE n \in pending
  <2>1. n = o /\ pending' # pending
    BY <1>2
  <2> QED
    BY <2>1
<1> QED
  BY <1>1, <1>2

LEMMA WorkOrderID ==
  ASSUME IInv, TypeOK', WorkInv, OnOrderOrderID
  PROVE  WorkInv'
<1> DEFINE u == Head(updates)
<1>1. /\ updates # <<>>
      /\ UNCHANGED <<sent, legs, filled, restarts, events, owner, left, status>>
      /\ IF u.id # Nil
         THEN orderID' = [orderID EXCEPT ![u.order] = u.id] /\ pending' = pending
         ELSE orderID' = orderID /\ pending' = pending \ {u.order}
  BY DEF OnOrderOrderID, brokerVars, pendingVars, DeleteSchwabOrder, RemovePendingOrder
<1>2. /\ u \in Updates /\ u = updates[1] /\ 1 \in 1..Len(updates)
  BY <1>1, Receive DEF IInv, TypeOK
<1>3. /\ u.order \in Orders /\ u.id \in IDs \cup {Nil} /\ u.order \in pending
      /\ orderID[u.order] = Nil /\ (u.id # Nil => owner[u.id] = u.order)
  BY <1>2 DEF IInv, StageInv, UpdateInv, Updates
<1>4. filled[u.order] = {}
  BY <1>3, WorkTypes DEF WorkInv, FilledInv
<1>5. SentInv' /\ LeftInv'
  BY <1>1, MarketSame
<1>6. TruthInv'
  BY <1>1 DEF WorkInv, TruthInv, TellsTruth
<1> HIDE DEF u
<1>7. CASE u.id # Nil
  <2>1. /\ orderID'[u.order] = u.id /\ \A n \in Orders : n # u.order => orderID'[n] = orderID[n]
        /\ pending' = pending
    BY <1>1, <1>3, <1>7 DEF IInv, TypeOK
  <2>2. KnownInv'
    BY <1>1, <1>3, <1>7, <2>1 DEF WorkInv, KnownInv
  <2>3. FilledInv'
    BY <1>1, <1>3, <1>4, <2>1 DEF WorkInv, FilledInv
  <2>4. OverInv'
    BY <1>1, <1>3, <2>1 DEF WorkInv, OverInv, Working, Single
  <2> QED
    BY <1>5, <1>6, <2>2, <2>3, <2>4 DEF WorkInv
<1>8. CASE u.id = Nil
  <2>1. KnownInv' /\ FilledInv'
    BY <1>1, <1>8 DEF WorkInv, KnownInv, FilledInv
  <2>2. OverInv'
    BY <1>1, <1>3, <1>8, SlotFreed
  <2> QED
    BY <1>5, <1>6, <2>1, <2>2 DEF WorkInv
<1> QED
  BY <1>7, <1>8

(* An order that has executed a part of every leg of one contract is over. *)
LEMMA SinglesAreOver ==
  ASSUME TypeOK, WorkInv, NEW b \in IDs, owner[b] # Nil, Single(owner[b]),
         \A x \in LegSet(legs[owner[b]]) : left[b][x] < legs[owner[b]][x]
  PROVE  ~ Working(b)
<1> DEFINE o == owner[b]
<1>1. o \in Orders
  BY WorkTypes
<1>2. ASSUME NEW x \in Options PROVE left[b][x] = 0
  <2>1. left[b][x] \in Nat /\ legs[o][x] \in Nat /\ legs[o][x] <= 1 /\ left[b][x] <= legs[o][x]
    BY <1>1, WorkTypes DEF WorkInv, LeftInv, Single
  <2>2. legs[o][x] > 0 => left[b][x] < legs[o][x]
    BY DEF LegSet
  <2> QED
    BY <2>1, <2>2
<1>3. left[b] = NoLegs
  BY <1>2 DEF TypeOK, Legs, NoLegs
<1> QED
  BY <1>3 DEF WorkInv, LeftInv

LEMMA WorkFill ==
  ASSUME IInv, WorkInv, NEW e \in Events, TellsTruth(e), OnFillEvent(e),
         UNCHANGED <<sent, legs, restarts, owner, left, status>>
  PROVE  KnownInv' /\ FilledInv' /\ OverInv'
<1> DEFINE o == bySchwab[e.id]
<1>1. e.id \in IDs /\ e.kind = "fill" /\ e.option \in Options
  BY EventParts DEF OnFillEvent
<1>2. CASE UNCHANGED <<filled, idVars, pendingVars>>
  <2>1. UNCHANGED <<filled, orderID, pending>>
    BY <1>2 DEF idVars, pendingVars
  <2> QED
    BY <2>1 DEF WorkInv, KnownInv, FilledInv, OverInv, Working, Single
<1>3. CASE o # Nil /\ ~ UNCHANGED <<filled, idVars, pendingVars>>
  <2> DEFINE marks == filled[o] \cup ({e.option} \cap LegSet(legs[o]))
  <2>1. /\ o \in pending /\ o \in Orders /\ orderID[o] = e.id /\ e.id # Nil /\ owner[e.id] = o
    BY <1>1, <1>3, Registered
  <2>2. /\ filled' = [filled EXCEPT ![o] = marks]
        /\ IF Filled(o, marks) THEN DeleteSchwabOrder(o) ELSE UNCHANGED <<idVars, pendingVars>>
    BY <1>3 DEF OnFillEvent
  <2>3. /\ filled'[o] = marks /\ \A n \in Orders : n # o => filled'[n] = filled[n]
    BY <2>1, <2>2 DEF IInv, TypeOK
  <2>4. \A x \in marks : left[e.id][x] < legs[o][x]
    <3>1. \A x \in filled[o] : left[e.id][x] < legs[o][x]
      BY <2>1 DEF WorkInv, FilledInv
    <3>2. left[e.id][e.option] < legs[o][e.option]
      BY <1>1, <2>1 DEF TellsTruth
    <3> QED
      BY <3>1, <3>2
  <2> HIDE DEF marks, o
  <2>5. orderID' = orderID /\ (pending' = pending \/ (pending' = pending \ {o} /\ Filled(o, marks)))
    BY <2>2 DEF DeleteSchwabOrder, RemovePendingOrder, idVars, pendingVars
  <2>6. KnownInv'
    BY <2>5 DEF WorkInv, KnownInv
  <2>7. FilledInv'
    BY <2>1, <2>3, <2>4, <2>5 DEF WorkInv, FilledInv
  <2>8. Filled(o, marks) /\ Single(o) => ~ Working(e.id)
    BY <1>1, <2>1, <2>4, SinglesAreOver, WorkTypes DEF Filled, IInv
  <2>9. OverInv'
    BY <2>1, <2>5, <2>8, SlotFreed
  <2> QED
    BY <2>6, <2>7, <2>9
<1> QED
  BY <1>2, <1>3 DEF OnFillEvent

LEMMA WorkOver ==
  ASSUME IInv, WorkInv, NEW e \in Events, TellsTruth(e),
         OnOrderOver(e) \/ OnCancelAccepted(e),
         UNCHANGED <<sent, legs, restarts, owner, left, status>>
  PROVE  KnownInv' /\ FilledInv' /\ OverInv'
<1> DEFINE o == bySchwab[e.id]
<1>1. e.id \in IDs
  BY EventParts
<1>2. CASE UNCHANGED <<filled, idVars, pendingVars>>
  <2>1. UNCHANGED <<filled, orderID, pending>>
    BY <1>2 DEF idVars, pendingVars
  <2> QED
    BY <2>1 DEF WorkInv, KnownInv, FilledInv, OverInv, Working, Single
<1>3. CASE OnOrderOver(e) /\ o # Nil /\ DeleteSchwabOrder(o)
  <2>1. status[e.id] = "closed"
    BY <1>3 DEF TellsTruth, OnOrderOver, Ends
  <2>2. o \in Orders /\ orderID[o] = e.id
    BY <1>1, <1>3, Registered
  <2>3. filled' = filled /\ orderID' = orderID /\ pending' = pending \ {o}
    BY <1>3 DEF OnOrderOver, DeleteSchwabOrder, RemovePendingOrder
  <2>4. KnownInv' /\ FilledInv'
    BY <2>3 DEF WorkInv, KnownInv, FilledInv
  <2>5. ~ Working(orderID[o])
    BY <2>1, <2>2 DEF Working
  <2>6. OverInv'
    BY <2>2, <2>3, <2>5, SlotFreed
  <2> QED
    BY <2>4, <2>6
<1> QED
  BY <1>2, <1>3 DEF OnOrderOver, OnCancelAccepted

LEMMA WorkChange ==
  ASSUME IInv, WorkInv, NEW e \in Events, TellsTruth(e), OnChangeEvent(e),
         e.kind = "change" => owner[e.id] # Nil /\ owner[e.id] = owner[e.parent],
         UNCHANGED <<sent, legs, filled, restarts, owner, left, status>>
  PROVE  KnownInv' /\ FilledInv' /\ OverInv'
<1> DEFINE o == bySchwab[e.parent]
<1>1. e.id \in IDs /\ e.parent \in IDs /\ e.kind = "change" /\ pending' = pending
  BY EventParts DEF OnChangeEvent, pendingVars
<1>2. CASE UNCHANGED orderID
  BY <1>1, <1>2 DEF WorkInv, KnownInv, FilledInv, OverInv, Working, Single
<1>3. CASE o # Nil /\ orderID' = [orderID EXCEPT ![o] = e.id]
  <2>1. o \in pending /\ o \in Orders /\ orderID[o] = e.parent /\ owner[e.parent] = o /\ owner[e.id] = o
    BY <1>1, <1>3, Registered
  <2>2. orderID'[o] = e.id /\ \A n \in Orders : n # o => orderID'[n] = orderID[n]
    BY <1>3, <2>1 DEF IInv, TypeOK
  <2>3. filled[o] = {}
    <3>1. left[e.parent] = legs[o]
      BY <1>1, <2>1 DEF TellsTruth
    <3>2. ASSUME NEW x \in filled[o] PROVE FALSE
      <4>1. left[e.parent][x] < legs[o][x] /\ x \in Options
        BY <2>1, WorkTypes DEF WorkInv, FilledInv, IInv
      <4>2. legs[o][x] \in Nat
        BY <2>1, <4>1, WorkTypes DEF IInv
      <4> QED
        BY <3>1, <4>1, <4>2
    <3> QED
      BY <3>2
  <2> HIDE DEF o
  <2>4. KnownInv'
    BY <2>1, <2>2 DEF WorkInv, KnownInv
  <2>5. FilledInv'
    BY <2>1, <2>2, <2>3 DEF WorkInv, FilledInv
  <2>6. OverInv'
    BY <1>1, <2>1, <2>2 DEF WorkInv, OverInv, Working, Single
  <2> QED
    BY <2>4, <2>5, <2>6
<1> QED
  BY <1>2, <1>3 DEF OnChangeEvent, idVars

LEMMA WorkEvent ==
  ASSUME IInv, WorkInv, OnOrderEvent
  PROVE  WorkInv'
<1>1. /\ events # <<>> /\ events' = Tail(events)
      /\ UNCHANGED <<sent, legs, restarts, owner, left, status>>
  BY DEF OnOrderEvent, brokerVars
<1>2. /\ Head(events) \in Events /\ Head(events) = events[1] /\ 1 \in 1..Len(events)
  BY <1>1, Receive DEF IInv, TypeOK
<1>3. TellsTruth(Head(events))
  BY <1>2 DEF WorkInv, TruthInv
<1>4. Head(events).kind = "change" =>
        /\ owner[Head(events).id] # Nil /\ owner[Head(events).id] = owner[Head(events).parent]
  BY <1>2 DEF IInv, ChangeInv
<1>5. PICK e \in Events : e = Head(events)
  BY <1>2
<1>6. OnFillEvent(e) \/ OnOrderOver(e) \/ OnCancelAccepted(e) \/ OnChangeEvent(e)
  BY <1>5 DEF OnOrderEvent
<1>7. OnChangeEvent(e) => filled' = filled
  BY DEF OnChangeEvent
<1>8. KnownInv' /\ FilledInv' /\ OverInv'
  BY <1>1, <1>3, <1>4, <1>5, <1>6, <1>7, WorkFill, WorkOver, WorkChange
<1>9. SentInv' /\ LeftInv'
  BY <1>1, MarketSame
<1>10. TruthInv'
  BY <1>1, TruthHeard DEF IInv, WorkInv
<1> QED
  BY <1>8, <1>9, <1>10 DEF WorkInv

(* What a step of the market must show. *)
LEMMA WorkMarket ==
  ASSUME IInv, TypeOK', WorkInv, SentInv', LeftInv', Onward, TruthInv',
         UNCHANGED <<filled, orderID, pending, restarts>>
  PROVE  WorkInv'
BY BooksKept DEF IInv, WorkInv

LEMMA WorkExecute ==
  ASSUME IInv, TypeOK', WorkInv, NEW b \in IDs, NEW x \in Options, NEW n \in 1..MaxQty,
         Execute(b, x, n)
  PROVE  WorkInv'
<1> DEFINE rest == [left[b] EXCEPT ![x] = @ - n]
           e == [kind |-> "fill", id |-> b, option |-> x, qty |-> n]
<1>1. /\ Working(b) /\ n <= left[b][x] /\ Emit(e)
      /\ left' = [left EXCEPT ![b] = rest]
      /\ status' = [status EXCEPT ![b] = IF rest = NoLegs THEN "closed" ELSE @]
      /\ UNCHANGED <<sent, legs, filled, orderID, pending, restarts, owner>>
  BY DEF Execute, idVars, pendingVars
<1>2. /\ owner[b] # Nil /\ owner[b] \in Orders /\ status[b] # "closed"
  BY <1>1, WorkTypes DEF IInv, OwnerInv, Working
<1>3. /\ left'[b] = rest /\ \A c \in IDs : c # b => left'[c] = left[c] /\ status'[c] = status[c]
      /\ status'[b] = IF rest = NoLegs THEN "closed" ELSE status[b]
  BY <1>1 DEF IInv, TypeOK
<1>4. /\ n \in Nat /\ n >= 1 /\ rest[x] = left[b][x] - n /\ left[b][x] \in Nat
      /\ \A y \in Options : y # x => rest[y] = left[b][y]
  BY OrdersAssumption, WorkTypes DEF IInv, TypeOK, Legs
<1>5. e \in Events /\ e.kind = "fill" /\ e.id = b /\ e.option = x
  BY DEF Events, FillEvents
<1> HIDE DEF rest, e
<1>6. \A y \in Options : rest[y] <= left[b][y] /\ rest[y] \in Int
  BY <1>4, WorkTypes DEF IInv
<1>7. Onward
  <2>1. \A c \in IDs, y \in Options : left'[c][y] <= left[c][y]
    BY <1>3, <1>6, WorkTypes DEF IInv
  <2> QED
    BY <1>1, <1>2, <1>3, <2>1 DEF Onward, Working
<1>8. SentInv'
  BY <1>1 DEF WorkInv, SentInv
<1>9. LeftInv'
  <2>1. ASSUME NEW c \in IDs, owner[c] # Nil
        PROVE  \A y \in Options : left'[c][y] <= legs[owner[c]][y]
    <3>1. owner[c] \in Orders
      BY <2>1, WorkTypes DEF IInv
    <3>2. \A y \in Options : left[c][y] <= legs[owner[c]][y]
      BY <2>1 DEF WorkInv, LeftInv
    <3>3. \A y \in Options : /\ left[c][y] \in Int /\ legs[owner[c]][y] \in Int
                             /\ left'[c][y] <= left[c][y] /\ left'[c][y] \in Int
      BY <1>3, <1>6, <3>1, WorkTypes DEF IInv
    <3> QED
      BY <3>2, <3>3
  <2>2. ASSUME NEW c \in IDs, owner[c] # Nil, status'[c] \in {"open", "pulling"}
        PROVE  left'[c] # NoLegs
    BY <1>3, <2>2 DEF WorkInv, LeftInv, Working
  <2> QED
    BY <1>1, <2>1, <2>2 DEF LeftInv, Working
<1>10. TellsTruth(e)'
  <2>1. left[b][x] <= legs[owner[b]][x] /\ legs[owner[b]][x] \in Nat
    BY <1>2, WorkTypes DEF WorkInv, LeftInv, IInv
  <2>2. left'[b][x] < legs[owner[b]][x]
    BY <1>3, <1>4, <2>1
  <2> QED
    BY <1>1, <1>2, <1>5, <2>2 DEF TellsTruth, Ends
<1>11. TruthInv'
  BY <1>1, <1>5, <1>7, <1>10, TruthEmitted DEF IInv, WorkInv
<1> QED
  BY <1>1, <1>7, <1>8, <1>9, <1>11, WorkMarket

(* An order that has not executed any further changes its status. *)
LEMMA WorkStatus ==
  ASSUME IInv, TypeOK', WorkInv, NEW b \in IDs, NEW s \in {"pulling", "closed"},
         status[b] \in {"open", "pulling"}, status' = [status EXCEPT ![b] = s],
         UNCHANGED <<sent, legs, filled, orderID, pending, restarts, owner, left>>,
         NEW e \in Events, Emit(e), e.id = b, e.kind \in {"cancel", "urout", "expired"},
         Ends(e) => s = "closed"
  PROVE  WorkInv'
<1>1. status'[b] = s /\ \A c \in IDs : c # b => status'[c] = status[c]
  BY DEF IInv, TypeOK
<1>2. Onward
  <2>1. \A c \in IDs, y \in Options : left[c][y] <= left[c][y]
    BY WorkTypes DEF IInv
  <2> QED
    BY <1>1, <2>1 DEF Onward, Working
<1>3. SentInv'
  BY DEF WorkInv, SentInv
<1>4. LeftInv'
  BY <1>1 DEF WorkInv, LeftInv, Working
<1>5. TellsTruth(e)'
  BY <1>1 DEF TellsTruth, Ends
<1>6. TruthInv'
  BY <1>2, <1>5, TruthEmitted DEF IInv, WorkInv
<1> QED
  BY <1>2, <1>3, <1>4, <1>6, WorkMarket

LEMMA WorkReceiveCancel ==
  ASSUME IInv, TypeOK', WorkInv, NEW b \in IDs, ReceiveCancel(b)
  PROVE  WorkInv'
<1>1. UNCHANGED <<sent, legs, filled, orderID, pending, restarts>>
  BY DEF ReceiveCancel, idVars, pendingVars
<1>2. CASE UNCHANGED <<brokerVars, events>>
  BY <1>1, <1>2, WorkSame DEF brokerVars
<1>3. CASE /\ status[b] = "open" /\ status' = [status EXCEPT ![b] = "pulling"]
           /\ Emit([kind |-> "cancel", id |-> b, closed |-> FALSE])
           /\ UNCHANGED <<issued, owner, left, traded>>
  <2> DEFINE r == [kind |-> "cancel", id |-> b, closed |-> FALSE]
  <2>0. r \in Events /\ r.kind = "cancel" /\ r.id = b /\ ~ Ends(r)
    BY DEF Events, CancelEvents, Ends
  <2>1. PICK e \in Events : e = r /\ e.kind = "cancel" /\ e.id = b /\ ~ Ends(e)
    BY <2>0
  <2> QED
    BY <1>1, <1>3, <2>1, WorkStatus
<1>4. CASE status[b] = "open" /\ Close(b, [kind |-> "cancel", id |-> b, closed |-> TRUE])
  <2> DEFINE r == [kind |-> "cancel", id |-> b, closed |-> TRUE]
  <2>0. r \in Events /\ r.kind = "cancel" /\ r.id = b
    BY DEF Events, CancelEvents
  <2>1. PICK e \in Events : e = r /\ e.kind = "cancel" /\ e.id = b
    BY <2>0
  <2> QED
    BY <1>1, <1>4, <2>1, WorkStatus DEF Close
<1> QED
  BY <1>2, <1>3, <1>4 DEF ReceiveCancel

LEMMA WorkLeave ==
  ASSUME IInv, TypeOK', WorkInv, NEW b \in IDs, LeaveMarket(b)
  PROVE  WorkInv'
<1>1. PICK kind \in {"urout", "expired"} : Close(b, [kind |-> kind, id |-> b])
  BY DEF LeaveMarket
<1> DEFINE r == [kind |-> kind, id |-> b]
<1>0. r \in Events /\ r.kind = kind /\ r.id = b
  BY DEF Events, OutEvents
<1>2. PICK e \in Events : e = r /\ e.kind = kind /\ e.id = b
  BY <1>0
<1>3. UNCHANGED <<sent, legs, filled, orderID, pending, restarts, owner, left>>
  BY <1>1 DEF LeaveMarket, Close, idVars, pendingVars
<1>4. status[b] \in {"open", "pulling"} /\ status' = [status EXCEPT ![b] = "closed"] /\ Emit(e)
  BY <1>1, <1>2 DEF LeaveMarket, Close, Working
<1> QED
  BY <1>2, <1>3, <1>4, WorkStatus

LEMMA WorkChangeOrder ==
  ASSUME IInv, TypeOK', WorkInv, NEW b \in IDs, ChangeOrder(b)
  PROVE  WorkInv'
<1> DEFINE c == issued + 1
<1>1. /\ c \in IDs /\ status[b] = "open" /\ left[b] = legs[owner[b]]
      /\ owner' = [owner EXCEPT ![c] = owner[b]] /\ left' = [left EXCEPT ![c] = left[b]]
      /\ status' = [status EXCEPT ![b] = "closed", ![c] = "open"]
      /\ UNCHANGED <<sent, legs, filled, orderID, pending, restarts>>
  BY OrdersAssumption DEF ChangeOrder, IInv, TypeOK, IDs, idVars, pendingVars
<1>2. owner[c] = Nil /\ owner[b] # Nil /\ c # b
  <2>1. owner[b] # Nil
    BY <1>1 DEF IInv, OwnerInv
  <2>2. \A d \in IDs : owner[d] # Nil => d <= issued
    BY DEF IInv, OwnerInv
  <2>3. issued \in Nat
    BY OrdersAssumption DEF IInv, TypeOK
  <2> QED
    BY <1>1, <2>1, <2>2, <2>3
<1>3. PICK e \in Events : e.kind = "change" /\ e.parent = b /\ Emit(e)
  BY ChangeTold DEF IInv
<1> HIDE DEF c
<1>4. /\ owner'[c] = owner[b] /\ left'[c] = left[b] /\ status'[b] = "closed"
      /\ \A d \in IDs : d # c => owner'[d] = owner[d] /\ left'[d] = left[d]
      /\ \A d \in IDs : d # c /\ d # b => status'[d] = status[d]
  BY <1>1, <1>2 DEF IInv, TypeOK
<1>5. Onward
  <2>1. \A d \in IDs, y \in Options : left[d][y] <= left[d][y]
    BY WorkTypes DEF IInv
  <2> QED
    BY <1>1, <1>2, <1>4, <2>1 DEF Onward, Working
<1>6. SentInv'
  BY <1>1, <1>2, <1>4 DEF WorkInv, SentInv
<1>7. LeftInv'
  <2>1. left[b] # NoLegs /\ \A y \in Options : left[b][y] <= legs[owner[b]][y]
    BY <1>1, <1>2 DEF WorkInv, LeftInv, Working
  <2> QED
    BY <1>1, <1>2, <1>4, <2>1 DEF WorkInv, LeftInv, Working
<1>8. TellsTruth(e)'
  BY <1>1, <1>2, <1>4, <1>3 DEF TellsTruth, Ends
<1>9. TruthInv'
  BY <1>1, <1>5, <1>8, <1>3, TruthEmitted DEF IInv, WorkInv
<1> QED
  BY <1>1, <1>5, <1>6, <1>7, <1>9, WorkMarket

LEMMA WorkNext == IInv /\ TypeOK' /\ WorkInv /\ [Next]_vars => WorkInv'
<1> SUFFICES ASSUME IInv, TypeOK', WorkInv, [Next]_vars PROVE WorkInv'
  OBVIOUS
<1>1. CASE \E ls \in Shapes : SendOrder(ls)
  BY <1>1, WorkSend
<1>2. CASE OnOrderOrderID
  BY <1>2, WorkOrderID
<1>3. CASE OnOrderEvent
  BY <1>3, WorkEvent
<1>4. CASE LoadDefinitions \/ RestorePortfolio \/ \E S \in SUBSET Orders : CancelUnfilledOrders(S)
  BY <1>4, WorkSame
     DEF LoadDefinitions, RestorePortfolio, CancelUnfilledOrders, idVars, pendingVars,
         brokerVars, newsVars
<1>5. ASSUME NEW o \in Orders, PlaceOrder(o) PROVE WorkInv'
  BY <1>5, WorkPlace
<1>6. ASSUME NEW o \in Orders, CreateOrderReturns(o) \/ RetryPost(o) \/ BeginCancelCall(o)
      PROVE  WorkInv'
  BY <1>6, WorkSame
     DEF CreateOrderReturns, RetryPost, BeginCancelCall, idVars, pendingVars, brokerVars, newsVars
<1>7. CASE Calls
  BY <1>5, <1>6, <1>7 DEF Calls
<1>8. CASE Schwab
  BY <1>8, WorkExecute, WorkReceiveCancel, WorkLeave, WorkChangeOrder DEF Schwab, SchwabWorks
<1>9. CASE Restart
  BY <1>9, WorkRestart
<1>10. CASE UNCHANGED vars
  BY <1>10, WorkSame DEF vars, idVars, pendingVars, brokerVars, newsVars
<1> QED
  BY <1>1, <1>2, <1>3, <1>4, <1>7, <1>8, <1>9, <1>10 DEF Next, Trader

LEMMA WorkCorrect == Spec => []WorkInv
<1>1. IInv => TypeOK
  BY DEF IInv
<1> QED
  BY <1>1, WorkInit, WorkNext, InvCorrect, PTL DEF Spec

(* Until a restart an order that Schwab works under an id the trader knows  *)
(* or is about to be told keeps its slot, if its legs are of one contract,  *)
(* through every interleaving of replies, fills, cancels, edits and         *)
(* expirations, and whatever is lost or retried (deleteSchwabOrder's        *)
(* callers in live.go).                                                     *)
THEOREM WorkingOrdersArePending == Spec => []WorkingIsPending
<1>1. IInv /\ WorkInv => WorkingIsPending
  <2> SUFFICES ASSUME IInv, WorkInv, NEW b \in IDs, Working(b), restarts = 0, IsTold(b),
                      \A x \in Options : legs[owner[b]][x] <= 1
               PROVE  owner[b] \in pending
    BY DEF WorkingIsPending
  <2> DEFINE o == owner[b]
  <2>1. o \in Orders /\ o # Nil /\ b # Nil
    BY WorkTypes, OrdersAssumption DEF IInv, OwnerInv, Working, IDs, Nil
  <2>2. CASE orderID[o] = b
    BY <2>1, <2>2 DEF WorkInv, OverInv, Single
  <2>3. CASE post[o] = "calling" /\ reply[o] = b
    BY <2>1, <2>3 DEF IInv, StageInv, CallInv
  <2>4. CASE \E i \in 1..Len(updates) : updates[i].order = o /\ updates[i].id = b
    BY <2>4 DEF IInv, StageInv, UpdateInv
  <2> QED
    BY <2>2, <2>3, <2>4 DEF IsTold
<1> QED
  BY <1>1, InvCorrect, WorkCorrect, PTL

-----------------------------------------------------------------------------
(* Nothing is booked twice.  Until a restart what Holdings booked and the   *)
(* fills on their way are what was executed; before the portfolio is        *)
(* restored there is neither, since no order was sent.                      *)

(* The contracts of x that the fills in q are about: InFlight(x), for any q. *)
Due(q, x) == {p \in (1..Len(q)) \X (1..MaxQty) :
                /\ q[p[1]].kind = "fill" /\ q[p[1]].option = x
                /\ p[2] <= q[p[1]].qty}

Quantity(e, x) == IF e.kind = "fill" /\ e.option = x THEN e.qty ELSE 0

LEMMA DuePairs ==
  ASSUME NEW q, NEW x, Len(q) \in Nat
  PROVE  /\ \A i, j : <<i, j>> \in Due(q, x) <=>
              /\ i \in 1..Len(q) /\ j \in 1..MaxQty
              /\ q[i].kind = "fill" /\ q[i].option = x /\ j <= q[i].qty
         /\ \A p \in Due(q, x) : p = <<p[1], p[2]>>
         /\ IsFiniteSet(Due(q, x)) /\ Cardinality(Due(q, x)) \in Nat
<1>1. \A i, j : <<i, j>> \in Due(q, x) <=>
        /\ i \in 1..Len(q) /\ j \in 1..MaxQty
        /\ q[i].kind = "fill" /\ q[i].option = x /\ j <= q[i].qty
  BY DEF Due
<1>2. \A p \in Due(q, x) : p = <<p[1], p[2]>>
  BY DEF Due
<1>3. IsFiniteSet(1..Len(q)) /\ IsFiniteSet(1..MaxQty)
  BY FS_Interval, OrdersAssumption
<1>4. IsFiniteSet((1..Len(q)) \X (1..MaxQty))
  BY <1>3, FS_Product
<1>5. IsFiniteSet(Due(q, x))
  BY <1>4, FS_Subset DEF Due
<1> QED
  BY <1>1, <1>2, <1>5, FS_CardinalityType

(* The pairs of one event. *)
LEMMA OneEvent ==
  ASSUME NEW n, NEW e \in Events, NEW x
  PROVE  /\ Quantity(e, x) \in 0..MaxQty
         /\ IsFiniteSet({n} \X (1..Quantity(e, x)))
         /\ Cardinality({n} \X (1..Quantity(e, x))) = Quantity(e, x)
<1>1. Quantity(e, x) \in 0..MaxQty /\ Quantity(e, x) \in Nat
  BY OrdersAssumption DEF Quantity, Events, FillEvents, CancelEvents, OutEvents, ChangeEvents
<1> DEFINE k == Quantity(e, x)
<1> HIDE DEF k
<1>2. k \in Nat
  BY <1>1 DEF k
<1>3. IsFiniteSet(1..k) /\ Cardinality(1..k) = k
  BY <1>2, FS_Interval
<1>4. IsFiniteSet({n}) /\ Cardinality({n}) = 1
  BY FS_Singleton
<1>5. IsFiniteSet({n} \X (1..k)) /\ Cardinality({n} \X (1..k)) = 1 * k
  BY <1>3, <1>4, FS_Product
<1>6. 1 * k = k
  BY <1>2
<1> QED
  BY <1>1, <1>5, <1>6 DEF k

LEMMA DisjointUnion ==
  ASSUME NEW S, IsFiniteSet(S), NEW T, IsFiniteSet(T), S \cap T = {}
  PROVE  Cardinality(S \cup T) = Cardinality(S) + Cardinality(T)
<1>1. Cardinality(S) \in Nat /\ Cardinality(T) \in Nat
  BY FS_CardinalityType
<1>2. Cardinality(S \cap T) = 0
  BY FS_EmptySet
<1>3. Cardinality(S \cup T) = Cardinality(S) + Cardinality(T) - Cardinality(S \cap T)
  BY FS_Union
<1> QED
  BY <1>1, <1>2, <1>3

(* A fill that joins the queue, and one that leaves it. *)
LEMMA DueAppend ==
  ASSUME NEW q \in Seq(Events), NEW e \in Events, NEW x
  PROVE  Cardinality(Due(Append(q, e), x)) = Cardinality(Due(q, x)) + Quantity(e, x)
<1> DEFINE r == Append(q, e)
           n == Len(q) + 1
           S == Due(q, x)
           T == {n} \X (1..Quantity(e, x))
<1>1. /\ Len(q) \in Nat /\ Len(r) = n /\ r[n] = e /\ \A i \in 1..Len(q) : r[i] = q[i]
  OBVIOUS
<1>2. Quantity(e, x) \in 0..MaxQty
  BY OneEvent
<1> HIDE DEF r
<1>3. \A i, j : <<i, j>> \in Due(r, x) <=> <<i, j>> \in S \/ <<i, j>> \in T
  <2> SUFFICES ASSUME NEW i, NEW j
               PROVE  <<i, j>> \in Due(r, x) <=> <<i, j>> \in S \/ <<i, j>> \in T
    OBVIOUS
  <2>1. <<i, j>> \in Due(r, x) <=> /\ i \in 1..n /\ j \in 1..MaxQty
                                   /\ r[i].kind = "fill" /\ r[i].option = x /\ j <= r[i].qty
    BY <1>1, DuePairs
  <2>2. <<i, j>> \in S <=> /\ i \in 1..Len(q) /\ j \in 1..MaxQty
                           /\ q[i].kind = "fill" /\ q[i].option = x /\ j <= q[i].qty
    BY <1>1, DuePairs
  <2>3. <<i, j>> \in T <=> i = n /\ j \in 1..Quantity(e, x)
    OBVIOUS
  <2>4. CASE i = n
    <3>1. j \in 1..Quantity(e, x) <=>
            j \in 1..MaxQty /\ e.kind = "fill" /\ e.option = x /\ j <= e.qty
      BY <1>2, OrdersAssumption DEF Quantity
    <3>2. i \in 1..n /\ i \notin 1..Len(q)
      BY <1>1, <2>4
    <3> QED
      BY <1>1, <2>1, <2>2, <2>3, <2>4, <3>1, <3>2
  <2>5. CASE i # n
    <3>1. i \in 1..n <=> i \in 1..Len(q)
      BY <1>1, <2>5
    <3> QED
      BY <1>1, <2>1, <2>2, <2>3, <2>5, <3>1
  <2> QED
    BY <2>4, <2>5
<1>4. Due(r, x) = S \cup T
  <2>1. \A p \in S \cup T : p = <<p[1], p[2]>>
    BY <1>1, DuePairs
  <2>2. \A p \in Due(r, x) : p = <<p[1], p[2]>>
    BY <1>1, DuePairs
  <2> QED
    BY <1>3, <2>1, <2>2
<1>5. S \cap T = {}
  <2>1. \A p \in S : p[1] # n
    BY <1>1 DEF Due
  <2>2. \A p \in T : p[1] = n
    OBVIOUS
  <2> QED
    BY <2>1, <2>2
<1>6. IsFiniteSet(S) /\ Cardinality(S) \in Nat
  BY <1>1, DuePairs
<1>7. IsFiniteSet(T) /\ Cardinality(T) = Quantity(e, x)
  BY OneEvent
<1> HIDE DEF S, T
<1>8. Cardinality(S \cup T) = Cardinality(S) + Quantity(e, x)
  BY <1>2, <1>5, <1>6, <1>7, DisjointUnion
<1> QED
  BY <1>4, <1>8 DEF r, S

LEMMA DueTail ==
  ASSUME NEW q \in Seq(Events), q # <<>>, NEW x
  PROVE  Cardinality(Due(q, x)) = Cardinality(Due(Tail(q), x)) + Quantity(Head(q), x)
<1> DEFINE t == Tail(q)
           e == Head(q)
           R == Due(t, x)
           S == {p \in Due(q, x) : p[1] # 1}
           T == {1} \X (1..Quantity(e, x))
           shift == [p \in R |-> <<p[1] + 1, p[2]>>]
<1>1. /\ e \in Events /\ e = q[1] /\ 1 \in 1..Len(q) /\ Len(q) \in Nat /\ Len(t) = Len(q) - 1
      /\ Len(t) \in Nat /\ \A i \in 1..Len(t) : t[i] = q[i + 1]
  BY Receive
<1>2. Quantity(e, x) \in 0..MaxQty
  BY <1>1, OneEvent
<1> HIDE DEF t, e
<1>3. /\ \A i, j : <<i, j>> \in Due(q, x) <=>
              /\ i \in 1..Len(q) /\ j \in 1..MaxQty
              /\ q[i].kind = "fill" /\ q[i].option = x /\ j <= q[i].qty
      /\ \A p \in Due(q, x) : p = <<p[1], p[2]>>
      /\ IsFiniteSet(Due(q, x)) /\ Cardinality(Due(q, x)) \in Nat
  BY <1>1, DuePairs
<1>4. /\ \A i, j : <<i, j>> \in R <=>
              /\ i \in 1..Len(t) /\ j \in 1..MaxQty
              /\ t[i].kind = "fill" /\ t[i].option = x /\ j <= t[i].qty
      /\ \A p \in R : p = <<p[1], p[2]>>
      /\ IsFiniteSet(R) /\ Cardinality(R) \in Nat
  BY <1>1, DuePairs
<1> HIDE DEF R
<1>5. \A j : <<1, j>> \in Due(q, x) <=> <<1, j>> \in T
  <2>1. ASSUME NEW j
        PROVE  j \in 1..Quantity(e, x) <=>
                 j \in 1..MaxQty /\ e.kind = "fill" /\ e.option = x /\ j <= e.qty
    BY <1>2, OrdersAssumption DEF Quantity
  <2> QED
    BY <1>1, <1>3, <2>1
<1>6. \A i, j : i # 1 => (<<i, j>> \in Due(q, x) <=> i - 1 \in 1..Len(t) /\ i \in Int /\ <<i - 1, j>> \in R)
  <2> SUFFICES ASSUME NEW i, NEW j, i # 1
               PROVE  <<i, j>> \in Due(q, x) <=>
                        i - 1 \in 1..Len(t) /\ i \in Int /\ <<i - 1, j>> \in R
    OBVIOUS
  <2>1. CASE i \in 2..Len(q)
    <3>1. i - 1 \in 1..Len(t) /\ t[i - 1] = q[i] /\ i \in 1..Len(q) /\ i \in Int
      BY <1>1, <2>1
    <3> QED
      BY <1>3, <1>4, <3>1
  <2>2. CASE i \notin 2..Len(q)
    <3>1. i \notin 1..Len(q)
      BY <1>1, <2>2
    <3>2. ~ (i \in Int /\ i - 1 \in 1..Len(t))
      BY <1>1, <2>2
    <3> QED
      BY <1>3, <3>1, <3>2
  <2> QED
    BY <2>1, <2>2
<1>7. Due(q, x) = S \cup T
  <2>1. \A p \in T : p = <<1, p[2]>>
    OBVIOUS
  <2>2. \A p \in T : p \in Due(q, x)
    BY <1>5, <2>1
  <2>3. \A p \in Due(q, x) : p[1] = 1 => p \in T
    BY <1>3, <1>5
  <2> QED
    BY <2>2, <2>3
<1>8. S \cap T = {}
  OBVIOUS
<1>9. shift \in Bijection(R, S)
  <2>1. \A p \in R : p[1] \in 1..Len(t) /\ p[1] + 1 \in Int /\ p[1] + 1 # 1 /\ (p[1] + 1) - 1 = p[1]
    <3>1. \A p \in R : p[1] \in 1..Len(t)
      BY <1>4
    <3> QED
      BY <1>1, <3>1
  <2>2. ASSUME NEW p \in R PROVE shift[p] = <<p[1] + 1, p[2]>> /\ shift[p] \in S
    <3>1. <<p[1], p[2]>> \in R
      BY <1>4
    <3>2. <<p[1] + 1, p[2]>> \in Due(q, x)
      BY <1>6, <2>1, <3>1
    <3> QED
      BY <2>1, <3>2
  <2>3. shift \in [R -> S]
    BY <2>2
  <2>4. ASSUME NEW a \in R, NEW b \in R, shift[a] = shift[b] PROVE a = b
    <3>1. a[1] + 1 = b[1] + 1 /\ a[2] = b[2]
      BY <2>2, <2>4
    <3>2. a[1] = b[1]
      BY <2>1, <3>1
    <3> QED
      BY <1>4, <3>1, <3>2
  <2>5. ASSUME NEW p \in S PROVE \E a \in R : shift[a] = p
    <3>1. p \in Due(q, x) /\ p = <<p[1], p[2]>> /\ p[1] # 1
      BY <1>3
    <3>2. <<p[1] - 1, p[2]>> \in R /\ p[1] \in Int
      BY <1>6, <3>1
    <3>3. shift[<<p[1] - 1, p[2]>>] = <<(p[1] - 1) + 1, p[2]>>
      BY <3>2
    <3>4. (p[1] - 1) + 1 = p[1]
      BY <3>2
    <3> QED
      BY <3>1, <3>2, <3>3, <3>4
  <2> HIDE DEF shift, S
  <2>6. DOMAIN shift = R
    BY <2>3
  <2>7. IsInjective(shift)
    BY <2>4, <2>6 DEF IsInjective
  <2> QED
    BY <2>3, <2>5, <2>7 DEF Bijection, Injection, Surjection
<1>10. IsFiniteSet(S) /\ Cardinality(S) = Cardinality(R)
  BY <1>4, <1>9, FS_Bijection DEF ExistsBijection
<1>11. IsFiniteSet(T) /\ Cardinality(T) = Quantity(e, x)
  BY <1>1, OneEvent
<1> HIDE DEF S, T
<1>12. Cardinality(S \cup T) = Cardinality(S) + Cardinality(T)
  BY <1>8, <1>10, <1>11, DisjointUnion
<1> QED
  BY <1>7, <1>10, <1>11, <1>12 DEF R, t, e

(* Before the portfolio is restored no order has been sent. *)
QuietInv ==
  restarts = 0 /\ phase # "ready" =>
    sent = 0 /\ issued = 0 /\ events = <<>> /\ volume = NoLegs /\ traded = NoLegs

BookedInv ==
  restarts = 0 => \A x \in Options :
    /\ volume[x] + InFlight(x) <= traded[x]
    /\ "eventLost" \notin Faults => volume[x] + InFlight(x) = traded[x]

LedgerInv == QuietInv /\ BookedInv

LEMMA InFlightIs ==
  TypeOK => \A x \in Options : InFlight(x) = Cardinality(Due(events, x)) /\ InFlight(x) \in Nat
<1> SUFFICES ASSUME TypeOK, NEW x \in Options
             PROVE  InFlight(x) = Cardinality(Due(events, x)) /\ InFlight(x) \in Nat
  OBVIOUS
<1>1. Len(events) \in Nat
  BY DEF TypeOK
<1>2. InFlight(x) = Cardinality(Due(events, x))
  BY DEF InFlight, Due
<1> QED
  BY <1>1, <1>2, DuePairs

LEMMA InFlightNext == \A x \in Options : InFlight(x)' = Cardinality(Due(events', x))
  BY DEF InFlight, Due

LEMMA LedgerInit == Init => LedgerInv
<1> SUFFICES ASSUME Init PROVE LedgerInv
  OBVIOUS
<1>1. QuietInv
  BY DEF Init, QuietInv
<1>2. ASSUME NEW x \in Options PROVE InFlight(x) = 0
  <2>1. Due(events, x) = {}
    BY DEF Init, Due
  <2> QED
    BY <2>1, FS_EmptySet DEF InFlight, Due
<1>3. BookedInv
  BY <1>2 DEF Init, BookedInv, NoLegs
<1> QED
  BY <1>1, <1>3 DEF LedgerInv

LEMMA LedgerSame ==
  ASSUME LedgerInv, UNCHANGED <<restarts, events, volume, traded>>,
         UNCHANGED <<phase, sent, issued>> \/ (phase = "ready" /\ phase' = "ready")
         \/ (phase # "ready" /\ UNCHANGED <<sent, issued>>)
  PROVE  LedgerInv'
<1>1. QuietInv'
  BY DEF LedgerInv, QuietInv
<1>2. \A x \in Options : InFlight(x)' = InFlight(x)
  BY DEF InFlight
<1>3. BookedInv'
  BY <1>2 DEF LedgerInv, BookedInv
<1> QED
  BY <1>1, <1>3 DEF LedgerInv

(* The portfolio that is restored is empty. *)
LEMMA LedgerRestore ==
  ASSUME IInv, LedgerInv, RestorePortfolio
  PROVE  LedgerInv'
<1>1. /\ phase' = "ready" /\ phase # "ready" /\ UNCHANGED <<restarts, events, traded>>
      /\ volume' = [x \in Options |-> volume[x] + Executions(x)]
  BY DEF RestorePortfolio, brokerVars, newsVars
<1>2. QuietInv'
  BY <1>1 DEF QuietInv
<1>3. ASSUME restarts = 0, NEW x \in Options PROVE volume'[x] = volume[x]
  <2>1. issued = 0
    BY <1>1, <1>3 DEF LedgerInv, QuietInv
  <2>2. \A b \in IDs : ~ (b <= issued)
    BY <2>1, OrdersAssumption DEF IDs
  <2>3. \A b \in IDs : ~ IsFilledOrder(b)
    BY <2>2 DEF IInv, OwnerInv, IsFilledOrder
  <2>4. \A p \in IDs \X (1..MaxQty) : ~ IsFilledOrder(p[1])
    BY <2>3
  <2>5. {p \in IDs \X (1..MaxQty) : IsFilledOrder(p[1]) /\ p[2] <= legs[owner[p[1]]][x]} = {}
    BY <2>4
  <2>6. Executions(x) = 0
    BY <2>5, FS_EmptySet DEF Executions
  <2>7. volume[x] \in Nat
    BY DEF IInv, TypeOK
  <2> QED
    BY <1>1, <2>6, <2>7
<1>4. \A x \in Options : InFlight(x)' = InFlight(x)
  BY <1>1 DEF InFlight
<1>5. BookedInv'
  BY <1>1, <1>3, <1>4 DEF LedgerInv, BookedInv
<1> QED
  BY <1>2, <1>5 DEF LedgerInv

(* A fill leaves the queue and enters the books at the same time. *)
LEMMA LedgerEvent ==
  ASSUME IInv, LedgerInv, OnOrderEvent
  PROVE  LedgerInv'
<1> DEFINE e == Head(events)
<1>1. /\ events # <<>> /\ events' = Tail(events) /\ UNCHANGED <<phase, sent, restarts, issued, traded>>
  BY DEF OnOrderEvent, brokerVars
<1>2. restarts = 0 => phase = "ready"
  BY <1>1 DEF LedgerInv, QuietInv
<1>3. QuietInv'
  BY <1>1, <1>2 DEF QuietInv
<1>4. events \in Seq(Events) /\ e \in Events /\ volume \in [Options -> Nat]
  BY <1>1, Receive DEF IInv, TypeOK
<1>5. ASSUME NEW x \in Options, restarts = 0
      PROVE  volume'[x] = volume[x] + Quantity(e, x)
  <2>1. CASE OnFillEvent(e)
    <3>1. e.kind = "fill" /\ volume' = [volume EXCEPT ![e.option] = @ + e.qty]
      BY <1>2, <1>5, <2>1 DEF OnFillEvent
    <3>2. e.option \in Options /\ e.qty \in Nat
      BY <1>4, <3>1, OrdersAssumption
         DEF Events, FillEvents, CancelEvents, OutEvents, ChangeEvents
    <3> HIDE DEF e
    <3> QED
      BY <1>4, <3>1, <3>2 DEF Quantity
  <2>2. CASE OnOrderOver(e) \/ OnCancelAccepted(e) \/ OnChangeEvent(e)
    <3>1. e.kind # "fill" /\ volume' = volume
      BY <2>2 DEF OnOrderOver, OnCancelAccepted, OnChangeEvent
    <3> QED
      BY <1>4, <3>1 DEF Quantity
  <2> QED
    BY <2>1, <2>2 DEF OnOrderEvent
<1>6. ASSUME NEW x \in Options
      PROVE  InFlight(x) = InFlight(x)' + Quantity(e, x)
  <2>1. Cardinality(Due(events, x)) = Cardinality(Due(Tail(events), x)) + Quantity(e, x)
    BY <1>1, <1>4, DueTail
  <2> QED
    BY <1>1, <2>1, InFlightIs, InFlightNext DEF IInv
<1>7. BookedInv'
  <2> SUFFICES ASSUME restarts = 0, NEW x \in Options
               PROVE  /\ volume'[x] + InFlight(x)' <= traded[x]
                      /\ "eventLost" \notin Faults => volume'[x] + InFlight(x)' = traded[x]
    BY <1>1 DEF BookedInv
  <2>1. /\ volume[x] + InFlight(x) <= traded[x]
        /\ "eventLost" \notin Faults => volume[x] + InFlight(x) = traded[x]
    BY DEF LedgerInv, BookedInv
  <2>2. Quantity(e, x) \in Nat /\ volume[x] \in Nat /\ traded[x] \in Nat
    <3>1. Quantity(e, x) \in 0..MaxQty
      BY <1>4, OneEvent
    <3>2. volume[x] \in Nat /\ traded[x] \in Nat
      BY DEF IInv, TypeOK
    <3> QED
      BY <3>1, <3>2, OrdersAssumption
  <2>3. InFlight(x)' \in Nat
    <3>1. Len(Tail(events)) \in Nat
      BY <1>1, <1>4
    <3> QED
      BY <1>1, <3>1, DuePairs, InFlightNext
  <2> HIDE DEF e
  <2> QED
    BY <1>5, <1>6, <2>1, <2>2, <2>3
<1> QED
  BY <1>3, <1>7 DEF LedgerInv

(* What is executed is reported, unless the report is lost. *)
LEMMA LedgerEmit ==
  ASSUME IInv, LedgerInv, NEW e \in Events, Emit(e), issued # 0,
         UNCHANGED <<phase, restarts, volume>>,
         \A x \in Options : traded'[x] = traded[x] + Quantity(e, x)
  PROVE  LedgerInv'
<1>1. QuietInv'
  BY DEF LedgerInv, QuietInv
<1>2. events \in Seq(Events)
  BY DEF IInv, TypeOK
<1>3. BookedInv'
  <2> SUFFICES ASSUME restarts = 0, NEW x \in Options
               PROVE  /\ volume[x] + InFlight(x)' <= traded'[x]
                      /\ "eventLost" \notin Faults => volume[x] + InFlight(x)' = traded'[x]
    BY DEF BookedInv
  <2>1. /\ volume[x] + InFlight(x) <= traded[x]
        /\ "eventLost" \notin Faults => volume[x] + InFlight(x) = traded[x]
    BY DEF LedgerInv, BookedInv
  <2>2. /\ Quantity(e, x) \in Nat /\ volume[x] \in Nat /\ traded[x] \in Nat
        /\ traded'[x] = traded[x] + Quantity(e, x)
    <3>1. Quantity(e, x) \in 0..MaxQty
      BY OneEvent
    <3>2. volume[x] \in Nat /\ traded[x] \in Nat
      BY DEF IInv, TypeOK
    <3> QED
      BY <3>1, <3>2, OrdersAssumption
  <2>3. InFlight(x) = Cardinality(Due(events, x)) /\ InFlight(x) \in Nat
    BY InFlightIs DEF IInv
  <2>4. CASE events' = Append(events, e)
    <3>1. InFlight(x)' = InFlight(x) + Quantity(e, x)
      BY <1>2, <2>3, <2>4, DueAppend, InFlightNext
    <3> QED
      BY <2>1, <2>2, <2>3, <3>1
  <2>5. CASE "eventLost" \in Faults /\ UNCHANGED events
    <3>1. InFlight(x)' = InFlight(x)
      BY <2>3, <2>5, InFlightNext
    <3> QED
      BY <2>1, <2>2, <2>3, <2>5, <3>1
  <2> QED
    BY <2>4, <2>5 DEF Emit
<1> QED
  BY <1>1, <1>3 DEF LedgerInv

LEMMA LedgerMarket ==
  ASSUME IInv, LedgerInv, NEW b \in IDs, SchwabWorks(b)
  PROVE  LedgerInv'
<1>1. status[b] # "none" => issued # 0
  BY OrdersAssumption DEF IInv, TypeOK, OwnerInv, IDs
<1>2. \A x \in Options : traded[x] \in Nat
  BY DEF IInv, TypeOK
<1>3. ASSUME NEW e \in Events, Emit(e), e.kind # "fill", status[b] # "none", traded' = traded,
             UNCHANGED <<phase, restarts, volume>>
      PROVE  LedgerInv'
  BY <1>1, <1>2, <1>3, LedgerEmit DEF Quantity
<1>4. ASSUME NEW x \in Options, NEW n \in 1..MaxQty, Execute(b, x, n) PROVE LedgerInv'
  <2> DEFINE r == [kind |-> "fill", id |-> b, option |-> x, qty |-> n]
  <2>1. r \in Events /\ r.kind = "fill" /\ r.option = x /\ r.qty = n
    BY DEF Events, FillEvents
  <2>2. PICK e \in Events : e = r /\ e.kind = "fill" /\ e.option = x /\ e.qty = n
    BY <2>1
  <2>3. /\ status[b] # "none" /\ Emit(e) /\ traded' = [traded EXCEPT ![x] = @ + n]
        /\ UNCHANGED <<phase, restarts, volume>>
    BY <1>4, <2>2 DEF Execute, Working
  <2>4. \A y \in Options : traded'[y] = traded[y] + Quantity(e, y)
    BY <1>2, <2>2, <2>3 DEF Quantity, IInv, TypeOK
  <2> QED
    BY <1>1, <2>3, <2>4, LedgerEmit
<1>5. CASE ReceiveCancel(b)
  <2>1. CASE UNCHANGED <<brokerVars, events>>
    BY <1>5, <2>1, LedgerSame DEF ReceiveCancel, brokerVars
  <2>2. CASE \E closed \in BOOLEAN : /\ status[b] = "open" /\ traded' = traded
                                     /\ Emit([kind |-> "cancel", id |-> b, closed |-> closed])
    <3>1. PICK closed \in BOOLEAN : /\ status[b] = "open" /\ traded' = traded
                                    /\ Emit([kind |-> "cancel", id |-> b, closed |-> closed])
      BY <2>2
    <3> DEFINE r == [kind |-> "cancel", id |-> b, closed |-> closed]
    <3>2. r \in Events /\ r.kind = "cancel"
      BY DEF Events, CancelEvents
    <3>3. PICK e \in Events : e = r /\ e.kind = "cancel"
      BY <3>2
    <3> QED
      BY <1>3, <1>5, <3>1, <3>3 DEF ReceiveCancel
  <2>3. \/ UNCHANGED <<brokerVars, events>>
        \/ /\ status[b] = "open" /\ traded' = traded
           /\ Emit([kind |-> "cancel", id |-> b, closed |-> FALSE])
        \/ /\ status[b] = "open" /\ traded' = traded
           /\ Emit([kind |-> "cancel", id |-> b, closed |-> TRUE])
    BY <1>5 DEF ReceiveCancel, Close
  <2> QED
    BY <2>1, <2>2, <2>3
<1>6. CASE LeaveMarket(b)
  <2>1. PICK kind \in {"urout", "expired"} : Close(b, [kind |-> kind, id |-> b])
    BY <1>6 DEF LeaveMarket
  <2> DEFINE r == [kind |-> kind, id |-> b]
  <2>2. r \in Events /\ r.kind # "fill"
    BY DEF Events, OutEvents
  <2>3. PICK e \in Events : e = r /\ e.kind # "fill"
    BY <2>2
  <2> QED
    BY <1>3, <1>6, <2>1, <2>3 DEF LeaveMarket, Close, Working
<1>7. CASE ChangeOrder(b)
  <2>3. PICK e \in Events : e.kind = "change" /\ Emit(e)
    BY <1>7, ChangeTold DEF IInv
  <2>4. /\ Emit(e) /\ status[b] # "none" /\ traded' = traded /\ UNCHANGED <<phase, restarts, volume>>
    BY <1>7, <2>3 DEF ChangeOrder
  <2> QED
    BY <1>3, <2>3, <2>4
<1> QED
  BY <1>4, <1>5, <1>6, <1>7 DEF SchwabWorks

LEMMA LedgerNext == IInv /\ LedgerInv /\ [Next]_vars => LedgerInv'
<1> SUFFICES ASSUME IInv, LedgerInv, [Next]_vars PROVE LedgerInv'
  OBVIOUS
<1>1. CASE LoadDefinitions
  BY <1>1, LedgerSame DEF LoadDefinitions, brokerVars, newsVars
<1>2. CASE RestorePortfolio
  BY <1>2, LedgerRestore
<1>3. CASE \E ls \in Shapes : SendOrder(ls)
  BY <1>3, LedgerSame DEF SendOrder, brokerVars, newsVars
<1>4. CASE (\E S \in SUBSET Orders : CancelUnfilledOrders(S)) \/ OnOrderOrderID
  BY <1>4, LedgerSame DEF CancelUnfilledOrders, OnOrderOrderID, brokerVars, newsVars
<1>5. CASE OnOrderEvent
  BY <1>5, LedgerEvent
<1>6. ASSUME NEW o \in Orders, PlaceOrder(o) PROVE LedgerInv'
  <2>1. UNCHANGED <<phase, restarts, events, volume, traded>>
    BY <1>6 DEF PlaceOrder, newsVars
  <2>2. ~ (o > sent) /\ sent \in Nat
    BY <1>6, OrdersAssumption DEF PlaceOrder, IInv, TypeOK, StageInv, UnsentInv
  <2>3. sent # 0
    BY <2>2, OrdersAssumption DEF Orders
  <2>4. QuietInv'
    BY <1>6, <2>1, <2>3 DEF LedgerInv, QuietInv
  <2>5. BookedInv'
    BY <2>1 DEF LedgerInv, BookedInv, InFlight
  <2> QED
    BY <2>4, <2>5 DEF LedgerInv
<1>7. ASSUME NEW o \in Orders, CreateOrderReturns(o) \/ RetryPost(o) \/ BeginCancelCall(o)
      PROVE  LedgerInv'
  BY <1>7, LedgerSame DEF CreateOrderReturns, RetryPost, BeginCancelCall, brokerVars, newsVars
<1>8. CASE Calls
  BY <1>6, <1>7, <1>8 DEF Calls
<1>9. CASE Schwab
  BY <1>9, LedgerMarket DEF Schwab
<1>10. CASE Restart
  <2>1. restarts' # 0
    BY <1>10 DEF Restart, IInv, TypeOK
  <2> QED
    BY <2>1 DEF LedgerInv, QuietInv, BookedInv
<1>11. CASE UNCHANGED vars
  BY <1>11, LedgerSame DEF vars, brokerVars, newsVars
<1> QED
  BY <1>1, <1>2, <1>3, <1>4, <1>5, <1>8, <1>9, <1>10, <1>11 DEF Next, Trader

(* Until a restart the contracts Holdings booked, with the fills on their   *)
(* way, are those Schwab executed: none is booked twice, whatever events    *)
(* are lost, POSTs are retried and orders are edited, and none is missed    *)
(* unless its event was lost (onFillEvent).  After a restart neither holds: *)
(* restorePortfolio reloads only orders that Schwab calls Filled, and fills *)
(* that arrive before it are booked once more.                              *)
THEOREM LedgerIsExact == Spec => [](restarts = 0 => LedgerExact)
<1>1. LedgerInv => (restarts = 0 => LedgerExact)
  BY DEF LedgerInv, BookedInv, LedgerExact
<1> QED
  BY <1>1, LedgerInit, LedgerNext, InvCorrect, PTL DEF Spec

-----------------------------------------------------------------------------
(* VaruOrders implements OrderLife. *)

LifeMap == [o \in Orders |-> Stage(o)]

LEMMA ActiveIsPending ==
  ASSUME IInv
  PROVE  Life!Active = pending
<1>1. pending \subseteq Orders /\ \A o \in pending : ~(o > sent)
  BY DEF IInv, TypeOK, StageInv, UnsentInv
<1>2. \A o \in Orders : LifeMap[o] \in {"placing", "live", "canceling"} <=> o \in pending
  BY <1>1 DEF LifeMap, Stage
<1>3. QED BY <1>1, <1>2 DEF Life!Active, LifeMap

LEMMA LifeSame ==
  ASSUME UNCHANGED <<sent, canceling, pending>>,
         \A o \in Orders : orderID'[o] = Nil <=> orderID[o] = Nil
  PROVE  LifeMap' = LifeMap
BY DEF LifeMap, Stage

LEMMA LifeFinish ==
  ASSUME IInv, NEW o \in pending, DeleteSchwabOrder(o), UNCHANGED <<sent, canceling>>
  PROVE  Life!Finish(o)
<1>1. o \in Orders /\ ~(o > sent)
  BY DEF IInv, TypeOK, StageInv, UnsentInv
<1>2. orderID' = orderID /\ pending' = pending \ {o}
  BY DEF DeleteSchwabOrder, RemovePendingOrder
<1>3. LifeMap' = [LifeMap EXCEPT ![o] = "done"]
  BY <1>1, <1>2 DEF LifeMap, Stage
<1>4. QED BY <1>3, ActiveIsPending DEF Life!Finish, LifeMap

LEMMA LifeInit == Init => Life!Init
<1>1. ASSUME Init, NEW o \in Orders
      PROVE  Stage(o) = "unsent"
  BY <1>1 DEF Init, Stage, Orders
<1>2. QED BY <1>1 DEF Life!Init

LEMMA LifeSend ==
  ASSUME IInv, NEW ls \in Shapes, SendOrder(ls), NEW o, o = sent + 1
  PROVE  o \in Orders /\ Life!Submit(o)
<1>1. o \in Orders /\ sent \in Nat
  BY OrdersAssumption DEF SendOrder, IInv, TypeOK, Orders
<1>2. o \notin pending /\ orderID[o] = Nil
  BY <1>1 DEF IInv, StageInv, UnsentInv
<1>3. sent' = o /\ pending' = pending \cup {o} /\ UNCHANGED <<canceling, orderID>>
  BY DEF SendOrder, AddPendingOrder, idVars
<1>4. LifeMap[o] = "unsent" /\ \A n \in Orders : n < o => LifeMap[n] # "unsent"
  BY <1>1 DEF LifeMap, Stage, Orders
<1>5. LifeMap' = [LifeMap EXCEPT ![o] = "placing"]
  <2>1. ASSUME NEW n \in Orders, n # o
        PROVE  Stage(n)' = Stage(n)
    <3>1. (n > o <=> n > sent) /\ (n \in pending' <=> n \in pending)
      BY <1>1, <1>3, <2>1 DEF Orders
    <3>2. QED BY <1>3, <3>1 DEF Stage
  <2>2. Stage(o)' = "placing"
    <3>1. ~(o > sent') /\ o \in pending' /\ orderID'[o] = Nil
      BY <1>1, <1>2, <1>3
    <3>2. QED BY <3>1 DEF Stage
  <2>3. QED BY <1>1, <2>1, <2>2 DEF LifeMap
<1>6. Life!Cardinality(Life!Active) < MaxPending
  BY ActiveIsPending DEF SendOrder, Cardinality, Life!Cardinality
<1>7. QED BY <1>1, <1>4, <1>5, <1>6 DEF Life!Submit, LifeMap

LEMMA LifeCancel ==
  ASSUME IInv, NEW S \in SUBSET Orders, CancelUnfilledOrders(S)
  PROVE  Life!Withdraw(S)
<1>1. \A o \in S : o \in pending /\ ~(o > sent) /\ orderID[o] # Nil /\ o \notin canceling
  BY DEF CancelUnfilledOrders, Cancelable, IInv, StageInv, UnsentInv
<1>2. canceling' = canceling \cup S /\ S # {} /\ UNCHANGED <<sent, pending, orderID>>
  BY DEF CancelUnfilledOrders, idVars, pendingVars
<1>3. \A o \in S : LifeMap[o] = "live"
  BY <1>1 DEF LifeMap, Stage
<1>4. LifeMap' = [o \in Orders |-> IF o \in S THEN "canceling" ELSE LifeMap[o]]
  BY <1>1, <1>2 DEF LifeMap, Stage
<1>5. QED BY <1>2, <1>3, <1>4 DEF Life!Withdraw, LifeMap

LEMMA LifeOrderID ==
  ASSUME IInv, OnOrderOrderID
  PROVE  \E o \in Orders : Life!Acknowledge(o) \/ Life!Finish(o)
<1> DEFINE u == Head(updates)
           o == u.order
<1>1. u = updates[1] /\ u \in Updates /\ 1 \in 1..Len(updates)
  BY Receive DEF OnOrderOrderID, IInv, TypeOK
<1>2. o \in pending /\ o \in Orders /\ orderID[o] = Nil /\ ~(o > sent) /\ o \notin canceling
  BY <1>1 DEF IInv, StageInv, UpdateInv, UnsentInv, CancelInv, Updates
<1>3. CASE u.id # Nil
  <2>1. orderID' = [orderID EXCEPT ![o] = u.id] /\ UNCHANGED <<sent, canceling, pending>>
    BY <1>3 DEF OnOrderOrderID, pendingVars
  <2>2. orderID'[o] # Nil /\ \A n \in Orders : n # o => orderID'[n] = orderID[n]
    BY <1>2, <1>3, <2>1 DEF IInv, TypeOK
  <2>3. LifeMap[o] = "placing" /\ LifeMap' = [LifeMap EXCEPT ![o] = "live"]
    BY <1>2, <2>1, <2>2 DEF LifeMap, Stage
  <2>4. QED BY <1>2, <2>3 DEF Life!Acknowledge, LifeMap
<1>4. CASE u.id = Nil
  BY <1>2, <1>4, LifeFinish DEF OnOrderOrderID
<1>5. QED BY <1>3, <1>4

LEMMA LifeEvent ==
  ASSUME IInv, OnOrderEvent
  PROVE  LifeMap' = LifeMap \/ \E o \in Orders : Life!Finish(o)
<1> DEFINE e == Head(events)
<1>1. e \in Events /\ UNCHANGED <<sent, canceling>>
  BY Receive DEF OnOrderEvent, IInv, TypeOK
<1>2. e.id \in IDs
  BY <1>1 DEF Events, FillEvents, CancelEvents, OutEvents, ChangeEvents
<1>3. CASE UNCHANGED <<idVars, pendingVars>>
  BY <1>1, <1>3, LifeSame DEF idVars, pendingVars
<1>4. CASE bySchwab[e.id] # Nil /\ DeleteSchwabOrder(bySchwab[e.id])
  BY <1>1, <1>2, <1>4, Registered, LifeFinish
<1>5. CASE OnChangeEvent(e)
  <2>1. e.parent \in IDs /\ e.kind = "change"
    BY <1>1, <1>5 DEF OnChangeEvent, Events, FillEvents, CancelEvents, OutEvents, ChangeEvents
  <2>2. \A n \in Orders : orderID'[n] = Nil <=> orderID[n] = Nil
    <3> DEFINE o == bySchwab[e.parent]
    <3>1. orderID' = orderID \/ (o # Nil /\ orderID' = [orderID EXCEPT ![o] = e.id])
      BY <1>5 DEF OnChangeEvent, idVars
    <3>2. o # Nil => o \in Orders /\ orderID[o] # Nil
      BY <2>1, Registered
    <3>3. e.id # Nil
      BY <1>2, OrdersAssumption DEF IDs, Nil
    <3>4. orderID \in [Orders -> IDs \cup {Nil}]
      BY DEF IInv, TypeOK
    <3>5. QED BY <3>1, <3>2, <3>3, <3>4
  <2>3. QED BY <1>1, <1>5, <2>2, LifeSame DEF OnChangeEvent, pendingVars
<1>6. QED
  BY <1>3, <1>4, <1>5 DEF OnOrderEvent, OnFillEvent, OnOrderOver, OnCancelAccepted

LEMMA LifeRestart ==
  ASSUME IInv, Restart
  PROVE  Life!Abandon
<1>1. pending' = {} /\ UNCHANGED <<sent, canceling, orderID>>
  BY DEF Restart
<1>2. \A o \in Orders : o \in pending => ~(o > sent)
  BY DEF IInv, StageInv, UnsentInv
<1>3. LifeMap' = [o \in Orders |-> IF o \in pending THEN "done" ELSE LifeMap[o]]
  BY <1>1, <1>2 DEF LifeMap, Stage
<1>4. QED BY <1>3, ActiveIsPending DEF Life!Abandon, LifeMap

LEMMA LifeNext == IInv /\ [Next]_vars => [Life!Next]_LifeMap
<1> SUFFICES ASSUME IInv, [Next]_vars PROVE Life!Next \/ LifeMap' = LifeMap
  OBVIOUS
<1>1. CASE UNCHANGED <<sent, canceling, orderID, pending>>
  BY <1>1, LifeSame
<1>2. CASE \E ls \in Shapes : SendOrder(ls)
  BY <1>2, LifeSend DEF Life!Next
<1>3. CASE \E S \in SUBSET Orders : CancelUnfilledOrders(S)
  BY <1>3, LifeCancel DEF Life!Next
<1>4. CASE OnOrderOrderID
  BY <1>4, LifeOrderID DEF Life!Next
<1>5. CASE OnOrderEvent
  BY <1>5, LifeEvent DEF Life!Next
<1>6. CASE Restart
  BY <1>6, LifeRestart DEF Life!Next
<1>7. CASE LoadDefinitions \/ RestorePortfolio \/ Calls
  <2>1. UNCHANGED <<sent, canceling, orderID, pending>>
    BY <1>7 DEF LoadDefinitions, RestorePortfolio, Calls, PlaceOrder, CreateOrderReturns,
                RetryPost, BeginCancelCall, idVars, pendingVars
  <2>2. QED BY <1>1, <2>1
<1>8. CASE Schwab
  <2>1. UNCHANGED <<sent, canceling, orderID, pending>>
    BY <1>8 DEF Schwab, SchwabWorks, Execute, ReceiveCancel, LeaveMarket, ChangeOrder,
                idVars, pendingVars
  <2>2. QED BY <1>1, <2>1
<1>9. CASE UNCHANGED vars
  <2>1. UNCHANGED <<sent, canceling, orderID, pending>>
    BY <1>9 DEF vars, idVars, pendingVars
  <2>2. QED BY <1>1, <2>1
<1>10. QED
  BY <1>2, <1>3, <1>4, <1>5, <1>6, <1>7, <1>8, <1>9 DEF Next, Trader

(* The main loop, whatever the goroutines, Schwab and the operator do       *)
(* around it, takes every order through the life of OrderLife: the slot     *)
(* count, the single cancel per order and the removal of ended orders are   *)
(* those of the abstract specification.                                     *)
THEOREM OrdersImplementLife == Spec => ImplementsOrderLife
<1>1. IInv /\ [Next]_vars => [Life!Next]_[o \in Orders |-> Stage(o)]
  BY LifeNext DEF LifeMap
<1>2. QED
  BY <1>1, LifeInit, InvCorrect, PTL DEF Spec, Life!Spec, ImplementsOrderLife

-----------------------------------------------------------------------------
(* Slots await news (VaruOrdersNews).  While none of an order's news was    *)
(* missed, what Schwab did to it is either in the trader's books or in the  *)
(* queue: an execution as a mark or as an event, its end as an event.  The  *)
(* end is owed only for the id the order has and for later ones: an edit    *)
(* that was heard leaves the ids before it behind, and ids only grow.       *)

IdleInv == phase # "ready" => pending = {}

GrowInv ==
  \A i \in 1..Len(events) : events[i].kind = "change" => events[i].parent < events[i].id

UnfilledInv == \A o \in pending : ~Filled(o, filled[o])

Awaited(b) == owner[b] \in pending /\ b \notin missed

FillNews ==
  \A b \in IDs, x \in Options :
    Awaited(b) /\ left[b][x] < legs[owner[b]][x] => x \in filled[owner[b]] \/ FillQueued(b, x)

EndNews ==
  \A b \in IDs :
    Awaited(b) /\ orderID[owner[b]] <= b /\ status[b] = "closed" =>
      EndQueued(b) \/ ChangeQueued(b) \/ left[b] = NoLegs

NewsInv == IdleInv /\ GrowInv /\ UnfilledInv /\ FillNews /\ EndNews

LEMMA NewsInitial == NewsInit => NewsInv
<1> SUFFICES ASSUME NewsInit PROVE NewsInv
  OBVIOUS
<1>1. pending = {} /\ events = <<>>
  BY DEF NewsInit, Init
<1> QED
  BY <1>1 DEF NewsInv, IdleInv, GrowInv, UnfilledInv, FillNews, EndNews, Awaited

(* What is queued stays queued when an event joins, *)
LEMMA QueueKept ==
  ASSUME TypeOK, NEW e \in Events, events' = events \/ events' = Append(events, e)
  PROVE  \A b \in IDs :
           /\ \A x \in Options : FillQueued(b, x) => FillQueued(b, x)'
           /\ EndQueued(b) => EndQueued(b)'
           /\ ChangeQueued(b) => ChangeQueued(b)'
<1>0. events \in Seq(Events)
  BY DEF TypeOK
<1>1. \A i \in 1..Len(events) : i \in 1..Len(events') /\ events'[i] = events[i]
  BY <1>0
<1> QED
  BY <1>1 DEF FillQueued, EndQueued, ChangeQueued, Ends

(* the event that joins is queued itself, *)
LEMMA QueueJoined ==
  ASSUME TypeOK, NEW e \in Events, events' = Append(events, e)
  PROVE  /\ e.kind = "fill" => FillQueued(e.id, e.option)'
         /\ Ends(e) => EndQueued(e.id)'
         /\ e.kind = "change" => ChangeQueued(e.parent)'
<1>0. events \in Seq(Events)
  BY DEF TypeOK
<1>1. Len(events') \in 1..Len(events') /\ events'[Len(events')] = e
  BY <1>0
<1> QED
  BY <1>1 DEF FillQueued, EndQueued, ChangeQueued, Ends

(* and only the event that is heard leaves. *)
LEMMA QueueHeard ==
  ASSUME TypeOK, NEW e, events # <<>>, e = Head(events), events' = Tail(events)
  PROVE  \A b \in IDs :
           /\ \A x \in Options :
                FillQueued(b, x) /\ ~(e.kind = "fill" /\ e.id = b /\ e.option = x)
                  => FillQueued(b, x)'
           /\ EndQueued(b) /\ ~(Ends(e) /\ e.id = b) => EndQueued(b)'
           /\ ChangeQueued(b) /\ ~(e.kind = "change" /\ e.parent = b) => ChangeQueued(b)'
<1>1. \A i \in 1..Len(events) :
        events[i] = e \/ \E j \in 1..Len(events') : events'[j] = events[i]
  <2> SUFFICES ASSUME NEW i \in 1..Len(events), i # 1
               PROVE  \E j \in 1..Len(events') : events'[j] = events[i]
    BY Receive DEF TypeOK
  <2>0. events \in Seq(Events)
    BY DEF TypeOK
  <2>1. i - 1 \in 1..Len(events') /\ (i - 1) + 1 = i
    BY <2>0, Receive
  <2>2. events'[i - 1] = events[(i - 1) + 1]
    BY <2>0, <2>1, Receive
  <2> QED
    BY <2>1, <2>2
<1>2. ASSUME NEW b \in IDs, NEW x \in Options,
             FillQueued(b, x), ~(e.kind = "fill" /\ e.id = b /\ e.option = x)
      PROVE  FillQueued(b, x)'
  BY <1>1, <1>2 DEF FillQueued
<1>3. ASSUME NEW b \in IDs, EndQueued(b), ~(Ends(e) /\ e.id = b)
      PROVE  EndQueued(b)'
  BY <1>1, <1>3 DEF EndQueued, Ends
<1>4. ASSUME NEW b \in IDs, ChangeQueued(b), ~(e.kind = "change" /\ e.parent = b)
      PROVE  ChangeQueued(b)'
  BY <1>1, <1>4 DEF ChangeQueued
<1> QED
  BY <1>2, <1>3, <1>4

(* Steps that touch nothing of all this. *)
LEMMA NewsSame ==
  ASSUME TypeOK, NewsInv,
         UNCHANGED <<legs, filled, orderID, pending, events, owner, left, status, missed>>,
         phase' = phase \/ pending = {}
  PROVE  NewsInv'
<1>1. IdleInv' /\ UnfilledInv' /\ GrowInv'
  BY DEF NewsInv, IdleInv, UnfilledInv, GrowInv, Filled, LegSet
<1>2. FillNews' /\ EndNews'
  BY DEF NewsInv, FillNews, EndNews, Awaited, FillQueued, EndQueued, ChangeQueued, Ends
<1> QED
  BY <1>1, <1>2 DEF NewsInv

(* A new order has no ids, and a leg to fill. *)
LEMMA NewsSend ==
  ASSUME IInv, WorkInv, NewsInv, NEW ls \in Shapes, SendOrder(ls), UNCHANGED missed
  PROVE  NewsInv'
<1> DEFINE o == sent + 1
<1>1. /\ phase = "ready" /\ o \in Orders /\ ls # NoLegs /\ ls \in Legs
      /\ legs' = [legs EXCEPT ![o] = ls] /\ pending' = pending \cup {o}
      /\ UNCHANGED <<phase, filled, orderID, events, owner, left, status>>
  BY OrdersAssumption
     DEF SendOrder, AddPendingOrder, IInv, TypeOK, Orders, Legs, idVars, brokerVars, newsVars
<1>2. legs'[o] = ls /\ \A n \in Orders : n # o => legs'[n] = legs[n]
  BY <1>1 DEF IInv, TypeOK
<1>3. \A b \in IDs : owner[b] # o
  <2>1. \A b \in IDs : owner[b] # Nil => owner[b] <= sent
    BY DEF WorkInv, SentInv
  <2>2. \A b \in IDs : owner[b] \in Orders \cup {Nil}
    BY WorkTypes DEF IInv
  <2>3. sent \in Nat /\ o # Nil
    BY <1>1, WorkTypes DEF IInv
  <2> QED
    BY <2>1, <2>2, <2>3
<1>4. filled[o] = {} /\ o \notin pending
  <2>1. orderID[o] = Nil /\ o \notin pending
    BY <1>1, WorkTypes DEF IInv, StageInv, UnsentInv
  <2> QED
    BY <1>1, <2>1 DEF WorkInv, FilledInv
<1> HIDE DEF o
<1>5. \E x \in Options : ls[x] > 0
  <2>1. ~ \A x \in Options : ls[x] = 0
    BY <1>1 DEF Legs, NoLegs
  <2> QED
    BY <1>1, <2>1, OrdersAssumption DEF Legs
<1>6. UnfilledInv'
  BY <1>1, <1>2, <1>4, <1>5 DEF NewsInv, UnfilledInv, Filled, LegSet, IInv, TypeOK
<1>7. IdleInv' /\ GrowInv'
  BY <1>1 DEF NewsInv, IdleInv, GrowInv
<1>8. \A b \in IDs : Awaited(b)' => /\ Awaited(b) /\ owner[b] \in Orders
                                    /\ legs'[owner[b]] = legs[owner[b]]
  BY <1>1, <1>2, <1>3 DEF Awaited, IInv, TypeOK
<1>9. FillNews' /\ EndNews'
  BY <1>1, <1>8 DEF NewsInv, FillNews, EndNews, FillQueued, EndQueued, ChangeQueued, Ends
<1> QED
  BY <1>6, <1>7, <1>9 DEF NewsInv

(* Nothing has happened to a new id. *)
LEMMA NewsPlace ==
  ASSUME IInv, TypeOK', NewsInv, NEW o \in Orders, PlaceOrder(o), UNCHANGED missed
  PROVE  NewsInv'
<1> DEFINE b == issued + 1
<1>1. /\ b \in IDs /\ owner' = [owner EXCEPT ![b] = o] /\ left' = [left EXCEPT ![b] = legs[o]]
      /\ status' = [status EXCEPT ![b] = "open"]
      /\ UNCHANGED <<phase, legs, filled, orderID, pending, events>>
  BY OrdersAssumption DEF PlaceOrder, IInv, TypeOK, IDs, idVars, pendingVars, newsVars
<1>2. /\ owner'[b] = o /\ left'[b] = legs[o] /\ status'[b] = "open"
      /\ \A c \in IDs : c # b => owner'[c] = owner[c] /\ left'[c] = left[c] /\ status'[c] = status[c]
  BY <1>1 DEF IInv, TypeOK
<1> HIDE DEF b
<1>3. IdleInv' /\ GrowInv' /\ UnfilledInv'
  BY <1>1 DEF NewsInv, IdleInv, GrowInv, UnfilledInv, Filled, LegSet
<1>4. \A x \in Options : ~(legs[o][x] < legs[o][x])
  BY WorkTypes DEF IInv
<1>5. FillNews'
  BY <1>1, <1>2, <1>4 DEF NewsInv, FillNews, Awaited, FillQueued
<1>6. EndNews'
  BY <1>1, <1>2 DEF NewsInv, EndNews, Awaited, EndQueued, ChangeQueued, Ends
<1> QED
  BY <1>3, <1>5, <1>6 DEF NewsInv

(* The trader frees a slot, or learns of a later id. *)
LEMMA NewsBooks ==
  ASSUME TypeOK, TypeOK', NewsInv,
         UNCHANGED <<phase, legs, filled, events, owner, left, status, missed>>,
         \A n \in pending' : n \in pending /\ orderID[n] <= orderID'[n]
  PROVE  NewsInv'
<1>1. IdleInv' /\ GrowInv' /\ UnfilledInv'
  BY DEF NewsInv, IdleInv, GrowInv, UnfilledInv, Filled, LegSet
<1>2. FillNews'
  BY DEF NewsInv, FillNews, Awaited, FillQueued
<1>3. EndNews'
  <2> SUFFICES ASSUME NEW b \in IDs, Awaited(b)', orderID'[owner[b]] <= b, status[b] = "closed"
               PROVE  EndQueued(b)' \/ ChangeQueued(b)' \/ left[b] = NoLegs
    BY DEF EndNews
  <2>1. Awaited(b) /\ orderID[owner[b]] <= orderID'[owner[b]]
    BY DEF Awaited
  <2>2. orderID[owner[b]] \in Int /\ orderID'[owner[b]] \in Int /\ b \in Int
    BY <2>1, OrdersAssumption DEF Awaited, TypeOK, IDs, Nil
  <2> QED
    BY <2>1, <2>2 DEF NewsInv, EndNews, EndQueued, ChangeQueued, Ends
<1> QED
  BY <1>1, <1>2, <1>3 DEF NewsInv

(* An event the trader ignores is missed, and changes nothing else. *)
LEMMA NewsIgnored ==
  ASSUME IInv, NewsInv, NEW e \in Events, events # <<>>, e = Head(events),
         events' = Tail(events), GrowInv',
         UNCHANGED <<phase, legs, filled, orderID, pending, owner, left, status>>,
         missed' = missed \cup {Subject(e)} \/ (missed' = missed /\ ~Matters(e))
  PROVE  NewsInv'
<1>1. IdleInv' /\ UnfilledInv'
  BY DEF NewsInv, IdleInv, UnfilledInv, Filled, LegSet
<1>2. \A b \in IDs : Awaited(b)' =>
        Awaited(b) /\ (Subject(e) # b \/ ~Matters(e))
  BY DEF Awaited
<1>3. \A b \in IDs : Awaited(b)' =>
        /\ \A x \in Options : FillQueued(b, x) => FillQueued(b, x)'
        /\ EndQueued(b) => EndQueued(b)'
        /\ ChangeQueued(b) => ChangeQueued(b)'
  <2>1. \A b \in IDs : Subject(e) # b \/ ~Matters(e) =>
          /\ ~(e.kind = "fill" /\ e.id = b)
          /\ ~(Ends(e) /\ e.id = b)
          /\ ~(e.kind = "change" /\ e.parent = b)
    BY DEF Subject, Matters, Ends
  <2> QED
    BY <1>2, <2>1, QueueHeard DEF IInv
<1>4. FillNews'
  BY <1>2, <1>3 DEF NewsInv, FillNews
<1>5. EndNews'
  BY <1>2, <1>3 DEF NewsInv, EndNews
<1> QED
  BY <1>1, <1>4, <1>5 DEF NewsInv

(* A heard execution becomes a mark, and the last mark frees the slot. *)
LEMMA NewsFill ==
  ASSUME IInv, NewsInv, NEW e \in Events, events # <<>>, e = Head(events),
         events' = Tail(events), GrowInv', OnFillEvent(e), bySchwab[e.id] # Nil,
         UNCHANGED <<phase, legs, owner, left, status, missed>>
  PROVE  NewsInv'
<1> DEFINE o == bySchwab[e.id]
           marks == filled[o] \cup ({e.option} \cap LegSet(legs[o]))
<1>1. /\ e.id \in IDs /\ e.kind = "fill" /\ e.option \in Options
  BY EventParts DEF OnFillEvent
<1>2. o \in pending /\ o \in Orders /\ owner[e.id] = o
  BY <1>1, Registered
<1>3. phase # "loading"
  BY <1>2 DEF NewsInv, IdleInv
<1>4. /\ filled' = [filled EXCEPT ![o] = marks]
      /\ IF Filled(o, marks) THEN DeleteSchwabOrder(o) ELSE UNCHANGED <<idVars, pendingVars>>
  BY <1>3 DEF OnFillEvent
<1>5. filled'[o] = marks /\ \A n \in Orders : n # o => filled'[n] = filled[n]
  BY <1>2, <1>4 DEF IInv, TypeOK
<1>6. \A x \in Options : left[e.id][x] < legs[o][x] /\ x = e.option => x \in marks
  BY <1>1, <1>2, WorkTypes DEF LegSet, IInv
<1>7. filled[o] \subseteq marks
  OBVIOUS
<1> HIDE DEF marks, o
<1>8. /\ orderID' = orderID
      /\ (pending' = pending /\ ~Filled(o, marks)) \/ pending' = pending \ {o}
  BY <1>4 DEF DeleteSchwabOrder, RemovePendingOrder, idVars, pendingVars
<1>9. IdleInv' /\ UnfilledInv'
  BY <1>2, <1>5, <1>8 DEF NewsInv, IdleInv, UnfilledInv, Filled, LegSet, IInv, TypeOK
<1>10. \A b \in IDs : Awaited(b)' => Awaited(b)
  BY <1>8 DEF Awaited
<1>11. FillNews'
  <2> SUFFICES ASSUME NEW b \in IDs, NEW x \in Options, Awaited(b)',
                      left[b][x] < legs[owner[b]][x]
               PROVE  x \in filled'[owner[b]] \/ FillQueued(b, x)'
    BY DEF FillNews
  <2>1. owner[b] \in Orders /\ (x \in filled[owner[b]] \/ FillQueued(b, x))
    BY <1>10 DEF NewsInv, FillNews, Awaited, IInv, TypeOK
  <2>2. CASE x \in filled[owner[b]]
    BY <1>5, <1>7, <2>1, <2>2
  <2>3. CASE FillQueued(b, x) /\ ~(e.id = b /\ e.option = x)
    BY <2>3, QueueHeard DEF IInv
  <2>4. CASE e.id = b /\ e.option = x
    BY <1>2, <1>5, <1>6, <2>4
  <2> QED
    BY <2>1, <2>2, <2>3, <2>4
<1>12. EndNews'
  <2>1. ~Ends(e) /\ e.kind # "change"
    BY <1>1 DEF Ends
  <2> QED
    BY <1>8, <1>10, <2>1, QueueHeard DEF NewsInv, EndNews, IInv
<1> QED
  BY <1>9, <1>11, <1>12 DEF NewsInv

(* A heard end frees the slot. *)
LEMMA NewsOver ==
  ASSUME IInv, NewsInv, NEW e \in Events, events # <<>>, e = Head(events),
         events' = Tail(events), GrowInv', OnOrderOver(e), bySchwab[e.id] # Nil,
         UNCHANGED <<phase, legs, owner, left, status, missed>>
  PROVE  NewsInv'
<1> DEFINE o == bySchwab[e.id]
<1>1. e.id \in IDs /\ e.kind \notin {"fill", "change"}
  BY EventParts DEF OnOrderOver
<1>2. o \in pending /\ orderID[o] = e.id /\ owner[e.id] = o
  BY <1>1, Registered
<1>3. pending' = pending \ {o} /\ UNCHANGED <<filled, orderID>>
  BY <1>2 DEF OnOrderOver, DeleteSchwabOrder, RemovePendingOrder
<1> HIDE DEF o
<1>4. IdleInv' /\ UnfilledInv'
  BY <1>3 DEF NewsInv, IdleInv, UnfilledInv, Filled, LegSet
<1>5. \A b \in IDs : Awaited(b)' => Awaited(b) /\ b # e.id
  BY <1>2, <1>3 DEF Awaited
<1>6. FillNews'
  BY <1>1, <1>3, <1>5, QueueHeard DEF NewsInv, FillNews, IInv
<1>7. EndNews'
  BY <1>1, <1>3, <1>5, QueueHeard DEF NewsInv, EndNews, IInv
<1> QED
  BY <1>4, <1>6, <1>7 DEF NewsInv

(* A heard edit moves the order on to a later id. *)
LEMMA NewsChange ==
  ASSUME IInv, TypeOK', NewsInv, NEW e \in Events, events # <<>>, e = Head(events),
         events' = Tail(events), GrowInv', OnChangeEvent(e), ~Ignores(e),
         UNCHANGED <<phase, legs, filled, owner, left, status, missed>>
  PROVE  NewsInv'
<1> DEFINE o == bySchwab[e.parent]
<1>1. e.id \in IDs /\ e.parent \in IDs /\ e.kind = "change" /\ pending' = pending
  BY EventParts DEF OnChangeEvent, pendingVars
<1>2. o # Nil /\ orderID' = [orderID EXCEPT ![o] = e.id]
  BY <1>1 DEF Ignores, Subject, OnChangeEvent
<1>3. o \in Orders /\ orderID[o] = e.parent
  BY <1>1, <1>2, Registered
<1>4. orderID'[o] = e.id /\ \A n \in Orders : n # o => orderID'[n] = orderID[n]
  BY <1>2, <1>3 DEF IInv, TypeOK
<1> HIDE DEF o
<1>5. e.parent < e.id
  <2>1. 1 \in 1..Len(events) /\ e = events[1]
    BY Receive DEF IInv, TypeOK
  <2> QED
    BY <1>1, <2>1 DEF NewsInv, GrowInv
<1>6. \A b \in IDs : Awaited(b)' => Awaited(b) /\ owner[b] \in Orders
  BY <1>1 DEF Awaited, IInv, TypeOK
<1>7. \A b \in IDs : Awaited(b)' /\ orderID'[owner[b]] <= b =>
        orderID[owner[b]] <= b /\ (b = e.parent => owner[b] # o)
  <2> SUFFICES ASSUME NEW b \in IDs, Awaited(b)', orderID'[owner[b]] <= b
               PROVE  orderID[owner[b]] <= b /\ (b = e.parent => owner[b] # o)
    OBVIOUS
  <2>1. CASE owner[b] = o
    BY <1>1, <1>3, <1>4, <1>5, <2>1, OrdersAssumption DEF IDs
  <2>2. CASE owner[b] # o
    BY <1>4, <1>6, <2>2
  <2> QED
    BY <2>1, <2>2
<1>8. owner[e.parent] = o
  BY <1>1, <1>2, Registered DEF o
<1>9. IdleInv' /\ UnfilledInv'
  BY <1>1 DEF NewsInv, IdleInv, UnfilledInv, Filled, LegSet
<1>10. ~Ends(e) /\ e.kind # "fill"
  BY <1>1 DEF Ends
<1>11. FillNews'
  BY <1>6, <1>10, QueueHeard DEF NewsInv, FillNews, IInv
<1>12. EndNews'
  BY <1>6, <1>7, <1>8, <1>10, QueueHeard DEF NewsInv, EndNews, IInv
<1> QED
  BY <1>9, <1>11, <1>12 DEF NewsInv

LEMMA NewsHear ==
  ASSUME IInv, TypeOK', NewsInv, Hear
  PROVE  NewsInv'
<1>1. /\ events # <<>> /\ events' = Tail(events)
      /\ UNCHANGED <<phase, legs, owner, left, status>>
  BY DEF Hear, OnOrderEvent, brokerVars
<1>2. PICK e \in Events : e = Head(events)
  BY <1>1, Receive DEF IInv, TypeOK
<1>3. /\ OnFillEvent(e) \/ OnOrderOver(e) \/ OnCancelAccepted(e) \/ OnChangeEvent(e)
      /\ missed' = IF Matters(e) /\ Ignores(e) THEN missed \cup {Subject(e)} ELSE missed
  BY <1>2 DEF Hear, OnOrderEvent
<1>4. GrowInv'
  BY <1>1, Receive DEF NewsInv, GrowInv, IInv, TypeOK
<1>5. CASE Matters(e) /\ Ignores(e)
  <2>1. e.kind # "change" => bySchwab[e.id] = Nil
    BY <1>5 DEF Ignores, Subject
  <2>2. UNCHANGED <<filled, orderID, pending>>
    BY <1>3, <1>5, <2>1
       DEF OnFillEvent, OnOrderOver, OnCancelAccepted, OnChangeEvent, Ignores, Subject,
           idVars, pendingVars
  <2> QED
    BY <1>1, <1>2, <1>3, <1>4, <1>5, <2>2, NewsIgnored
<1>6. CASE ~Matters(e)
  <2>1. OnCancelAccepted(e)
    BY <1>3, <1>6 DEF Matters, Ends, OnFillEvent, OnOrderOver, OnChangeEvent
  <2> QED
    BY <1>1, <1>2, <1>3, <1>4, <1>6, <2>1, NewsIgnored DEF OnCancelAccepted, idVars, pendingVars
<1>7. CASE Matters(e) /\ ~Ignores(e)
  <2>1. missed' = missed /\ (e.kind # "change" => bySchwab[e.id] # Nil)
    BY <1>3, <1>7 DEF Ignores, Subject
  <2>2. CASE OnFillEvent(e)
    BY <1>1, <1>2, <1>4, <2>1, <2>2, NewsFill DEF OnFillEvent
  <2>3. CASE OnOrderOver(e)
    BY <1>1, <1>2, <1>4, <2>1, <2>3, NewsOver DEF OnOrderOver
  <2>4. CASE OnCancelAccepted(e)
    BY <1>7, <2>4 DEF OnCancelAccepted, Matters, Ends
  <2>5. CASE OnChangeEvent(e)
    <3>1. filled' = filled
      BY <2>5 DEF OnChangeEvent
    <3> QED
      BY <1>1, <1>2, <1>4, <1>7, <2>1, <2>5, <3>1, NewsChange
  <2> QED
    BY <1>3, <2>2, <2>3, <2>4, <2>5
<1> QED
  BY <1>5, <1>6, <1>7

(* An execution or an end is told, or missed. *)
LEMMA NewsMarket ==
  ASSUME IInv, NewsInv, NEW b \in IDs, NEW e \in Events, Emit(e), Working(b),
         e.id = b, e.kind # "change",
         missed' = IF IsLost(b) THEN missed \cup {b} ELSE missed,
         UNCHANGED <<phase, legs, filled, orderID, pending, owner>>,
         \A c \in IDs : c # b => left'[c] = left[c] /\ status'[c] = status[c],
         \A x \in Options : left'[b][x] = left[b][x] \/ (e.kind = "fill" /\ e.option = x),
         status'[b] = "closed" => left'[b] = NoLegs \/ Ends(e)
  PROVE  NewsInv'
<1>1. events' = events \/ events' = Append(events, e)
  BY DEF Emit
<1>2. IdleInv' /\ UnfilledInv'
  BY DEF NewsInv, IdleInv, UnfilledInv, Filled, LegSet
<1>3. GrowInv'
  <2>1. events \in Seq(Events)
    BY DEF IInv, TypeOK
  <2>2. \A i \in 1..Len(events') :
          events'[i] = e \/ (i \in 1..Len(events) /\ events'[i] = events[i])
    BY <1>1, <2>1
  <2> QED
    BY <2>2 DEF NewsInv, GrowInv
<1>4. status[b] # "closed"
  BY DEF Working
<1>5. \A c \in IDs : Awaited(c)' => Awaited(c) /\ (c = b => ~IsLost(b))
  BY DEF Awaited
<1>6. FillNews'
  <2> SUFFICES ASSUME NEW c \in IDs, NEW x \in Options, Awaited(c)',
                      left'[c][x] < legs[owner[c]][x]
               PROVE  x \in filled[owner[c]] \/ FillQueued(c, x)'
    BY DEF FillNews
  <2>1. CASE left'[c][x] = left[c][x]
    BY <1>1, <1>5, <2>1, QueueKept DEF NewsInv, FillNews, IInv
  <2>2. CASE left'[c][x] # left[c][x]
    <3>1. c = b /\ e.kind = "fill" /\ e.option = x
      BY <2>2
    <3>2. left'[b] # left[b]
      BY <2>2, <3>1
    <3>3. events' = Append(events, e)
      BY <1>1, <1>5, <3>1, <3>2 DEF IsLost
    <3> QED
      BY <3>1, <3>3, QueueJoined DEF IInv
  <2> QED
    BY <2>1, <2>2
<1>7. EndNews'
  <2> SUFFICES ASSUME NEW c \in IDs, Awaited(c)', orderID[owner[c]] <= c, status'[c] = "closed"
               PROVE  EndQueued(c)' \/ ChangeQueued(c)' \/ left'[c] = NoLegs
    BY DEF EndNews
  <2>1. CASE c # b
    BY <1>1, <1>5, <2>1, QueueKept DEF NewsInv, EndNews, IInv
  <2>2. CASE c = b /\ Ends(e)
    <3>1. events' = Append(events, e)
      BY <1>1, <1>4, <1>5, <2>2 DEF IsLost
    <3> QED
      BY <2>2, <3>1, QueueJoined DEF IInv
  <2>3. CASE c = b /\ left'[b] = NoLegs
    BY <2>3
  <2> QED
    BY <2>1, <2>2, <2>3
<1> QED
  BY <1>2, <1>3, <1>6, <1>7 DEF NewsInv

LEMMA NewsExecute ==
  ASSUME IInv, NewsInv, NEW b \in IDs, NEW x \in Options, NEW n \in 1..MaxQty,
         Execute(b, x, n), missed' = IF IsLost(b) THEN missed \cup {b} ELSE missed
  PROVE  NewsInv'
<1> DEFINE r == [kind |-> "fill", id |-> b, option |-> x, qty |-> n]
<1>1. r \in Events /\ r.kind = "fill" /\ r.id = b /\ r.option = x
  BY DEF Events, FillEvents
<1>2. PICK e \in Events : e = r /\ e.kind = "fill" /\ e.id = b /\ e.option = x
  BY <1>1
<1>3. Working(b) /\ Emit(e) /\ UNCHANGED <<phase, legs, filled, orderID, pending, owner>>
  BY <1>2 DEF Execute, idVars, pendingVars
<1>4. /\ \A c \in IDs : c # b => left'[c] = left[c] /\ status'[c] = status[c]
      /\ left'[b] = [left[b] EXCEPT ![x] = @ - n]
      /\ status'[b] = IF [left[b] EXCEPT ![x] = @ - n] = NoLegs THEN "closed" ELSE status[b]
  BY DEF Execute, IInv, TypeOK
<1>5. \A y \in Options : left'[b][y] = left[b][y] \/ y = x
  BY <1>4 DEF IInv, TypeOK, Legs
<1>6. status'[b] = "closed" => left'[b] = NoLegs
  BY <1>3, <1>4 DEF Working
<1> QED
  BY <1>2, <1>3, <1>4, <1>5, <1>6, NewsMarket

(* A cancel is acknowledged with the legs still open, or the order is over. *)
LEMMA NewsStatus ==
  ASSUME IInv, NewsInv, NEW b \in IDs, NEW e \in Events, e.id = b, e.kind # "change",
         Emit(e), Working(b), NEW s, status' = [status EXCEPT ![b] = s],
         s = "closed" => Ends(e),
         missed' = IF IsLost(b) THEN missed \cup {b} ELSE missed,
         UNCHANGED <<phase, legs, filled, orderID, pending, owner, left>>
  PROVE  NewsInv'
<1>1. \A c \in IDs : c # b => left'[c] = left[c] /\ status'[c] = status[c]
  BY DEF IInv, TypeOK
<1>2. status'[b] = s
  BY DEF IInv, TypeOK
<1> QED
  BY <1>1, <1>2, NewsMarket

LEMMA NewsReceiveCancel ==
  ASSUME IInv, NewsInv, NEW b \in IDs, ReceiveCancel(b),
         missed' = IF IsLost(b) THEN missed \cup {b} ELSE missed
  PROVE  NewsInv'
<1>1. UNCHANGED <<phase, legs, filled, orderID, pending>>
  BY DEF ReceiveCancel, idVars, pendingVars
<1>2. CASE UNCHANGED <<brokerVars, events>>
  <2>1. UNCHANGED <<owner, left, status, events>>
    BY <1>2 DEF brokerVars
  <2>2. missed' = missed
    BY <2>1 DEF IsLost
  <2> QED
    BY <1>1, <2>1, <2>2, NewsSame DEF IInv
<1>3. CASE \E f \in BOOLEAN, s \in {"pulling", "closed"} :
             /\ status[b] = "open" /\ (s = "closed" => f)
             /\ Emit([kind |-> "cancel", id |-> b, closed |-> f])
             /\ status' = [status EXCEPT ![b] = s] /\ UNCHANGED <<owner, left>>
  <2>1. PICK f \in BOOLEAN, s \in {"pulling", "closed"} :
             /\ status[b] = "open" /\ (s = "closed" => f)
             /\ Emit([kind |-> "cancel", id |-> b, closed |-> f])
             /\ status' = [status EXCEPT ![b] = s] /\ UNCHANGED <<owner, left>>
    BY <1>3
  <2> DEFINE r == [kind |-> "cancel", id |-> b, closed |-> f]
  <2>2. r \in Events /\ r.kind = "cancel" /\ r.id = b /\ r.closed = f
    BY DEF Events, CancelEvents
  <2>3. PICK e \in Events : e = r /\ e.kind = "cancel" /\ e.id = b /\ e.closed = f
    BY <2>2
  <2> QED
    BY <1>1, <2>1, <2>3, NewsStatus DEF Working, Ends
<1>4. \/ UNCHANGED <<brokerVars, events>>
      \/ /\ status[b] = "open" /\ Emit([kind |-> "cancel", id |-> b, closed |-> FALSE])
         /\ status' = [status EXCEPT ![b] = "pulling"] /\ UNCHANGED <<owner, left>>
      \/ /\ status[b] = "open" /\ Emit([kind |-> "cancel", id |-> b, closed |-> TRUE])
         /\ status' = [status EXCEPT ![b] = "closed"] /\ UNCHANGED <<owner, left>>
  BY DEF ReceiveCancel, Close
<1> QED
  BY <1>2, <1>3, <1>4

LEMMA NewsLeave ==
  ASSUME IInv, NewsInv, NEW b \in IDs, LeaveMarket(b),
         missed' = IF IsLost(b) THEN missed \cup {b} ELSE missed
  PROVE  NewsInv'
<1>1. PICK kind \in {"urout", "expired"} : Close(b, [kind |-> kind, id |-> b])
  BY DEF LeaveMarket
<1> DEFINE r == [kind |-> kind, id |-> b]
<1>2. r \in Events /\ r.kind = kind /\ r.id = b
  BY DEF Events, OutEvents
<1>3. PICK e \in Events : e = r /\ e.kind = kind /\ e.id = b
  BY <1>2
<1>4. /\ Working(b) /\ Emit(e) /\ status' = [status EXCEPT ![b] = "closed"]
      /\ UNCHANGED <<phase, legs, filled, orderID, pending, owner, left>>
  BY <1>1, <1>3 DEF LeaveMarket, Close, idVars, pendingVars
<1>5. e.kind # "change" /\ Ends(e)
  BY <1>3 DEF Ends
<1> QED
  BY <1>3, <1>4, <1>5, NewsStatus

(* An edit ends one id and begins a later one that nothing happened to. *)
LEMMA NewsEdit ==
  ASSUME IInv, NewsInv, NEW b \in IDs, ChangeOrder(b),
         missed' = IF IsLost(b) THEN missed \cup {b} ELSE missed
  PROVE  NewsInv'
<1> DEFINE c == issued + 1
<1>1. /\ c \in IDs /\ status[b] = "open" /\ left[b] = legs[owner[b]] /\ issued \in Nat
      /\ owner' = [owner EXCEPT ![c] = owner[b]] /\ left' = [left EXCEPT ![c] = left[b]]
      /\ status' = [status EXCEPT ![b] = "closed", ![c] = "open"]
      /\ UNCHANGED <<phase, legs, filled, orderID, pending>>
  BY OrdersAssumption DEF ChangeOrder, IInv, TypeOK, IDs, idVars, pendingVars
<1>2. b < c /\ c # b
  <2>1. owner[b] # Nil
    BY <1>1 DEF IInv, OwnerInv
  <2>2. b <= issued
    BY <2>1 DEF IInv, OwnerInv
  <2> QED
    BY <1>1, <2>2, OrdersAssumption DEF IDs
<1>3. PICK e \in Events : e.kind = "change" /\ e.id = c /\ e.parent = b /\ Emit(e)
  BY ChangeTold DEF IInv
<1> HIDE DEF c
<1>4. /\ owner'[c] = owner[b] /\ left'[c] = left[b] /\ status'[b] = "closed"
      /\ status'[c] = "open"
      /\ \A d \in IDs : d # c => owner'[d] = owner[d] /\ left'[d] = left[d]
      /\ \A d \in IDs : d # c /\ d # b => status'[d] = status[d]
  BY <1>1, <1>2 DEF IInv, TypeOK
<1>5. events' = events \/ events' = Append(events, e)
  BY <1>3 DEF Emit
<1>6. IdleInv' /\ UnfilledInv'
  BY <1>1 DEF NewsInv, IdleInv, UnfilledInv, Filled, LegSet
<1>7. GrowInv'
  <2>1. events \in Seq(Events)
    BY DEF IInv, TypeOK
  <2>2. \A i \in 1..Len(events') :
          events'[i] = e \/ (i \in 1..Len(events) /\ events'[i] = events[i])
    BY <1>5, <2>1
  <2> QED
    BY <1>2, <1>3, <2>2 DEF NewsInv, GrowInv
<1>8. \A d \in IDs : Awaited(d)' /\ d # c => Awaited(d) /\ (d = b => ~IsLost(b))
  BY <1>1, <1>4 DEF Awaited
<1>9. FillNews'
  <2> SUFFICES ASSUME NEW d \in IDs, NEW x \in Options, Awaited(d)',
                      left'[d][x] < legs[owner'[d]][x]
               PROVE  x \in filled[owner'[d]] \/ FillQueued(d, x)'
    BY <1>1 DEF FillNews
  <2>1. d # c
    <3> SUFFICES ASSUME d = c PROVE FALSE
      OBVIOUS
    <3>1. owner[b] \in Orders
      BY <1>1, <1>4 DEF Awaited, IInv, TypeOK
    <3>2. legs[owner[b]][x] \in Nat /\ legs[owner[b]][x] < legs[owner[b]][x]
      BY <1>1, <1>4, <3>1, WorkTypes DEF IInv
    <3> QED
      BY <3>2
  <2> QED
    BY <1>4, <1>5, <1>8, <2>1, QueueKept DEF NewsInv, FillNews, IInv
<1>10. EndNews'
  <2> SUFFICES ASSUME NEW d \in IDs, Awaited(d)', orderID[owner'[d]] <= d, status'[d] = "closed"
               PROVE  EndQueued(d)' \/ ChangeQueued(d)' \/ left'[d] = NoLegs
    BY <1>1 DEF EndNews
  <2>1. d # c
    BY <1>4
  <2>2. CASE d = b
    <3>1. events' = Append(events, e)
      BY <1>1, <1>4, <1>5, <1>8, <2>1, <2>2 DEF IsLost
    <3> QED
      BY <1>3, <2>2, <3>1, QueueJoined DEF IInv
  <2>3. CASE d # b
    BY <1>4, <1>5, <1>8, <2>1, <2>3, QueueKept DEF NewsInv, EndNews, IInv
  <2> QED
    BY <2>2, <2>3
<1> QED
  BY <1>6, <1>7, <1>9, <1>10 DEF NewsInv

LEMMA NewsKept == IInv /\ IInv' /\ WorkInv /\ NewsInv /\ [NewsNext]_newsSpecVars => NewsInv'
<1> SUFFICES ASSUME IInv, IInv', WorkInv, NewsInv, [NewsNext]_newsSpecVars
             PROVE  NewsInv'
  OBVIOUS
<1> USE DEF IInv
<1>1. ASSUME LoadDefinitions \/ RestorePortfolio, missed' = missed PROVE NewsInv'
  <2>1. phase # "ready"
    BY <1>1 DEF LoadDefinitions, RestorePortfolio
  <2>2. pending = {}
    BY <2>1 DEF NewsInv, IdleInv
  <2> QED
    BY <1>1, <2>2, NewsSame
       DEF LoadDefinitions, RestorePortfolio, idVars, pendingVars, brokerVars, newsVars
<1>2. ASSUME NEW ls \in Shapes, SendOrder(ls), missed' = missed PROVE NewsInv'
  BY <1>2, NewsSend
<1>3. ASSUME NEW S \in SUBSET Orders, CancelUnfilledOrders(S), missed' = missed PROVE NewsInv'
  BY <1>3, NewsSame DEF CancelUnfilledOrders, idVars, pendingVars, brokerVars, newsVars
<1>4. ASSUME OnOrderOrderID, missed' = missed PROVE NewsInv'
  <2> DEFINE u == Head(updates)
  <2>1. /\ u \in Updates /\ u = updates[1] /\ 1 \in 1..Len(updates)
    BY <1>4, Receive DEF OnOrderOrderID, TypeOK
  <2>2. u.order \in Orders /\ u.id \in IDs \cup {Nil} /\ orderID[u.order] = Nil
    BY <2>1 DEF StageInv, UpdateInv, Updates
  <2>3. /\ UNCHANGED <<phase, legs, filled, events, owner, left, status>>
        /\ IF u.id # Nil
           THEN orderID' = [orderID EXCEPT ![u.order] = u.id] /\ pending' = pending
           ELSE orderID' = orderID /\ pending' = pending \ {u.order}
    BY <1>4 DEF OnOrderOrderID, brokerVars, pendingVars, DeleteSchwabOrder, RemovePendingOrder
  <2> HIDE DEF u
  <2>4. \A n \in Orders : orderID[n] \in Nat
    BY OrdersAssumption DEF TypeOK, IDs, Nil
  <2>5. Nil <= u.id
    BY <2>2, OrdersAssumption DEF IDs, Nil
  <2>6. \A n \in Orders : orderID[n] <= orderID'[n]
    <3>1. CASE u.id = Nil
      BY <2>3, <2>4, <3>1
    <3>2. CASE u.id # Nil
      <4>1. orderID'[u.order] = u.id /\ \A n \in Orders : n # u.order => orderID'[n] = orderID[n]
        BY <2>2, <2>3, <3>2 DEF TypeOK
      <4> QED
        BY <2>2, <2>4, <2>5, <4>1
    <3> QED
      BY <3>1, <3>2
  <2>7. \A n \in pending' : n \in pending /\ n \in Orders
    BY <2>3 DEF TypeOK
  <2> QED
    BY <1>4, <2>3, <2>6, <2>7, NewsBooks
<1>5. ASSUME NEW o \in Orders, missed' = missed,
             PlaceOrder(o) \/ CreateOrderReturns(o) \/ RetryPost(o) \/ BeginCancelCall(o)
      PROVE  NewsInv'
  BY <1>5, NewsPlace, NewsSame
     DEF CreateOrderReturns, RetryPost, BeginCancelCall, idVars, pendingVars, brokerVars, newsVars
<1>6. CASE Hear
  BY <1>6, NewsHear
<1>7. CASE Forget
  <2>1. pending' = {} /\ events' = <<>>
    BY <1>7 DEF Forget, Restart
  <2> QED
    BY <2>1 DEF NewsInv, IdleInv, GrowInv, UnfilledInv, FillNews, EndNews, Awaited
<1>8. ASSUME NEW b \in IDs, Tell(b) PROVE NewsInv'
  BY <1>8, NewsExecute, NewsReceiveCancel, NewsLeave, NewsEdit DEF Tell, SchwabWorks
<1>9. CASE UNCHANGED newsSpecVars
  BY <1>9, NewsSame DEF newsSpecVars, vars, idVars, pendingVars, brokerVars, newsVars
<1> QED
  BY <1>1, <1>2, <1>3, <1>4, <1>5, <1>6, <1>7, <1>8, <1>9 DEF NewsNext, TraderActs, Calls

(* The history takes nothing away and adds nothing to what varu does. *)
LEMMA NewsIsOrders == NewsSpec => Spec
<1>1. NewsInit => Init
  BY DEF NewsInit
<1>2. [NewsNext]_newsSpecVars => [Next]_vars
  BY DEF NewsNext, newsSpecVars, TraderActs, Hear, Forget, Tell, Next, Trader, Schwab
<1> QED
  BY <1>1, <1>2, PTL DEF NewsSpec, Spec

(* A slot is kept by an order that is over only while the news that will    *)
(* free it is queued, or after news of it was lost, came before its id or   *)
(* told of an edit varu does not support: the handlers of live.go drop no   *)
(* other end of an order, in whatever order ends, edits and executions of   *)
(* the legs come.                                                           *)
THEOREM SlotsAreAwaited == NewsSpec => []SlotsAwaitNews
<1>1. IInv /\ WorkInv /\ NewsInv => SlotsAwaitNews
  <2> SUFFICES ASSUME IInv, WorkInv, NewsInv, NEW o \in pending, orderID[o] # Nil,
                      status[orderID[o]] = "closed", orderID[o] \notin missed,
                      ~EndQueued(orderID[o]), ~ChangeQueued(orderID[o])
               PROVE  /\ ~Filled(o, filled[o])
                      /\ \A x \in LegSet(legs[o]) \ filled[o] : FillQueued(orderID[o], x)
    BY DEF SlotsAwaitNews
  <2> DEFINE b == orderID[o]
  <2>1. o \in Orders /\ b \in IDs /\ owner[b] = o
    BY DEF IInv, TypeOK, WorkInv, KnownInv
  <2>2. Awaited(b) /\ b <= b
    BY <2>1, OrdersAssumption DEF Awaited, IDs
  <2>3. left[b] = NoLegs
    BY <2>1, <2>2 DEF NewsInv, EndNews
  <2>4. \A x \in LegSet(legs[o]) : x \in Options /\ left[b][x] < legs[o][x]
    BY <2>3 DEF LegSet, NoLegs
  <2> QED
    BY <2>1, <2>2, <2>4 DEF NewsInv, FillNews, UnfilledInv
<1> QED
  BY <1>1, NewsInitial, NewsKept, NewsIsOrders, InvCorrect, WorkCorrect, PTL DEF NewsSpec
=============================================================================
