----------------------------- MODULE VaruOrders -----------------------------
(***************************************************************************)
(* The life of a live order in src/cmd/varu: the trader's main loop        *)
(* (live.go, order.go, pending.go, trader.go), the goroutines that call    *)
(* Schwab's CreateOrder and CancelOrder, and Schwab itself, which executes *)
(* orders and reports them on an event stream that nothing orders with the *)
(* replies to those calls.                                                 *)
(*                                                                         *)
(* Abstracted away: prices, sides and strategies (a leg is an option and a *)
(* number of contracts), the market data that decides which order is sent  *)
(* and when one is toxic or has exhausted Config.Patience (nondetermin-    *)
(* istic), and the session clock that decides when it trades at all.       *)
(***************************************************************************)
EXTENDS Naturals, Sequences, FiniteSets

CONSTANTS
  Options,      (* the options of today's chain                             *)
  MaxOrders,    (* bound: order objects created                             *)
  MaxIDs,       (* bound: order ids Schwab issues                           *)
  MaxPending,   (* Config.MaxPending                                        *)
  MaxQty,       (* bound: contracts per leg                                 *)
  Shapes,       (* the orders the strategies come up with: contracts by leg *)
  QueueCap,     (* capacity of the OrderEvents and OrderUpdates channels    *)
  MaxRestarts,  (* bound: times the process is restarted                    *)
  Faults        (* what may go wrong outside of the trader                  *)

FaultKinds == {"noID", "replyLost", "repost", "eventLost", "cancelFails", "change"}

ASSUME OrdersAssumption ==
  /\ MaxOrders \in Nat /\ MaxIDs \in Nat /\ MaxPending \in Nat
  /\ MaxQty \in Nat /\ QueueCap \in Nat /\ MaxRestarts \in Nat
  /\ Faults \subseteq FaultKinds
  /\ Shapes \subseteq [Options -> 0..MaxQty]

Orders == 1..MaxOrders
IDs    == 1..MaxIDs
Nil    == 0                      (* no order, no order id *)
Legs   == [Options -> 0..MaxQty] (* 0: the option is not a leg of the order *)

VARIABLES
  (* the trader process *)
  phase,        (* Live(): "loading", then definitions "known", then "ready" *)
  sent,         (* orders created so far: 1..sent                           *)
  legs,         (* Order.Legs                                               *)
  filled,       (* the options o of Order.Legs whose Leg.Filled is set      *)
  orderID,      (* Order.OrderID                                            *)
  canceling,    (* the orders whose Canceling is set                        *)
  pending,      (* PendingOrders                                            *)
  byOption,     (* PendingOrdersByOption: how often a list holds an order   *)
  bySchwab,     (* OrdersBySchwabID                                         *)
  volume,       (* contracts of each option booked into Holdings            *)
  events,       (* OrderEvents, with the stream that feeds it               *)
  updates,      (* OrderUpdates                                             *)
  (* the goroutines that call Schwab *)
  post,         (* CreateOrder: "none", "calling", "orphan", "done"         *)
  reply,        (* the id the POST in flight was given, Nil before that     *)
  cancels,      (* orders whose schwabCancelOrder has not begun its call    *)
  deletes,      (* ids whose DELETE is on its way                           *)
  (* Schwab *)
  issued,       (* ids issued so far: 1..issued                             *)
  owner,        (* the order an id was issued for                           *)
  left,         (* contracts of each leg not executed yet                   *)
  status,       (* "none", "open", "pulling" (being cancelled), "closed"    *)
  traded,       (* contracts of each option executed                        *)
  restarts

idVars      == <<orderID, bySchwab>>
pendingVars == <<pending, byOption>>
callVars    == <<post, reply, cancels, deletes>>
brokerVars  == <<issued, owner, left, status, traded>>
newsVars    == <<events, updates>>
vars == <<phase, sent, legs, filled, canceling, volume, restarts,
          idVars, pendingVars, callVars, brokerVars, newsVars>>

FillEvents    == [kind : {"fill"}, id : IDs, option : Options, qty : 1..MaxQty]
CancelEvents  == [kind : {"cancel"}, id : IDs, closed : BOOLEAN]
OutEvents     == [kind : {"urout", "expired"}, id : IDs]
ChangeEvents  == [kind : {"change"}, id : IDs, parent : IDs, supported : BOOLEAN]
Events        == FillEvents \cup CancelEvents \cup OutEvents \cup ChangeEvents
Updates       == [order : Orders, id : IDs \cup {Nil}]

NoLegs == [x \in Options |-> 0]
LegSet(ls) == {x \in Options : ls[x] > 0}
SingleLeg(o) == Cardinality(LegSet(legs[o])) = 1

-----------------------------------------------------------------------------
(* PendingOrders, its index by option, and the index by broker id. *)

AddPendingOrder(o, ls) ==
  /\ pending' = pending \cup {o}
  /\ byOption' = [x \in Options |->
       [n \in Orders |-> IF n = o /\ ls[x] > 0 THEN byOption[x][n] + 1
                                               ELSE byOption[x][n]]]

(* Mutants: the lists are forgotten; or shortened without a search. *)
RemoveFromMapOnly(o) == pending' = pending \ {o} /\ UNCHANGED byOption

RemoveUnsearched(o) ==
  /\ pending' = pending \ {o}
  /\ byOption' = [x \in Options |-> [byOption[x] EXCEPT ![o] = @ - 1]]

(* The first occurrence leaves each list; an order that is not there is   *)
(* no error.                                                              *)
RemovePendingOrder(o) ==
  /\ pending' = pending \ {o}
  /\ byOption' = [x \in Options |->
       [n \in Orders |-> IF n = o /\ legs[o][x] > 0 /\ byOption[x][n] > 0
                         THEN byOption[x][n] - 1 ELSE byOption[x][n]]]

DeleteSchwabOrder(o) ==
  /\ bySchwab' = [b \in IDs |-> IF b = orderID[o] THEN Nil ELSE bySchwab[b]]
  /\ UNCHANGED orderID
  /\ RemovePendingOrder(o)

-----------------------------------------------------------------------------
(* Start-up. *)

(* Option definitions arrive; until then fills name unknown options. *)
LoadDefinitions ==
  /\ phase = "loading"
  /\ phase' = "known"
  /\ UNCHANGED <<sent, legs, filled, canceling, volume, restarts, idVars,
                 pendingVars, callVars, brokerVars, newsVars>>

(* Only orders Schwab reports as Filled are reloaded: every leg executed.  *)
(* Of those, every execution.                                              *)
IsFilledOrder(b) == owner[b] # Nil /\ status[b] = "closed" /\ left[b] = NoLegs

Executions(x) ==
  Cardinality({p \in IDs \X (1..MaxQty) :
                 IsFilledOrder(p[1]) /\ p[2] <= legs[owner[p[1]]][x]})

RestorePortfolio ==
  /\ phase = "known"
  /\ phase' = "ready"
  /\ volume' = [x \in Options |-> volume[x] + Executions(x)]
  /\ UNCHANGED <<sent, legs, filled, canceling, restarts, idVars, pendingVars,
                 callVars, brokerVars, newsVars>>

-----------------------------------------------------------------------------
(* Orders go out and are withdrawn. *)

(* onThought found a slot free and sendBestOrder sends its first order:    *)
(* sendLiveOrder occupies the slot before the POST is made.                *)
SendOrder(ls) ==
  /\ phase = "ready"
  /\ Cardinality(pending) < MaxPending
  /\ sent < MaxOrders
  /\ ls # NoLegs
  /\ sent' = sent + 1
  /\ legs' = [legs EXCEPT ![sent + 1] = ls]
  /\ AddPendingOrder(sent + 1, ls)
  /\ post' = [post EXCEPT ![sent + 1] = "calling"]
  /\ UNCHANGED <<phase, filled, canceling, volume, restarts, idVars, reply,
                 cancels, deletes, brokerVars, newsVars>>

HasFill(o) == filled[o] # {}

(* Mutant: an order whose id has not arrived is withdrawn as well. *)
CancelableUnknown(o) == o \in pending /\ o \notin canceling /\ ~HasFill(o)

Cancelable(o) == o \in pending /\ o \notin canceling /\ ~HasFill(o) /\ orderID[o] # Nil

(* A tick of an option with pending orders: every pending order is looked  *)
(* at, and those in S have exhausted Patience or are toxic.                *)
CancelUnfilledOrders(S) ==
  /\ S # {} /\ \A o \in S : Cancelable(o)
  /\ canceling' = canceling \cup S
  /\ cancels' = cancels \cup S
  /\ UNCHANGED <<phase, sent, legs, filled, volume, restarts, idVars,
                 pendingVars, post, reply, deletes, brokerVars, newsVars>>

(* schwabCancelOrder's goroutine reads the order's id as of now. *)
BeginCancelCall(o) ==
  /\ o \in cancels
  /\ cancels' = cancels \ {o}
  /\ deletes' = deletes \cup {orderID[o]}
  /\ UNCHANGED <<phase, sent, legs, filled, canceling, volume, restarts,
                 idVars, pendingVars, post, reply, brokerVars, newsVars>>

-----------------------------------------------------------------------------
(* News for the trader. *)

(* Mutant: the news that an order got no id is dropped. *)
OnOrderOrderIDDropsNil ==
  /\ updates # <<>>
  /\ updates' = Tail(updates)
  /\ LET u == Head(updates) IN
       IF u.id # Nil
       THEN /\ orderID' = [orderID EXCEPT ![u.order] = u.id]
            /\ bySchwab' = [bySchwab EXCEPT ![u.id] = u.order]
       ELSE UNCHANGED idVars
  /\ UNCHANGED <<phase, sent, legs, filled, canceling, volume, restarts,
                 pendingVars, callVars, brokerVars, events>>

OnOrderOrderID ==
  /\ updates # <<>>
  /\ updates' = Tail(updates)
  /\ LET u == Head(updates) IN
       IF u.id # Nil
       THEN /\ orderID' = [orderID EXCEPT ![u.order] = u.id]
            /\ bySchwab' = [bySchwab EXCEPT ![u.id] = u.order]
            /\ UNCHANGED pendingVars
       ELSE DeleteSchwabOrder(u.order)
  /\ UNCHANGED <<phase, sent, legs, filled, canceling, volume, restarts,
                 callVars, brokerVars, events>>

Filled(o, marks) == LegSet(legs[o]) \subseteq marks

(* Mutant: the order is looked up first and unknown fills are not booked. *)
OnFillEventOfKnown(e) ==
  /\ e.kind = "fill"
  /\ LET o == bySchwab[e.id] IN
     IF phase = "loading" \/ o = Nil
     THEN UNCHANGED <<volume, filled, idVars, pendingVars>>
     ELSE LET marks == filled[o] \cup ({e.option} \cap LegSet(legs[o]))
          IN /\ volume' = [volume EXCEPT ![e.option] = @ + e.qty]
             /\ filled' = [filled EXCEPT ![o] = marks]
             /\ IF Filled(o, marks) THEN DeleteSchwabOrder(o)
                                    ELSE UNCHANGED <<idVars, pendingVars>>

(* A fill is booked whoever sent the order; only then is the order looked  *)
(* up. Its leg is marked filled whatever the quantity.                     *)
OnFillEvent(e) ==
  /\ e.kind = "fill"
  /\ IF phase = "loading"
     THEN UNCHANGED <<volume, filled, idVars, pendingVars>>
     ELSE /\ volume' = [volume EXCEPT ![e.option] = @ + e.qty]
          /\ LET o == bySchwab[e.id] IN
             IF o = Nil
             THEN UNCHANGED <<filled, idVars, pendingVars>>
             ELSE LET marks == filled[o] \cup ({e.option} \cap LegSet(legs[o]))
                  IN /\ filled' = [filled EXCEPT ![o] = marks]
                     /\ IF Filled(o, marks) THEN DeleteSchwabOrder(o)
                                            ELSE UNCHANGED <<idVars, pendingVars>>

(* Mutant: expirations are not handled. *)
OnOrderOverNotExpired(e) ==
  /\ (e.kind \in {"urout", "expired"} \/ (e.kind = "cancel" /\ e.closed))
  /\ LET o == bySchwab[e.id] IN
       IF o # Nil /\ orderID[o] = e.id /\ e.kind # "expired"
       THEN DeleteSchwabOrder(o)
       ELSE UNCHANGED <<idVars, pendingVars>>
  /\ UNCHANGED <<volume, filled>>

(* onCancelAcknowledgement (legs closed at once), onUROutCompletedEvent    *)
(* and onExpiredEvent: the order is over, if the trader knows its id.      *)
OnOrderOver(e) ==
  /\ \/ e.kind \in {"urout", "expired"}
     \/ e.kind = "cancel" /\ e.closed
  /\ LET o == bySchwab[e.id] IN
       IF o # Nil /\ orderID[o] = e.id
       THEN DeleteSchwabOrder(o)
       ELSE UNCHANGED <<idVars, pendingVars>>
  /\ UNCHANGED <<volume, filled>>

(* Mutant: any acknowledged cancel ends the order. *)
OnCancelAcceptedEnds(e) ==
  /\ e.kind = "cancel" /\ ~e.closed
  /\ IF bySchwab[e.id] # Nil THEN DeleteSchwabOrder(bySchwab[e.id])
                             ELSE UNCHANGED <<idVars, pendingVars>>
  /\ UNCHANGED <<volume, filled>>

(* An acknowledged cancel whose legs are still open changes nothing. *)
OnCancelAccepted(e) ==
  /\ e.kind = "cancel" /\ ~e.closed
  /\ UNCHANGED <<volume, filled, idVars, pendingVars>>

(* Mutant: the old id stays in OrdersBySchwabID. *)
OnChangeEventKeepsID(e) ==
  /\ e.kind = "change"
  /\ LET o == bySchwab[e.parent] IN
       IF bySchwab[e.id] = Nil /\ o # Nil /\ e.supported
       THEN /\ orderID' = [orderID EXCEPT ![o] = e.id]
            /\ bySchwab' = [bySchwab EXCEPT ![e.id] = o]
       ELSE UNCHANGED idVars
  /\ UNCHANGED <<volume, filled, pendingVars>>

(* The order was edited outside of varu and has a new id.  An edit the     *)
(* trader does not support is only logged.                                 *)
OnChangeEvent(e) ==
  /\ e.kind = "change"
  /\ LET o == bySchwab[e.parent] IN
       IF bySchwab[e.id] = Nil /\ o # Nil /\ e.supported
       THEN /\ orderID' = [orderID EXCEPT ![o] = e.id]
            /\ bySchwab' = [bySchwab EXCEPT ![e.id] = o, ![e.parent] = Nil]
       ELSE UNCHANGED idVars
  /\ UNCHANGED <<volume, filled, pendingVars>>

OnOrderEvent ==
  /\ events # <<>>
  /\ events' = Tail(events)
  /\ LET e == Head(events) IN
       OnFillEvent(e) \/ OnOrderOver(e) \/ OnCancelAccepted(e) \/ OnChangeEvent(e)
  /\ UNCHANGED <<phase, sent, legs, canceling, restarts, callVars, brokerVars,
                 updates>>

-----------------------------------------------------------------------------
(* The CreateOrder goroutine and what Schwab makes of its POST. *)

(* Schwab takes the order; an orphaned POST is one whose process is gone. *)
PlaceOrder(o) ==
  /\ post[o] \in {"calling", "orphan"} /\ reply[o] = Nil
  /\ issued < MaxIDs
  /\ issued' = issued + 1
  /\ reply'  = [reply EXCEPT ![o] = issued + 1]
  /\ owner'  = [owner EXCEPT ![issued + 1] = o]
  /\ left'   = [left EXCEPT ![issued + 1] = legs[o]]
  /\ status' = [status EXCEPT ![issued + 1] = "open"]
  /\ UNCHANGED <<phase, sent, legs, filled, canceling, volume, restarts, idVars,
                 pendingVars, post, cancels, deletes, traded, newsVars>>

(* CreateOrder returns and its goroutine reports the id on OrderUpdates:   *)
(* Nil if Schwab refused the order, if it took it but gave no Location     *)
(* header because the order filled at once, or if an error hid the reply.  *)
MayHideID(o) == \/ "replyLost" \in Faults
                \/ "noID" \in Faults /\ reply[o] # Nil /\ left[reply[o]] = NoLegs

CreateOrderReturns(o) ==
  /\ post[o] = "calling"
  /\ Len(updates) < QueueCap
  /\ \E id \in {reply[o]} \cup (IF MayHideID(o) THEN {Nil} ELSE {}) :
       updates' = Append(updates, [order |-> o, id |-> id])
  /\ post' = [post EXCEPT ![o] = "done"]
  /\ UNCHANGED <<phase, sent, legs, filled, canceling, volume, restarts, idVars,
                 pendingVars, reply, cancels, deletes, brokerVars, events>>

(* Client.Request retries a POST whose answer was lost in the network. *)
RetryPost(o) ==
  /\ "repost" \in Faults
  /\ post[o] = "calling" /\ reply[o] # Nil
  /\ reply' = [reply EXCEPT ![o] = Nil]
  /\ UNCHANGED <<phase, sent, legs, filled, canceling, volume, restarts, idVars,
                 pendingVars, post, cancels, deletes, brokerVars, newsVars>>

-----------------------------------------------------------------------------
(* Schwab. *)

(* An event reaches OrderEvents in order, or is lost to a disconnection. *)
Emit(e) ==
  \/ Len(events) < QueueCap /\ events' = Append(events, e)
  \/ "eventLost" \in Faults /\ UNCHANGED events

Working(b) == status[b] \in {"open", "pulling"}

(* Legs and parts of legs execute on their own. *)
Execute(b, x, n) ==
  /\ Working(b) /\ n <= left[b][x]
  /\ left' = [left EXCEPT ![b][x] = @ - n]
  /\ status' = [status EXCEPT ![b] =
       IF [left[b] EXCEPT ![x] = @ - n] = NoLegs THEN "closed" ELSE @]
  /\ traded' = [traded EXCEPT ![x] = @ + n]
  /\ Emit([kind |-> "fill", id |-> b, option |-> x, qty |-> n])
  /\ UNCHANGED <<phase, sent, legs, filled, canceling, volume, restarts, idVars,
                 pendingVars, callVars, issued, owner, updates>>

Close(b, e) ==
  /\ status' = [status EXCEPT ![b] = "closed"]
  /\ Emit(e)
  /\ UNCHANGED <<issued, owner, left, traded>>

(* A DELETE arrives: acknowledged, with the legs open for now or, if there *)
(* is one leg, whose LegId is the order's id, perhaps closed at once; or   *)
(* answered with an error that schwabCancelOrder only logs.                *)
ReceiveCancel(b) ==
  /\ b \in deletes
  /\ deletes' = deletes \ {b}
  /\ \/ /\ status[b] = "open"
        /\ status' = [status EXCEPT ![b] = "pulling"]
        /\ Emit([kind |-> "cancel", id |-> b, closed |-> FALSE])
        /\ UNCHANGED <<issued, owner, left, traded>>
     \/ /\ status[b] = "open" /\ SingleLeg(owner[b])
        /\ Close(b, [kind |-> "cancel", id |-> b, closed |-> TRUE])
     \/ /\ status[b] # "open" \/ "cancelFails" \in Faults
        /\ UNCHANGED <<brokerVars, events>>
  /\ UNCHANGED <<phase, sent, legs, filled, canceling, volume, restarts, idVars,
                 pendingVars, post, reply, cancels, updates>>

(* An order leaves the market: cancelled, rejected or expired at the close. *)
LeaveMarket(b) ==
  /\ Working(b)
  /\ \E kind \in {"urout", "expired"} : Close(b, [kind |-> kind, id |-> b])
  /\ UNCHANGED <<phase, sent, legs, filled, canceling, volume, restarts, idVars,
                 pendingVars, callVars, updates>>

(* Somebody edits the order in thinkorswim before any of it has executed:  *)
(* it goes on under a new id, as a limit order or as one of another type.  *)
ChangeOrder(b) ==
  /\ "change" \in Faults
  /\ status[b] = "open" /\ left[b] = legs[owner[b]] /\ issued < MaxIDs
  /\ issued' = issued + 1
  /\ owner'  = [owner EXCEPT ![issued + 1] = owner[b]]
  /\ left'   = [left EXCEPT ![issued + 1] = left[b]]
  /\ status' = [status EXCEPT ![b] = "closed", ![issued + 1] = "open"]
  /\ \E limit \in BOOLEAN :
       Emit([kind |-> "change", id |-> issued + 1, parent |-> b,
             supported |-> limit /\ SingleLeg(owner[b])])
  /\ UNCHANGED <<phase, sent, legs, filled, canceling, volume, restarts, idVars,
                 pendingVars, callVars, traded, updates>>

-----------------------------------------------------------------------------
(* The process ends and is started again; Schwab does not notice. *)
Restart ==
  /\ restarts < MaxRestarts
  /\ restarts' = restarts + 1
  /\ phase' = "loading"
  /\ pending' = {} /\ byOption' = [x \in Options |-> [o \in Orders |-> 0]]
  /\ bySchwab' = [b \in IDs |-> Nil]
  /\ volume' = NoLegs
  /\ events' = <<>> /\ updates' = <<>> /\ cancels' = {}
  /\ post' = [o \in Orders |-> IF post[o] = "calling" THEN "orphan" ELSE post[o]]
  /\ UNCHANGED <<sent, legs, filled, orderID, canceling, reply, deletes, brokerVars>>

Init ==
  /\ phase = "loading" /\ sent = 0 /\ restarts = 0
  /\ legs = [o \in Orders |-> NoLegs] /\ filled = [o \in Orders |-> {}]
  /\ orderID = [o \in Orders |-> Nil] /\ canceling = {}
  /\ pending = {} /\ byOption = [x \in Options |-> [o \in Orders |-> 0]]
  /\ bySchwab = [b \in IDs |-> Nil]
  /\ volume = NoLegs /\ traded = NoLegs
  /\ events = <<>> /\ updates = <<>>
  /\ post = [o \in Orders |-> "none"] /\ reply = [o \in Orders |-> Nil]
  /\ cancels = {} /\ deletes = {}
  /\ issued = 0 /\ owner = [b \in IDs |-> Nil]
  /\ left = [b \in IDs |-> NoLegs] /\ status = [b \in IDs |-> "none"]

Trader ==
  \/ LoadDefinitions \/ RestorePortfolio
  \/ \E ls \in Shapes : SendOrder(ls)
  \/ \E S \in SUBSET Orders : CancelUnfilledOrders(S)
  \/ OnOrderOrderID \/ OnOrderEvent

Calls == \E o \in Orders : PlaceOrder(o) \/ CreateOrderReturns(o) \/ RetryPost(o)
                           \/ BeginCancelCall(o)

SchwabWorks(b) ==
  \/ \E x \in Options : \E n \in 1..MaxQty : Execute(b, x, n)
  \/ ReceiveCancel(b) \/ LeaveMarket(b) \/ ChangeOrder(b)

Schwab == \E b \in IDs : SchwabWorks(b)

Next == Trader \/ Calls \/ Schwab \/ Restart

Spec == Init /\ [][Next]_vars

(* The main loop takes what is in its channels, the goroutines finish      *)
(* their calls, and Schwab ends every order it works: they are day orders. *)
Fairness ==
  /\ WF_vars(OnOrderOrderID) /\ WF_vars(OnOrderEvent)
  /\ \A o \in Orders : WF_vars(CreateOrderReturns(o)) /\ WF_vars(BeginCancelCall(o))
  /\ \A b \in IDs : WF_vars(ReceiveCancel(b)) /\ WF_vars(LeaveMarket(b))

FairSpec == Spec /\ Fairness
-----------------------------------------------------------------------------
(* Properties. *)

TypeOK ==
  /\ phase \in {"loading", "known", "ready"}
  /\ sent \in 0..MaxOrders /\ restarts \in 0..MaxRestarts
  /\ legs \in [Orders -> Legs] /\ filled \in [Orders -> SUBSET Options]
  /\ orderID \in [Orders -> IDs \cup {Nil}] /\ canceling \subseteq Orders
  /\ pending \subseteq Orders /\ byOption \in [Options -> [Orders -> Nat]]
  /\ bySchwab \in [IDs -> Orders \cup {Nil}]
  /\ volume \in [Options -> Nat] /\ traded \in [Options -> Nat]
  /\ events \in Seq(Events) /\ updates \in Seq(Updates)
  /\ post \in [Orders -> {"none", "calling", "orphan", "done"}]
  /\ reply \in [Orders -> IDs \cup {Nil}]
  /\ cancels \subseteq Orders /\ deletes \subseteq IDs \cup {Nil}
  /\ issued \in 0..MaxIDs /\ owner \in [IDs -> Orders \cup {Nil}]
  /\ left \in [IDs -> Legs]
  /\ status \in [IDs -> {"none", "open", "pulling", "closed"}]

(* The index by option lists an order exactly once under each of its legs  *)
(* while it is pending and nowhere otherwise (pending.go): a stale entry   *)
(* would trigger cancel passes for ever, a missing one would suppress the  *)
(* only thing that cancels an order.                                       *)
IndexExact ==
  \A x \in Options, o \in Orders :
    byOption[x][o] = IF o \in pending /\ legs[o][x] > 0 THEN 1 ELSE 0

(* OrdersBySchwabID knows exactly the pending orders whose id arrived, each *)
(* under its current id: no dead order can be revived by a late event, and  *)
(* none whose id is known is out of an event's reach (live.go).             *)
RegistryExact ==
  /\ \A b \in IDs : bySchwab[b] # Nil =>
       bySchwab[b] \in pending /\ orderID[bySchwab[b]] = b
  /\ \A o \in pending : orderID[o] # Nil => bySchwab[orderID[o]] = o

UpdateQueued(o) == \E i \in 1..Len(updates) : updates[i].order = o

(* A pending order without an id is one whose CreateOrder goroutine is     *)
(* still calling or has its report queued: the id, or the news that there  *)
(* is none, can still come.                                                *)
NewsIsComing ==
  \A o \in pending : orderID[o] = Nil => post[o] = "calling" \/ UpdateQueued(o)

(* Until the process is restarted, an order of single-contract legs that   *)
(* Schwab works under an id the trader has, or is about to be told,        *)
(* occupies a slot: no sequence of fills, cancels, edits and expirations   *)
(* frees it too early, even if replies and events are lost, POSTs are      *)
(* retried and cancels fail.                                               *)
IsTold(b) ==
  LET o == owner[b] IN
    \/ orderID[o] = b
    \/ post[o] = "calling" /\ reply[o] = b
    \/ \E i \in 1..Len(updates) : updates[i].order = o /\ updates[i].id = b

WorkingIsPending ==
  \A b \in IDs :
    /\ Working(b) /\ restarts = 0 /\ IsTold(b)
    /\ \A x \in Options : legs[owner[b]][x] <= 1
    => owner[b] \in pending

InFlight(x) ==
  Cardinality({p \in (1..Len(events)) \X (1..MaxQty) :
                 /\ events[p[1]].kind = "fill" /\ events[p[1]].option = x
                 /\ p[2] <= events[p[1]].qty})

(* What Holdings booked, and the fills on their way, are what Schwab       *)
(* executed, never more: nothing is booked twice, and nothing is missed    *)
(* unless an event was lost (onFillEvent books before it looks up orders). *)
LedgerExact ==
  phase = "ready" => \A x \in Options :
    /\ volume[x] + InFlight(x) <= traded[x]
    /\ "eventLost" \notin Faults => volume[x] + InFlight(x) = traded[x]

(* The book-keeping implements the life of OrderLife. *)
Stage(o) == IF o > sent THEN "unsent"
            ELSE IF o \notin pending THEN "done"
            ELSE IF orderID[o] = Nil THEN "placing"
            ELSE IF o \in canceling THEN "canceling" ELSE "live"

Life == INSTANCE OrderLife WITH life <- [o \in Orders |-> Stage(o)]

(* Every order object lives the life OrderLife promises: numbered in order, *)
(* withdrawn at most once and only when its id is known, never revived, and *)
(* never submitted without a free slot.                                     *)
ImplementsOrderLife == Life!Spec

(* A pending order whose id the trader knew before any of it executed      *)
(* frees its slot in the end, whether it fills, is cancelled or expires.   *)
Untouched(o) ==
  /\ o \in pending /\ orderID[o] # Nil
  /\ Working(orderID[o]) /\ left[orderID[o]] = legs[o]

KnownOrdersFreeTheirSlot ==
  \A o \in Orders : Untouched(o) ~> o \notin pending

(* live.go:414 "remove fully filled orders": an order of which every leg   *)
(* has executed leaves PendingOrders.                                      *)
FilledOrdersAreRemoved ==
  \A o \in Orders :
    (o \in pending /\ \E b \in IDs : owner[b] = o /\ IsFilledOrder(b))
      ~> o \notin pending

(* live.go:182 "restorePortfolio reloads portfolio across command          *)
(* invocations": once ready, with no news on its way, Holdings has booked  *)
(* what was executed.                                                      *)
PortfolioIsRestored ==
  phase = "ready" /\ events = <<>> => \A x \in Options : volume[x] = traded[x]
=============================================================================
