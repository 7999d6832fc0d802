--------------------------- MODULE VaruOrdersNews ---------------------------
(***************************************************************************)
(* VaruOrders with a history of the news that can no longer free a slot.   *)
(* Nothing in varu keeps this set: the stream does not replay what it lost *)
(* (orderupdates.go) and the handlers of live.go forget the events whose   *)
(* order they do not find.                                                 *)
(***************************************************************************)
EXTENDS VaruOrders

VARIABLE missed   (* the ids of which such news was lost or ignored *)

newsSpecVars == <<vars, missed>>

Ends(e) == e.kind \in {"urout", "expired"} \/ (e.kind = "cancel" /\ e.closed)

(* The id under which an event would change what the trader holds. *)
Subject(e) == IF e.kind = "change" THEN e.parent ELSE e.id

Matters(e) == e.kind \in {"fill", "change"} \/ Ends(e)

(* The handlers return early: the order is not found, or the edit is one  *)
(* onChangeEvent does not support.                                         *)
Ignores(e) ==
  \/ bySchwab[Subject(e)] = Nil
  \/ e.kind = "change" /\ (~e.supported \/ bySchwab[e.id] # Nil)

Hear ==
  /\ OnOrderEvent
  /\ LET e == Head(events) IN
       missed' = IF Matters(e) /\ Ignores(e) THEN missed \cup {Subject(e)} ELSE missed

(* Schwab executed or ended b and no event says so. *)
IsLost(b) ==
  /\ events' = events
  /\ left'[b] # left[b] \/ (status[b] # "closed" /\ status'[b] = "closed")

Tell(b) ==
  /\ SchwabWorks(b)
  /\ missed' = IF IsLost(b) THEN missed \cup {b} ELSE missed

(* The new process knows none of the orders the news was about. *)
Forget == Restart /\ UNCHANGED missed

TraderActs ==
  \/ LoadDefinitions \/ RestorePortfolio
  \/ \E ls \in Shapes : SendOrder(ls)
  \/ \E S \in SUBSET Orders : CancelUnfilledOrders(S)
  \/ OnOrderOrderID

NewsInit == Init /\ missed = {}

NewsNext ==
  \/ (TraderActs \/ Calls) /\ UNCHANGED missed
  \/ Hear \/ Forget
  \/ \E b \in IDs : Tell(b)

NewsSpec == NewsInit /\ [][NewsNext]_newsSpecVars

FairNewsSpec == NewsSpec /\ Fairness
-----------------------------------------------------------------------------
(* Properties. *)

FillQueued(b, x) ==
  \E i \in 1..Len(events) :
    events[i].kind = "fill" /\ events[i].id = b /\ events[i].option = x

EndQueued(b) == \E i \in 1..Len(events) : Ends(events[i]) /\ events[i].id = b

ChangeQueued(b) ==
  \E i \in 1..Len(events) : events[i].kind = "change" /\ events[i].parent = b

(* No slot is kept by an order that is over without news that will free    *)
(* it: as long as no news about its id was lost, came before the id did or *)
(* was an edit varu does not support, a pending order that Schwab has      *)
(* closed has its end or its edit queued, or an execution of every leg not *)
(* marked filled (live.go, order.go).                                      *)
SlotsAwaitNews ==
  \A o \in pending :
    LET b == orderID[o] IN
      b # Nil /\ status[b] = "closed" /\ b \notin missed =>
        \/ EndQueued(b) \/ ChangeQueued(b)
        \/ /\ ~Filled(o, filled[o])
           /\ \A x \in LegSet(legs[o]) \ filled[o] : FillQueued(b, x)
=============================================================================
