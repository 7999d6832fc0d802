------------------------------ MODULE OrderLife ------------------------------
(***************************************************************************)
(* What varu's order book-keeping promises, without saying how: every      *)
(* order object goes through one life,                                     *)
(*                                                                         *)
(*    unsent -> placing -> live -> canceling -> done                       *)
(*                                                                         *)
(* possibly skipping stages but never going back, orders are submitted in  *)
(* the order of their numbers, and no order is submitted while MaxPending  *)
(* of them are between placing and canceling.  VaruOrders implements it.   *)
(***************************************************************************)
EXTENDS Naturals, FiniteSets

CONSTANTS Orders,      (* the numbers of the order objects: 1..n *)
          MaxPending   (* Config.MaxPending                      *)

VARIABLE life          (* the stage each order object is in      *)

Stages == {"unsent", "placing", "live", "canceling", "done"}
Active == {o \in Orders : life[o] \in {"placing", "live", "canceling"}}

Init == life = [o \in Orders |-> "unsent"]

(* The next order goes to the broker, if a slot is free. *)
Submit(o) ==
  /\ life[o] = "unsent"
  /\ \A n \in Orders : n < o => life[n] # "unsent"
  /\ Cardinality(Active) < MaxPending
  /\ life' = [life EXCEPT ![o] = "placing"]

(* The broker's order id becomes known. *)
Acknowledge(o) ==
  /\ life[o] = "placing"
  /\ life' = [life EXCEPT ![o] = "live"]

(* A set of live orders is withdrawn in one pass; each at most once. *)
Withdraw(S) ==
  /\ S # {}
  /\ \A o \in S : life[o] = "live"
  /\ life' = [o \in Orders |-> IF o \in S THEN "canceling" ELSE life[o]]

(* An order stops occupying its slot. *)
Finish(o) ==
  /\ o \in Active
  /\ life' = [life EXCEPT ![o] = "done"]

(* The process restarts and forgets every order it was working. *)
Abandon ==
  life' = [o \in Orders |-> IF o \in Active THEN "done" ELSE life[o]]

Next ==
  \/ \E o \in Orders : Submit(o) \/ Acknowledge(o) \/ Finish(o)
  \/ \E S \in SUBSET Orders : Withdraw(S)
  \/ Abandon

Spec == Init /\ [][Next]_life
=============================================================================
