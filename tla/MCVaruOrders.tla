---------------------------- MODULE MCVaruOrders ----------------------------
(* Model values for the runs of VaruOrders. *)
EXTENDS VaruOrders

CONSTANTS call, put

TwoOptions == {call, put}

(* Two contracts of an option, and a spread of two legs. *)
Pair   == [x \in TwoOptions |-> IF x = call THEN 2 ELSE 0]
Spread == [x \in TwoOptions |-> 1]

PairAndSpread == {Pair, Spread}

NoFaults      == {}
=============================================================================
