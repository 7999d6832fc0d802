-------------------------- MODULE MCVaruOrdersNews --------------------------
(* Model values for the runs of VaruOrdersNews. *)
EXTENDS VaruOrdersNews

CONSTANTS call, put

TwoOptions == {call, put}

(* An option's contracts, and a spread of two legs. *)
Pair   == [x \in TwoOptions |-> IF x = call THEN 2 ELSE 0]
Spread == [x \in TwoOptions |-> 1]

PairAndSpread  == {Pair, Spread}
FailingCancels == {"cancelFails"}
AllFaults      == FaultKinds
=============================================================================
