------------------------------ MODULE MCMaker ------------------------------
(* Model values for the run of Maker: the market moves by a tick, so that  *)
(* the price of a sell in the one is the price of a buy in the other.      *)
EXTENDS Maker

TwoMarkets == {[bid |-> 1, ask |-> 3, mid |-> 2], [bid |-> 3, ask |-> 5, mid |-> 4]}
=============================================================================
