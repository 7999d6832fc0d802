--------------------------- MODULE MCVaruHoldings ---------------------------
(* Values for the runs of VaruHoldings. *)
EXTENDS VaruHoldings

CONSTANTS call, put

TwoOptions == {call, put}
SmallFills == {-3, -2, -1, 1, 2, 3}
FewPrices  == {1, 2, 4}
=============================================================================
