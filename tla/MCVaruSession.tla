---------------------------- MODULE MCVaruSession ----------------------------
(* Values for the runs of VaruSession. *)
EXTENDS VaruSession

ScoreOnly      == {{"score"}}
WithAndWithout == {0, 3}
=============================================================================
