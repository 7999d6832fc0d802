------------------------- MODULE MCVarulabScheduler -------------------------
(* Values for the runs of VarulabScheduler: two runs of an older file and  *)
(* one of a newer file.                                                    *)
EXTENDS VarulabScheduler, TLC

CONSTANTS r1, r2, r3, older, newer

ThreeRuns == {r1, r2, r3}
TwoFiles  == {older, newer}
OfFiles   == r1 :> older @@ r2 :> older @@ r3 :> newer
OnDates   == older :> 1 @@ newer :> 2
=============================================================================
