---------------------------- MODULE MCCubbyEntry ----------------------------
(* Small instances of CubbyEntry for TLC: bars that fill one share at 2 or  *)
(* two at 3, so that three shares cost 8 thirds each.                       *)
EXTENDS CubbyEntry

TwoBars == {[open |-> 2, vwap |-> 2, close |-> 2, volume |-> 1],
            [open |-> 2, vwap |-> 3, close |-> 3, volume |-> 2]}
Sizes   == {-2, 3}
==============================================================================
