------------------------------ MODULE MCTmItem ------------------------------
(***************************************************************************)
(* Instance of TmItem for TLC.                                             *)
(***************************************************************************)
EXTENDS TmItem

CONSTANTS i1, i2, i3

TwoItems   == {i1, i2}
ThreeItems == {i1, i2, i3}
TwoStrs    == {"a", "b"}
MCEmpty    == ""
TwoTicks   == 2
ThreeTicks == 3
=============================================================================
