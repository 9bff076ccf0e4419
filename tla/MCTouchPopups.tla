--------------------------- MODULE MCTouchPopups ---------------------------
(* Instances of TouchPopups for TLC.                                       *)
EXTENDS TouchPopups

CONSTANTS d1, d2

TwoDevices == {d1, d2}
===========================================================================
