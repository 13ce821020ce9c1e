----------------------- MODULE MCCanDisplayPopupHandler -----------------------
(* An instance of CanDisplayPopupHandler with two sets of open doors.      *)
EXTENDS CanDisplayPopupHandler

CONSTANTS left, right

MCDoors == {left, right}
=============================================================================
