--------------------------- MODULE MCVanLpRxQueue ---------------------------
(* A ring of three entries whose indices wrap after two rounds, two        *)
(* captures that are committed and one that is malformed.                  *)
EXTENDS VanLpRxQueue

CONSTANTS c1, c2, bad

MCCaptures == {c1, c2, bad}
MCWellFormed == {c1, c2}
=============================================================================
