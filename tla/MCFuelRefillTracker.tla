------------------------ MODULE MCFuelRefillTracker -------------------------
(* Three levels at the boundaries of the thresholds: 24 and 22 are one     *)
(* stable window and a decrease apart, 30 is a refill from 22 and not from *)
(* 24.  Three odometer readings: as far apart as a duplicate may be, and   *)
(* one beyond.  Windows of three samples and histories of two records.     *)
EXTENDS FuelRefillTracker

MCLevels == {22, 24, 30}
MCOdometers == {0, 10, 11}
=============================================================================
