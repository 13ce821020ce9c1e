--------------------- MODULE MCRadioRemoteVolumeControl ---------------------
(* A wheel of four positions, which goes on at the third one: it passes    *)
(* the same end again after two steps up and after three steps down, in    *)
(* proportion to the 128 and 129 steps of the real one.                    *)
EXTENDS RadioRemoteVolumeControl
=============================================================================
