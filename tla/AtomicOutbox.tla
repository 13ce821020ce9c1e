---------------------------- MODULE AtomicOutbox ----------------------------
(***************************************************************************)
(* What the transmit outbox promises: one frame at a time.  A frame is     *)
(* submitted when none is pending, stays pending through its attempts on   *)
(* the bus, and is finished with the outcome of its last attempt before    *)
(* the next one can be submitted.                                          *)
(***************************************************************************)
CONSTANTS
  Frames,          (* frames that can be submitted                         *)
  Outcomes(_),     (* the results an attempt to send a frame can have      *)
  NoFrame,
  NoOutcome

VARIABLES
  pending,         (* the submitted frame that is not finished             *)
  outcome          (* the last attempt: its frame and its result           *)

vars == <<pending, outcome>>

Init ==
  /\ pending = NoFrame
  /\ outcome = NoOutcome

Submit(f) ==
  /\ pending = NoFrame
  /\ pending' = f
  /\ UNCHANGED outcome

Attempt(result) ==
  /\ pending # NoFrame
  /\ outcome' = [frame |-> pending, result |-> result]
  /\ UNCHANGED pending

Finish ==
  /\ pending # NoFrame
  /\ outcome # NoOutcome
  /\ outcome.frame = pending
  /\ pending' = NoFrame
  /\ UNCHANGED outcome

Next ==
  \/ \E f \in Frames : Submit(f)
  \/ pending # NoFrame /\ \E result \in Outcomes(pending) : Attempt(result)
  \/ Finish

Spec == Init /\ [][Next]_vars
=============================================================================
