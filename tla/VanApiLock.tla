----------------------------- MODULE VanApiLock -----------------------------
(***************************************************************************)
(* vanApiLock: the critical section that TrySendFrame and the Set...       *)
(* operations of the HP tasks share.  It masks the interrupts of the only  *)
(* HP core, so no other task runs while one is inside.                     *)
(***************************************************************************)
CONSTANTS
  Tasks,           (* the HP tasks that call the driver                    *)
  NoTask

ASSUME LockAssumption == NoTask \notin Tasks

VARIABLE lock      (* the holder of the critical section                   *)
=============================================================================
