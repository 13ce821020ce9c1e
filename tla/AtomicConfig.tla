---------------------------- MODULE AtomicConfig ----------------------------
(***************************************************************************)
(* What the two configuration banks promise: the LP core has one active    *)
(* configuration, the HP tasks one latest configuration.  An update is     *)
(* accepted only when the previous one is active, changes one slot of the  *)
(* latest configuration, and becomes active as a whole, between two bus    *)
(* transactions and never during one.                                      *)
(***************************************************************************)
CONSTANTS
  ConfigSlots,     (* ACK and reply slots                                  *)
  Settings,        (* what a slot can hold                                 *)
  InitialConfig

VARIABLES
  latest,          (* the configuration published last                     *)
  active,          (* the configuration the LP core works with             *)
  busy             (* a bus transaction is under way                       *)

vars == <<latest, active, busy>>

Init ==
  /\ latest = InitialConfig
  /\ active = InitialConfig
  /\ busy = FALSE

Update(s, v) ==
  /\ active = latest
  /\ latest' = [latest EXCEPT ![s] = v]
  /\ UNCHANGED <<active, busy>>

Adopt ==
  /\ ~busy
  /\ active' = latest
  /\ UNCHANGED <<latest, busy>>

BeginTransaction == ~busy /\ busy' = TRUE /\ UNCHANGED <<latest, active>>

EndTransaction == busy /\ busy' = FALSE /\ UNCHANGED <<latest, active>>

Next ==
  \/ \E s \in ConfigSlots, v \in Settings : Update(s, v)
  \/ Adopt
  \/ BeginTransaction
  \/ EndTransaction

Spec == Init /\ [][Next]_vars
=============================================================================
