--------------------------- MODULE DropNewestFifo ---------------------------
(***************************************************************************)
(* What the receive queue between the LP core and the HP core promises,    *)
(* without indices, slots or memory order: a bounded first-in first-out    *)
(* queue of whole frames.  A frame offered to a full queue is dropped and  *)
(* counted, and nothing else is ever lost, duplicated or reordered.        *)
(***************************************************************************)
EXTENDS Naturals, Sequences

CONSTANTS
  Length,          (* how many frames the queue holds                      *)
  Values,          (* the frames                                           *)
  NoValue,         (* what was delivered before the first frame            *)
  CounterModulus   (* the drop counter wraps at this value                 *)

VARIABLES
  queue,       (* frames accepted and not yet delivered, oldest first      *)
  delivered,   (* the frame delivered last                                 *)
  dropped      (* how many frames found the queue full                     *)

vars == <<queue, delivered, dropped>>

Init ==
  /\ queue = <<>>
  /\ delivered = NoValue
  /\ dropped = 0

Put(v) ==
  /\ Len(queue) < Length
  /\ queue' = Append(queue, v)
  /\ UNCHANGED <<delivered, dropped>>

DropNewest ==
  /\ Len(queue) = Length
  /\ dropped' = (dropped + 1) % CounterModulus
  /\ UNCHANGED <<queue, delivered>>

Get ==
  /\ queue # <<>>
  /\ delivered' = Head(queue)
  /\ queue' = Tail(queue)
  /\ UNCHANGED dropped

Next ==
  \/ \E v \in Values : Put(v)
  \/ DropNewest
  \/ Get

Spec == Init /\ [][Next]_vars
=============================================================================
