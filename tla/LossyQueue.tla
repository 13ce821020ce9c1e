----------------------------- MODULE LossyQueue -----------------------------
(***************************************************************************)
(* What the VAN transmit queue promises: messages leave at the head, one   *)
(* by one, in the order in which they stand; a message enters at the back, *)
(* or, with high priority, at the front, where it may find the one that is *)
(* just being dispatched still ahead of it.  No message is in it twice for *)
(* one call, none overtakes another on the way.  Whether the message that  *)
(* leaves was sent or lost is not said.                                    *)
(***************************************************************************)
EXTENDS Sequences, Naturals

CONSTANTS Bodies, Capacity

VARIABLES content

PushBack(m) ==
  /\ Len(content) < Capacity
  /\ content' = Append(content, m)

PushFront(m) ==
  /\ Len(content) < Capacity
  /\ \/ content' = <<m>> \o content
     \/ /\ content # <<>>
        /\ content' = <<Head(content), m>> \o Tail(content)

PopHead ==
  /\ content # <<>>
  /\ content' = Tail(content)

Init == content = <<>>

Next ==
  \/ \E m \in Bodies : PushBack(m) \/ PushFront(m)
  \/ PopHead

Spec == Init /\ [][Next]_content
=============================================================================
