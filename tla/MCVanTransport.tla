--------------------------- MODULE MCVanTransport ---------------------------
(* One normal frame and one query, both traced, one slot with two settings, *)
(* a queue of one or two messages, one retry.                              *)
EXTENDS VanTransport

CONSTANTS n1, q1, s1, on, off

MCNormals == {n1}
MCQueries == {q1}
MCTraced == {n1, q1}
MCConfigSlots == {s1}
MCSettings == {on, off}
MCInitialConfig == [s \in MCConfigSlots |-> off]
=============================================================================
