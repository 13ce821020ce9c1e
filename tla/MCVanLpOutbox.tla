--------------------------- MODULE MCVanLpOutbox ----------------------------
(* Two tasks, two normal frames and a query, three fields, and up to two   *)
(* attempts per frame.                                                     *)
EXTENDS VanLpOutbox

CONSTANTS t1, t2, n1, n2, q1

MCTasks == {t1, t2}
MCNormals == {n1, n2}
MCQueries == {q1}
=============================================================================
