------------------------- MODULE MCVanLpConfigBanks -------------------------
(* Two tasks, two slots, two settings; banks of two words; generations     *)
(* that wrap after four publications.                                      *)
EXTENDS VanLpConfigBanks

CONSTANTS t1, t2, s1, s2, on, off

MCTasks == {t1, t2}
MCSlots == {s1, s2}
MCSettings == {on, off}
MCInitialConfig == [s \in MCSlots |-> off]
=============================================================================
