-------------------------- MODULE MCStartQueueStore --------------------------
(* One row suffices for what the store promises of each; two show that rows do *)
(* not touch one another.                                                      *)
EXTENDS StartQueueStore, TLC

CONSTANTS t1, t2

MCTasks == {t1, t2}
Symmetry == Permutations(MCTasks)
==============================================================================
