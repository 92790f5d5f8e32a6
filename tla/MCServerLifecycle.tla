--------------------------- MODULE MCServerLifecycle ---------------------------
(* ServerLifecycle for TLC: which thread runs a command makes no difference. *)
EXTENDS ServerLifecycle, TLC

Symmetry == Permutations(Threads)
================================================================================
