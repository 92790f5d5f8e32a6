---------------------------- MODULE MCServerBackups ----------------------------
(* ServerBackups for TLC: the commands of two threads are interchangeable. *)
EXTENDS ServerBackups, TLC

Symmetry == Permutations(Threads)
================================================================================
