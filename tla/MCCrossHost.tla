---------------------------- MODULE MCCrossHost ----------------------------
(* Instances of CrossHost for TLC.                                         *)
EXTENDS CrossHost, TLC

Symmetry == Permutations(Machine) \cup Permutations(Shard) \cup Permutations(Task)
=============================================================================
