-------------------------- MODULE MCWorkerRuntime --------------------------
(* Instances of WorkerRuntime for TLC.                                     *)
EXTENDS WorkerRuntime, TLC

Symmetry == Permutations(Shard) \cup Permutations(Call \ {Main})
=============================================================================
