-------------------------- MODULE MCDebugIterators --------------------------
(* DebugIterators for TLC: threads, containers, iterators and nodes are     *)
(* interchangeable, and no property of these runs is a liveness property.   *)
EXTENDS DebugIterators, TLC

Symmetry == Permutations(Threads) \union Permutations(Containers)
              \union Permutations(Iterators) \union Permutations(Nodes)
=============================================================================
