-------------------------- MODULE MCMultiLevelCache --------------------------
(* Instances of MultiLevelCache for TLC. *)
EXTENDS MultiLevelCache, TLC

Symmetry == Permutations(Requests) \cup Permutations(Isolates)
=============================================================================
