---------------------------- MODULE MCStaticConfig ----------------------------
(* Instances of StaticConfig for TLC. *)
EXTENDS StaticConfig, TLC

Symmetry == Permutations(Isolates) \cup Permutations(Requests) \cup Permutations(Loads)
=============================================================================
