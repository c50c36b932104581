-------------------------- MODULE MCDashboardCache --------------------------
(* Instances of DashboardCache for TLC. *)
EXTENDS DashboardCache, TLC

Symmetry == Permutations(Readers) \cup Permutations(Parts)
=============================================================================
